-------------------------- MODULE SimulationProofs --------------------------
(***************************************************************************)
(* Proofs about Simulation for any number of servers, clients and ticks,   *)
(* any table of service times and any boost: the types, that no arrival is *)
(* missed, that no client_t is in two places and, while no push fails,     *)
(* none is lost, that every client goes from outside through the queue of  *)
(* one server, where it is called in turn, to being served and out, as     *)
(* ServiceDesk promises, and that wherever it ends, what is then freed had *)
(* not been freed before and what is left is what a failed push had lost.  *)
(***************************************************************************)
EXTENDS Teardown, SequenceTheorems, FiniteSetTheorems, WellFoundedInduction, TLAPS

USE ServersAssumption, TimeAssumption, ClientsAssumption, MachineAssumption

(***************************************************************************)
(* The clients that have left system_clients are the first ones, and only  *)
(* they are found in the queues and at the servers.                        *)
(***************************************************************************)
Admitted == 1 .. NumClients - Len(system_clients)

OnlyAdmitted ==
  /\ client_queue \in [Standard -> Seq(Admitted)]
  /\ disable_client_queue \in [Robotic -> Seq(Admitted)]
  /\ normal_client_queue \in [Robotic -> Seq(Admitted)]
  /\ current_client \in [Server -> Admitted \cup {NoClient}]
  /\ finished_clients_queue \in [Server -> Seq(Admitted)]

ClockInv ==
  /\ pc = "begin" => clock = 0
  /\ pc \in {"admit", "serve", "update"} => clock < SimulationTime

\* The first tick at which a client still to come may be admitted.
NextAdmission == IF pc \in {"serve", "update"} THEN clock + 1 ELSE clock

ComeInOrder ==
  /\ Len(system_clients) <= NumClients
  /\ \A k \in 1 .. Len(system_clients) :
       system_clients[k] = NumClients - Len(system_clients) + k
  /\ \A c, d \in Client : c < d => drawn[c].arrival_time < drawn[d].arrival_time
  /\ \A c \in Client \ Admitted :
       /\ service_stat[c].arrival_time = drawn[c].arrival_time
       /\ drawn[c].arrival_time >= NextAdmission

\* The inductive invariant.
Inv == TypeOK /\ ClockInv /\ OnlyAdmitted /\ ComeInOrder

-----------------------------------------------------------------------------
(***************************************************************************)
(* What the helpers return                                                 *)
(***************************************************************************)
\* A value that wraps is an int.
LEMMA ToIntIsInt == ASSUME NEW n \in Int PROVE ToInt(n) \in Int
  BY DEF ToInt

\* The int division of ints is an int.
LEMMA QuotientIsInt ==
  ASSUME NEW a \in Int, NEW b \in Nat \ {0} PROVE Quotient(a, b) \in Int
  BY DEF Quotient

\* A boosted service time is an int, 0 and the smallest one among them.
LEMMA BoostedIsInt == ASSUME NEW t \in Nat PROVE Boosted(t) \in Int
<1>1. t * BoostDen \in Nat /\ BoostNum \in Nat \ {0} /\ IntMax \in Nat
  BY BoostAssumption, MachineAssumption
<1> QED BY <1>1 DEF Boosted

\* get_service_time returns an int for every client.
LEMMA ServiceTimeIsInt ==
  ASSUME drawn \in [Client -> Draw], NEW s, NEW c \in Client
  PROVE  GetServiceTime(s, c) \in Int
<1>1. /\ drawn[c].disability_type \in DisabilityType
      /\ drawn[c].destination \in Destination
  BY DEF Draw
<1> DEFINE t == ServiceTime[drawn[c].disability_type, drawn[c].destination]
<1>2. t \in 1 .. IntMax
  BY <1>1, TableAssumption
<1>3. GetServiceTime(s, c) = IF s \in Robotic THEN Boosted(t) ELSE t
  BY DEF GetServiceTime
<1> HIDE DEF t
<1> QED BY <1>2, <1>3, BoostedIsInt

\* Clients arrive at a natural number of ticks.
LEMMA ArrivalIsNat ==
  ASSUME drawn \in [Client -> Draw], NEW c \in Client
  PROVE  drawn[c].arrival_time \in Nat
<1>1. drawn[c].arrival_time \in ArrivalTimes
  BY DEF Draw
<1>2. \A t \in 1 .. SimulationTime - 1 : t \in Nat
  OBVIOUS
<1> QED BY <1>1, <1>2

\* A push yields the queue with the client at its end or the queue itself.
LEMMA PushedIsSeq ==
  ASSUME NEW S, NEW q \in Seq(S), NEW c \in S, NEW r \in Pushed(q, c)
  PROVE  r \in Seq(S)
  BY AppendProperties DEF Pushed

\* What a pop leaves of a nonempty sequence.
LEMMA TailIsSeq ==
  ASSUME NEW S, NEW q \in Seq(S), q # <<>>
  PROVE  Tail(q) \in Seq(S) /\ Head(q) \in S /\ Len(Tail(q)) = Len(q) - 1
         /\ \A k \in 1 .. Len(Tail(q)) : Tail(q)[k] = q[k + 1]
  BY HeadTailProperties

\* The queues that clients_init leaves satisfy the invariant.
LEMMA InitInv == Init => Inv
<1> SUFFICES ASSUME Init PROVE Inv
  OBVIOUS
<1>1. PICK arrival \in [Client -> ArrivalTimes] :
        /\ \A c, d \in Client : c < d => arrival[c] < arrival[d]
        /\ \E kind \in [Client -> DisabilityType \X Destination] :
             drawn = [c \in Client |-> [arrival_time    |-> arrival[c],
                                        disability_type |-> kind[c][1],
                                        destination     |-> kind[c][2]]]
  BY Zenon DEF Init
<1>2. PICK kind \in [Client -> DisabilityType \X Destination] :
             drawn = [c \in Client |-> [arrival_time    |-> arrival[c],
                                        disability_type |-> kind[c][1],
                                        destination     |-> kind[c][2]]]
  BY <1>1
<1>3. pc = "begin" /\ clock = 0 /\ turn = 1
  BY Zenon DEF Init
<1>4. system_clients = [c \in Client |-> c]
  BY Zenon DEF Init
<1>5. service_stat =
        [c \in Client |-> [NoService EXCEPT !.arrival_time = drawn[c].arrival_time,
                                            !.total_time = Junk]]
  BY Zenon DEF Init
<1>6. server_stat = [s \in Server |-> NoActivity]
  BY Zenon DEF Init
<1>7. /\ total_clients = Junk
      /\ client_queue = [s \in Standard |-> <<>>]
      /\ disable_client_queue = [s \in Robotic |-> <<>>]
      /\ normal_client_queue = [s \in Robotic |-> <<>>]
      /\ current_client = [s \in Server |-> NoClient]
      /\ to_serve = [s \in Server |-> Junk]
      /\ finished_clients_queue = [s \in Server |-> <<>>]
  BY Zenon DEF Init
<1>8. /\ drawn \in [Client -> Draw]
      /\ \A c \in Client : drawn[c].arrival_time = arrival[c]
      /\ \A c \in Client : arrival[c] \in 1 .. SimulationTime - 1
  BY <1>1, <1>2 DEF Draw
<1>9. system_clients \in Seq(Client) /\ Len(system_clients) = NumClients
      /\ \A k \in 1 .. NumClients : system_clients[k] = k
  BY <1>4 DEF Client
<1>10. service_stat \in [Client -> ServiceStat]
      /\ \A c \in Client : service_stat[c].arrival_time = arrival[c]
  <2>1. NoService \in ServiceStat
    BY DEF NoService, ServiceStat
  <2>2. \A c \in Client : arrival[c] \in Nat
    BY <1>8
  <2> QED BY <1>5, <1>8, <2>1, <2>2 DEF ServiceStat
<1>11. server_stat \in [Server -> ServerStat]
  BY <1>6 DEF NoActivity, ServerStat
<1>12. OnlyAdmitted
  BY <1>7, EmptySeq DEF OnlyAdmitted
<1>13. TypeOK
  <2>1. /\ client_queue \in [Standard -> Seq(Client)]
        /\ disable_client_queue \in [Robotic -> Seq(Client)]
        /\ normal_client_queue \in [Robotic -> Seq(Client)]
        /\ finished_clients_queue \in [Server -> Seq(Client)]
        /\ current_client \in [Server -> Client \cup {NoClient}]
    BY <1>7, EmptySeq
  <2>2. total_clients \in Int /\ to_serve \in [Server -> Int]
    BY <1>7
  <2>3. clock \in 0 .. SimulationTime /\ turn \in Nat
    BY <1>3
  <2> QED BY <1>3, <1>8, <1>9, <1>10, <1>11, <2>1, <2>2, <2>3, Zenon DEF TypeOK
<1>14. ComeInOrder
  <2>1. Client \ Admitted = Client
    BY <1>9 DEF Client, Admitted
  <2> QED BY <1>1, <1>3, <1>8, <1>9, <1>10, <2>1 DEF ComeInOrder, NextAdmission, Client
<1> QED BY <1>3, <1>12, <1>13, <1>14 DEF Inv, ClockInv

-----------------------------------------------------------------------------
(***************************************************************************)
(* What the shared parts of the actions do, over any set of clients A      *)
(***************************************************************************)
\* server_assign_client adds the client it is given and nobody else.
LEMMA JoinQueueSeqs ==
  ASSUME NEW A, NEW s \in Server, NEW c \in A,
         client_queue \in [Standard -> Seq(A)],
         disable_client_queue \in [Robotic -> Seq(A)],
         normal_client_queue \in [Robotic -> Seq(A)],
         JoinQueue(s, c)
  PROVE  /\ client_queue' \in [Standard -> Seq(A)]
         /\ disable_client_queue' \in [Robotic -> Seq(A)]
         /\ normal_client_queue' \in [Robotic -> Seq(A)]
<1>1. CASE /\ s \in Standard
           /\ \E q \in Pushed(client_queue[s], c) :
                client_queue' = [client_queue EXCEPT ![s] = q]
           /\ UNCHANGED <<disable_client_queue, normal_client_queue>>
  BY <1>1, PushedIsSeq
<1>2. CASE /\ s \in Robotic
           /\ \E q \in Pushed(disable_client_queue[s], c) :
                disable_client_queue' = [disable_client_queue EXCEPT ![s] = q]
           /\ UNCHANGED <<client_queue, normal_client_queue>>
  BY <1>2, PushedIsSeq
<1>3. CASE /\ s \in Robotic
           /\ \E q \in Pushed(normal_client_queue[s], c) :
                normal_client_queue' = [normal_client_queue EXCEPT ![s] = q]
           /\ UNCHANGED <<client_queue, disable_client_queue>>
  BY <1>3, PushedIsSeq
<1> QED BY <1>1, <1>2, <1>3, Zenon DEF JoinQueue

\* server_set_next_client takes the client it starts from a queue of its
\* server, and writes to the service_stat of that client only.
LEMMA SetNextClientTypes ==
  ASSUME NEW A \in SUBSET Client, NEW s \in Server,
         NEW stats \in [Client -> ServiceStat],
         drawn \in [Client -> Draw], clock \in Nat,
         client_queue \in [Standard -> Seq(A)],
         disable_client_queue \in [Robotic -> Seq(A)],
         normal_client_queue \in [Robotic -> Seq(A)],
         current_client \in [Server -> A \cup {NoClient}],
         to_serve \in [Server -> Int],
         SetNextClient(s, stats)
  PROVE  /\ client_queue' \in [Standard -> Seq(A)]
         /\ disable_client_queue' \in [Robotic -> Seq(A)]
         /\ normal_client_queue' \in [Robotic -> Seq(A)]
         /\ current_client' \in [Server -> A \cup {NoClient}]
         /\ to_serve' \in [Server -> Int]
         /\ service_stat' \in [Client -> ServiceStat]
         /\ \A c \in Client \ A : service_stat'[c] = stats[c]
<1>1. CASE /\ NextQueue(s) = <<>>
           /\ current_client' = [current_client EXCEPT ![s] = NoClient]
           /\ to_serve' = [to_serve EXCEPT ![s] = 0]
           /\ service_stat' = stats
           /\ UNCHANGED queues
  BY <1>1 DEF queues
<1>2. CASE NextQueue(s) # <<>>
  <2> DEFINE next == Head(NextQueue(s))
  <2>1. /\ current_client' = [current_client EXCEPT ![s] = next]
        /\ to_serve' = [to_serve EXCEPT ![s] = GetServiceTime(s, next)]
        /\ service_stat' = [stats EXCEPT
             ![next].start_service_time = clock,
             ![next].wait_time = clock - stats[next].arrival_time]
        /\ PopNext(s)
    BY <1>2, Zenon DEF SetNextClient
  <2>2. NextQueue(s) \in Seq(A)
    BY DEF NextQueue, CallsDisabled, Server, Standard, Robotic, NumServers
  <2>3. next \in A /\ next \in Client
    BY <1>2, <2>2, TailIsSeq
  <2>4. GetServiceTime(s, next) \in Int
    BY <2>3, ServiceTimeIsInt
  <2>5. /\ client_queue' \in [Standard -> Seq(A)]
        /\ disable_client_queue' \in [Robotic -> Seq(A)]
        /\ normal_client_queue' \in [Robotic -> Seq(A)]
    <3>1. CASE /\ s \in Standard
               /\ client_queue' = [client_queue EXCEPT ![s] = Tail(@)]
               /\ UNCHANGED <<disable_client_queue, normal_client_queue>>
      <4>1. client_queue[s] \in Seq(A) /\ client_queue[s] # <<>>
        BY <1>2, <3>1 DEF NextQueue
      <4> QED BY <3>1, <4>1, TailIsSeq
    <3>2. CASE /\ CallsDisabled(s)
               /\ disable_client_queue' = [disable_client_queue EXCEPT ![s] = Tail(@)]
               /\ UNCHANGED <<client_queue, normal_client_queue>>
      <4>1. disable_client_queue[s] \in Seq(A) /\ disable_client_queue[s] # <<>>
        BY <3>2 DEF CallsDisabled
      <4> QED BY <3>2, <4>1, TailIsSeq
    <3>3. CASE /\ s \in Robotic /\ ~CallsDisabled(s)
               /\ normal_client_queue' = [normal_client_queue EXCEPT ![s] = Tail(@)]
               /\ UNCHANGED <<client_queue, disable_client_queue>>
      <4>1. s \notin Standard
        BY <3>3 DEF Standard, Robotic
      <4>2. normal_client_queue[s] \in Seq(A) /\ normal_client_queue[s] # <<>>
        BY <1>2, <3>3, <4>1 DEF NextQueue
      <4> QED BY <3>3, <4>2, TailIsSeq
    <3> QED BY <2>1, <3>1, <3>2, <3>3, Zenon DEF PopNext
  <2>6. stats[next] \in ServiceStat /\ stats[next].arrival_time \in Nat
    BY <2>3 DEF ServiceStat
  <2>7. /\ service_stat' \in [Client -> ServiceStat]
        /\ \A c \in Client \ A : service_stat'[c] = stats[c]
    <3> DEFINE started == [stats EXCEPT ![next].start_service_time = clock]
               wait == clock - stats[next].arrival_time
    <3> HIDE DEF next
    <3>1. wait \in Int
      BY <2>6
    <3>2. started \in [Client -> ServiceStat]
          /\ \A c \in Client \ A : started[c] = stats[c]
      BY <2>3 DEF ServiceStat
    <3>3. service_stat' = [started EXCEPT ![next].wait_time = wait]
      BY <2>1
    <3> HIDE DEF started, wait
    <3> QED BY <2>3, <3>1, <3>2, <3>3 DEF ServiceStat
  <2> HIDE DEF next
  <2> QED BY <2>1, <2>3, <2>4, <2>5, <2>7
<1> QED BY <1>1, <1>2, Zenon DEF SetNextClient

\* server_update_stat: the clock goes on after the last server only.
LEMMA EndTurnTypes ==
  ASSUME NEW s \in Server, NEW stat \in ServerStat,
         pc = "update", clock \in Nat, clock < SimulationTime, turn \in Nat,
         server_stat \in [Server -> ServerStat], QueueLen(s)' \in Nat,
         EndTurn(s, stat)
  PROVE  /\ server_stat' \in [Server -> ServerStat]
         /\ turn' \in Nat
         /\ \/ pc' \in {"update", "aborted"} /\ clock' = clock
            \/ /\ clock' = clock + 1
               /\ \/ pc' = "admit" /\ clock' < SimulationTime
                  \/ pc' = "done"
         /\ UNCHANGED <<drawn, system_clients, total_clients>>
<1> DEFINE sum  == ToInt(stat.sum_queue_lens + QueueLen(s)')
           mean == Quotient(sum, clock + 1)
<1>1. sum \in Int
  BY ToIntIsInt DEF ServerStat
<1>2. mean \in Int
  BY <1>1, QuotientIsInt
<1>3. /\ server_stat' = [server_stat EXCEPT ![s] =
           [stat EXCEPT !.sum_queue_lens = sum, !.mean_server_queue_len = mean]]
      /\ IF s \in Standard /\ mean < 0
         THEN pc' = "aborted" /\ UNCHANGED <<turn, clock>>
         ELSE NextTurn(s)
      /\ UNCHANGED <<drawn, system_clients, total_clients>>
  BY Zenon DEF EndTurn
<1> HIDE DEF sum, mean
<1>4. server_stat' \in [Server -> ServerStat]
  BY <1>1, <1>2, <1>3 DEF ServerStat
<1>5. CASE s \in Standard /\ mean < 0
  BY <1>3, <1>4, <1>5
<1>6. CASE ~(s \in Standard /\ mean < 0)
  <2>1. NextTurn(s)
    BY <1>3, <1>6
  <2> QED BY <1>3, <1>4, <2>1 DEF NextTurn, AtTick, Server, NumServers
<1> QED BY <1>5, <1>6

-----------------------------------------------------------------------------
(***************************************************************************)
(* Every step keeps the invariant                                          *)
(***************************************************************************)
\* What is true of the admitted clients after a step is true of clients.
LEMMA AdmittedAreClients ==
  ASSUME OnlyAdmitted', system_clients' \in Seq(Client)
  PROVE  /\ client_queue' \in [Standard -> Seq(Client)]
         /\ disable_client_queue' \in [Robotic -> Seq(Client)]
         /\ normal_client_queue' \in [Robotic -> Seq(Client)]
         /\ current_client' \in [Server -> Client \cup {NoClient}]
         /\ finished_clients_queue' \in [Server -> Seq(Client)]
<1>1. Admitted' \subseteq Client
  BY LenProperties DEF Admitted, Client
<1>2. Seq(Admitted') \subseteq Seq(Client)
  BY <1>1
<1> QED BY <1>1, <1>2 DEF OnlyAdmitted

\* simulate starts, or aborts when there is no standard server.
LEMMA BeginKeepsInv == Inv /\ Begin => Inv'
<1> SUFFICES ASSUME Inv, Begin PROVE Inv'
  OBVIOUS
<1> USE DEF Inv
<1>1. /\ clock' = clock /\ turn' = turn /\ drawn' = drawn
      /\ system_clients' = system_clients
      /\ client_queue' = client_queue
      /\ disable_client_queue' = disable_client_queue
      /\ normal_client_queue' = normal_client_queue
      /\ current_client' = current_client /\ to_serve' = to_serve
      /\ finished_clients_queue' = finished_clients_queue
      /\ service_stat' = service_stat /\ server_stat' = server_stat
  BY DEF Begin, queues, serving
<1>2. /\ pc = "begin"
      /\ \/ pc' = "admit" /\ 0 < SimulationTime
         \/ pc' \in {"done", "aborted"}
      /\ total_clients' \in Int
  <2>1. Len(system_clients) \in Int
    BY DEF TypeOK
  <2> QED BY <2>1 DEF Begin, AtTick, TypeOK
<1>3. TypeOK'
  BY <1>1, <1>2 DEF TypeOK
<1>4. OnlyAdmitted'
  BY <1>1 DEF OnlyAdmitted, Admitted
<1>5. NextAdmission' = NextAdmission
  BY <1>1, <1>2 DEF NextAdmission
<1>6. ComeInOrder'
  BY <1>1, <1>5 DEF ComeInOrder, Admitted
<1> QED BY <1>1, <1>2, <1>3, <1>4, <1>6 DEF ClockInv

\* The head of system_clients has not come, so nobody has.
LEMMA AdmitNobodyKeepsInv == Inv /\ AdmitNobody => Inv'
<1> SUFFICES ASSUME Inv, AdmitNobody PROVE Inv'
  OBVIOUS
<1> USE DEF Inv
<1>1. /\ pc = "admit" /\ pc' = "serve"
      /\ clock' = clock /\ turn' = turn /\ drawn' = drawn
      /\ system_clients' = system_clients /\ total_clients' = total_clients
      /\ client_queue' = client_queue
      /\ disable_client_queue' = disable_client_queue
      /\ normal_client_queue' = normal_client_queue
      /\ current_client' = current_client /\ to_serve' = to_serve
      /\ finished_clients_queue' = finished_clients_queue
      /\ service_stat' = service_stat /\ server_stat' = server_stat
  BY DEF AdmitNobody, queues, serving
<1>2. TypeOK'
  BY <1>1 DEF TypeOK
<1>3. OnlyAdmitted'
  BY <1>1 DEF OnlyAdmitted, Admitted
<1>4. ASSUME NEW c \in Client \ Admitted
      PROVE  drawn[c].arrival_time >= clock + 1
  <2> DEFINE h == NumClients - Len(system_clients) + 1
  <2>1. /\ Len(system_clients) \in Nat /\ Len(system_clients) <= NumClients
        /\ c \in Int /\ h <= c /\ c <= NumClients /\ h \in Client \ Admitted
    BY LenProperties DEF TypeOK, ComeInOrder, Client, Admitted
  <2>2. system_clients # <<>> /\ Head(system_clients) = h
    BY <2>1, HeadTailProperties, EmptySeq DEF TypeOK, ComeInOrder
  <2>3. service_stat[h].arrival_time # clock
    BY <2>1, <2>2, Zenon DEF AdmitNobody, Arrives
  <2>4. drawn[h].arrival_time \in Int /\ drawn[c].arrival_time \in Int /\ clock \in Int
    BY <2>1, ArrivalIsNat DEF TypeOK
  <2>5. drawn[h].arrival_time >= clock /\ drawn[h].arrival_time # clock
    BY <1>1, <2>1, <2>3 DEF ComeInOrder, NextAdmission
  <2>6. c = h \/ drawn[h].arrival_time < drawn[c].arrival_time
    BY <2>1 DEF ComeInOrder
  <2> QED BY <2>4, <2>5, <2>6
<1>5. ComeInOrder'
  BY <1>1, <1>4 DEF ComeInOrder, Admitted, NextAdmission
<1> QED BY <1>1, <1>2, <1>3, <1>5 DEF ClockInv

\* The head of system_clients leaves it for a queue.
LEMMA AdmitKeepsInv ==
  ASSUME Inv, NEW s \in Server, NEW c \in Client, Admit(s, c)
  PROVE  Inv'
<1> USE DEF Inv
<1> DEFINE n == Len(system_clients)
<1>1. /\ pc = "admit" /\ pc' = "serve"
      /\ clock' = clock /\ turn' = turn /\ drawn' = drawn
      /\ total_clients' = total_clients
      /\ current_client' = current_client /\ to_serve' = to_serve
      /\ finished_clients_queue' = finished_clients_queue
      /\ server_stat' = server_stat
      /\ service_stat' = [service_stat EXCEPT ![c] = NoService]
      /\ system_clients' = Tail(system_clients)
      /\ system_clients # <<>> /\ c = Head(system_clients)
      /\ service_stat[c].arrival_time = clock
      /\ JoinQueue(s, c)
  BY Zenon DEF Admit, Arrives, serving
<1>2. /\ system_clients' \in Seq(Client)
      /\ Len(system_clients') = n - 1 /\ n \in Nat
      /\ \A k \in 1 .. n - 1 : system_clients'[k] = system_clients[k + 1]
      /\ c = system_clients[1] /\ 1 <= n
  BY <1>1, TailIsSeq, HeadTailProperties, LenProperties, EmptySeq DEF TypeOK
<1>3. c = NumClients - n + 1 /\ n <= NumClients
  BY <1>2 DEF ComeInOrder
<1>4. Admitted' = Admitted \cup {c} /\ c \notin Admitted
  BY <1>2, <1>3 DEF Admitted
<1>5. Seq(Admitted) \subseteq Seq(Admitted') /\ Admitted \subseteq Admitted'
  BY <1>4
<1>6. OnlyAdmitted'
  <2>1. /\ client_queue \in [Standard -> Seq(Admitted')]
        /\ disable_client_queue \in [Robotic -> Seq(Admitted')]
        /\ normal_client_queue \in [Robotic -> Seq(Admitted')]
    BY <1>5 DEF OnlyAdmitted
  <2>2. c \in Admitted'
    BY <1>4
  <2>3. /\ client_queue' \in [Standard -> Seq(Admitted')]
        /\ disable_client_queue' \in [Robotic -> Seq(Admitted')]
        /\ normal_client_queue' \in [Robotic -> Seq(Admitted')]
    <3> DEFINE A == Admitted'
    <3> HIDE DEF A
    <3> QED BY <1>1, <2>1, <2>2, JoinQueueSeqs, Zenon
  <2>4. /\ current_client' \in [Server -> Admitted' \cup {NoClient}]
        /\ finished_clients_queue' \in [Server -> Seq(Admitted')]
    BY <1>1, <1>5 DEF OnlyAdmitted
  <2> QED BY <2>3, <2>4 DEF OnlyAdmitted
<1>7. service_stat' \in [Client -> ServiceStat]
      /\ \A d \in Client \ {c} : service_stat'[d] = service_stat[d]
  <2>1. NoService \in ServiceStat
    BY DEF NoService, ServiceStat
  <2> QED BY <1>1, <2>1 DEF TypeOK
<1>8. TypeOK'
  BY <1>1, <1>2, <1>6, <1>7, AdmittedAreClients DEF TypeOK
<1>9. ASSUME NEW d \in Client \ Admitted'
      PROVE  /\ service_stat'[d].arrival_time = drawn[d].arrival_time
             /\ drawn[d].arrival_time >= clock + 1
  <2>1. d \in Client \ Admitted /\ d # c /\ c < d /\ c \in Client \ Admitted
    BY <1>2, <1>3, <1>4 DEF Client, Admitted
  <2>2. service_stat'[d].arrival_time = drawn[d].arrival_time
    BY <1>7, <2>1 DEF ComeInOrder
  <2>3. drawn[c].arrival_time \in Int /\ drawn[d].arrival_time \in Int /\ clock \in Int
    BY <2>1, ArrivalIsNat DEF TypeOK
  <2>4. drawn[c].arrival_time < drawn[d].arrival_time /\ drawn[c].arrival_time = clock
    BY <1>1, <2>1 DEF ComeInOrder
  <2> QED BY <2>2, <2>3, <2>4
<1>10. ComeInOrder'
  <2>1. \A k \in 1 .. Len(system_clients') :
          system_clients'[k] = NumClients - Len(system_clients') + k
    BY <1>2, <1>3 DEF ComeInOrder
  <2> QED BY <1>1, <1>2, <1>3, <1>9, <2>1 DEF ComeInOrder, NextAdmission
<1> QED BY <1>1, <1>6, <1>8, <1>10 DEF ClockInv

\* server_tick of every server.
LEMMA ServeKeepsInv == Inv /\ ServersUpdateServeTime => Inv'
<1> SUFFICES ASSUME Inv, ServersUpdateServeTime PROVE Inv'
  OBVIOUS
<1> USE DEF Inv
<1>1. /\ pc = "serve" /\ pc' \in {"update", "aborted"}
      /\ clock' = clock /\ turn' = turn /\ drawn' = drawn
      /\ system_clients' = system_clients /\ total_clients' = total_clients
      /\ client_queue' = client_queue
      /\ disable_client_queue' = disable_client_queue
      /\ normal_client_queue' = normal_client_queue
      /\ current_client' = current_client
      /\ finished_clients_queue' = finished_clients_queue
      /\ service_stat' = service_stat
  BY DEF ServersUpdateServeTime, queues
<1>2. to_serve' \in [Server -> Int]
  BY DEF ServersUpdateServeTime, TypeOK
<1>3. server_stat' \in [Server -> ServerStat]
  <2>1. server_stat' = [s \in Server |->
          IF current_client[s] # NoClient
          THEN [server_stat[s] EXCEPT !.active_time = @ + 1]
          ELSE [server_stat[s] EXCEPT !.idle_time = @ + 1]]
    BY Zenon DEF ServersUpdateServeTime
  <2>2. ASSUME NEW s \in Server
        PROVE  /\ [server_stat[s] EXCEPT !.active_time = @ + 1] \in ServerStat
               /\ [server_stat[s] EXCEPT !.idle_time = @ + 1] \in ServerStat
    <3>1. server_stat[s] \in ServerStat
      BY DEF TypeOK
    <3> QED BY <3>1 DEF ServerStat
  <2> QED BY <2>1, <2>2
<1>4. TypeOK'
  BY <1>1, <1>2, <1>3 DEF TypeOK
<1>5. OnlyAdmitted'
  BY <1>1 DEF OnlyAdmitted, Admitted
<1>6. ASSUME NEW c \in Client \ Admitted
      PROVE  drawn[c].arrival_time >= NextAdmission'
  <2>1. drawn[c].arrival_time \in Int /\ clock \in Int
    BY ArrivalIsNat DEF TypeOK
  <2> QED BY <1>1, <2>1 DEF ComeInOrder, NextAdmission
<1>7. ComeInOrder'
  BY <1>1, <1>6 DEF ComeInOrder, Admitted
<1> QED BY <1>1, <1>4, <1>5, <1>7 DEF ClockInv

\* The turn of a server, which is what SetNextClientTypes and EndTurnTypes
\* leave to be said.
LEMMA TurnKeepsInv ==
  ASSUME Inv, NEW s \in Server, pc = "update",
         client_queue' \in [Standard -> Seq(Admitted)],
         disable_client_queue' \in [Robotic -> Seq(Admitted)],
         normal_client_queue' \in [Robotic -> Seq(Admitted)],
         current_client' \in [Server -> Admitted \cup {NoClient}],
         to_serve' \in [Server -> Int],
         finished_clients_queue' \in [Server -> Seq(Admitted)],
         service_stat' \in [Client -> ServiceStat],
         \A c \in Client \ Admitted :
           service_stat'[c].arrival_time = service_stat[c].arrival_time,
         NEW stat \in ServerStat, EndTurn(s, stat)
  PROVE  Inv'
<1> USE DEF Inv
<1>1. QueueLen(s)' \in Nat
  <2>1. CASE s \in Standard
    BY <2>1, LenProperties DEF QueueLen
  <2>2. CASE s \notin Standard
    <3>1. s \in Robotic
      BY <2>2 DEF Server, Standard, Robotic, NumServers
    <3>2. Len(normal_client_queue'[s]) \in Nat /\ Len(disable_client_queue'[s]) \in Nat
      BY <3>1, LenProperties
    <3> QED BY <2>2, <3>2 DEF QueueLen
  <2> QED BY <2>1, <2>2
<1>2. /\ server_stat' \in [Server -> ServerStat]
      /\ turn' \in Nat
      /\ \/ pc' \in {"update", "aborted"} /\ clock' = clock
         \/ /\ clock' = clock + 1
            /\ \/ pc' = "admit" /\ clock' < SimulationTime
               \/ pc' = "done"
      /\ UNCHANGED <<drawn, system_clients, total_clients>>
  <2>1. /\ clock \in Nat /\ clock < SimulationTime /\ turn \in Nat
        /\ server_stat \in [Server -> ServerStat]
    BY DEF TypeOK, ClockInv
  <2> QED BY <1>1, <2>1, EndTurnTypes, Zenon
<1>3. clock \in Nat /\ clock < SimulationTime
  BY DEF TypeOK, ClockInv
<1>4. OnlyAdmitted'
  BY <1>2 DEF OnlyAdmitted, Admitted
<1>5. TypeOK'
  <2>1. system_clients' \in Seq(Client) /\ drawn' \in [Client -> Draw] /\ total_clients' \in Int
    BY <1>2 DEF TypeOK
  <2>2. pc' \in {"begin", "admit", "serve", "update", "done", "aborted"}
        /\ clock' \in 0 .. SimulationTime
    BY <1>2, <1>3
  <2> QED BY <1>2, <1>4, <2>1, <2>2, AdmittedAreClients, Zenon DEF TypeOK
<1>6. ASSUME NEW c \in Client \ Admitted
      PROVE  drawn[c].arrival_time >= NextAdmission'
  <2>1. drawn[c].arrival_time \in Int
    BY ArrivalIsNat DEF TypeOK
  <2> QED BY <1>2, <1>3, <2>1 DEF ComeInOrder, NextAdmission
<1>7. ComeInOrder'
  BY <1>2, <1>6 DEF ComeInOrder, Admitted
<1> QED BY <1>2, <1>3, <1>4, <1>5, <1>7 DEF ClockInv

\* What the turns start from.
LEMMA BeforeTurn ==
  ASSUME Inv, NEW s \in Server
  PROVE  /\ Admitted \in SUBSET Client
         /\ drawn \in [Client -> Draw] /\ clock \in Nat
         /\ to_serve \in [Server -> Int]
         /\ service_stat \in [Client -> ServiceStat]
         /\ server_stat[s] \in ServerStat
         /\ client_queue \in [Standard -> Seq(Admitted)]
         /\ disable_client_queue \in [Robotic -> Seq(Admitted)]
         /\ normal_client_queue \in [Robotic -> Seq(Admitted)]
         /\ current_client \in [Server -> Admitted \cup {NoClient}]
         /\ finished_clients_queue \in [Server -> Seq(Admitted)]
<1>1. Admitted \subseteq Client
  BY LenProperties DEF Inv, TypeOK, Admitted, Client
<1> QED BY <1>1 DEF Inv, TypeOK, OnlyAdmitted

\* A client that is served and the one that is called next were both admitted.
LEMMA FinishKeepsInv ==
  ASSUME Inv, NEW s \in Server, Finish(s)
  PROVE  Inv'
<1> DEFINE c == current_client[s]
           finished == finished_clients_queue[s]
           stats == [service_stat EXCEPT ![c].finish_time = clock,
                       ![c].total_time = clock - service_stat[c].arrival_time]
           stat == [server_stat[s] EXCEPT !.client_served = @ + 1]
<1>1. /\ pc = "update" /\ c # NoClient
      /\ \E q \in Pushed(finished, c) :
           finished_clients_queue' = [finished_clients_queue EXCEPT ![s] = q]
      /\ SetNextClient(s, stats)
      /\ EndTurn(s, stat)
  BY Zenon DEF Finish, IsTurnOf, ServiceFinished
<1>2. c \in Admitted /\ c \in Client
  BY <1>1, BeforeTurn
<1>3. finished_clients_queue' \in [Server -> Seq(Admitted)]
  BY <1>1, <1>2, BeforeTurn, PushedIsSeq
<1>4. /\ stats \in [Client -> ServiceStat]
      /\ \A d \in Client \ Admitted : stats[d] = service_stat[d]
  <2> DEFINE ended == [service_stat EXCEPT ![c].finish_time = clock]
             total == clock - service_stat[c].arrival_time
  <2>1. total \in Int
    BY <1>2, BeforeTurn DEF ServiceStat
  <2>2. ended \in [Client -> ServiceStat]
        /\ \A d \in Client \ Admitted : ended[d] = service_stat[d]
    <3> HIDE DEF c
    <3> QED BY <1>2, BeforeTurn DEF ServiceStat
  <2>3. stats = [ended EXCEPT ![c].total_time = total]
    OBVIOUS
  <2> HIDE DEF c, stats, ended, total
  <2> QED BY <1>2, <2>1, <2>2, <2>3 DEF ServiceStat
<1>5. stat \in ServerStat
  <2>1. server_stat[s] \in ServerStat
    BY BeforeTurn
  <2> QED BY <2>1 DEF ServerStat
<1> HIDE DEF c, finished, stats, stat
<1>6. /\ client_queue' \in [Standard -> Seq(Admitted)]
      /\ disable_client_queue' \in [Robotic -> Seq(Admitted)]
      /\ normal_client_queue' \in [Robotic -> Seq(Admitted)]
      /\ current_client' \in [Server -> Admitted \cup {NoClient}]
      /\ to_serve' \in [Server -> Int]
      /\ service_stat' \in [Client -> ServiceStat]
      /\ \A d \in Client \ Admitted : service_stat'[d] = stats[d]
  <2>1. SetNextClient(s, stats) /\ stats \in [Client -> ServiceStat]
    BY <1>1, <1>4
  <2> QED BY <2>1, BeforeTurn, SetNextClientTypes, Zenon
<1>7. \A d \in Client \ Admitted :
        service_stat'[d].arrival_time = service_stat[d].arrival_time
  BY <1>4, <1>6
<1> QED BY <1>1, <1>3, <1>5, <1>6, <1>7, TurnKeepsInv, Zenon

\* A failed service only starts again.
LEMMA RetryKeepsInv ==
  ASSUME Inv, NEW s \in Server, Retry(s)
  PROVE  Inv'
<1> DEFINE c == current_client[s]
           stat == [server_stat[s] EXCEPT !.failure_count = @ + 1]
<1>1. /\ pc = "update" /\ c # NoClient
      /\ service_stat' = [service_stat EXCEPT ![c].failure_count = @ + 1]
      /\ to_serve' = [to_serve EXCEPT ![s] = GetServiceTime(s, c)]
      /\ client_queue' = client_queue
      /\ disable_client_queue' = disable_client_queue
      /\ normal_client_queue' = normal_client_queue
      /\ current_client' = current_client
      /\ finished_clients_queue' = finished_clients_queue
      /\ EndTurn(s, stat)
  BY Zenon DEF Retry, IsTurnOf, ServiceFinished, queues
<1>2. c \in Admitted /\ c \in Client
  BY <1>1, BeforeTurn
<1>3. stat \in ServerStat
  <2>1. server_stat[s] \in ServerStat
    BY BeforeTurn
  <2> QED BY <2>1 DEF ServerStat
<1> HIDE DEF c, stat
<1>4. to_serve' \in [Server -> Int]
  BY <1>1, <1>2, BeforeTurn, ServiceTimeIsInt
<1>5. /\ service_stat' \in [Client -> ServiceStat]
      /\ \A d \in Client \ Admitted :
           service_stat'[d].arrival_time = service_stat[d].arrival_time
  <2>1. service_stat \in [Client -> ServiceStat]
    BY BeforeTurn
  <2> QED BY <1>1, <1>2, <2>1 DEF ServiceStat
<1> QED BY <1>1, <1>3, <1>4, <1>5, BeforeTurn, TurnKeepsInv

\* The turn of a server in the middle of a service.
LEMMA ContinueKeepsInv ==
  ASSUME Inv, NEW s \in Server, Continue(s)
  PROVE  Inv'
<1>1. /\ pc = "update"
      /\ client_queue' = client_queue
      /\ disable_client_queue' = disable_client_queue
      /\ normal_client_queue' = normal_client_queue
      /\ current_client' = current_client /\ to_serve' = to_serve
      /\ finished_clients_queue' = finished_clients_queue
      /\ service_stat' = service_stat
      /\ EndTurn(s, server_stat[s])
  BY Zenon DEF Continue, IsTurnOf, queues, serving
<1> QED BY <1>1, BeforeTurn, TurnKeepsInv

\* An inactive server calls a client that was admitted.
LEMMA StartNextKeepsInv ==
  ASSUME Inv, NEW s \in Server, StartNext(s)
  PROVE  Inv'
<1>1. /\ pc = "update"
      /\ SetNextClient(s, service_stat)
      /\ finished_clients_queue' = finished_clients_queue
      /\ EndTurn(s, server_stat[s])
  BY Zenon DEF StartNext, IsTurnOf
<1>2. /\ client_queue' \in [Standard -> Seq(Admitted)]
      /\ disable_client_queue' \in [Robotic -> Seq(Admitted)]
      /\ normal_client_queue' \in [Robotic -> Seq(Admitted)]
      /\ current_client' \in [Server -> Admitted \cup {NoClient}]
      /\ to_serve' \in [Server -> Int]
      /\ service_stat' \in [Client -> ServiceStat]
      /\ \A d \in Client \ Admitted : service_stat'[d] = service_stat[d]
  BY <1>1, BeforeTurn, SetNextClientTypes, Zenon
<1> QED BY <1>1, <1>2, BeforeTurn, TurnKeepsInv

\* A failing assertion ends the run where it is.
LEMMA StartAbortsKeepsInv ==
  ASSUME Inv, NEW s \in Server, StartAborts(s)
  PROVE  Inv'
<1> USE DEF Inv
<1>1. /\ pc = "update" /\ pc' = "aborted"
      /\ clock' = clock /\ turn' = turn /\ drawn' = drawn
      /\ system_clients' = system_clients /\ total_clients' = total_clients
      /\ client_queue' = client_queue
      /\ disable_client_queue' = disable_client_queue
      /\ normal_client_queue' = normal_client_queue
      /\ current_client' = current_client /\ to_serve' = to_serve
      /\ finished_clients_queue' = finished_clients_queue
      /\ service_stat' = service_stat /\ server_stat' = server_stat
  BY DEF StartAborts, IsTurnOf, queues, serving
<1>2. TypeOK'
  BY <1>1 DEF TypeOK
<1>3. OnlyAdmitted'
  BY <1>1 DEF OnlyAdmitted, Admitted
<1>4. ASSUME NEW c \in Client \ Admitted
      PROVE  drawn[c].arrival_time >= NextAdmission'
  <2>1. drawn[c].arrival_time \in Int /\ clock \in Int
    BY ArrivalIsNat DEF TypeOK
  <2> QED BY <1>1, <2>1 DEF ComeInOrder, NextAdmission
<1>5. ComeInOrder'
  BY <1>1, <1>4 DEF ComeInOrder, Admitted
<1> QED BY <1>1, <1>2, <1>3, <1>5 DEF ClockInv

\* A step that changes no variable keeps the invariant.
LEMMA StutterKeepsInv == Inv /\ UNCHANGED vars => Inv'
  BY DEF vars, queues, serving, Inv, TypeOK, ClockInv, OnlyAdmitted,
         ComeInOrder, Admitted, NextAdmission

\* Every step keeps the invariant.
LEMMA NextKeepsInv == Inv /\ [Next]_vars => Inv'
<1> SUFFICES ASSUME Inv, [Next]_vars PROVE Inv'
  OBVIOUS
<1>1. CASE Begin
  BY <1>1, BeginKeepsInv
<1>2. CASE AdmitNobody
  BY <1>2, AdmitNobodyKeepsInv
<1>3. ASSUME NEW s \in Server, NEW c \in Client, Admit(s, c) PROVE Inv'
  BY <1>3, AdmitKeepsInv
<1>4. CASE ServersUpdateServeTime
  BY <1>4, ServeKeepsInv
<1>5. ASSUME NEW s \in Server, UpdateClient(s) PROVE Inv'
  BY <1>5, FinishKeepsInv, RetryKeepsInv, ContinueKeepsInv, StartNextKeepsInv,
     StartAbortsKeepsInv DEF UpdateClient
<1>6. CASE UNCHANGED vars
  BY <1>6, StutterKeepsInv
<1> QED BY <1>1, <1>2, <1>3, <1>4, <1>5, <1>6 DEF Next, Step

-----------------------------------------------------------------------------
(***************************************************************************)
(* Theorems                                                                *)
(***************************************************************************)
LEMMA Invariance == Spec => []Inv
  BY InitInv, NextKeepsInv, PTL DEF Spec

\* Every variable has its type, and the clock does not pass the end of the
\* simulation, whatever clients, servers and service times there are.
THEOREM TypeCorrect == Spec => []TypeOK
<1>1. Inv => TypeOK
  BY DEF Inv
<1> QED BY <1>1, Invariance, PTL

\* get_client misses no arrival, although it admits one client per tick and
\* tests for equality with the clock only.
THEOREM ArrivalsAdmitted == Spec => []NoArrivalMissed
<1>1. Inv => NoArrivalMissed
  <2> SUFFICES ASSUME Inv, NEW k \in 1 .. Len(system_clients)
               PROVE  /\ system_clients[k] = NumClients - Len(system_clients) + k
                      /\ drawn[system_clients[k]].arrival_time >= NextAdmission
    BY DEF NoArrivalMissed, NextAdmission
  <2>1. system_clients[k] = NumClients - Len(system_clients) + k
    BY DEF Inv, ComeInOrder
  <2>2. system_clients[k] \in Client \ Admitted
    BY <2>1, LenProperties DEF Inv, TypeOK, ComeInOrder, Client, Admitted
  <2> QED BY <2>1, <2>2 DEF Inv, ComeInOrder
<1> QED BY <1>1, Invariance, PTL

-----------------------------------------------------------------------------
(***************************************************************************)
(* How long a simulation takes                                             *)
(***************************************************************************)
\* A tick takes two steps and one per server.
TickSteps == NumServers + 2

\* The steps that are left at most.
StepsLeft ==
  CASE pc = "begin" -> SimulationTime * TickSteps + 1
    [] pc = "admit" -> (SimulationTime - clock) * TickSteps
    [] pc = "serve" -> (SimulationTime - clock) * TickSteps - 1
    [] pc = "update" -> (SimulationTime - clock) * TickSteps - 1 - turn
    [] OTHER -> 0

\* In a tick it is the turn of some server, at first of the first.
TurnIsServers ==
  /\ pc \in {"begin", "admit", "serve"} => turn = 1
  /\ pc \in {"admit", "serve", "update"} => turn \in Server

StepsInBudget == StepsLeft \in 0 .. SimulationTime * TickSteps + 1

LEMMA TicksMultiply ==
  ASSUME NEW n \in Nat, NEW t \in 0 .. n
  PROVE  /\ n * TickSteps \in Nat /\ t * TickSteps \in Nat
         /\ t * TickSteps <= n * TickSteps
         /\ t > 0 => (t - 1) * TickSteps = t * TickSteps - TickSteps
         /\ t > 0 => t * TickSteps >= TickSteps
<1> DEFINE k == TickSteps
<1>1. k \in Nat
  BY DEF TickSteps, NumServers
<1> HIDE DEF k
<1>2. n * k \in Nat /\ t * k \in Nat
  BY <1>1
<1>3. t * k <= n * k
  <2>1. (n - t) * k = n * k - t * k /\ (n - t) * k \in Nat
    BY <1>1
  <2> QED BY <1>2, <2>1
<1>4. ASSUME t > 0 PROVE (t - 1) * k = t * k - k /\ (t - 1) * k \in Nat
  BY <1>1, <1>4
<1>5. t > 0 => t * k >= k
  BY <1>1, <1>2, <1>4
<1> QED BY <1>2, <1>3, <1>4, <1>5 DEF k

LEMMA BudgetHolds == Inv /\ TurnIsServers => StepsInBudget
<1> SUFFICES ASSUME Inv, TurnIsServers PROVE StepsInBudget
  OBVIOUS
<1>1. /\ pc \in {"begin", "admit", "serve", "update", "done", "aborted"}
      /\ clock \in 0 .. SimulationTime /\ SimulationTime \in Nat
      /\ pc \in {"admit", "serve", "update"} => clock < SimulationTime
  BY DEF Inv, TypeOK, ClockInv
<1> DEFINE all == SimulationTime * TickSteps
           rest == (SimulationTime - clock) * TickSteps
<1>2. /\ all \in Nat /\ rest \in Nat /\ rest <= all
      /\ clock < SimulationTime => rest >= TickSteps
  BY <1>1, TicksMultiply
<1>3. /\ pc = "begin" => StepsLeft = all + 1
      /\ pc = "admit" => StepsLeft = rest
      /\ pc = "serve" => StepsLeft = rest - 1
      /\ pc = "update" => StepsLeft = rest - 1 - turn
      /\ pc \in {"done", "aborted"} => StepsLeft = 0
  BY DEF StepsLeft
<1> HIDE DEF all, rest
<1>4. StepsLeft \in 0 .. all + 1
  BY <1>1, <1>2, <1>3 DEF TurnIsServers, Server, TickSteps, NumServers
<1> QED BY <1>4 DEF StepsInBudget, all

\* The end of a turn, with what of it matters here.
LEMMA TurnEnds ==
  ASSUME NEW s \in Server, NEW stat, EndTurn(s, stat)
  PROVE  \/ pc' = "aborted" /\ UNCHANGED <<turn, clock>>
         \/ s < NumServers /\ turn' = s + 1 /\ UNCHANGED <<pc, clock>>
         \/ /\ s = NumServers /\ turn' = 1 /\ clock' = clock + 1
            /\ pc' = IF clock + 1 < SimulationTime THEN "admit" ELSE "done"
  BY DEF EndTurn, NextTurn, AtTick

LEMMA ServerUpdates ==
  ASSUME NEW s \in Server, UpdateClient(s)
  PROVE  /\ pc = "update" /\ turn = s
         /\ \/ pc' = "aborted" /\ UNCHANGED <<turn, clock>>
            \/ s < NumServers /\ turn' = s + 1 /\ UNCHANGED <<pc, clock>>
            \/ /\ s = NumServers /\ turn' = 1 /\ clock' = clock + 1
               /\ pc' = IF clock + 1 < SimulationTime THEN "admit" ELSE "done"
<1>1. pc = "update" /\ turn = s
  BY DEF UpdateClient, Finish, Retry, Continue, StartNext, StartAborts, IsTurnOf
<1>2. CASE StartAborts(s)
  BY <1>1, <1>2 DEF StartAborts
<1>3. CASE \E stat : EndTurn(s, stat)
  BY <1>1, <1>3, TurnEnds
<1>4. ~ StartAborts(s) => \E stat : EndTurn(s, stat)
  BY Zenon DEF UpdateClient, Finish, Retry, Continue, StartNext
<1> QED BY <1>2, <1>3, <1>4

\* A step keeps the turn at a server and leaves fewer steps.
LEMMA StepTakesOne ==
  ASSUME Inv, TurnIsServers, Step
  PROVE  TurnIsServers' /\ StepsLeft' < StepsLeft
<1>1. /\ clock \in 0 .. SimulationTime /\ SimulationTime \in Nat
      /\ pc = "begin" => clock = 0
      /\ pc \in {"admit", "serve", "update"} => clock < SimulationTime
  BY DEF Inv, TypeOK, ClockInv
<1>2. NumServers \in Nat /\ NStandard \in Nat /\ NumServers >= NStandard
  BY DEF NumServers
<1> DEFINE all == SimulationTime * TickSteps
           rest == (SimulationTime - clock) * TickSteps
<1>3. /\ all \in Nat /\ rest \in Nat
      /\ clock = 0 => rest = all
      /\ clock < SimulationTime => /\ rest >= TickSteps
                                   /\ (SimulationTime - (clock + 1)) * TickSteps = rest - TickSteps
  <2>1. SimulationTime - clock \in 0 .. SimulationTime
    BY <1>1
  <2>2. SimulationTime - (clock + 1) = (SimulationTime - clock) - 1
    BY <1>1
  <2>3. clock = 0 => SimulationTime - clock = SimulationTime
    BY <1>1
  <2> QED BY <1>1, <2>1, <2>2, <2>3, TicksMultiply
<1>4. /\ pc = "begin" => StepsLeft = all + 1
      /\ pc = "admit" => StepsLeft = rest
      /\ pc = "serve" => StepsLeft = rest - 1
      /\ pc = "update" => StepsLeft = rest - 1 - turn
  BY DEF StepsLeft
<1>5. /\ pc' \in {"done", "aborted"} => StepsLeft' = 0
      /\ clock' = clock => /\ pc' = "admit" => StepsLeft' = rest
                           /\ pc' = "serve" => StepsLeft' = rest - 1
                           /\ pc' = "update" => StepsLeft' = rest - 1 - turn'
      /\ clock' = clock + 1 /\ pc' = "admit" =>
           StepsLeft' = (SimulationTime - (clock + 1)) * TickSteps
  BY DEF StepsLeft
<1> HIDE DEF all, rest
<1>6. CASE Begin
  <2>1. /\ pc = "begin" /\ UNCHANGED <<clock, turn>>
        /\ pc' = "aborted" \/ (NStandard # 0 /\ pc' \in {"admit", "done"})
    BY <1>6 DEF Begin, AtTick
  <2> QED BY <1>1, <1>2, <1>3, <1>4, <1>5, <2>1 DEF TurnIsServers, Server
<1>7. CASE AdmitNobody \/ \E s \in Server, c \in Client : Admit(s, c)
  <2>1. pc = "admit" /\ pc' = "serve" /\ UNCHANGED <<clock, turn>>
    BY <1>7 DEF AdmitNobody, Admit
  <2> QED BY <1>3, <1>4, <1>5, <2>1 DEF TurnIsServers
<1>8. CASE ServersUpdateServeTime
  <2>1. pc = "serve" /\ pc' \in {"update", "aborted"} /\ UNCHANGED <<clock, turn>>
    BY <1>8 DEF ServersUpdateServeTime
  <2>2. turn \in Server
    BY <2>1 DEF TurnIsServers
  <2> QED BY <1>1, <1>2, <1>3, <1>4, <1>5, <2>1, <2>2 DEF TurnIsServers, Server, TickSteps
<1>9. ASSUME NEW s \in Server, UpdateClient(s)
      PROVE  TurnIsServers' /\ StepsLeft' < StepsLeft
  <2>1. /\ pc = "update" /\ turn = s /\ s \in 1 .. NumServers
        /\ \/ pc' = "aborted" /\ UNCHANGED <<turn, clock>>
           \/ s < NumServers /\ turn' = s + 1 /\ UNCHANGED <<pc, clock>>
           \/ /\ s = NumServers /\ turn' = 1 /\ clock' = clock + 1
              /\ pc' \in {"admit", "done"}
    BY <1>9, ServerUpdates DEF Server
  <2> QED BY <1>1, <1>2, <1>3, <1>4, <1>5, <2>1 DEF TurnIsServers, Server, TickSteps
<1> QED BY <1>6, <1>7, <1>8, <1>9 DEF Step

LEMMA TurnIsServersAlways == Spec => []TurnIsServers
<1>1. Init => TurnIsServers
  BY Zenon DEF Init, TurnIsServers
<1>2. Inv /\ TurnIsServers /\ [Next]_vars => TurnIsServers'
  <2>1. ASSUME UNCHANGED vars, TurnIsServers PROVE TurnIsServers'
    BY <2>1 DEF vars, TurnIsServers
  <2> QED BY <2>1, StepTakesOne DEF Next
<1> QED BY <1>1, <1>2, Invariance, PTL DEF Spec

\* A simulation of t ticks and n servers takes at most t * (n + 2) + 1 steps,
\* whatever arrives and fails: none of its steps is idle, none goes back, and
\* nothing can make it go on for ever (system.c:228-271).
THEOREM SimulationIsFinite ==
  Spec => []StepsInBudget /\ [][StepsLeft' < StepsLeft]_vars
<1>1. Inv /\ TurnIsServers /\ [Next]_vars => [StepsLeft' < StepsLeft]_vars
  BY StepTakesOne DEF Next
<1> QED BY <1>1, BudgetHolds, TurnIsServersAlways, Invariance, PTL DEF Spec

-----------------------------------------------------------------------------
(***************************************************************************)
(* Where the clients are                                                   *)
(***************************************************************************)
(***************************************************************************)
(* The queues of waiting clients are in the order of arrival, the two of a *)
(* robotic server hold clients of different kinds, and no two of a         *)
(* server's queue, current_client and finished_clients_queue, and no two   *)
(* servers, have a client in common.                                       *)
(***************************************************************************)
Increasing(q) == \A i, j \in 1 .. Len(q) : i < j => q[i] < q[j]

QueuesInOrder ==
  /\ \A s \in Standard : Increasing(client_queue[s])
  /\ \A s \in Robotic :
       /\ Increasing(disable_client_queue[s])
       /\ Increasing(normal_client_queue[s])
       /\ \A c \in ToSet(disable_client_queue[s]) : IsDisabled(c)
       /\ \A c \in ToSet(normal_client_queue[s]) : ~IsDisabled(c)

ClientsOf(s) == Queue(s) \cup Current(s) \cup Finished(s)

OnePlaceEach ==
  /\ \A s \in Server :
       /\ Queue(s) \cap Current(s) = {}
       /\ Queue(s) \cap Finished(s) = {}
       /\ Current(s) \cap Finished(s) = {}
       /\ IsInjective(finished_clients_queue[s])
  /\ \A s, r \in Server : s # r => ClientsOf(s) \cap ClientsOf(r) = {}

\* Who was admitted is at a server, unless a push failed.
AdmittedAreHeld ==
  FullSizes = {} => \A c \in Admitted : \E s \in Server : c \in ClientsOf(s)

\* The inductive invariant.
PlacesInv == Inv /\ QueuesInOrder /\ OnePlaceEach /\ AdmittedAreHeld

-----------------------------------------------------------------------------
(***************************************************************************)
(* Sequences and their elements                                            *)
(***************************************************************************)
\* The elements of a sequence and their indices.
LEMMA ElementsOfSeq ==
  ASSUME NEW S, NEW q \in Seq(S)
  PROVE  /\ ToSet(q) \subseteq S
         /\ \A x : x \in ToSet(q) <=> \E i \in 1 .. Len(q) : q[i] = x
         /\ q = <<>> <=> ToSet(q) = {}
<1>1. DOMAIN q = 1 .. Len(q) /\ \A i \in 1 .. Len(q) : q[i] \in S
  BY LenProperties, ElementOfSeq
<1>2. q = <<>> => ToSet(q) = {}
  BY EmptySeq DEF ToSet
<1>3. q # <<>> => 1 \in 1 .. Len(q)
  BY EmptySeq, LenProperties
<1> QED BY <1>1, <1>2, <1>3 DEF ToSet

\* What a push adds to a sequence, and that it keeps the order of clients
\* when the new one is the largest.
LEMMA AppendElements ==
  ASSUME NEW S, NEW q \in Seq(S), NEW c \in S
  PROVE  /\ ToSet(Append(q, c)) = ToSet(q) \cup {c}
         /\ IsInjective(q) /\ c \notin ToSet(q) => IsInjective(Append(q, c))
         /\ Increasing(q) /\ (\A d \in ToSet(q) : d < c) => Increasing(Append(q, c))
<1> DEFINE r == Append(q, c)
           n == Len(q)
<1>1. /\ r \in Seq(S) /\ Len(r) = n + 1 /\ n \in Nat
      /\ DOMAIN r = 1 .. n + 1 /\ DOMAIN q = 1 .. n
      /\ \A i \in 1 .. n : r[i] = q[i]
      /\ r[n + 1] = c
  BY AppendProperties, LenProperties
<1> HIDE DEF r, n
<1>2. ToSet(r) = ToSet(q) \cup {c}
  BY <1>1 DEF ToSet
<1>3. \A i \in 1 .. n : q[i] \in ToSet(q)
  BY <1>1 DEF ToSet
<1>4. ASSUME IsInjective(q), c \notin ToSet(q) PROVE IsInjective(r)
  <2>1. \A i, j \in 1 .. n : q[i] = q[j] => i = j
    BY <1>1, <1>4 DEF IsInjective
  <2>2. \A i \in 1 .. n + 1 : i \in 1 .. n \/ i = n + 1
    BY <1>1
  <2>3. \A i, j \in 1 .. n + 1 : r[i] = r[j] => i = j
    BY <1>1, <1>3, <1>4, <2>1, <2>2, Zenon
  <2> QED BY <1>1, <2>3 DEF IsInjective
<1>5. ASSUME Increasing(q), \A d \in ToSet(q) : d < c PROVE Increasing(r)
  <2>1. \A i, j \in 1 .. n : i < j => q[i] < q[j]
    BY <1>5 DEF Increasing, n
  <2> SUFFICES ASSUME NEW i \in 1 .. n + 1, NEW j \in 1 .. n + 1, i < j PROVE r[i] < r[j]
    BY <1>1 DEF Increasing
  <2>2. i \in 1 .. n
    BY <1>1
  <2>3. j \in 1 .. n \/ j = n + 1
    BY <1>1
  <2> QED BY <1>1, <1>3, <1>5, <2>1, <2>2, <2>3
<1> QED BY <1>2, <1>4, <1>5 DEF r

\* The same of a push that may fail.
LEMMA PushedElements ==
  ASSUME NEW S, NEW q \in Seq(S), NEW c \in S, NEW r \in Pushed(q, c)
  PROVE  /\ ToSet(r) \subseteq ToSet(q) \cup {c} /\ ToSet(q) \subseteq ToSet(r)
         /\ FullSizes = {} => c \in ToSet(r)
         /\ IsInjective(q) /\ c \notin ToSet(q) => IsInjective(r)
         /\ Increasing(q) /\ (\A d \in ToSet(q) : d < c) => Increasing(r)
<1>1. r = Append(q, c) \/ (r = q /\ FullSizes # {})
  BY DEF Pushed
<1>2. CASE r = Append(q, c)
  <2>1. /\ ToSet(Append(q, c)) = ToSet(q) \cup {c}
        /\ IsInjective(q) /\ c \notin ToSet(q) => IsInjective(Append(q, c))
        /\ Increasing(q) /\ (\A d \in ToSet(q) : d < c) => Increasing(Append(q, c))
    BY AppendElements
  <2>2. /\ ToSet(r) = ToSet(q) \cup {c}
        /\ IsInjective(q) /\ c \notin ToSet(q) => IsInjective(r)
        /\ Increasing(q) /\ (\A d \in ToSet(q) : d < c) => Increasing(r)
    BY <1>2, <2>1
  <2> QED BY <2>2, Zenon
<1>3. CASE r = q /\ FullSizes # {}
  BY <1>3, Zenon
<1> QED BY <1>1, <1>2, <1>3, Zenon

\* The head of an increasing sequence is the smallest element, and a pop
\* takes it and no other.
LEMMA TailElements ==
  ASSUME NEW S \in SUBSET Int, NEW q \in Seq(S), q # <<>>, Increasing(q)
  PROVE  /\ Head(q) \in ToSet(q)
         /\ ToSet(Tail(q)) = ToSet(q) \ {Head(q)}
         /\ \A d \in ToSet(q) \ {Head(q)} : Head(q) < d
         /\ Increasing(Tail(q))
<1> DEFINE t == Tail(q)
           n == Len(q)
<1>1. /\ t \in Seq(S) /\ Len(t) = n - 1 /\ n \in Nat /\ 1 <= n
      /\ DOMAIN t = 1 .. n - 1 /\ DOMAIN q = 1 .. n
      /\ \A i \in 1 .. n - 1 : t[i] = q[i + 1]
      /\ Head(q) = q[1]
  BY HeadTailProperties, LenProperties, EmptySeq
<1>2. \A i, j \in 1 .. n : i < j => q[i] < q[j]
  BY DEF Increasing
<1>3. \A i \in 1 .. n : q[i] \in Int
  BY ElementOfSeq
<1> HIDE DEF t, n
<1>4. \A i \in 2 .. n : q[1] < q[i] /\ i - 1 \in 1 .. n - 1 /\ t[i - 1] = q[i]
  BY <1>1, <1>2
<1>5. ToSet(q) = {q[i] : i \in 1 .. n} /\ ToSet(t) = {t[i] : i \in 1 .. n - 1}
  BY <1>1 DEF ToSet
<1>6. \A d \in ToSet(q) : d = q[1] \/ \E i \in 2 .. n : d = q[i]
  <2>1. \A i \in 1 .. n : i = 1 \/ i \in 2 .. n
    BY <1>1
  <2> QED BY <1>5, <2>1
<1>7. ToSet(t) = ToSet(q) \ {q[1]}
  <2>1. ASSUME NEW d \in ToSet(t) PROVE d \in ToSet(q) \ {q[1]}
    <3>1. PICK i \in 1 .. n - 1 : d = t[i]
      BY <1>5
    <3>2. i + 1 \in 2 .. n /\ d = q[i + 1] /\ i + 1 \in 1 .. n /\ 1 \in 1 .. n
      BY <1>1, <3>1
    <3> QED BY <1>3, <1>4, <1>5, <3>2
  <2>2. ASSUME NEW d \in ToSet(q) \ {q[1]} PROVE d \in ToSet(t)
    <3>1. PICK i \in 2 .. n : d = q[i]
      BY <1>6
    <3> QED BY <1>4, <1>5, <3>1
  <2> QED BY <2>1, <2>2
<1>8. Increasing(t)
  <2> SUFFICES ASSUME NEW i \in 1 .. n - 1, NEW j \in 1 .. n - 1, i < j
               PROVE  t[i] < t[j]
    BY <1>1 DEF Increasing
  <2>1. i + 1 \in 1 .. n /\ j + 1 \in 1 .. n /\ i + 1 < j + 1
    BY <1>1
  <2> QED BY <1>1, <1>2, <2>1
<1>9. q[1] \in ToSet(q)
  BY <1>1, <1>5
<1> QED BY <1>1, <1>4, <1>6, <1>7, <1>8, <1>9 DEF t

-----------------------------------------------------------------------------
(***************************************************************************)
(* What the shared parts of the actions do to the clients of each server   *)
(***************************************************************************)
\* A server is of one kind.
LEMMA KindsOfServer ==
  ASSUME NEW s \in Server
  PROVE  /\ s \in Standard <=> s \notin Robotic
         /\ s \in Standard \cup Robotic
  BY DEF Server, Standard, Robotic, NumServers

\* Clients are found at servers only after they were admitted.
LEMMA ClientsAreAdmitted ==
  ASSUME OnlyAdmitted, NEW s \in Server
  PROVE  /\ Queue(s) \subseteq Admitted
         /\ Current(s) \subseteq Admitted
         /\ Finished(s) \subseteq Admitted
<1>1. Queue(s) \subseteq Admitted
  <2>1. CASE s \in Standard
    <3>1. client_queue[s] \in Seq(Admitted)
      BY <2>1 DEF OnlyAdmitted
    <3> QED BY <2>1, <3>1, ElementsOfSeq DEF Queue
  <2>2. CASE s \in Robotic
    <3>1. /\ disable_client_queue[s] \in Seq(Admitted)
          /\ normal_client_queue[s] \in Seq(Admitted)
      BY <2>2 DEF OnlyAdmitted
    <3> QED BY <2>2, <3>1, ElementsOfSeq, KindsOfServer DEF Queue
  <2> QED BY <2>1, <2>2, KindsOfServer
<1>2. Current(s) \subseteq Admitted
  BY DEF OnlyAdmitted, Current
<1>3. Finished(s) \subseteq Admitted
  <2>1. finished_clients_queue[s] \in Seq(Admitted)
    BY DEF OnlyAdmitted
  <2> QED BY <2>1, ElementsOfSeq DEF Finished
<1> QED BY <1>1, <1>2, <1>3

\* The clients of a server depend on its queues, current_client and
\* finished_clients_queue only.
LEMMA SameQueue ==
  ASSUME NEW s \in Server,
         s \in Standard => client_queue'[s] = client_queue[s],
         s \in Robotic => /\ disable_client_queue'[s] = disable_client_queue[s]
                          /\ normal_client_queue'[s] = normal_client_queue[s]
  PROVE  Queue(s)' = Queue(s)
  BY KindsOfServer DEF Queue

\* server_assign_client puts the client, who comes after all others, into a
\* queue of that server and changes no other.
LEMMA JoinQueueMoves ==
  ASSUME NEW A \in SUBSET Int, NEW s \in Server, NEW c \in A,
         client_queue \in [Standard -> Seq(A)],
         disable_client_queue \in [Robotic -> Seq(A)],
         normal_client_queue \in [Robotic -> Seq(A)],
         QueuesInOrder, \A d \in Queue(s) : d < c, drawn' = drawn,
         JoinQueue(s, c)
  PROVE  /\ QueuesInOrder'
         /\ Queue(s)' \subseteq Queue(s) \cup {c} /\ Queue(s) \subseteq Queue(s)'
         /\ FullSizes = {} => c \in Queue(s)'
         /\ \A r \in Server \ {s} : Queue(r)' = Queue(r)
<1>0. \A d : IsDisabled(d)' <=> IsDisabled(d)
  BY DEF IsDisabled
<1>1. CASE /\ s \in Standard
           /\ \E q \in Pushed(client_queue[s], c) :
                client_queue' = [client_queue EXCEPT ![s] = q]
           /\ UNCHANGED <<disable_client_queue, normal_client_queue>>
  <2>1. PICK q \in Pushed(client_queue[s], c) :
          client_queue' = [client_queue EXCEPT ![s] = q]
    BY <1>1
  <2>2. /\ client_queue'[s] = q /\ \A r \in Standard \ {s} : client_queue'[r] = client_queue[r]
        /\ disable_client_queue' = disable_client_queue
        /\ normal_client_queue' = normal_client_queue
    BY <1>1, <2>1
  <2>3. Queue(s) = ToSet(client_queue[s]) /\ Queue(s)' = ToSet(q)
    BY <1>1, <2>2 DEF Queue
  <2>4. Increasing(client_queue[s]) /\ client_queue[s] \in Seq(A)
    BY <1>1 DEF QueuesInOrder
  <2>5. /\ ToSet(q) \subseteq Queue(s) \cup {c} /\ Queue(s) \subseteq ToSet(q)
        /\ FullSizes = {} => c \in ToSet(q)
        /\ Increasing(q)
    BY <2>3, <2>4, PushedElements
  <2>6. QueuesInOrder'
    BY <1>0, <2>2, <2>5, Zenon DEF QueuesInOrder
  <2>7. \A r \in Server \ {s} : Queue(r)' = Queue(r)
    BY <2>2, SameQueue
  <2> QED BY <2>3, <2>5, <2>6, <2>7
<1>2. CASE /\ s \in Robotic /\ IsDisabled(c)
           /\ \E q \in Pushed(disable_client_queue[s], c) :
                disable_client_queue' = [disable_client_queue EXCEPT ![s] = q]
           /\ UNCHANGED <<client_queue, normal_client_queue>>
  <2>1. PICK q \in Pushed(disable_client_queue[s], c) :
          disable_client_queue' = [disable_client_queue EXCEPT ![s] = q]
    BY <1>2
  <2>2. /\ disable_client_queue'[s] = q
        /\ \A r \in Robotic \ {s} : disable_client_queue'[r] = disable_client_queue[r]
        /\ client_queue' = client_queue
        /\ normal_client_queue' = normal_client_queue
    BY <1>2, <2>1
  <2>3. /\ Queue(s) = ToSet(disable_client_queue[s]) \cup ToSet(normal_client_queue[s])
        /\ Queue(s)' = ToSet(q) \cup ToSet(normal_client_queue[s])
    BY <1>2, <2>2, KindsOfServer DEF Queue
  <2>4. Increasing(disable_client_queue[s]) /\ disable_client_queue[s] \in Seq(A)
    BY <1>2 DEF QueuesInOrder
  <2>5. /\ ToSet(q) \subseteq ToSet(disable_client_queue[s]) \cup {c}
        /\ ToSet(disable_client_queue[s]) \subseteq ToSet(q)
        /\ FullSizes = {} => c \in ToSet(q)
        /\ Increasing(q)
    BY <2>3, <2>4, PushedElements
  <2>6. \A d \in ToSet(q) : IsDisabled(d)
    BY <1>2, <2>5 DEF QueuesInOrder
  <2>7. QueuesInOrder'
    BY <1>0, <2>2, <2>5, <2>6, Zenon DEF QueuesInOrder
  <2>8. \A r \in Server \ {s} : Queue(r)' = Queue(r)
    BY <2>2, SameQueue
  <2> QED BY <2>3, <2>5, <2>7, <2>8
<1>3. CASE /\ s \in Robotic /\ ~IsDisabled(c)
           /\ \E q \in Pushed(normal_client_queue[s], c) :
                normal_client_queue' = [normal_client_queue EXCEPT ![s] = q]
           /\ UNCHANGED <<client_queue, disable_client_queue>>
  <2>1. PICK q \in Pushed(normal_client_queue[s], c) :
          normal_client_queue' = [normal_client_queue EXCEPT ![s] = q]
    BY <1>3
  <2>2. /\ normal_client_queue'[s] = q
        /\ \A r \in Robotic \ {s} : normal_client_queue'[r] = normal_client_queue[r]
        /\ client_queue' = client_queue
        /\ disable_client_queue' = disable_client_queue
    BY <1>3, <2>1
  <2>3. /\ Queue(s) = ToSet(disable_client_queue[s]) \cup ToSet(normal_client_queue[s])
        /\ Queue(s)' = ToSet(disable_client_queue[s]) \cup ToSet(q)
    BY <1>3, <2>2, KindsOfServer DEF Queue
  <2>4. Increasing(normal_client_queue[s]) /\ normal_client_queue[s] \in Seq(A)
    BY <1>3 DEF QueuesInOrder
  <2>5. /\ ToSet(q) \subseteq ToSet(normal_client_queue[s]) \cup {c}
        /\ ToSet(normal_client_queue[s]) \subseteq ToSet(q)
        /\ FullSizes = {} => c \in ToSet(q)
        /\ Increasing(q)
    BY <2>3, <2>4, PushedElements
  <2>6. \A d \in ToSet(q) : ~IsDisabled(d)
    BY <1>3, <2>5 DEF QueuesInOrder
  <2>7. QueuesInOrder'
    BY <1>0, <2>2, <2>5, <2>6, Zenon DEF QueuesInOrder
  <2>8. \A r \in Server \ {s} : Queue(r)' = Queue(r)
    BY <2>2, SameQueue
  <2> QED BY <2>3, <2>5, <2>7, <2>8
<1> QED BY <1>1, <1>2, <1>3, Zenon DEF JoinQueue

\* The client c that server s calls first: the longest waiting, but a robotic
\* server calls the disabled before the others.
First(s, c) ==
  /\ c \in Queue(s)
  /\ \A d \in Queue(s) \ {c} :
       IF s \in Robotic /\ IsDisabled(c) # IsDisabled(d) THEN IsDisabled(c) ELSE c < d

\* A pop takes the client called first out of the queue of its server and
\* changes no other.
LEMMA PopNextMoves ==
  ASSUME NEW A \in SUBSET Int, NEW s \in Server,
         client_queue \in [Standard -> Seq(A)],
         disable_client_queue \in [Robotic -> Seq(A)],
         normal_client_queue \in [Robotic -> Seq(A)],
         QueuesInOrder, drawn' = drawn,
         NextQueue(s) # <<>>, PopNext(s)
  PROVE  /\ QueuesInOrder'
         /\ First(s, Head(NextQueue(s)))
         /\ Queue(s)' = Queue(s) \ {Head(NextQueue(s))}
         /\ \A r \in Server \ {s} : Queue(r)' = Queue(r)
<1>0. \A d : IsDisabled(d)' <=> IsDisabled(d)
  BY DEF IsDisabled
<1>1. CASE /\ s \in Standard
           /\ client_queue' = [client_queue EXCEPT ![s] = Tail(@)]
           /\ UNCHANGED <<disable_client_queue, normal_client_queue>>
  <2> DEFINE q == client_queue[s]
  <2>1. NextQueue(s) = q /\ Queue(s) = ToSet(q) /\ s \notin Robotic
    BY <1>1, KindsOfServer DEF NextQueue, Queue
  <2>2. q \in Seq(A) /\ q # <<>> /\ Increasing(q)
    BY <1>1, <2>1 DEF QueuesInOrder
  <2>3. /\ client_queue'[s] = Tail(q)
        /\ \A r \in Standard \ {s} : client_queue'[r] = client_queue[r]
        /\ disable_client_queue' = disable_client_queue
        /\ normal_client_queue' = normal_client_queue
    BY <1>1
  <2>4. Queue(s)' = ToSet(Tail(q))
    BY <1>1, <2>3 DEF Queue
  <2> HIDE DEF q
  <2>5. /\ Head(q) \in ToSet(q)
        /\ ToSet(Tail(q)) = ToSet(q) \ {Head(q)}
        /\ \A d \in ToSet(q) \ {Head(q)} : Head(q) < d
        /\ Increasing(Tail(q))
    BY <2>2, TailElements
  <2>6. QueuesInOrder'
    BY <1>0, <2>3, <2>5, Zenon DEF QueuesInOrder
  <2>7. \A r \in Server \ {s} : Queue(r)' = Queue(r)
    BY <2>3, SameQueue
  <2>8. First(s, Head(q))
    BY <2>1, <2>5 DEF First
  <2> QED BY <2>1, <2>4, <2>5, <2>6, <2>7, <2>8, Zenon
<1>2. CASE /\ CallsDisabled(s)
           /\ disable_client_queue' = [disable_client_queue EXCEPT ![s] = Tail(@)]
           /\ UNCHANGED <<client_queue, normal_client_queue>>
  <2> DEFINE q == disable_client_queue[s]
             n == normal_client_queue[s]
  <2>1. /\ NextQueue(s) = q /\ Queue(s) = ToSet(q) \cup ToSet(n)
        /\ s \in Robotic /\ s \notin Standard
    BY <1>2, KindsOfServer DEF NextQueue, Queue, CallsDisabled
  <2>2. /\ q \in Seq(A) /\ q # <<>> /\ Increasing(q)
        /\ \A d \in ToSet(q) : IsDisabled(d)
        /\ \A d \in ToSet(n) : ~IsDisabled(d)
    BY <1>2, <2>1 DEF QueuesInOrder
  <2>3. /\ disable_client_queue'[s] = Tail(q)
        /\ \A r \in Robotic \ {s} : disable_client_queue'[r] = disable_client_queue[r]
        /\ client_queue' = client_queue
        /\ normal_client_queue' = normal_client_queue
    BY <1>2, <2>1
  <2>4. Queue(s)' = ToSet(Tail(q)) \cup ToSet(n)
    BY <2>1, <2>3 DEF Queue
  <2> HIDE DEF q, n
  <2>5. /\ Head(q) \in ToSet(q)
        /\ ToSet(Tail(q)) = ToSet(q) \ {Head(q)}
        /\ \A d \in ToSet(q) \ {Head(q)} : Head(q) < d
        /\ Increasing(Tail(q))
    BY <2>2, TailElements
  <2>6. QueuesInOrder'
    <3>1. \A d \in ToSet(Tail(q)) : IsDisabled(d)
      BY <2>2, <2>5
    <3> QED BY <1>0, <2>3, <2>5, <3>1, Zenon DEF QueuesInOrder
  <2>7. \A r \in Server \ {s} : Queue(r)' = Queue(r)
    BY <2>3, SameQueue
  <2>8. First(s, Head(q))
    <3> SUFFICES ASSUME NEW d \in Queue(s) \ {Head(q)},
                        ~(s \in Robotic /\ IsDisabled(Head(q)) # IsDisabled(d))
                 PROVE  Head(q) < d
      BY <2>1, <2>2, <2>5, Zenon DEF First
    <3>1. d \in ToSet(q)
      BY <2>1, <2>2, <2>5, Zenon
    <3> QED BY <2>5, <3>1
  <2>9. Head(q) \notin ToSet(n)
    BY <2>2, <2>5, Zenon
  <2> QED BY <2>1, <2>4, <2>5, <2>6, <2>7, <2>8, <2>9
<1>3. CASE /\ s \in Robotic /\ ~CallsDisabled(s)
           /\ normal_client_queue' = [normal_client_queue EXCEPT ![s] = Tail(@)]
           /\ UNCHANGED <<client_queue, disable_client_queue>>
  <2> DEFINE q == normal_client_queue[s]
  <2>1. disable_client_queue[s] = <<>> /\ s \in Robotic /\ s \notin Standard
    BY <1>3, KindsOfServer DEF CallsDisabled
  <2>2. ToSet(disable_client_queue[s]) = {}
    BY <2>1, ElementsOfSeq
  <2>3. NextQueue(s) = q /\ Queue(s) = ToSet(q)
    BY <1>3, <2>1, <2>2 DEF NextQueue, Queue
  <2>4. /\ q \in Seq(A) /\ q # <<>> /\ Increasing(q)
        /\ \A d \in ToSet(q) : ~IsDisabled(d)
    BY <2>1, <2>3 DEF QueuesInOrder
  <2>5. /\ normal_client_queue'[s] = Tail(q)
        /\ \A r \in Robotic \ {s} : normal_client_queue'[r] = normal_client_queue[r]
        /\ client_queue' = client_queue
        /\ disable_client_queue' = disable_client_queue
    BY <1>3, <2>1
  <2>6. Queue(s)' = ToSet(Tail(q))
    BY <2>1, <2>2, <2>5 DEF Queue
  <2> HIDE DEF q
  <2>7. /\ Head(q) \in ToSet(q)
        /\ ToSet(Tail(q)) = ToSet(q) \ {Head(q)}
        /\ \A d \in ToSet(q) \ {Head(q)} : Head(q) < d
        /\ Increasing(Tail(q))
    BY <2>4, TailElements
  <2>8. QueuesInOrder'
    <3>1. \A d \in ToSet(Tail(q)) : ~IsDisabled(d)
      BY <2>4, <2>7
    <3> QED BY <1>0, <2>5, <2>7, <3>1, Zenon DEF QueuesInOrder
  <2>9. \A r \in Server \ {s} : Queue(r)' = Queue(r)
    BY <2>5, SameQueue
  <2>10. First(s, Head(q))
    <3>1. \A d \in Queue(s) \ {Head(q)} :
            /\ IsDisabled(Head(q)) <=> IsDisabled(d)
            /\ Head(q) < d
      BY <2>3, <2>4, <2>7, Zenon
    <3>2. \A d \in Queue(s) \ {Head(q)} :
            IF s \in Robotic /\ IsDisabled(Head(q)) # IsDisabled(d)
            THEN IsDisabled(Head(q)) ELSE Head(q) < d
      BY <3>1 DEF IsDisabled
    <3> QED BY <2>3, <2>7, <3>2, Zenon DEF First
  <2> QED BY <2>3, <2>6, <2>7, <2>8, <2>9, <2>10, Zenon
<1> QED BY <1>1, <1>2, <1>3, Zenon DEF PopNext

\* server_set_next_client: nobody waits, or the client called first moves
\* from the queue to current_client and its service starts at the clock.
Rests(s, stats) ==
  /\ Queue(s) = {}
  /\ current_client'[s] = NoClient
  /\ service_stat' = stats
  /\ Queue(s)' = {}

Calls(s, c, stats) ==
  /\ First(s, c)
  /\ current_client'[s] = c
  /\ to_serve'[s] = GetServiceTime(s, c)
  /\ service_stat' = [stats EXCEPT
       ![c].start_service_time = clock,
       ![c].wait_time = clock - stats[c].arrival_time]
  /\ Queue(s)' = Queue(s) \ {c}

LEMMA SetNextClientMoves ==
  ASSUME OnlyAdmitted, QueuesInOrder, NEW s \in Server, NEW stats,
         Admitted \subseteq Int, drawn' = drawn,
         to_serve \in [Server -> Int], SetNextClient(s, stats)
  PROVE  /\ QueuesInOrder'
         /\ Rests(s, stats) \/ \E c \in Admitted : Calls(s, c, stats)
         /\ \A r \in Server \ {s} :
              /\ Queue(r)' = Queue(r)
              /\ current_client'[r] = current_client[r]
              /\ to_serve'[r] = to_serve[r]
<1>0. \A d : IsDisabled(d)' <=> IsDisabled(d)
  BY DEF IsDisabled
<1> USE DEF OnlyAdmitted
<1>1. CASE /\ NextQueue(s) = <<>>
           /\ current_client' = [current_client EXCEPT ![s] = NoClient]
           /\ to_serve' = [to_serve EXCEPT ![s] = 0]
           /\ service_stat' = stats
           /\ UNCHANGED queues
  <2>1. /\ client_queue' = client_queue
        /\ disable_client_queue' = disable_client_queue
        /\ normal_client_queue' = normal_client_queue
    BY <1>1 DEF queues
  <2>2. \A r \in Server : Queue(r)' = Queue(r)
    BY <2>1, SameQueue
  <2>3. Queue(s) = {}
    <3>1. CASE s \in Standard
      BY <1>1, <3>1, ElementsOfSeq DEF Queue, NextQueue
    <3>2. CASE s \in Robotic
      <4>1. disable_client_queue[s] = <<>> /\ normal_client_queue[s] = <<>>
        BY <1>1, <3>2, KindsOfServer DEF NextQueue, CallsDisabled
      <4> QED BY <3>2, <4>1, ElementsOfSeq, KindsOfServer DEF Queue
    <3> QED BY <3>1, <3>2, KindsOfServer
  <2>4. QueuesInOrder'
    BY <1>0, <2>1, Zenon DEF QueuesInOrder
  <2>5. Rests(s, stats)
    BY <1>1, <2>2, <2>3 DEF Rests
  <2> QED BY <1>1, <2>2, <2>4, <2>5
<1>2. CASE NextQueue(s) # <<>>
  <2> DEFINE next == Head(NextQueue(s))
  <2>1. /\ current_client' = [current_client EXCEPT ![s] = next]
        /\ to_serve' = [to_serve EXCEPT ![s] = GetServiceTime(s, next)]
        /\ service_stat' = [stats EXCEPT
             ![next].start_service_time = clock,
             ![next].wait_time = clock - stats[next].arrival_time]
        /\ PopNext(s)
    BY <1>2, Zenon DEF SetNextClient
  <2>2. /\ QueuesInOrder'
        /\ First(s, next)
        /\ Queue(s)' = Queue(s) \ {next}
        /\ \A r \in Server \ {s} : Queue(r)' = Queue(r)
    BY <1>2, <2>1, PopNextMoves
  <2> HIDE DEF next
  <2>3. next \in Admitted
    BY <2>2, ClientsAreAdmitted DEF First
  <2>4. /\ current_client'[s] = next /\ to_serve'[s] = GetServiceTime(s, next)
        /\ \A r \in Server \ {s} : /\ current_client'[r] = current_client[r]
                                   /\ to_serve'[r] = to_serve[r]
    BY <2>1
  <2>5. Calls(s, next, stats)
    BY <2>1, <2>2, <2>4, Zenon DEF Calls
  <2> QED BY <2>2, <2>3, <2>4, <2>5, Zenon
<1> QED BY <1>1, <1>2, Zenon DEF SetNextClient

-----------------------------------------------------------------------------
(***************************************************************************)
(* Every client is in one place                                            *)
(***************************************************************************)
\* A step that changes the clients of one server at most, adds none to them
\* but x, who was at no server, and keeps them apart there.
LEMMA KeepsOnePlaceEach ==
  ASSUME OnePlaceEach, NEW s \in Server, NEW x,
         \A r \in Server : x \in ClientsOf(r) => r = s,
         \A r \in Server \ {s} :
           /\ Queue(r)' = Queue(r)
           /\ current_client'[r] = current_client[r]
           /\ finished_clients_queue'[r] = finished_clients_queue[r],
         ClientsOf(s)' \subseteq ClientsOf(s) \cup {x},
         Queue(s)' \cap Current(s)' = {},
         Queue(s)' \cap Finished(s)' = {},
         Current(s)' \cap Finished(s)' = {},
         IsInjective(finished_clients_queue'[s])
  PROVE  OnePlaceEach'
<1>1. \A r \in Server \ {s} :
        /\ Current(r)' = Current(r) /\ Finished(r)' = Finished(r)
        /\ ClientsOf(r)' = ClientsOf(r)
  BY DEF Current, Finished, ClientsOf
<1>2. ASSUME NEW r \in Server
      PROVE  /\ Queue(r)' \cap Current(r)' = {}
             /\ Queue(r)' \cap Finished(r)' = {}
             /\ Current(r)' \cap Finished(r)' = {}
             /\ IsInjective(finished_clients_queue'[r])
  <2>1. CASE r = s
    BY <2>1, Zenon
  <2>2. CASE r # s
    BY <1>1, <2>2, Zenon DEF OnePlaceEach
  <2> QED BY <2>1, <2>2
<1>3. ASSUME NEW r \in Server, NEW t \in Server, r # t
      PROVE  ClientsOf(r)' \cap ClientsOf(t)' = {}
  <2>1. ClientsOf(r) \cap ClientsOf(t) = {}
    BY <1>3 DEF OnePlaceEach
  <2>2. CASE r = s
    BY <1>1, <1>3, <2>1, <2>2
  <2>3. CASE t = s
    BY <1>1, <1>3, <2>1, <2>3
  <2>4. CASE r # s /\ t # s
    BY <1>1, <2>1, <2>4
  <2> QED BY <2>2, <2>3, <2>4
<1> QED BY <1>2, <1>3, Zenon DEF OnePlaceEach

\* The facts of the invariant that the moves start from.
LEMMA BeforeMoves ==
  ASSUME Inv
  PROVE  /\ OnlyAdmitted /\ Admitted \subseteq Client /\ Client \subseteq Nat
         /\ drawn \in [Client -> Draw] /\ clock \in Nat
         /\ to_serve \in [Server -> Int]
         /\ service_stat \in [Client -> ServiceStat]
         /\ \A s \in Server : finished_clients_queue[s] \in Seq(Admitted)
         /\ NoClient \notin Admitted
<1>1. Admitted \subseteq Client
  BY LenProperties DEF Inv, TypeOK, Admitted, Client
<1>2. Client \subseteq Nat /\ NoClient \notin Client
  BY DEF Client, NoClient
<1>3. NoClient \notin Admitted
  BY <1>1, <1>2
<1>4. /\ OnlyAdmitted /\ drawn \in [Client -> Draw]
      /\ to_serve \in [Server -> Int] /\ service_stat \in [Client -> ServiceStat]
  BY Zenon DEF Inv, TypeOK
<1>5. \A s \in Server : finished_clients_queue[s] \in Seq(Admitted)
  BY <1>4 DEF OnlyAdmitted
<1>6. clock \in Nat
  BY DEF Inv, TypeOK
<1> QED BY <1>1, <1>2, <1>3, <1>4, <1>5, <1>6, Zenon

\* What a turn does to the queue and the current_client of its server.
TurnMoves(s, stats) ==
  /\ QueuesInOrder'
  /\ Rests(s, stats) \/ \E c \in Admitted : Calls(s, c, stats)
  /\ \A r \in Server \ {s} :
       /\ Queue(r)' = Queue(r)
       /\ current_client'[r] = current_client[r]
       /\ to_serve'[r] = to_serve[r]

\* server_finalize_current_client, before the next client is called.
FinishedStats(s) ==
  [service_stat EXCEPT
     ![current_client[s]].finish_time = clock,
     ![current_client[s]].total_time = clock - service_stat[current_client[s]].arrival_time]

\* A turn leaves the clients still to come alone.
LEMMA EndTurnFrame ==
  ASSUME NEW s, NEW stat, EndTurn(s, stat)
  PROVE  drawn' = drawn /\ system_clients' = system_clients /\ Admitted' = Admitted
  BY DEF EndTurn, Admitted

\* What is no longer in the queue is being served.
LEMMA TurnKeepsQueue ==
  ASSUME Inv, NEW s \in Server, NEW stats, TurnMoves(s, stats)
  PROVE  /\ Queue(s)' \cup Current(s)' = Queue(s)
         /\ Queue(s)' \cap Current(s)' = {}
<1>1. CASE Rests(s, stats)
  BY <1>1 DEF Rests, Current
<1>2. ASSUME NEW c \in Admitted, Calls(s, c, stats)
      PROVE  /\ Queue(s)' \cup Current(s)' = Queue(s)
             /\ Queue(s)' \cap Current(s)' = {}
  <2>1. Current(s)' = {c}
    BY <1>2, BeforeMoves DEF Calls, Current
  <2> QED BY <1>2, <2>1 DEF Calls, First
<1> QED BY <1>1, <1>2, Zenon DEF TurnMoves

\* Finish moves the current client to the finished ones, unless the push
\* fails, and lets the server rest or call the next.
LEMMA FinishMoves ==
  ASSUME Inv, QueuesInOrder, NEW s \in Server, Finish(s)
  PROVE  /\ TurnMoves(s, FinishedStats(s)) /\ Admitted' = Admitted /\ drawn' = drawn
         /\ current_client[s] \in Admitted /\ Current(s) = {current_client[s]}
         /\ to_serve[s] = 0
         /\ \E q \in Pushed(finished_clients_queue[s], current_client[s]) :
              finished_clients_queue' = [finished_clients_queue EXCEPT ![s] = q]
<1>1. /\ current_client[s] # NoClient /\ to_serve[s] = 0
      /\ \E q \in Pushed(finished_clients_queue[s], current_client[s]) :
           finished_clients_queue' = [finished_clients_queue EXCEPT ![s] = q]
      /\ SetNextClient(s, FinishedStats(s))
      /\ EndTurn(s, [server_stat[s] EXCEPT !.client_served = @ + 1])
  BY Zenon DEF Finish, IsTurnOf, ServiceFinished, FinishedStats
<1>2. drawn' = drawn /\ Admitted' = Admitted
  BY <1>1, EndTurnFrame, Zenon
<1>3. current_client[s] \in Admitted
  BY <1>1, BeforeMoves DEF OnlyAdmitted
<1>4. Current(s) = {current_client[s]}
  BY <1>1 DEF Current
<1>5. TurnMoves(s, FinishedStats(s))
  <2> DEFINE stats == FinishedStats(s)
  <2> HIDE DEF stats
  <2>1. SetNextClient(s, stats) /\ Admitted \subseteq Int
    BY <1>1, BeforeMoves DEF stats
  <2>2. TurnMoves(s, stats)
    BY <1>2, <2>1, BeforeMoves, SetNextClientMoves, Zenon DEF TurnMoves
  <2> QED BY <2>2 DEF stats
<1> QED BY <1>1, <1>2, <1>3, <1>4, <1>5, Zenon

\* StartNext lets an inactive server rest or call the next.
LEMMA StartNextMoves ==
  ASSUME Inv, QueuesInOrder, NEW s \in Server, StartNext(s)
  PROVE  /\ TurnMoves(s, service_stat) /\ Admitted' = Admitted /\ drawn' = drawn
         /\ current_client[s] = NoClient /\ Current(s) = {}
         /\ finished_clients_queue' = finished_clients_queue
<1>1. /\ current_client[s] = NoClient
      /\ finished_clients_queue' = finished_clients_queue
      /\ SetNextClient(s, service_stat)
      /\ EndTurn(s, server_stat[s])
  BY Zenon DEF StartNext, IsTurnOf
<1>2. drawn' = drawn /\ Admitted' = Admitted
  BY <1>1, EndTurnFrame, Zenon
<1>3. Current(s) = {}
  BY <1>1 DEF Current
<1>4. Admitted \subseteq Int
  BY BeforeMoves
<1>5. TurnMoves(s, service_stat)
  BY <1>1, <1>2, <1>4, BeforeMoves, SetNextClientMoves, Zenon DEF TurnMoves
<1> QED BY <1>1, <1>2, <1>3, <1>5, Zenon

-----------------------------------------------------------------------------
\* The steps that leave every client where it is.
LEMMA NobodyMoves ==
  ASSUME PlacesInv, Inv',
         client_queue' = client_queue,
         disable_client_queue' = disable_client_queue,
         normal_client_queue' = normal_client_queue,
         current_client' = current_client,
         finished_clients_queue' = finished_clients_queue,
         drawn' = drawn, system_clients' = system_clients
  PROVE  PlacesInv'
<1>1. \A d : IsDisabled(d)' <=> IsDisabled(d)
  BY DEF IsDisabled
<1>2. QueuesInOrder'
  BY <1>1 DEF QueuesInOrder, PlacesInv
<1>3. \A s \in Server : /\ Queue(s)' = Queue(s) /\ Current(s)' = Current(s)
                        /\ Finished(s)' = Finished(s)
                        /\ ClientsOf(s)' = ClientsOf(s)
  BY DEF Queue, Current, Finished, ClientsOf
<1>4. OnePlaceEach'
  BY <1>3, Zenon DEF OnePlaceEach, PlacesInv
<1>5. AdmittedAreHeld'
  BY <1>3 DEF AdmittedAreHeld, Admitted, PlacesInv
<1> QED BY <1>2, <1>4, <1>5, Zenon DEF PlacesInv

\* Initially nobody has come.
LEMMA InitPlaces == Init => PlacesInv
<1> SUFFICES ASSUME Init PROVE PlacesInv
  OBVIOUS
<1>1. /\ client_queue = [s \in Standard |-> <<>>]
      /\ disable_client_queue = [s \in Robotic |-> <<>>]
      /\ normal_client_queue = [s \in Robotic |-> <<>>]
      /\ current_client = [s \in Server |-> NoClient]
      /\ finished_clients_queue = [s \in Server |-> <<>>]
      /\ system_clients = [c \in Client |-> c]
  BY Zenon DEF Init
<1>2. ToSet(<<>>) = {} /\ Increasing(<<>>) /\ IsInjective(<<>>)
  BY EmptySeq DEF ToSet, Increasing, IsInjective
<1>3. QueuesInOrder
  BY <1>1, <1>2 DEF QueuesInOrder
<1>4. \A s \in Server : Queue(s) = {} /\ Current(s) = {} /\ Finished(s) = {}
  BY <1>1, <1>2, KindsOfServer DEF Queue, Current, Finished
<1>5. \A s \in Server : IsInjective(finished_clients_queue[s])
  BY <1>1, <1>2
<1>6. OnePlaceEach
  BY <1>4, <1>5 DEF OnePlaceEach, ClientsOf
<1>7. Admitted = {}
  <2>1. Len(system_clients) = NumClients
    BY <1>1 DEF Client
  <2> QED BY <2>1 DEF Admitted
<1> QED BY <1>3, <1>6, <1>7, InitInv DEF PlacesInv, AdmittedAreHeld

\* The client admitted comes after all that were.
LEMMA AdmitNext ==
  ASSUME Inv, NEW s \in Server, NEW c \in Client, Admit(s, c)
  PROVE  /\ Admitted' = Admitted \cup {c}
         /\ \A d \in Admitted : d \in Int /\ d < c
         /\ c = NumClients - Len(system_clients) + 1
<1> DEFINE n == Len(system_clients)
<1>1. system_clients' = Tail(system_clients) /\ system_clients # <<>>
      /\ c = Head(system_clients)
  BY Zenon DEF Admit, Arrives
<1>2. /\ Len(system_clients') = n - 1 /\ n \in Nat
      /\ c = system_clients[1] /\ 1 <= n
  BY <1>1, TailIsSeq, HeadTailProperties, LenProperties, EmptySeq DEF Inv, TypeOK
<1>3. c = NumClients - n + 1 /\ n <= NumClients
  BY <1>2 DEF Inv, ComeInOrder
<1> QED BY <1>2, <1>3 DEF Admitted

\* What server_assign_client adds to any queue is the client it is given.
LEMMA JoinQueueAdds ==
  ASSUME Inv, QueuesInOrder, NEW s \in Server, NEW c \in Client, Admit(s, c)
  PROVE  /\ QueuesInOrder'
         /\ Queue(s)' \subseteq Queue(s) \cup {c} /\ Queue(s) \subseteq Queue(s)'
         /\ FullSizes = {} => c \in Queue(s)'
         /\ \A r \in Server \ {s} : Queue(r)' = Queue(r)
<1>1. drawn' = drawn /\ JoinQueue(s, c)
  BY Zenon DEF Admit
<1>2. \A d \in Queue(s) : d < c
  BY AdmitNext, ClientsAreAdmitted DEF Inv
<1> DEFINE A == Client
<1>3. A \in SUBSET Int /\ c \in A
  BY DEF Client
<1>4. /\ client_queue \in [Standard -> Seq(A)]
      /\ disable_client_queue \in [Robotic -> Seq(A)]
      /\ normal_client_queue \in [Robotic -> Seq(A)]
  BY Zenon DEF Inv, TypeOK
<1> HIDE DEF A
<1> QED BY <1>1, <1>2, <1>3, <1>4, JoinQueueMoves, Zenon

\* The client admitted was at no server.
LEMMA AdmitKeepsPlaces ==
  ASSUME PlacesInv, NEW s \in Server, NEW c \in Client, Admit(s, c)
  PROVE  PlacesInv'
<1> USE DEF PlacesInv
<1>1. Inv'
  BY AdmitKeepsInv
<1>2. /\ current_client' = current_client
      /\ finished_clients_queue' = finished_clients_queue
      /\ drawn' = drawn /\ JoinQueue(s, c)
  BY Zenon DEF Admit, serving
<1>3. /\ Admitted' = Admitted \cup {c}
      /\ \A d \in Admitted : d \in Int /\ d < c
  BY AdmitNext
<1>5. /\ QueuesInOrder'
      /\ Queue(s)' \subseteq Queue(s) \cup {c} /\ Queue(s) \subseteq Queue(s)'
      /\ FullSizes = {} => c \in Queue(s)'
      /\ \A r \in Server \ {s} : Queue(r)' = Queue(r)
  BY JoinQueueAdds, Zenon
<1>6. \A r \in Server : c \notin ClientsOf(r)
  <2>1. c \notin Admitted
    BY <1>3
  <2> QED BY <2>1, ClientsAreAdmitted DEF ClientsOf, Inv
<1>7. \A r \in Server : Current(r)' = Current(r) /\ Finished(r)' = Finished(r)
  BY <1>2 DEF Current, Finished
<1>8. OnePlaceEach'
  <2>1. /\ ClientsOf(s)' \subseteq ClientsOf(s) \cup {c}
        /\ Queue(s)' \cap Current(s)' = {}
        /\ Queue(s)' \cap Finished(s)' = {}
        /\ Current(s)' \cap Finished(s)' = {}
    BY <1>5, <1>6, <1>7 DEF OnePlaceEach, ClientsOf
  <2>2. IsInjective(finished_clients_queue'[s])
    BY <1>2 DEF OnePlaceEach
  <2>3. \A r \in Server \ {s} :
           /\ Queue(r)' = Queue(r)
           /\ current_client'[r] = current_client[r]
           /\ finished_clients_queue'[r] = finished_clients_queue[r]
    BY <1>2, <1>5, Zenon
  <2> QED BY <1>6, <2>1, <2>2, <2>3, KeepsOnePlaceEach, Zenon
<1>9. AdmittedAreHeld'
  <2> SUFFICES ASSUME FullSizes = {}, NEW d \in Admitted \cup {c}
               PROVE  \E r \in Server : d \in ClientsOf(r)'
    BY <1>3 DEF AdmittedAreHeld
  <2>1. \A r \in Server : ClientsOf(r) \subseteq ClientsOf(r)'
    BY <1>5, <1>7 DEF ClientsOf
  <2>2. c \in ClientsOf(s)'
    BY <1>5 DEF ClientsOf
  <2> QED BY <2>1, <2>2 DEF AdmittedAreHeld
<1> QED BY <1>1, <1>5, <1>8, <1>9, Zenon

\* A finished client leaves current_client, the next one the queue.
LEMMA FinishKeepsPlaces ==
  ASSUME PlacesInv, NEW s \in Server, Finish(s)
  PROVE  PlacesInv'
<1> USE DEF PlacesInv
<1> DEFINE c == current_client[s]
<1>1. Inv'
  BY FinishKeepsInv
<1>2. /\ TurnMoves(s, FinishedStats(s)) /\ Admitted' = Admitted
      /\ c \in Admitted /\ Current(s) = {c}
      /\ \E q \in Pushed(finished_clients_queue[s], c) :
           finished_clients_queue' = [finished_clients_queue EXCEPT ![s] = q]
  BY FinishMoves, Zenon
<1> HIDE DEF c
<1>3. PICK q \in Pushed(finished_clients_queue[s], c) :
        finished_clients_queue' = [finished_clients_queue EXCEPT ![s] = q]
  BY <1>2
<1>4. /\ finished_clients_queue'[s] = q
      /\ \A r \in Server \ {s} : finished_clients_queue'[r] = finished_clients_queue[r]
  <2>1. finished_clients_queue \in [Server -> Seq(Admitted)]
    BY BeforeMoves DEF OnlyAdmitted
  <2> QED BY <1>3, <2>1
<1>5. c \notin Queue(s) /\ c \notin Finished(s)
  BY <1>2 DEF OnePlaceEach
<1>6. /\ ToSet(q) \subseteq Finished(s) \cup {c} /\ Finished(s) \subseteq ToSet(q)
      /\ FullSizes = {} => c \in ToSet(q)
      /\ IsInjective(q)
  <2>1. finished_clients_queue[s] \in Seq(Admitted) /\ IsInjective(finished_clients_queue[s])
    BY BeforeMoves, Zenon DEF OnePlaceEach
  <2> QED BY <1>2, <1>5, <2>1, PushedElements, Zenon DEF Finished
<1>7. Finished(s)' = ToSet(q)
  BY <1>4 DEF Finished
<1>8. /\ Queue(s)' \cup Current(s)' = Queue(s)
      /\ Queue(s)' \cap Current(s)' = {}
  BY <1>2, TurnKeepsQueue
<1>9. \A r \in Server \ {s} :
        /\ Queue(r)' = Queue(r)
        /\ current_client'[r] = current_client[r]
        /\ finished_clients_queue'[r] = finished_clients_queue[r]
  BY <1>2, <1>4, Zenon DEF TurnMoves
<1>10. /\ ClientsOf(s)' \subseteq ClientsOf(s)
       /\ FullSizes = {} => ClientsOf(s) \subseteq ClientsOf(s)'
  BY <1>2, <1>6, <1>7, <1>8 DEF ClientsOf
<1>11. OnePlaceEach'
  <2>1. /\ Queue(s)' \cap Finished(s)' = {}
        /\ Current(s)' \cap Finished(s)' = {}
    BY <1>5, <1>6, <1>7, <1>8 DEF OnePlaceEach
  <2>2. c \in ClientsOf(s) /\ \A r \in Server : c \in ClientsOf(r) => r = s
    BY <1>2 DEF OnePlaceEach, ClientsOf
  <2>3. ClientsOf(s)' \subseteq ClientsOf(s) \cup {c}
    BY <1>10
  <2> QED BY <1>4, <1>6, <1>8, <1>9, <2>1, <2>2, <2>3, KeepsOnePlaceEach, Zenon
<1>12. AdmittedAreHeld'
  <2>1. FullSizes = {} => \A r \in Server : ClientsOf(r) \subseteq ClientsOf(r)'
    BY <1>9, <1>10 DEF ClientsOf, Current, Finished
  <2> QED BY <1>2, <2>1 DEF AdmittedAreHeld
<1> QED BY <1>1, <1>2, <1>11, <1>12, Zenon DEF TurnMoves

\* The client that an inactive server calls leaves the queue.
LEMMA StartNextKeepsPlaces ==
  ASSUME PlacesInv, NEW s \in Server, StartNext(s)
  PROVE  PlacesInv'
<1> USE DEF PlacesInv
<1>1. Inv'
  BY StartNextKeepsInv
<1>2. /\ TurnMoves(s, service_stat) /\ Admitted' = Admitted
      /\ Current(s) = {} /\ finished_clients_queue' = finished_clients_queue
  BY StartNextMoves, Zenon
<1>3. /\ Queue(s)' \cup Current(s)' = Queue(s)
      /\ Queue(s)' \cap Current(s)' = {}
  BY <1>2, TurnKeepsQueue
<1>4. \A r \in Server \ {s} :
        /\ Queue(r)' = Queue(r)
        /\ current_client'[r] = current_client[r]
        /\ finished_clients_queue'[r] = finished_clients_queue[r]
  BY <1>2, Zenon DEF TurnMoves
<1>5. Finished(s)' = Finished(s)
  BY <1>2 DEF Finished
<1>6. ClientsOf(s)' = ClientsOf(s)
  BY <1>2, <1>3, <1>5 DEF ClientsOf
<1>7. OnePlaceEach'
  <2> DEFINE x == NoClient
  <2>1. \A r \in Server : x \notin ClientsOf(r)
    BY BeforeMoves, ClientsAreAdmitted DEF ClientsOf
  <2>2. ClientsOf(s)' \subseteq ClientsOf(s) \cup {x}
    BY <1>6
  <2>3. /\ Queue(s)' \cap Finished(s)' = {}
        /\ Current(s)' \cap Finished(s)' = {}
        /\ IsInjective(finished_clients_queue'[s])
    BY <1>2, <1>3, <1>5 DEF OnePlaceEach
  <2> HIDE DEF x
  <2> QED BY <1>3, <1>4, <2>1, <2>2, <2>3, KeepsOnePlaceEach, Zenon
<1>8. AdmittedAreHeld'
  <2>1. \A r \in Server : ClientsOf(r)' = ClientsOf(r)
    BY <1>4, <1>6 DEF ClientsOf, Current, Finished
  <2> QED BY <1>2, <2>1 DEF AdmittedAreHeld
<1> QED BY <1>1, <1>2, <1>7, <1>8, Zenon DEF TurnMoves

\* Every step keeps the clients apart.
LEMMA NextKeepsPlaces == PlacesInv /\ [Next]_vars => PlacesInv'
<1> SUFFICES ASSUME PlacesInv, [Next]_vars PROVE PlacesInv'
  OBVIOUS
<1>1. Inv'
  BY NextKeepsInv DEF PlacesInv
<1> DEFINE Stay == /\ client_queue' = client_queue
                   /\ disable_client_queue' = disable_client_queue
                   /\ normal_client_queue' = normal_client_queue
                   /\ current_client' = current_client
                   /\ finished_clients_queue' = finished_clients_queue
                   /\ drawn' = drawn /\ system_clients' = system_clients
<1>2. Stay => PlacesInv'
  BY <1>1, NobodyMoves, Zenon
<1>3. CASE Begin
  BY <1>2, <1>3, Zenon DEF Begin, queues, serving
<1>4. CASE AdmitNobody
  BY <1>2, <1>4, Zenon DEF AdmitNobody, queues, serving
<1>5. ASSUME NEW s \in Server, NEW c \in Client, Admit(s, c) PROVE PlacesInv'
  BY <1>5, AdmitKeepsPlaces
<1>6. CASE ServersUpdateServeTime
  BY <1>2, <1>6, Zenon DEF ServersUpdateServeTime, queues
<1>7. ASSUME NEW s \in Server, Finish(s) PROVE PlacesInv'
  BY <1>7, FinishKeepsPlaces
<1>8. ASSUME NEW s \in Server, Retry(s) PROVE PlacesInv'
  BY <1>2, <1>8, Zenon DEF Retry, EndTurn, queues
<1>9. ASSUME NEW s \in Server, Continue(s) PROVE PlacesInv'
  BY <1>2, <1>9, Zenon DEF Continue, EndTurn, queues, serving
<1>10. ASSUME NEW s \in Server, StartNext(s) PROVE PlacesInv'
  BY <1>10, StartNextKeepsPlaces
<1>11. ASSUME NEW s \in Server, StartAborts(s) PROVE PlacesInv'
  BY <1>2, <1>11, Zenon DEF StartAborts, queues, serving
<1>12. CASE UNCHANGED vars
  BY <1>2, <1>12, Zenon DEF vars, queues, serving
<1> QED BY <1>3, <1>4, <1>5, <1>6, <1>7, <1>8, <1>9, <1>10, <1>11, <1>12, Zenon
        DEF Next, Step, UpdateClient

LEMMA PlacesInvariance == Spec => []PlacesInv
  BY InitPlaces, NextKeepsPlaces, PTL DEF Spec

-----------------------------------------------------------------------------
(***************************************************************************)
(* From the clients of the servers to Places                               *)
(***************************************************************************)
\* The places of a client: in system_clients, at server s in a queue, being
\* served, or among the finished.
LEMMA PlacesAre ==
  ASSUME NEW c
  PROVE  \A p : p \in Places(c) <=>
           \/ \E k \in Positions(system_clients, c) : p = <<0, "system", k>>
           \/ \E s \in Standard : \E k \in Positions(client_queue[s], c) :
                p = <<s, "client", k>>
           \/ \E s \in Robotic : \E k \in Positions(disable_client_queue[s], c) :
                p = <<s, "disable", k>>
           \/ \E s \in Robotic : \E k \in Positions(normal_client_queue[s], c) :
                p = <<s, "normal", k>>
           \/ \E s \in Server : current_client[s] = c /\ p = <<s, "current", 1>>
           \/ \E s \in Server : \E k \in Positions(finished_clients_queue[s], c) :
                p = <<s, "finished", k>>
<1> DEFINE P1 == {<<0, "system", k>> : k \in Positions(system_clients, c)}
           P2 == UNION {{<<s, "client", k>> : k \in Positions(client_queue[s], c)} :
                          s \in Standard}
           P3 == UNION {{<<s, "disable", k>> : k \in Positions(disable_client_queue[s], c)} :
                          s \in Robotic}
           P4 == UNION {{<<s, "normal", k>> : k \in Positions(normal_client_queue[s], c)} :
                          s \in Robotic}
           P5 == {<<s, "current", 1>> : s \in {r \in Server : current_client[r] = c}}
           P6 == UNION {{<<s, "finished", k>> : k \in Positions(finished_clients_queue[s], c)} :
                          s \in Server}
<1> TAKE p
<1>1. p \in P1 <=> \E k \in Positions(system_clients, c) : p = <<0, "system", k>>
  OBVIOUS
<1>2. p \in P2 <=> \E s \in Standard : \E k \in Positions(client_queue[s], c) :
                     p = <<s, "client", k>>
  OBVIOUS
<1>3. p \in P3 <=> \E s \in Robotic : \E k \in Positions(disable_client_queue[s], c) :
                     p = <<s, "disable", k>>
  OBVIOUS
<1>4. p \in P4 <=> \E s \in Robotic : \E k \in Positions(normal_client_queue[s], c) :
                     p = <<s, "normal", k>>
  OBVIOUS
<1>5. p \in P5 <=> \E s \in Server : current_client[s] = c /\ p = <<s, "current", 1>>
  BY Zenon
<1>6. p \in P6 <=> \E s \in Server : \E k \in Positions(finished_clients_queue[s], c) :
                     p = <<s, "finished", k>>
  OBVIOUS
<1>7. p \in Places(c) <=> \/ p \in P1 \/ p \in P2 \/ p \in P3
                       \/ p \in P4 \/ p \in P5 \/ p \in P6
  BY DEF Places
<1> HIDE DEF P1, P2, P3, P4, P5, P6
<1> QED BY <1>1, <1>2, <1>3, <1>4, <1>5, <1>6, <1>7

\* A client has a position in a sequence that holds it, and only one when
\* the sequence holds none twice.
LEMMA PositionsAre ==
  ASSUME NEW S, NEW q \in Seq(S), NEW c
  PROVE  /\ c \in ToSet(q) <=> Positions(q, c) # {}
         /\ IsInjective(q) => \A i, j \in Positions(q, c) : i = j
<1>1. DOMAIN q = 1 .. Len(q)
  BY LenProperties
<1> QED BY <1>1 DEF ToSet, Positions, IsInjective

\* An increasing sequence holds no client twice.
LEMMA IncreasingIsInjective ==
  ASSUME NEW S \in SUBSET Int, NEW q \in Seq(S), Increasing(q)
  PROVE  IsInjective(q)
<1>1. DOMAIN q = 1 .. Len(q) /\ \A i \in 1 .. Len(q) : q[i] \in Int
  BY LenProperties, ElementOfSeq
<1> QED BY <1>1 DEF Increasing, IsInjective

\* Where c is when it is at server s, or still to come (s = 0).
IsAt(s, c) == IF s = 0 THEN c \notin Admitted ELSE s \in Server /\ c \in ClientsOf(s)

Kind(s, c) ==
  IF s = 0 THEN "system"
  ELSE IF c \in Current(s) THEN "current"
  ELSE IF c \in Finished(s) THEN "finished"
  ELSE IF s \in Standard THEN "client"
  ELSE IF IsDisabled(c) THEN "disable" ELSE "normal"

Line(s, c) ==
  IF s = 0 THEN system_clients
  ELSE IF c \in Current(s) THEN <<c>>
  ELSE IF c \in Finished(s) THEN finished_clients_queue[s]
  ELSE IF s \in Standard THEN client_queue[s]
  ELSE IF IsDisabled(c) THEN disable_client_queue[s] ELSE normal_client_queue[s]

\* The clients still to come are those not admitted, each of them once.
LEMMA StillToCome ==
  ASSUME Inv
  PROVE  /\ system_clients \in Seq(Client) /\ IsInjective(system_clients)
         /\ \A c \in Client : c \in ToSet(system_clients) <=> c \notin Admitted
<1> DEFINE n == Len(system_clients)
           o == NumClients - n
<1>1. /\ system_clients \in Seq(Client) /\ n \in Nat /\ n <= NumClients /\ o \in Nat
      /\ DOMAIN system_clients = 1 .. n
      /\ \A k \in 1 .. n : system_clients[k] = o + k
  BY LenProperties DEF Inv, TypeOK, ComeInOrder
<1>2. Admitted = 1 .. o /\ o + n = NumClients
  BY <1>1 DEF Admitted
<1> HIDE DEF n, o
<1>3. IsInjective(system_clients)
  BY <1>1 DEF IsInjective
<1>4. ASSUME NEW c \in Client PROVE c \in ToSet(system_clients) <=> c \notin Admitted
  <2>1. c \in ToSet(system_clients) <=> \E k \in 1 .. n : c = o + k
    BY <1>1 DEF ToSet
  <2>2. c \in Int /\ 1 <= c /\ c <= NumClients
    BY DEF Client
  <2>3. c \notin Admitted => c - o \in 1 .. n /\ c = o + (c - o)
    BY <1>1, <1>2, <2>2
  <2> QED BY <1>1, <1>2, <2>1, <2>2, <2>3
<1> QED BY <1>1, <1>3, <1>4

\* Line(s, c) holds c, once.
LEMMA LineHoldsClient ==
  ASSUME PlacesInv, NEW s, NEW c \in Client, IsAt(s, c)
  PROVE  /\ Line(s, c) \in Seq(Client) /\ IsInjective(Line(s, c))
         /\ c \in ToSet(Line(s, c))
<1> USE DEF PlacesInv
<1>1. CASE s = 0
  BY <1>1, StillToCome DEF IsAt, Line
<1>2. CASE s # 0 /\ c \in Current(s)
  <2>1. Line(s, c) = <<c>>
    BY <1>2 DEF Line
  <2> QED BY <2>1 DEF IsInjective, ToSet
<1>3. CASE s # 0 /\ c \notin Current(s) /\ c \in Finished(s)
  <2>1. s \in Server /\ Line(s, c) = finished_clients_queue[s]
    BY <1>3 DEF Line, IsAt
  <2>2. finished_clients_queue[s] \in Seq(Client) /\ IsInjective(finished_clients_queue[s])
    BY <2>1 DEF Inv, TypeOK, OnePlaceEach
  <2> QED BY <1>3, <2>1, <2>2 DEF Finished
<1>4. CASE s # 0 /\ c \notin Current(s) /\ c \notin Finished(s)
  <2>1. s \in Server /\ c \in Queue(s)
    BY <1>4 DEF IsAt, ClientsOf
  <2>2. Client \in SUBSET Int
    BY DEF Client
  <2>3. CASE s \in Standard
    <3>1. Line(s, c) = client_queue[s] /\ c \in ToSet(client_queue[s])
      BY <1>4, <2>1, <2>3 DEF Line, Queue
    <3>2. client_queue[s] \in Seq(Client) /\ Increasing(client_queue[s])
      BY <2>3 DEF Inv, TypeOK, QueuesInOrder
    <3> QED BY <2>2, <3>1, <3>2, IncreasingIsInjective
  <2>4. CASE s \in Robotic /\ IsDisabled(c)
    <3>1. s \notin Standard
      BY <2>4, KindsOfServer, <2>1
    <3>2. Line(s, c) = disable_client_queue[s]
      BY <1>4, <2>4, <3>1 DEF Line
    <3>3. c \in ToSet(disable_client_queue[s])
      BY <2>1, <2>4, <3>1, Zenon DEF Queue, QueuesInOrder
    <3>4. disable_client_queue[s] \in Seq(Client) /\ Increasing(disable_client_queue[s])
      BY <2>4 DEF Inv, TypeOK, QueuesInOrder
    <3> QED BY <2>2, <3>2, <3>3, <3>4, IncreasingIsInjective
  <2>5. CASE s \in Robotic /\ ~IsDisabled(c)
    <3>1. s \notin Standard
      BY <2>5, KindsOfServer, <2>1
    <3>2. Line(s, c) = normal_client_queue[s]
      BY <1>4, <2>5, <3>1 DEF Line
    <3>3. c \in ToSet(normal_client_queue[s])
      BY <2>1, <2>5, <3>1, Zenon DEF Queue, QueuesInOrder
    <3>4. normal_client_queue[s] \in Seq(Client) /\ Increasing(normal_client_queue[s])
      BY <2>5 DEF Inv, TypeOK, QueuesInOrder
    <3> QED BY <2>2, <3>2, <3>3, <3>4, IncreasingIsInjective
  <2> QED BY <2>1, <2>3, <2>4, <2>5, KindsOfServer
<1> QED BY <1>1, <1>2, <1>3, <1>4, Zenon

\* The places of a client are its positions in the line it is in.
LEMMA PlacesAreLines ==
  ASSUME PlacesInv, NEW c \in Client, NEW p \in Places(c)
  PROVE  \E s, k : /\ IsAt(s, c) /\ k \in Positions(Line(s, c), c)
                   /\ p = <<s, Kind(s, c), k>>
<1> USE DEF PlacesInv
<1>0. \A s \in Server : s # 0
  BY DEF Server
<1>1. ASSUME NEW k \in Positions(system_clients, c), p = <<0, "system", k>>
      PROVE  /\ IsAt(0, c) /\ k \in Positions(Line(0, c), c)
             /\ p = <<0, Kind(0, c), k>>
  <2>1. c \notin Admitted
    BY <1>1, StillToCome, PositionsAre
  <2> QED BY <1>1, <2>1 DEF IsAt, Line, Kind
<1>2. ASSUME NEW s \in Server, c \in Queue(s)
      PROVE  IsAt(s, c) /\ s # 0 /\ c \notin Current(s) /\ c \notin Finished(s)
  BY <1>0, <1>2 DEF OnePlaceEach, ClientsOf, IsAt
<1>3. ASSUME NEW s \in Standard, NEW k \in Positions(client_queue[s], c),
             p = <<s, "client", k>>
      PROVE  /\ IsAt(s, c) /\ k \in Positions(Line(s, c), c)
             /\ p = <<s, Kind(s, c), k>>
  <2>1. s \in Server /\ client_queue[s] \in Seq(Client)
    BY DEF Inv, TypeOK, Standard, Server, NumServers
  <2>2. c \in Queue(s)
    BY <2>1, PositionsAre DEF Queue
  <2> QED BY <1>2, <1>3, <2>1, <2>2 DEF Line, Kind
<1>4. ASSUME NEW s \in Robotic, NEW k \in Positions(disable_client_queue[s], c),
             p = <<s, "disable", k>>
      PROVE  /\ IsAt(s, c) /\ k \in Positions(Line(s, c), c)
             /\ p = <<s, Kind(s, c), k>>
  <2>1. s \in Server /\ disable_client_queue[s] \in Seq(Client) /\ s \notin Standard
    BY DEF Inv, TypeOK, Standard, Robotic, Server, NumServers
  <2>2. c \in ToSet(disable_client_queue[s])
    BY <2>1, PositionsAre
  <2>3. c \in Queue(s) /\ IsDisabled(c)
    BY <2>1, <2>2 DEF Queue, QueuesInOrder
  <2> QED BY <1>2, <1>4, <2>1, <2>3, Zenon DEF Line, Kind
<1>5. ASSUME NEW s \in Robotic, NEW k \in Positions(normal_client_queue[s], c),
             p = <<s, "normal", k>>
      PROVE  /\ IsAt(s, c) /\ k \in Positions(Line(s, c), c)
             /\ p = <<s, Kind(s, c), k>>
  <2>1. s \in Server /\ normal_client_queue[s] \in Seq(Client) /\ s \notin Standard
    BY DEF Inv, TypeOK, Standard, Robotic, Server, NumServers
  <2>2. c \in ToSet(normal_client_queue[s])
    BY <2>1, PositionsAre
  <2>3. c \in Queue(s) /\ ~IsDisabled(c)
    BY <2>1, <2>2 DEF Queue, QueuesInOrder
  <2> QED BY <1>2, <1>5, <2>1, <2>3, Zenon DEF Line, Kind
<1>6. ASSUME NEW s \in Server, current_client[s] = c, p = <<s, "current", 1>>
      PROVE  /\ IsAt(s, c) /\ 1 \in Positions(Line(s, c), c)
             /\ p = <<s, Kind(s, c), 1>>
  <2>1. c \in Current(s) /\ s # 0
    BY <1>0, <1>6 DEF Current, Client, NoClient
  <2>2. IsAt(s, c) /\ Line(s, c) = <<c>> /\ Kind(s, c) = "current"
    BY <2>1 DEF IsAt, ClientsOf, Line, Kind
  <2>3. 1 \in Positions(<<c>>, c)
    BY DEF Positions
  <2> QED BY <1>6, <2>2, <2>3
<1>7. ASSUME NEW s \in Server, NEW k \in Positions(finished_clients_queue[s], c),
             p = <<s, "finished", k>>
      PROVE  /\ IsAt(s, c) /\ k \in Positions(Line(s, c), c)
             /\ p = <<s, Kind(s, c), k>>
  <2>1. finished_clients_queue[s] \in Seq(Client)
    BY DEF Inv, TypeOK
  <2>2. c \in Finished(s)
    BY <2>1, PositionsAre DEF Finished
  <2>3. IsAt(s, c) /\ s # 0 /\ c \notin Current(s)
    BY <1>0, <2>2 DEF OnePlaceEach, ClientsOf, IsAt
  <2> QED BY <1>7, <2>2, <2>3, Zenon DEF Line, Kind
<1>8. \/ \E k \in Positions(system_clients, c) : p = <<0, "system", k>>
      \/ \E s \in Standard : \E k \in Positions(client_queue[s], c) :
           p = <<s, "client", k>>
      \/ \E s \in Robotic : \E k \in Positions(disable_client_queue[s], c) :
           p = <<s, "disable", k>>
      \/ \E s \in Robotic : \E k \in Positions(normal_client_queue[s], c) :
           p = <<s, "normal", k>>
      \/ \E s \in Server : current_client[s] = c /\ p = <<s, "current", 1>>
      \/ \E s \in Server : \E k \in Positions(finished_clients_queue[s], c) :
           p = <<s, "finished", k>>
  BY PlacesAre
<1> QED BY <1>1, <1>3, <1>4, <1>5, <1>6, <1>7, <1>8, ZenonT(60)

\* So no client is in two places.
LEMMA OnePlace == PlacesInv => NoClientTwice
<1> SUFFICES ASSUME PlacesInv, NEW c \in Client, NEW p \in Places(c), NEW q \in Places(c)
             PROVE  p = q
  BY DEF NoClientTwice
<1>1. PICK s, k : /\ IsAt(s, c) /\ k \in Positions(Line(s, c), c)
                  /\ p = <<s, Kind(s, c), k>>
  BY PlacesAreLines, Zenon
<1>2. PICK r, j : /\ IsAt(r, c) /\ j \in Positions(Line(r, c), c)
                  /\ q = <<r, Kind(r, c), j>>
  BY PlacesAreLines, Zenon
<1>3. s = r
  <2>1. \A t \in Server : c \in ClientsOf(t) => c \in Admitted
    BY ClientsAreAdmitted DEF ClientsOf, PlacesInv, Inv
  <2> QED BY <1>1, <1>2, <2>1 DEF IsAt, OnePlaceEach, PlacesInv
<1>4. j = k
  BY <1>1, <1>2, <1>3, LineHoldsClient, PositionsAre
<1> QED BY <1>1, <1>2, <1>3, <1>4

\* And each has one, unless a push failed.
LEMMA AllHeld ==
  ASSUME FullSizes = {}, PlacesInv
  PROVE  NoClientLost
<1> SUFFICES ASSUME NEW c \in Client PROVE Places(c) # {}
  BY DEF NoClientLost
<1>1. CASE c \notin Admitted
  <2>1. PICK k : k \in Positions(system_clients, c)
    BY <1>1, StillToCome, PositionsAre DEF PlacesInv
  <2> QED BY <2>1, PlacesAre, Zenon
<1>2. CASE c \in Admitted
  <2>1. PICK s \in Server : c \in ClientsOf(s)
    BY <1>2 DEF AdmittedAreHeld, PlacesInv
  <2>2. CASE c \in Current(s)
    <3>1. current_client[s] = c
      BY <2>2 DEF Current
    <3> QED BY <3>1, PlacesAre, ZenonT(60)
  <2>3. CASE c \in Finished(s)
    <3>1. finished_clients_queue[s] \in Seq(Client)
      BY DEF PlacesInv, Inv, TypeOK
    <3>2. PICK k : k \in Positions(finished_clients_queue[s], c)
      BY <2>3, <3>1, PositionsAre DEF Finished
    <3> QED BY <3>2, PlacesAre, ZenonT(60)
  <2>4. CASE c \in Queue(s)
    <3>1. CASE s \in Standard
      <4>1. client_queue[s] \in Seq(Client) /\ c \in ToSet(client_queue[s])
        BY <2>4, <3>1 DEF PlacesInv, Inv, TypeOK, Queue
      <4>2. PICK k : k \in Positions(client_queue[s], c)
        BY <4>1, PositionsAre
      <4> QED BY <3>1, <4>2, PlacesAre, ZenonT(60)
    <3>2. CASE s \in Robotic
      <4>1. /\ disable_client_queue[s] \in Seq(Client)
            /\ normal_client_queue[s] \in Seq(Client)
        BY <3>2 DEF PlacesInv, Inv, TypeOK
      <4>2. c \in ToSet(disable_client_queue[s]) \/ c \in ToSet(normal_client_queue[s])
        BY <2>4, <3>2, KindsOfServer DEF Queue
      <4>3. \/ \E k : k \in Positions(disable_client_queue[s], c)
            \/ \E k : k \in Positions(normal_client_queue[s], c)
        BY <4>1, <4>2, PositionsAre
      <4> QED BY <3>2, <4>3, PlacesAre, ZenonT(60)
    <3> QED BY <3>1, <3>2, KindsOfServer
  <2> QED BY <2>1, <2>2, <2>3, <2>4 DEF ClientsOf
<1> QED BY <1>1, <1>2

-----------------------------------------------------------------------------
(***************************************************************************)
(* Theorems                                                                *)
(***************************************************************************)
\* No client_t is ever in two queues or at two servers, nor twice in one, for
\* any number of servers and clients and whichever pushes fail.
THEOREM EachClientOnce == Spec => []NoClientTwice
  BY OnePlace, PlacesInvariance, PTL

\* Every client_t is somewhere, as long as no push fails for want of memory.
THEOREM EveryClientHeld == FullSizes = {} => (Spec => []NoClientLost)
<1> SUFFICES ASSUME FullSizes = {} PROVE Spec => []NoClientLost
  OBVIOUS
<1>1. PlacesInv => NoClientLost
  BY AllHeld
<1> QED BY <1>1, PlacesInvariance, PTL

-----------------------------------------------------------------------------
(***************************************************************************)
(* The refinement of ServiceDesk: the refinement mapping                   *)
(***************************************************************************)
\* Where a client is decides its stage, and the server it is at its desk.
Located ==
  \A c \in Client :
    /\ c \notin Admitted => Stage[c] = "outside" /\ Desk[c] = 0
    /\ \A s \in Server :
         /\ c \in Queue(s) => Stage[c] = "waiting" /\ Desk[c] = s
         /\ c \in Current(s) => Stage[c] = "served" /\ Desk[c] = s
         /\ c \in Finished(s) => Stage[c] = "gone" /\ Desk[c] = s

LEMMA MappingLocates == PlacesInv => Located
<1> SUFFICES ASSUME PlacesInv, NEW c \in Client
             PROVE  /\ c \notin Admitted => Stage[c] = "outside" /\ Desk[c] = 0
                    /\ \A s \in Server :
                         /\ c \in Queue(s) => Stage[c] = "waiting" /\ Desk[c] = s
                         /\ c \in Current(s) => Stage[c] = "served" /\ Desk[c] = s
                         /\ c \in Finished(s) => Stage[c] = "gone" /\ Desk[c] = s
  BY DEF Located
<1> USE DEF PlacesInv
<1>1. c \in ToSet(system_clients) <=> c \notin Admitted
  BY StillToCome
<1>2. /\ Stage[c] = IF c \in ToSet(system_clients) THEN "outside"
                    ELSE IF \E s \in Server : c \in Queue(s) THEN "waiting"
                    ELSE IF \E s \in Server : c \in Current(s) THEN "served"
                    ELSE "gone"
      /\ Desk[c] = IF c \in ToSet(system_clients) THEN 0
                   ELSE CHOOSE s \in Server : c \in ClientsOf(s)
  BY DEF Stage, Desk, ClientsOf
<1>3. ASSUME NEW s \in Server, c \in ClientsOf(s)
      PROVE  /\ c \notin ToSet(system_clients) /\ Desk[c] = s
             /\ \A r \in Server : c \in ClientsOf(r) => r = s
  <2>1. c \in Admitted
    BY <1>3, ClientsAreAdmitted DEF ClientsOf, Inv
  <2>2. \A r \in Server : c \in ClientsOf(r) => r = s
    BY <1>3 DEF OnePlaceEach
  <2>3. (CHOOSE r \in Server : c \in ClientsOf(r)) = s
    BY <1>3, <2>2
  <2> QED BY <1>1, <1>2, <2>1, <2>2, <2>3
<1>4. ASSUME NEW s \in Server, c \in ClientsOf(s)
      PROVE  /\ c \in Queue(s) => Stage[c] = "waiting"
             /\ c \in Current(s) => Stage[c] = "served"
             /\ c \in Finished(s) => Stage[c] = "gone"
  <2>1. /\ Queue(s) \cap Current(s) = {}
        /\ Queue(s) \cap Finished(s) = {}
        /\ Current(s) \cap Finished(s) = {}
    BY DEF OnePlaceEach
  <2>2. \A r \in Server : c \in Queue(r) \cup Current(r) \cup Finished(r) => r = s
    BY <1>3, <1>4 DEF ClientsOf
  <2> QED BY <1>2, <1>3, <1>4, <2>1, <2>2
<1>5. ASSUME NEW s \in Server
      PROVE  /\ c \in Queue(s) => c \in ClientsOf(s)
             /\ c \in Current(s) => c \in ClientsOf(s)
             /\ c \in Finished(s) => c \in ClientsOf(s)
  BY DEF ClientsOf
<1> QED BY <1>1, <1>2, <1>3, <1>4, <1>5

\* The clients waiting for server s in the sense of ServiceDesk, and the one
\* it serves, are those of the queues of s and its current_client.
LEMMA AtServer ==
  ASSUME PlacesInv, Located, NEW s \in Server, FullSizes = {}
  PROVE  /\ DESK!At(s, "waiting") = Queue(s)
         /\ DESK!At(s, "served") = Current(s)
<1>1. ASSUME NEW c \in Client, Desk[c] = s, Stage[c] \in {"waiting", "served"}
      PROVE  c \in ClientsOf(s)
  <2>1. c \in Admitted
    BY <1>1 DEF Located
  <2>2. PICK r \in Server : c \in ClientsOf(r)
    BY <2>1 DEF PlacesInv, AdmittedAreHeld
  <2>3. r = s
    BY <1>1, <2>2 DEF Located, ClientsOf
  <2> QED BY <2>2, <2>3
<1>2. Queue(s) \subseteq Client /\ Current(s) \subseteq Client
  BY ClientsAreAdmitted, BeforeMoves DEF PlacesInv
<1>3. /\ DESK!At(s, "waiting") = {c \in Client : Desk[c] = s /\ Stage[c] = "waiting"}
      /\ DESK!At(s, "served") = {c \in Client : Desk[c] = s /\ Stage[c] = "served"}
  BY DEF DESK!At, DESK!Client, Client
<1>4. DESK!At(s, "waiting") = Queue(s)
  BY <1>1, <1>2, <1>3 DEF Located, ClientsOf
<1>5. DESK!At(s, "served") = Current(s)
  BY <1>1, <1>2, <1>3 DEF Located, ClientsOf
<1> QED BY <1>4, <1>5

\* The first in line is the client called first.
LEMMA FirstIsFirst ==
  ASSUME PlacesInv, Located, FullSizes = {}, NEW s \in Server, NEW c, First(s, c)
  PROVE  DESK!FirstInLine(s) = {c}
<1>1. DESK!At(s, "waiting") = Queue(s) /\ Queue(s) \subseteq Client /\ c \in Queue(s)
      /\ \A d \in Client : d \in Int
  BY AtServer, ClientsAreAdmitted, BeforeMoves DEF PlacesInv, First
<1>2. ASSUME NEW d \in Queue(s), NEW e \in Queue(s)
      PROVE  DESK!Before(s, d, e) <=>
               IF s \in Robotic /\ IsDisabled(d) # IsDisabled(e)
               THEN IsDisabled(d) ELSE d < e
  BY <1>1 DEF DESK!Before, IsDisabled
<1>3. c \in DESK!FirstInLine(s)
  BY <1>1, <1>2 DEF DESK!FirstInLine, First
<1>4. ASSUME NEW d \in DESK!FirstInLine(s) PROVE d = c
  <2> SUFFICES ASSUME d # c PROVE FALSE
    OBVIOUS
  <2>1. d \in Queue(s) /\ DESK!Before(s, d, c) /\ DESK!Before(s, c, d)
    BY <1>1, <1>3 DEF DESK!FirstInLine
  <2>2. d \in Int /\ c \in Int
    BY <1>1, <2>1
  <2> QED BY <1>1, <1>2, <2>1, <2>2 DEF IsDisabled
<1> QED BY <1>3, <1>4

-----------------------------------------------------------------------------
(***************************************************************************)
(* Every step of Simulation is one of ServiceDesk or changes nothing there *)
(***************************************************************************)
\* Who has a disability never changes.
LEMMA SameDisabled ==
  ASSUME drawn' = drawn
  PROVE  {c \in Client : IsDisabled(c)}' = {c \in Client : IsDisabled(c)}
  BY DEF IsDisabled, Client

\* What ServiceDesk sees of the clients.
Seen == <<{c \in Client : IsDisabled(c)}, Stage, Desk>>

\* Where nobody moves nothing is seen.
LEMMA NobodyMovesUnseen ==
  ASSUME client_queue' = client_queue,
         disable_client_queue' = disable_client_queue,
         normal_client_queue' = normal_client_queue,
         current_client' = current_client,
         finished_clients_queue' = finished_clients_queue,
         drawn' = drawn, system_clients' = system_clients
  PROVE  UNCHANGED Seen
<1>1. \A s : /\ Queue(s)' = Queue(s) /\ Current(s)' = Current(s)
             /\ Finished(s)' = Finished(s)
  BY DEF Queue, Current, Finished
<1>2. Stage' = Stage
  BY <1>1, Zenon DEF Stage
<1>3. Desk' = Desk
  BY SMT DEF Desk, Queue, Current, Finished, Client, Server, Standard, NumServers
<1> QED BY <1>2, <1>3, SameDisabled DEF Seen

\* Before anybody comes all are outside.
LEMMA InitIsInit == Init => DESK!Init
<1> SUFFICES ASSUME Init PROVE DESK!Init
  OBVIOUS
<1>1. \A c \in Client : c \notin Admitted
  <2>1. system_clients = [c \in Client |-> c]
    BY Zenon DEF Init
  <2>2. Len(system_clients) = NumClients
    BY <2>1 DEF Client
  <2> QED BY <2>2 DEF Admitted
<1>2. \A c \in Client : Stage[c] = "outside" /\ Desk[c] = 0
  BY <1>1, InitPlaces, MappingLocates DEF Located
<1>3. Stage = [c \in Client |-> "outside"] /\ Desk = [c \in Client |-> 0]
  <2> DEFINE S(c) == Stage[c]
             D(c) == Desk[c]
  <2>1. Stage = [c \in Client |-> Stage[c]] /\ Desk = [c \in Client |-> Desk[c]]
    BY DEF Stage, Desk
  <2> QED BY <1>2, <2>1
<1>4. Visited = Server /\ ~Stopped
  BY Zenon DEF Init, Visited, Stopped
<1> QED BY <1>3, <1>4 DEF DESK!Init, DESK!Client, Client

\* As many elements as a sequence has places, when it repeats none.
LEMMA LengthIsSize ==
  ASSUME NEW S, NEW q \in Seq(S), IsInjective(q)
  PROVE  IsFiniteSet(ToSet(q)) /\ Cardinality(ToSet(q)) = Len(q)
<1>1. DOMAIN q = 1 .. Len(q) /\ Len(q) \in Nat
  BY LenProperties
<1>2. q \in [1 .. Len(q) -> ToSet(q)]
  BY <1>1 DEF ToSet
<1>3. q \in Bijection(1 .. Len(q), ToSet(q))
  BY <1>1, <1>2, Zenon DEF Bijection, Injection, Surjection, IsInjective, ToSet
<1>4. ExistsBijection(1 .. Len(q), ToSet(q))
  BY <1>3 DEF ExistsBijection
<1>5. IsFiniteSet(1 .. Len(q))
  BY <1>1, FS_Interval
<1> QED BY <1>1, <1>4, <1>5, FS_CountingElements, FS_Bijection

\* The load of a server is the number of clients ahead of the one admitted.
LEMMA LoadIsAhead ==
  ASSUME PlacesInv, Located, FullSizes = {}, NEW s \in Server, NEW c \in Client,
         \A d \in Admitted : d < c
  PROVE  Load(s, c) = Cardinality(DESK!Ahead(s, c))
<1>1. /\ DESK!At(s, "waiting") = Queue(s)
      /\ \A d \in Queue(s) : d \in Client /\ d < c
  BY AtServer, ClientsAreAdmitted, BeforeMoves DEF PlacesInv
<1>2. ASSUME NEW d \in Queue(s)
      PROVE  DESK!Before(s, d, c) <=> (s \in Robotic /\ IsDisabled(c) => IsDisabled(d))
  BY <1>1 DEF DESK!Before, IsDisabled
<1>3. DESK!Ahead(s, c) = {d \in Queue(s) : s \in Robotic /\ IsDisabled(c) => IsDisabled(d)}
  BY <1>1, <1>2 DEF DESK!Ahead
<1>4. /\ client_queue \in [Standard -> Seq(Client)]
      /\ disable_client_queue \in [Robotic -> Seq(Client)]
      /\ normal_client_queue \in [Robotic -> Seq(Client)]
  BY Zenon DEF PlacesInv, Inv, TypeOK
<1>5. ASSUME NEW q \in Seq(Client), Increasing(q)
      PROVE  IsFiniteSet(ToSet(q)) /\ Cardinality(ToSet(q)) = Len(q) /\ Len(q) \in Nat
  BY <1>5, IncreasingIsInjective, LengthIsSize, LenProperties DEF Client
<1>6. CASE s \in Standard
  <2>1. s \notin Robotic /\ Increasing(client_queue[s]) /\ client_queue[s] \in Seq(Client)
    BY <1>4, <1>6 DEF Standard, Robotic, PlacesInv, QueuesInOrder
  <2>2. DESK!Ahead(s, c) = ToSet(client_queue[s])
    BY <1>3, <1>6, <2>1 DEF Queue
  <2> QED BY <1>5, <1>6, <2>1, <2>2 DEF Load
<1>7. CASE s \in Robotic
  <2> DEFINE D == disable_client_queue[s]
             N == normal_client_queue[s]
  <2>1. /\ s \notin Standard /\ D \in Seq(Client) /\ N \in Seq(Client)
        /\ Increasing(D) /\ Increasing(N)
        /\ \A d \in ToSet(D) : IsDisabled(d)
        /\ \A d \in ToSet(N) : ~IsDisabled(d)
    BY <1>4, <1>7 DEF Standard, Robotic, PlacesInv, QueuesInOrder
  <2>2. Queue(s) = ToSet(D) \cup ToSet(N)
    BY <2>1 DEF Queue
  <2>3. Load(s, c) = IF IsDisabled(c) THEN Len(D) ELSE Len(N) + Len(D)
    BY <2>1 DEF Load
  <2> HIDE DEF D, N
  <2>4. /\ IsFiniteSet(ToSet(D)) /\ Cardinality(ToSet(D)) = Len(D) /\ Len(D) \in Nat
        /\ IsFiniteSet(ToSet(N)) /\ Cardinality(ToSet(N)) = Len(N) /\ Len(N) \in Nat
    BY <1>5, <2>1
  <2>5. CASE IsDisabled(c)
    <3>1. DESK!Ahead(s, c) = ToSet(D)
      BY <1>3, <1>7, <2>1, <2>2, <2>5
    <3> QED BY <2>3, <2>4, <2>5, <3>1
  <2>6. CASE ~IsDisabled(c)
    <3>1. DESK!Ahead(s, c) = ToSet(D) \cup ToSet(N)
      BY <1>3, <2>2, <2>6
    <3>2. ToSet(D) \cap ToSet(N) = {}
      BY <2>1
    <3>3. Cardinality(ToSet(D) \cup ToSet(N)) =
            Cardinality(ToSet(D)) + Cardinality(ToSet(N)) - Cardinality({})
      BY <2>4, <3>2, FS_Union
    <3> QED BY <2>3, <2>4, <2>6, <3>1, <3>3, FS_EmptySet
  <2> QED BY <2>5, <2>6
<1> QED BY <1>6, <1>7, KindsOfServer

\* The Cardinality that ServiceDesk extends is that of this module.
LEMMA SameCardinality == ASSUME NEW S PROVE DESK!Cardinality(S) = Cardinality(S)
  BY Zenon DEF DESK!Cardinality, Cardinality

\* assign_client picks a candidate with the fewest clients ahead.
LEMMA AssignedHasFewest ==
  ASSUME PlacesInv, Located, FullSizes = {}, NEW s \in Server, NEW c \in Client,
         AssignedTo(s, c), \A d \in Admitted : d < c
  PROVE  /\ s \in DESK!Candidates(c)
         /\ \A r \in DESK!Candidates(c) :
              DESK!Cardinality(DESK!Ahead(s, c)) <= DESK!Cardinality(DESK!Ahead(r, c))
<1>1. \A r \in Server : Load(r, c) = Cardinality(DESK!Ahead(r, c)) /\ Load(r, c) \in Int
  <2>1. ASSUME NEW r \in Server PROVE Load(r, c) \in Int
    BY KindsOfServer, LenProperties DEF Load, PlacesInv, Inv, TypeOK
  <2> QED BY <2>1, LoadIsAhead
<1>2. DESK!Candidates(c) = IF IsDisabled(c) /\ Robotic # {} THEN Robotic ELSE Server
  BY DEF DESK!Candidates
<1>3. Server = Standard \cup Robotic
  BY DEF Server, Standard, Robotic, NumServers
<1>4. s \in DESK!Candidates(c) /\ \A r \in DESK!Candidates(c) : Load(s, c) <= Load(r, c)
  BY <1>1, <1>2, <1>3 DEF AssignedTo, LowLoad
<1>5. DESK!Candidates(c) \subseteq Server
  BY <1>2, <1>3
<1> QED BY <1>1, <1>4, <1>5, SameCardinality

\* An admission is the entry of the client admitted.
LEMMA AdmitIsEnter ==
  ASSUME PlacesInv, PlacesInv', Located, Located', FullSizes = {},
         NEW s \in Server, NEW c \in Client, Admit(s, c)
  PROVE  DESK!Enter(c, s)
<1>1. /\ current_client' = current_client
      /\ finished_clients_queue' = finished_clients_queue
      /\ drawn' = drawn /\ AssignedTo(s, c)
  BY Zenon DEF Admit, serving
<1>2. /\ Admitted' = Admitted \cup {c}
      /\ \A d \in Admitted : d \in Int /\ d < c
      /\ c = NumClients - Len(system_clients) + 1
  BY AdmitNext DEF PlacesInv
<1>3. c \notin Admitted /\ Stage[c] = "outside"
  BY <1>2 DEF Located
<1>4. \A d \in 1 .. c - 1 : d \in Admitted /\ d \in Client
  BY <1>2 DEF Admitted, Client
<1>5. ASSUME NEW d \in Admitted
      PROVE  Stage[d] \in {"waiting", "served", "gone"}
  <2>1. d \in Client /\ \E r \in Server : d \in ClientsOf(r)
    BY BeforeMoves DEF PlacesInv, AdmittedAreHeld
  <2> QED BY <2>1 DEF ClientsOf, Located
<1>6. /\ s \in DESK!Candidates(c)
      /\ \A r \in DESK!Candidates(c) :
           DESK!Cardinality(DESK!Ahead(s, c)) <= DESK!Cardinality(DESK!Ahead(r, c))
  BY <1>1, <1>2, AssignedHasFewest
<1>7. /\ Queue(s)' = Queue(s) \cup {c}
      /\ \A r \in Server \ {s} : Queue(r)' = Queue(r)
      /\ \A r \in Server : Current(r)' = Current(r) /\ Finished(r)' = Finished(r)
  <2>1. /\ Queue(s)' \subseteq Queue(s) \cup {c} /\ Queue(s) \subseteq Queue(s)'
        /\ c \in Queue(s)'
        /\ \A r \in Server \ {s} : Queue(r)' = Queue(r)
    BY JoinQueueAdds, Zenon DEF PlacesInv
  <2> QED BY <1>1, <2>1 DEF Current, Finished
<1>8. ASSUME NEW d \in Client, d # c
      PROVE  Stage'[d] = Stage[d] /\ Desk'[d] = Desk[d]
  <2>1. CASE d \notin Admitted
    BY <1>2, <1>8, <2>1 DEF Located
  <2>2. CASE d \in Admitted
    <3>1. PICK r \in Server : d \in ClientsOf(r)
      BY <2>2 DEF PlacesInv, AdmittedAreHeld
    <3> QED BY <1>7, <3>1 DEF ClientsOf, Located
  <2> QED BY <2>1, <2>2
<1>9. Stage'[c] = "waiting" /\ Desk'[c] = s
  BY <1>7 DEF Located
<1>10. /\ Stage' = [Stage EXCEPT ![c] = "waiting"]
       /\ Desk' = [Desk EXCEPT ![c] = s]
  <2>1. /\ Stage = [d \in Client |-> Stage[d]] /\ Stage' = [d \in Client |-> Stage'[d]]
        /\ Desk = [d \in Client |-> Desk[d]] /\ Desk' = [d \in Client |-> Desk'[d]]
    BY DEF Stage, Desk
  <2> QED BY <1>8, <1>9, <2>1
<1>11. \A d \in 1 .. c - 1 : Stage[d] # "outside"
  BY <1>4, <1>5
<1>12. Visited = Server /\ Visited' = Server /\ ~Stopped /\ ~Stopped'
  BY Zenon DEF Admit, Visited, Stopped
<1>13. UNCHANGED <<{d \in Client : IsDisabled(d)}, Visited, ~Stopped>>
  BY <1>1, <1>12, SameDisabled
<1> QED BY <1>3, <1>6, <1>10, <1>11, <1>12, <1>13, Zenon DEF DESK!Enter

\* A turn in which the current client leaves and the next is called, if any.
LEMMA MovesProceed ==
  ASSUME PlacesInv, PlacesInv', Located, Located', FullSizes = {},
         NEW s \in Server, NEW stats, TurnMoves(s, stats),
         Admitted' = Admitted, drawn' = drawn,
         Finished(s)' = Finished(s) \cup Current(s),
         \A r \in Server \ {s} : finished_clients_queue'[r] = finished_clients_queue[r]
  PROVE  DESK!Proceeds(s) /\ Desk' = Desk
<1>1. \A r \in Server \ {s} : /\ Queue(r)' = Queue(r) /\ Current(r)' = Current(r)
                              /\ Finished(r)' = Finished(r)
  BY DEF TurnMoves, Current, Finished
<1>2. DESK!At(s, "waiting") = Queue(s) /\ DESK!At(s, "served") = Current(s)
  BY AtServer
<1>3. Queue(s)' \cup Current(s)' = Queue(s) /\ DESK!FirstInLine(s) = Current(s)'
  <2>1. CASE Rests(s, stats)
    <3>1. Queue(s) = {} /\ Current(s)' = {} /\ Queue(s)' = {}
      BY <2>1 DEF Rests, Current
    <3> QED BY <1>2, <3>1 DEF DESK!FirstInLine
  <2>2. ASSUME NEW c \in Admitted, Calls(s, c, stats)
        PROVE  Queue(s)' \cup Current(s)' = Queue(s) /\ DESK!FirstInLine(s) = Current(s)'
    <3>1. Current(s)' = {c} /\ First(s, c)
      BY <2>2, BeforeMoves DEF Calls, Current, PlacesInv
    <3>2. DESK!FirstInLine(s) = {c}
      BY <3>1, FirstIsFirst
    <3> QED BY <2>2, <3>1, <3>2 DEF Calls, First
  <2> QED BY <2>1, <2>2, Zenon DEF TurnMoves
<1>4. ASSUME NEW c \in Client
      PROVE  /\ Desk'[c] = Desk[c]
             /\ c \in Current(s) => Stage'[c] = "gone"
             /\ c \in Current(s)' => Stage'[c] = "served" /\ c \notin Current(s)
             /\ c \notin Current(s) /\ c \notin Current(s)' => Stage'[c] = Stage[c]
  <2>1. CASE c \notin Admitted
    <3>1. c \notin Current(s) /\ c \notin Current(s)'
      BY <2>1, <1>3, ClientsAreAdmitted DEF PlacesInv, Inv
    <3> QED BY <2>1, <3>1 DEF Located
  <2>2. ASSUME NEW r \in Server, r # s, c \in ClientsOf(r)
        PROVE  /\ Desk'[c] = Desk[c] /\ Stage'[c] = Stage[c]
               /\ c \notin Current(s) /\ c \notin Current(s)'
    <3>1. c \notin ClientsOf(s)
      BY <2>2 DEF PlacesInv, OnePlaceEach
    <3> QED BY <1>1, <1>3, <2>2, <3>1 DEF ClientsOf, Located
  <2>3. CASE c \in ClientsOf(s)
    <3>1. /\ Queue(s) \cap Current(s) = {}
          /\ Queue(s)' \cap Current(s)' = {}
          /\ Queue(s) \cap Finished(s) = {}
      BY DEF PlacesInv, OnePlaceEach
    <3> QED BY <1>3, <2>3, <3>1 DEF ClientsOf, Located
  <2>4. c \in Admitted => \E r \in Server : c \in ClientsOf(r)
    BY DEF PlacesInv, AdmittedAreHeld
  <2> QED BY <2>1, <2>2, <2>3, <2>4
<1>5. /\ Stage' = [c \in Client |-> Stage'[c]]
      /\ Desk = [c \in Client |-> Desk[c]] /\ Desk' = [c \in Client |-> Desk'[c]]
  BY DEF Stage, Desk
<1>6. Desk' = Desk
  BY <1>4, <1>5
<1>7. Stage' = [c \in Client |->
                 CASE c \in Current(s)  -> "gone"
                   [] c \in Current(s)' -> "served"
                   [] OTHER             -> Stage[c]]
  <2>1. ASSUME NEW c \in Client
        PROVE  Stage'[c] = CASE c \in Current(s)  -> "gone"
                             [] c \in Current(s)' -> "served"
                             [] OTHER             -> Stage[c]
    BY <1>4
  <2> QED BY <1>5, <2>1
<1> QED BY <1>2, <1>3, <1>6, <1>7 DEF DESK!Proceeds, DESK!Client, Client

\* The end of a service.
LEMMA FinishProceeds ==
  ASSUME PlacesInv, PlacesInv', Located, Located', FullSizes = {},
         NEW s \in Server, Finish(s)
  PROVE  DESK!Proceeds(s) /\ Desk' = Desk
<1> DEFINE c == current_client[s]
           stats == FinishedStats(s)
<1>1. /\ TurnMoves(s, stats) /\ Admitted' = Admitted /\ drawn' = drawn
      /\ c \in Admitted /\ Current(s) = {c}
      /\ \E q \in Pushed(finished_clients_queue[s], c) :
           finished_clients_queue' = [finished_clients_queue EXCEPT ![s] = q]
  BY FinishMoves, Zenon DEF PlacesInv
<1> HIDE DEF c, stats
<1>2. PICK q \in Pushed(finished_clients_queue[s], c) :
        finished_clients_queue' = [finished_clients_queue EXCEPT ![s] = q]
  BY <1>1
<1>3. /\ finished_clients_queue'[s] = q /\ finished_clients_queue[s] \in Seq(Admitted)
      /\ \A r \in Server \ {s} : finished_clients_queue'[r] = finished_clients_queue[r]
  <2>1. finished_clients_queue \in [Server -> Seq(Admitted)]
    BY DEF OnlyAdmitted, PlacesInv, Inv
  <2> QED BY <1>2, <2>1
<1>4. Finished(s)' = Finished(s) \cup Current(s)
  <2>1. /\ ToSet(q) \subseteq ToSet(finished_clients_queue[s]) \cup {c}
        /\ ToSet(finished_clients_queue[s]) \subseteq ToSet(q)
        /\ c \in ToSet(q)
    BY <1>1, <1>3, PushedElements, Zenon
  <2> QED BY <1>1, <1>3, <2>1 DEF Finished
<1> QED BY <1>1, <1>3, <1>4, MovesProceed, Zenon

\* An inactive server calls the first in line, if anybody waits.
LEMMA StartNextProceeds ==
  ASSUME PlacesInv, PlacesInv', Located, Located', FullSizes = {},
         NEW s \in Server, StartNext(s)
  PROVE  DESK!Proceeds(s) /\ Desk' = Desk
<1>1. /\ TurnMoves(s, service_stat) /\ Admitted' = Admitted /\ drawn' = drawn
      /\ current_client[s] = NoClient /\ Current(s) = {}
      /\ finished_clients_queue' = finished_clients_queue
  BY StartNextMoves, Zenon DEF PlacesInv
<1>2. Finished(s)' = Finished(s) \cup Current(s)
  BY <1>1 DEF Finished
<1> QED BY <1>1, <1>2, MovesProceed, Zenon

\* A service that goes on, or that has failed and starts again.
LEMMA ServiceGoesOn ==
  ASSUME PlacesInv, Located, FullSizes = {}, NEW s \in Server, Retry(s) \/ Continue(s)
  PROVE  DESK!GoesOn(s) /\ Desk' = Desk
<1>1. /\ client_queue' = client_queue
      /\ disable_client_queue' = disable_client_queue
      /\ normal_client_queue' = normal_client_queue
      /\ current_client' = current_client
      /\ finished_clients_queue' = finished_clients_queue
      /\ drawn' = drawn /\ system_clients' = system_clients
      /\ current_client[s] # NoClient
  BY Zenon DEF Retry, Continue, EndTurn, queues, serving, ServiceFinished
<1>2. DESK!At(s, "served") # {}
  BY <1>1, AtServer DEF Current
<1> QED BY <1>1, <1>2, NobodyMovesUnseen DEF Seen, DESK!GoesOn

\* What a turn that does not abort at its beginning leaves of the round.
LEMMA RoundGoesOn ==
  ASSUME NEW s \in Server, UpdateClient(s)
  PROVE  /\ ~Stopped /\ s \notin Visited
         /\ \/ Visited' = Visited \cup {s} /\ ~Stopped'
            \/ Visited' = Server /\ Stopped'
<1>1. /\ pc = "update" /\ turn = s /\ s \in 1 .. NumServers /\ NumServers \in Nat
      /\ \/ pc' = "aborted"
         \/ s < NumServers /\ turn' = s + 1 /\ pc' = pc
         \/ s = NumServers /\ pc' \in {"admit", "done"}
  BY ServerUpdates DEF Server, NumServers
<1>2. Visited = {r \in 1 .. NumServers : r < s}
  BY <1>1 DEF Visited, Server
<1>3. CASE pc' \in {"aborted", "done"}
  BY <1>1, <1>2, <1>3 DEF Visited, Stopped
<1>4. CASE s < NumServers /\ turn' = s + 1 /\ pc' = pc
  <2>1. Visited' = {r \in 1 .. NumServers : r < s + 1}
    BY <1>1, <1>4 DEF Visited, Server
  <2> QED BY <1>1, <1>2, <1>4, <2>1 DEF Stopped
<1>5. CASE s = NumServers /\ pc' = "admit"
  <2>1. Visited' = 1 .. NumServers
    BY <1>5 DEF Visited, Server
  <2> QED BY <1>1, <1>2, <1>5, <2>1 DEF Stopped
<1> QED BY <1>1, <1>3, <1>4, <1>5

\* A server's turn is a turn of ServiceDesk, or the end of it all.
LEMMA UpdateIsTurn ==
  ASSUME PlacesInv, PlacesInv', Located, Located', FullSizes = {},
         NEW s \in Server, UpdateClient(s)
  PROVE  DESK!Turn(s) \/ DESK!Close
<1>1. /\ ~Stopped /\ s \notin Visited
      /\ \/ Visited' = Visited \cup {s} /\ ~Stopped'
         \/ Visited' = Server /\ Stopped'
  BY RoundGoesOn
<1>2. CASE StartAborts(s)
  <2>1. /\ client_queue' = client_queue
        /\ disable_client_queue' = disable_client_queue
        /\ normal_client_queue' = normal_client_queue
        /\ current_client' = current_client
        /\ finished_clients_queue' = finished_clients_queue
        /\ drawn' = drawn /\ system_clients' = system_clients
        /\ pc' = "aborted"
    BY <1>2, Zenon DEF StartAborts, queues, serving
  <2>2. Visited' = Server /\ Stopped'
    BY <2>1 DEF Visited, Stopped
  <2>3. UNCHANGED Seen
    BY <2>1, NobodyMovesUnseen
  <2> QED BY <1>1, <2>2, <2>3 DEF Seen, DESK!Close
<1>3. CASE Finish(s) \/ Retry(s) \/ Continue(s) \/ StartNext(s)
  <2>1. (DESK!Proceeds(s) \/ DESK!GoesOn(s)) /\ Desk' = Desk
    BY <1>3, FinishProceeds, StartNextProceeds, ServiceGoesOn
  <2>2. drawn' = drawn
    BY <1>3, Zenon DEF Finish, Retry, Continue, StartNext, EndTurn
  <2> QED BY <1>1, <2>1, <2>2, SameDisabled DEF DESK!Turn
<1> QED BY <1>2, <1>3, Zenon DEF UpdateClient

\* Every step.
LEMMA StepIsDeskStep ==
  ASSUME PlacesInv, PlacesInv', Located, Located', TurnIsServers, FullSizes = {},
         [Next]_vars
  PROVE  [DESK!Next]_DESK!vars
<1> DEFINE Stay == /\ client_queue' = client_queue
                   /\ disable_client_queue' = disable_client_queue
                   /\ normal_client_queue' = normal_client_queue
                   /\ current_client' = current_client
                   /\ finished_clients_queue' = finished_clients_queue
                   /\ drawn' = drawn /\ system_clients' = system_clients
           Goal == DESK!Next \/ UNCHANGED DESK!vars
<1>1. Stay => UNCHANGED Seen
  BY NobodyMovesUnseen, Zenon
<1>2. \A s \in Server : DESK!Turn(s) \/ DESK!Close => Goal
  BY Zenon DEF DESK!Next
<1>3. \A s \in Server, c \in Client : DESK!Enter(c, s) => Goal
  BY Zenon DEF DESK!Next, DESK!Client, Client
<1>4. ASSUME UNCHANGED Seen, Visited' = Visited, Stopped' <=> Stopped PROVE Goal
  BY <1>4 DEF Seen, DESK!vars
<1>5. ASSUME UNCHANGED Seen, ~Stopped, Visited' = Server, Stopped' PROVE Goal
  BY <1>5 DEF Seen, DESK!Next, DESK!Close
<1>6. ASSUME UNCHANGED Seen, ~Stopped, ~Stopped', Visited = Server, Visited' = {} PROVE Goal
  BY <1>6 DEF Seen, DESK!Next, DESK!BeginRound
<1> HIDE DEF Goal
<1>7. ASSUME Begin PROVE Goal
  <2>1. pc = "begin" /\ pc' \in {"admit", "done", "aborted"}
    BY <1>7 DEF Begin, AtTick
  <2>2. UNCHANGED Seen
    BY <1>1, <1>7, Zenon DEF Begin, queues, serving
  <2>3. Visited = Server /\ Visited' = Server /\ ~Stopped /\ (Stopped' <=> pc' # "admit")
    BY <2>1 DEF Visited, Stopped
  <2> QED BY <1>4, <1>5, <2>2, <2>3
<1>8. ASSUME AdmitNobody PROVE Goal
  <2>1. pc = "admit" /\ pc' = "serve"
    BY <1>8 DEF AdmitNobody
  <2>2. UNCHANGED Seen
    BY <1>1, <1>8, Zenon DEF AdmitNobody, queues, serving
  <2>3. Visited' = Visited /\ (Stopped' <=> Stopped)
    BY <2>1 DEF Visited, Stopped
  <2> QED BY <1>4, <2>2, <2>3
<1>9. ASSUME NEW s \in Server, NEW c \in Client, Admit(s, c) PROVE Goal
  BY <1>3, <1>9, AdmitIsEnter
<1>10. ASSUME ServersUpdateServeTime PROVE Goal
  <2>1. pc = "serve" /\ pc' \in {"update", "aborted"} /\ turn' = turn
    BY <1>10 DEF ServersUpdateServeTime
  <2>2. UNCHANGED Seen
    BY <1>1, <1>10, Zenon DEF ServersUpdateServeTime, queues
  <2>3. CASE pc' = "update"
    <3>1. turn' = 1
      BY <2>1 DEF TurnIsServers
    <3>2. Visited = Server /\ Visited' = {r \in 1 .. NumServers : r < 1}
      BY <2>1, <2>3, <3>1 DEF Visited, Server
    <3>3. Visited' = {} /\ ~Stopped /\ ~Stopped'
      BY <2>1, <2>3, <3>2 DEF Stopped, NumServers
    <3> QED BY <1>6, <2>2, <3>2, <3>3
  <2>4. CASE pc' = "aborted"
    <3>1. Visited' = Server /\ ~Stopped /\ Stopped'
      BY <2>1, <2>4 DEF Visited, Stopped
    <3> QED BY <1>5, <2>2, <3>1
  <2> QED BY <2>1, <2>3, <2>4
<1>11. ASSUME NEW s \in Server, UpdateClient(s) PROVE Goal
  BY <1>2, <1>11, UpdateIsTurn
<1>12. ASSUME UNCHANGED vars PROVE Goal
  <2>1. Stay /\ pc' = pc /\ turn' = turn
    BY <1>12, Zenon DEF vars, queues, serving
  <2>2. Visited' = Visited /\ (Stopped' <=> Stopped)
    BY <2>1 DEF Visited, Stopped
  <2> QED BY <1>1, <1>4, <2>1, <2>2
<1>13. Goal
  BY <1>7, <1>8, <1>9, <1>10, <1>11, <1>12, Zenon DEF Next, Step
<1> QED BY <1>13, Zenon DEF Goal

-----------------------------------------------------------------------------
(***************************************************************************)
(* Theorem                                                                 *)
(***************************************************************************)
\* The simulator with its queues, its clock and its statistics implements the
\* service that ServiceDesk promises, for any number of servers, clients and
\* ticks, as long as no push fails for want of memory: every client joins a
\* server with the fewest ahead of it, every server has one turn in each tick,
\* and no turn of a server with nobody to serve passes over the first in line.
THEOREM SimulationImplementsServiceDesk ==
  FullSizes = {} => (Spec => ImplementsServiceDesk)
<1> SUFFICES ASSUME FullSizes = {} PROVE Spec => ImplementsServiceDesk
  OBVIOUS
<1>1. Init => DESK!Init
  BY InitIsInit
<1>2. PlacesInv /\ Located /\ PlacesInv' /\ Located' /\ TurnIsServers /\ [Next]_vars
        => [DESK!Next]_DESK!vars
  BY StepIsDeskStep
<1> QED BY <1>1, <1>2, PlacesInvariance, TurnIsServersAlways, MappingLocates, PTL
        DEF Spec, ImplementsServiceDesk, DESK!Spec

-----------------------------------------------------------------------------
(***************************************************************************)
(* Sequences and their elements                                            *)
(***************************************************************************)
\* Induction over the numbers, by the smallest counterexample.
LEMMA SmallestNumber ==
  ASSUME NEW W \in SUBSET Nat, W # {}
  PROVE  \E m \in W : \A k \in W : m <= k
<1>1. \E m \in W : \A k \in W : ~ (<<k, m>> \in OpToRel(<, Nat))
  BY WFMin, NatLessThanWellFounded, Zenon
<1>2. \A k, m \in W : k < m => <<k, m>> \in OpToRel(<, Nat)
  BY DEF OpToRel
<1>3. \E m \in W : \A k \in W : ~ (k < m)
  BY <1>1, <1>2, Zenon
<1> QED BY <1>3

\* The elements of two sequences one after the other.
LEMMA ConcatElements ==
  ASSUME NEW S, NEW q \in Seq(S), NEW r \in Seq(S)
  PROVE  /\ q \o r \in Seq(S)
         /\ ToSet(q \o r) = ToSet(q) \cup ToSet(r)
         /\ IsInjective(q) /\ IsInjective(r) /\ ToSet(q) \cap ToSet(r) = {}
              => IsInjective(q \o r)
<1> DEFINE p == q \o r
           m == Len(q)
           n == Len(r)
<1>1. /\ p \in Seq(S) /\ m \in Nat /\ n \in Nat
      /\ DOMAIN p = 1 .. m + n /\ DOMAIN q = 1 .. m /\ DOMAIN r = 1 .. n
      /\ \A i \in 1 .. m + n : p[i] = IF i <= m THEN q[i] ELSE r[i - m]
  BY ConcatProperties, LenProperties
<1> HIDE DEF p, m, n
<1>2. \A i \in 1 .. m : i \in 1 .. m + n /\ p[i] = q[i] /\ q[i] \in ToSet(q)
  <2>1. \A i \in 1 .. m : i \in 1 .. m + n /\ i <= m
    BY <1>1
  <2> QED BY <1>1, <2>1 DEF ToSet
<1>3. \A i \in 1 .. n : i + m \in 1 .. m + n /\ p[i + m] = r[i] /\ r[i] \in ToSet(r)
  <2>1. \A i \in 1 .. n : i + m \in 1 .. m + n /\ ~ (i + m <= m) /\ (i + m) - m = i
    BY <1>1
  <2>2. \A i \in 1 .. n : p[i + m] = r[i]
    BY <1>1, <2>1
  <2> QED BY <1>1, <2>1, <2>2 DEF ToSet
<1>4. \A i \in 1 .. m + n :
        \/ i \in 1 .. m /\ p[i] = q[i]
        \/ i \notin 1 .. m /\ i - m \in 1 .. n /\ p[i] = r[i - m]
  BY <1>1
<1>5. ToSet(p) = ToSet(q) \cup ToSet(r)
  <2>1. ToSet(p) \subseteq ToSet(q) \cup ToSet(r)
    BY <1>1, <1>2, <1>3, <1>4 DEF ToSet
  <2>2. ToSet(q) \subseteq ToSet(p)
    BY <1>1, <1>2 DEF ToSet
  <2>3. ToSet(r) \subseteq ToSet(p)
    <3>1. \A i \in 1 .. n : \E j \in 1 .. m + n : r[i] = p[j]
      BY <1>3
    <3>2. \A x \in ToSet(r) : \E i \in 1 .. n : x = r[i]
      BY <1>1 DEF ToSet
    <3>3. \A j \in 1 .. m + n : p[j] \in ToSet(p)
      BY <1>1 DEF ToSet
    <3> QED BY <3>1, <3>2, <3>3
  <2> QED BY <2>1, <2>2, <2>3
<1>6. ASSUME IsInjective(q), IsInjective(r), ToSet(q) \cap ToSet(r) = {}
      PROVE  IsInjective(p)
  <2>1. \A i, j \in 1 .. m : q[i] = q[j] => i = j
    BY <1>1, <1>6 DEF IsInjective
  <2>2. \A i, j \in 1 .. n : r[i] = r[j] => i = j
    BY <1>1, <1>6 DEF IsInjective
  <2> SUFFICES ASSUME NEW i \in 1 .. m + n, NEW j \in 1 .. m + n, p[i] = p[j] PROVE i = j
    BY <1>1 DEF IsInjective
  <2>3. CASE i \in 1 .. m /\ j \in 1 .. m
    BY <1>2, <2>1, <2>3
  <2>4. CASE i \notin 1 .. m /\ j \notin 1 .. m
    <3>1. i - m = j - m
      BY <1>4, <2>2, <2>4
    <3> QED BY <1>1, <3>1
  <2>5. ~ (i \in 1 .. m /\ j \notin 1 .. m) /\ ~ (j \in 1 .. m /\ i \notin 1 .. m)
    <3>1. \A k \in 1 .. m, l \in (1 .. m + n) \ (1 .. m) : p[k] # p[l]
      BY <1>2, <1>3, <1>4, <1>6
    <3> QED BY <3>1
  <2> QED BY <2>3, <2>4, <2>5
<1> QED BY <1>1, <1>5, <1>6 DEF p

\* What a pop takes from a sequence that holds nothing twice.
LEMMA InjectiveTail ==
  ASSUME NEW S, NEW q \in Seq(S), q # <<>>, IsInjective(q)
  PROVE  /\ Head(q) \in S /\ Head(q) \in ToSet(q)
         /\ ToSet(Tail(q)) = ToSet(q) \ {Head(q)}
         /\ IsInjective(Tail(q))
<1> DEFINE t == Tail(q)
           n == Len(q)
<1>1. /\ t \in Seq(S) /\ Len(t) = n - 1 /\ n \in Nat /\ 1 <= n
      /\ DOMAIN t = 1 .. n - 1 /\ DOMAIN q = 1 .. n
      /\ \A i \in 1 .. n - 1 : t[i] = q[i + 1]
      /\ Head(q) = q[1] /\ Head(q) \in S
  BY HeadTailProperties, LenProperties, EmptySeq
<1>2. \A i, j \in 1 .. n : q[i] = q[j] => i = j
  BY <1>1 DEF IsInjective
<1> HIDE DEF t, n
<1>3. IsInjective(t)
  BY <1>1, <1>2 DEF IsInjective
<1>4. Head(q) \in ToSet(q)
  BY <1>1 DEF ToSet
<1>5. \A x : x \in ToSet(t) <=> \E i \in 1 .. n - 1 : x = q[i + 1]
  BY <1>1 DEF ToSet
<1>6. \A x : x \in ToSet(q) <=> \E i \in 1 .. n : x = q[i]
  BY <1>1 DEF ToSet
<1>7. \A x : x \in ToSet(t) <=> x \in ToSet(q) /\ x # Head(q)
  <2> TAKE x
  <2>1. ASSUME NEW i \in 1 .. n - 1, x = q[i + 1] PROVE x \in ToSet(q) /\ x # Head(q)
    <3>1. i + 1 \in 1 .. n /\ i + 1 # 1 /\ 1 \in 1 .. n
      BY <1>1
    <3> QED BY <1>1, <1>2, <1>6, <2>1, <3>1
  <2>2. ASSUME NEW i \in 1 .. n, x = q[i], x # Head(q) PROVE x \in ToSet(t)
    <3>1. i - 1 \in 1 .. n - 1 /\ (i - 1) + 1 = i
      BY <1>1, <2>2
    <3> QED BY <1>5, <2>2, <3>1
  <2> QED BY <1>5, <1>6, <2>1, <2>2
<1> QED BY <1>1, <1>3, <1>4, <1>7 DEF t

-----------------------------------------------------------------------------
(***************************************************************************)
(* FlattenSeq                                                              *)
(***************************************************************************)
\* One round of the recursion that puts the first n sequences after another.
FlattenStep(g, seqs, n) ==
  [i \in 1 .. n |-> IF i = 1 THEN seqs[i] ELSE g[i - 1] \o seqs[i]]
IsFlatten(g, seqs, n) == g = FlattenStep(g, seqs, n)

LEMMA FlattenRound ==
  ASSUME NEW g, NEW seqs, NEW n \in Nat, IsFlatten(g, seqs, n)
  PROVE  \A i \in 1 .. n : g[i] = IF i = 1 THEN seqs[i] ELSE g[i - 1] \o seqs[i]
<1> DEFINE h == FlattenStep(g, seqs, n)
<1>1. \A i \in 1 .. n : h[i] = IF i = 1 THEN seqs[i] ELSE g[i - 1] \o seqs[i]
  BY DEF FlattenStep
<1>2. g = h
  BY Zenon DEF IsFlatten
<1> HIDE DEF h
<1> QED BY <1>1, <1>2, Zenon

\* There is such a function: the one for n extends the one for n - 1.
LEMMA FlattenExists == \A seqs : \A n \in Nat : \E g : IsFlatten(g, seqs, n)
<1> SUFFICES ASSUME NEW seqs PROVE \A n \in Nat : \E g : IsFlatten(g, seqs, n)
  OBVIOUS
<1> DEFINE W == {n \in Nat : ~ \E g : IsFlatten(g, seqs, n)}
<1> SUFFICES ASSUME W # {} PROVE FALSE
  BY Zenon
<1>1. PICK n \in W : \A k \in W : n <= k
  <2>1. W \in SUBSET Nat /\ W # {}
    OBVIOUS
  <2> HIDE DEF W
  <2> QED BY <2>1, SmallestNumber
<1>2. n \in Nat /\ ~ \E g : IsFlatten(g, seqs, n)
  OBVIOUS
<1>3. CASE n = 0
  <2> DEFINE g == [i \in 1 .. 0 |-> 0]
  <2>1. g = FlattenStep(g, seqs, 0)
    BY DEF FlattenStep
  <2> QED BY <1>2, <1>3, <2>1 DEF IsFlatten
<1>4. CASE n # 0
  <2> DEFINE m == n - 1
  <2>1. m \in Nat /\ m \notin W
    BY <1>1, <1>2, <1>4
  <2>2. PICK h : IsFlatten(h, seqs, m)
    BY <2>1
  <2>3. \A i \in 1 .. m : h[i] = IF i = 1 THEN seqs[i] ELSE h[i - 1] \o seqs[i]
    BY <2>1, <2>2, FlattenRound
  <2> DEFINE last == IF n = 1 THEN seqs[n] ELSE h[m] \o seqs[n]
             g == [i \in 1 .. n |-> IF i = n THEN last ELSE h[i]]
             s == FlattenStep(g, seqs, n)
  <2>4. \A i \in 1 .. n : s[i] = IF i = 1 THEN seqs[i] ELSE g[i - 1] \o seqs[i]
    BY DEF FlattenStep
  <2>5. \A i \in 1 .. n : g[i] = IF i = n THEN last ELSE h[i]
    OBVIOUS
  <2>6. DOMAIN g = 1 .. n /\ DOMAIN s = 1 .. n
    BY DEF FlattenStep
  <2>7. g = [i \in DOMAIN g |-> g[i]] /\ s = [i \in DOMAIN s |-> s[i]]
    BY DEF FlattenStep
  <2> HIDE DEF g, s
  <2>8. ASSUME NEW i \in 1 .. n PROVE g[i] = s[i]
    <3>1. CASE i = n
      <4>1. n # 1 => g[n - 1] = h[m]
        BY <1>2, <1>4, <2>5
      <4> QED BY <2>4, <2>5, <3>1, <4>1
    <3>2. CASE i # n
      <4>1. i \in 1 .. m
        BY <1>2, <3>2
      <4>2. i # 1 => i - 1 \in 1 .. n /\ i - 1 # n
        BY <1>2, <3>2
      <4>3. g[i] = h[i] /\ (i # 1 => g[i - 1] = h[i - 1])
        BY <2>5, <3>2, <4>2
      <4> QED BY <2>3, <2>4, <4>1, <4>3
    <3> QED BY <3>1, <3>2
  <2>9. g = s
    BY <2>6, <2>7, <2>8
  <2> QED BY <1>2, <2>9 DEF IsFlatten, s
<1> QED BY <1>3, <1>4

LEMMA FlattenIs ==
  ASSUME NEW seqs, Len(seqs) \in Nat \ {0}
  PROVE  \E g : IsFlatten(g, seqs, Len(seqs)) /\ FlattenSeq(seqs) = g[Len(seqs)]
<1> DEFINE n == Len(seqs)
           f == CHOOSE g : IsFlatten(g, seqs, n)
<1>1. \E g : IsFlatten(g, seqs, n)
  BY FlattenExists
<1>2. IsFlatten(f, seqs, n)
  BY <1>1, Zenon
<1>3. FlattenSeq(seqs) = f[n]
  BY DEF FlattenSeq, IsFlatten, FlattenStep
<1> QED BY <1>2, <1>3, Zenon

\* What is in the sequences is in their concatenation, and twice only when it
\* is in two of them or in one of them twice.
LEMMA FlattenElements ==
  ASSUME NEW S, NEW seqs, NEW n \in Nat \ {0}, Len(seqs) = n,
         \A i \in 1 .. n : seqs[i] \in Seq(S) /\ IsInjective(seqs[i]),
         \A i, j \in 1 .. n : i # j => ToSet(seqs[i]) \cap ToSet(seqs[j]) = {}
  PROVE  /\ FlattenSeq(seqs) \in Seq(S)
         /\ ToSet(FlattenSeq(seqs)) = UNION {ToSet(seqs[i]) : i \in 1 .. n}
         /\ IsInjective(FlattenSeq(seqs))
<1>1. PICK g : IsFlatten(g, seqs, n) /\ FlattenSeq(seqs) = g[n]
  BY FlattenIs
<1>2. \A i \in 1 .. n : g[i] = IF i = 1 THEN seqs[i] ELSE g[i - 1] \o seqs[i]
  BY <1>1, FlattenRound
<1> DEFINE Upto(i) == UNION {ToSet(seqs[j]) : j \in 1 .. i}
           Good(i) == g[i] \in Seq(S) /\ ToSet(g[i]) = Upto(i) /\ IsInjective(g[i])
           W == {i \in 1 .. n : ~ Good(i)}
<1>3. ASSUME W # {} PROVE FALSE
  <2>1. PICK i \in W : \A k \in W : i <= k
    <3> HIDE DEF Good
    <3>1. W \subseteq Nat
      OBVIOUS
    <3>2. W # {}
      BY <1>3
    <3> HIDE DEF W
    <3> QED BY <3>1, <3>2, SmallestNumber
  <2>2. i \in 1 .. n /\ ~ Good(i)
    BY <2>1, Zenon
  <2>3. CASE i = 1
    <3>1. g[1] = seqs[1]
      BY <1>2, <2>2, <2>3
    <3>2. Upto(1) = ToSet(seqs[1])
      BY SMT
    <3> QED BY <2>2, <2>3, <3>1, <3>2
  <2>4. CASE i # 1
    <3> DEFINE m == i - 1
    <3>1. m \in 1 .. n /\ m \in Nat /\ ~ (i <= m)
      BY <2>2, <2>4
    <3>2. Good(m)
      BY <2>1, <3>1
    <3>3. g[i] = g[m] \o seqs[i]
      BY <1>2, <2>2, <2>4
    <3>4. Upto(i) = Upto(m) \cup ToSet(seqs[i])
      <4>1. \A j : j \in 1 .. i <=> j \in 1 .. m \/ j = i
        BY <2>2, <2>4
      <4> HIDE DEF m
      <4> QED BY <4>1
    <3>5. Upto(m) \cap ToSet(seqs[i]) = {}
      <4>1. \A j \in 1 .. m : j \in 1 .. n /\ j # i
        BY <2>2, <3>1
      <4>2. \A j \in 1 .. m : ToSet(seqs[j]) \cap ToSet(seqs[i]) = {}
        BY <2>2, <4>1
      <4> HIDE DEF m
      <4> QED BY <4>2
    <3>6. g[m] \in Seq(S) /\ ToSet(g[m]) = Upto(m) /\ IsInjective(g[m])
      BY <3>2
    <3> HIDE DEF m, Upto
    <3>7. ToSet(g[m]) \cap ToSet(seqs[i]) = {}
      BY <3>5, <3>6
    <3>8. seqs[i] \in Seq(S) /\ IsInjective(seqs[i])
      BY <2>2
    <3>9. /\ g[i] \in Seq(S) /\ ToSet(g[i]) = ToSet(g[m]) \cup ToSet(seqs[i])
          /\ IsInjective(g[i])
      BY <3>3, <3>6, <3>7, <3>8, ConcatElements
    <3> QED BY <2>2, <3>4, <3>6, <3>9
  <2> QED BY <2>3, <2>4
<1>4. Good(n)
  <2> HIDE DEF Good
  <2>1. n \in 1 .. n
    OBVIOUS
  <2> QED BY <1>3, <2>1
<1> QED BY <1>1, <1>4

-----------------------------------------------------------------------------
(***************************************************************************)
(* The containers                                                          *)
(***************************************************************************)
ContainersOf(s) ==
  {<<"finished", s>>, <<"current", s>>} \cup
  IF s \in Standard THEN {<<"client", s>>} ELSE {<<"normal", s>>, <<"disable", s>>}

Container == (UNION {ContainersOf(s) : s \in Server}) \cup {<<"system", 0>>}

\* server_free frees each container of a server once.
LEMMA ServerFreeIs ==
  ASSUME NEW s \in Server
  PROVE  /\ ServerFree(s) \in Seq(Container) /\ IsInjective(ServerFree(s))
         /\ ToSet(ServerFree(s)) = ContainersOf(s)
<1> DEFINE a == <<"finished", s>>
           b == <<"current", s>>
           c == <<"client", s>>
           n == <<"normal", s>>
           d == <<"disable", s>>
<1>1. ContainersOf(s) \subseteq Container
  BY DEF Container
<1>2. a # b /\ a # c /\ b # c /\ a # n /\ b # n /\ a # d /\ b # d /\ n # d
  OBVIOUS
<1>3. ContainersOf(s) = {a, b} \cup IF s \in Standard THEN {c} ELSE {n, d}
  BY DEF ContainersOf
<1>4. ServerFree(s) = <<a, b>> \o IF s \in Standard THEN <<c>> ELSE <<n, d>>
  BY DEF ServerFree
<1> HIDE DEF a, b, c, n, d
<1>5. <<a, b>> \in Seq(Container) /\ ToSet(<<a, b>>) = {a, b} /\ IsInjective(<<a, b>>)
  BY <1>1, <1>2, <1>3 DEF ToSet, IsInjective
<1>6. CASE s \in Standard
  <2>1. <<c>> \in Seq(Container) /\ ToSet(<<c>>) = {c} /\ IsInjective(<<c>>)
    BY <1>1, <1>3, <1>6 DEF ToSet, IsInjective
  <2>2. ServerFree(s) = <<a, b>> \o <<c>> /\ ContainersOf(s) = {a, b} \cup {c}
    BY <1>3, <1>4, <1>6
  <2> DEFINE q == <<a, b>>
             r == <<c>>
  <2> HIDE DEF q, r
  <2>3. /\ q \in Seq(Container) /\ IsInjective(q)
        /\ r \in Seq(Container) /\ IsInjective(r)
        /\ ToSet(q) \cap ToSet(r) = {}
    BY <1>2, <1>5, <2>1 DEF q, r
  <2>4. /\ q \o r \in Seq(Container) /\ IsInjective(q \o r)
        /\ ToSet(q \o r) = ToSet(q) \cup ToSet(r)
    BY <2>3, ConcatElements
  <2> QED BY <1>5, <2>1, <2>2, <2>4 DEF q, r
<1>7. CASE s \notin Standard
  <2>1. <<n, d>> \in Seq(Container) /\ ToSet(<<n, d>>) = {n, d} /\ IsInjective(<<n, d>>)
    BY <1>1, <1>2, <1>3, <1>7 DEF ToSet, IsInjective
  <2>2. ServerFree(s) = <<a, b>> \o <<n, d>> /\ ContainersOf(s) = {a, b} \cup {n, d}
    BY <1>3, <1>4, <1>7
  <2> DEFINE q == <<a, b>>
             r == <<n, d>>
  <2> HIDE DEF q, r
  <2>3. /\ q \in Seq(Container) /\ IsInjective(q)
        /\ r \in Seq(Container) /\ IsInjective(r)
        /\ ToSet(q) \cap ToSet(r) = {}
    BY <1>2, <1>5, <2>1 DEF q, r
  <2>4. /\ q \o r \in Seq(Container) /\ IsInjective(q \o r)
        /\ ToSet(q \o r) = ToSet(q) \cup ToSet(r)
    BY <2>3, ConcatElements
  <2> QED BY <1>5, <2>1, <2>2, <2>4 DEF q, r
<1> QED BY <1>6, <1>7

\* A test frees every container, and none twice.
LEMMA ContainersAre ==
  /\ Containers \in Seq(Container) /\ IsInjective(Containers)
  /\ ToSet(Containers) = Container
<1> DEFINE frees == [s \in Server |-> ServerFree(s)]
           flat == FlattenSeq(frees)
           system == <<"system", 0>>
           OfServers == UNION {ContainersOf(s) : s \in Server}
<1>1. /\ flat \in Seq(Container) /\ IsInjective(flat)
      /\ ToSet(flat) = OfServers
  <2>1. /\ NumServers \in Nat /\ Server = 1 .. NumServers
        /\ \A s \in Server : frees[s] = ServerFree(s)
    BY DEF Server, NumServers
  <2>2. Len(frees) = NumServers
    BY <2>1
  <2>3. CASE NumServers = 0
    <3>1. frees = <<>>
      BY <2>1, <2>3
    <3>2. flat = <<>>
      BY <2>2, <2>3, <3>1 DEF FlattenSeq
    <3>3. OfServers = {}
      BY <2>1, <2>3
    <3> QED BY <3>2, <3>3 DEF ToSet, IsInjective
  <2>4. CASE NumServers # 0
    <3>1. \A s \in Server : /\ frees[s] \in Seq(Container) /\ IsInjective(frees[s])
                            /\ ToSet(frees[s]) = ContainersOf(s)
      BY <2>1, ServerFreeIs
    <3>2. \A s, r \in Server : s # r => ContainersOf(s) \cap ContainersOf(r) = {}
      BY DEF ContainersOf
    <3> HIDE DEF frees
    <3>3. /\ flat \in Seq(Container) /\ IsInjective(flat)
          /\ ToSet(flat) = UNION {ToSet(frees[s]) : s \in 1 .. NumServers}
      <4>1. \A s, r \in Server : s # r => ToSet(frees[s]) \cap ToSet(frees[r]) = {}
        BY <3>1, <3>2
      <4> DEFINE n == NumServers
      <4>2. /\ n \in Nat \ {0} /\ Len(frees) = n
            /\ \A i \in 1 .. n : frees[i] \in Seq(Container) /\ IsInjective(frees[i])
            /\ \A i, j \in 1 .. n : i # j => ToSet(frees[i]) \cap ToSet(frees[j]) = {}
        BY <2>1, <2>2, <2>4, <3>1, <4>1
      <4> HIDE DEF n
      <4>3. /\ FlattenSeq(frees) \in Seq(Container) /\ IsInjective(FlattenSeq(frees))
            /\ ToSet(FlattenSeq(frees)) = UNION {ToSet(frees[i]) : i \in 1 .. n}
        BY <4>2, FlattenElements
      <4> QED BY <4>3 DEF n
    <3>4. UNION {ToSet(frees[s]) : s \in 1 .. NumServers} = OfServers
      BY <2>1, <3>1
    <3> QED BY <3>3, <3>4
  <2> QED BY <2>3, <2>4
<1>2. Containers = flat \o <<system>>
  BY Zenon DEF Containers
<1>3. Container = OfServers \cup {system} /\ system \notin OfServers
  <2>1. \A s \in Server : s # 0 /\ system \notin ContainersOf(s)
    BY DEF ContainersOf, Server
  <2>2. Container = OfServers \cup {system}
    BY Zenon DEF Container
  <2>3. \A x \in OfServers : \E s \in Server : x \in ContainersOf(s)
    OBVIOUS
  <2> QED BY <2>1, <2>2, <2>3
<1> HIDE DEF flat, system, OfServers
<1>4. /\ <<system>> \in Seq(Container) /\ ToSet(<<system>>) = {system}
      /\ IsInjective(<<system>>)
  BY <1>3 DEF ToSet, IsInjective
<1>5. flat \in Seq(Container) /\ IsInjective(flat) /\ ToSet(flat) = OfServers
  BY <1>1 DEF flat, OfServers
<1> DEFINE q == <<system>>
<1> HIDE DEF q
<1>6. ToSet(flat) \cap ToSet(q) = {}
  BY <1>3, <1>4, <1>5 DEF q
<1>7. /\ flat \o q \in Seq(Container) /\ IsInjective(flat \o q)
      /\ ToSet(flat \o q) = ToSet(flat) \cup ToSet(q)
  <2>1. /\ flat \in Seq(Container) /\ q \in Seq(Container)
        /\ IsInjective(flat) /\ IsInjective(q)
    BY <1>4, <1>5 DEF q
  <2> QED BY <1>6, <2>1, ConcatElements
<1> QED BY <1>2, <1>3, <1>4, <1>5, <1>7 DEF q

\* What a container holds is in a place of that name.
LEMMA HeldAre ==
  ASSUME TypeOK, NEW x \in Container
  PROVE  /\ Held(x) \in Seq(Client)
         /\ \A c : \A k \in Positions(Held(x), c) : <<x[2], x[1], k>> \in Places(c)
<1>1. PICK s : /\ s \in Server \/ (s = 0 /\ x = <<"system", 0>>)
               /\ \/ x = <<"finished", s>> /\ s \in Server
                  \/ x = <<"current", s>> /\ s \in Server
                  \/ x = <<"client", s>> /\ s \in Standard
                  \/ x = <<"normal", s>> /\ s \in Robotic
                  \/ x = <<"disable", s>> /\ s \in Robotic
                  \/ x = <<"system", s>> /\ s = 0
  <2>1. x = <<"system", 0>> \/ \E s \in Server : x \in ContainersOf(s)
    BY DEF Container
  <2>2. ASSUME NEW s \in Server, x \in ContainersOf(s)
        PROVE  \/ x = <<"finished", s>>
               \/ x = <<"current", s>>
               \/ x = <<"client", s>> /\ s \in Standard
               \/ x = <<"normal", s>> /\ s \in Robotic
               \/ x = <<"disable", s>> /\ s \in Robotic
    BY <2>2, KindsOfServer DEF ContainersOf
  <2> QED BY <2>1, <2>2
<1>2. CASE x = <<"finished", s>> /\ s \in Server
  <2>1. Held(x) = finished_clients_queue[s] /\ x[1] = "finished" /\ x[2] = s
    BY <1>2 DEF Held
  <2> QED BY <1>2, <2>1, PlacesAre DEF TypeOK
<1>3. CASE x = <<"current", s>> /\ s \in Server
  <2>1. /\ x[1] = "current" /\ x[2] = s
        /\ Held(x) = IF current_client[s] = NoClient THEN <<>> ELSE <<current_client[s]>>
    BY <1>3 DEF Held
  <2>2. current_client[s] = NoClient \/ current_client[s] \in Client
    BY <1>3 DEF TypeOK
  <2>3. CASE Held(x) = <<>>
    BY <2>3 DEF Positions
  <2>4. CASE Held(x) = <<current_client[s]>> /\ current_client[s] \in Client
    <3>1. \A c : \A k \in Positions(Held(x), c) : k = 1 /\ current_client[s] = c
      BY <2>4 DEF Positions
    <3>2. \A c : \A k \in Positions(Held(x), c) : <<s, "current", k>> \in Places(c)
      BY <1>3, <3>1, PlacesAre
    <3> QED BY <2>1, <2>4, <3>2
  <2> QED BY <2>1, <2>2, <2>3, <2>4
<1>4. CASE x = <<"client", s>> /\ s \in Standard
  <2>1. Held(x) = client_queue[s] /\ x[1] = "client" /\ x[2] = s
    BY <1>4 DEF Held
  <2> QED BY <1>4, <2>1, PlacesAre DEF TypeOK
<1>5. CASE x = <<"normal", s>> /\ s \in Robotic
  <2>1. Held(x) = normal_client_queue[s] /\ x[1] = "normal" /\ x[2] = s
    BY <1>5 DEF Held
  <2> QED BY <1>5, <2>1, PlacesAre DEF TypeOK
<1>6. CASE x = <<"disable", s>> /\ s \in Robotic
  <2>1. Held(x) = disable_client_queue[s] /\ x[1] = "disable" /\ x[2] = s
    BY <1>6 DEF Held
  <2> QED BY <1>6, <2>1, PlacesAre DEF TypeOK
<1>7. CASE x = <<"system", 0>>
  <2>1. Held(x) = system_clients /\ x[1] = "system" /\ x[2] = 0
    BY <1>7 DEF Held
  <2> QED BY <2>1, PlacesAre DEF TypeOK
<1> QED BY <1>1, <1>2, <1>3, <1>4, <1>5, <1>6, <1>7

\* A client that has a place is in a container.
LEMMA PlacesAreHeld ==
  ASSUME TypeOK, NEW c \in Client, Places(c) # {}
  PROVE  \E x \in Container : c \in ToSet(Held(x))
<1>1. PICK p : p \in Places(c)
  OBVIOUS
<1>2. ASSUME NEW s \in Server
      PROVE  /\ <<"finished", s>> \in Container
             /\ <<"current", s>> \in Container
             /\ s \in Standard => <<"client", s>> \in Container
             /\ s \in Robotic => /\ <<"normal", s>> \in Container
                                 /\ <<"disable", s>> \in Container
  <2>1. ContainersOf(s) \subseteq Container
    BY DEF Container
  <2> QED BY <2>1, KindsOfServer DEF ContainersOf
<1>3. Standard \subseteq Server /\ Robotic \subseteq Server
  BY DEF Standard, Robotic, Server, NumServers
<1>4. ASSUME NEW x \in Container, Positions(Held(x), c) # {}
      PROVE  c \in ToSet(Held(x))
  BY <1>4, HeldAre, PositionsAre
<1>5. CASE \E k \in Positions(system_clients, c) : TRUE
  <2>1. Held(<<"system", 0>>) = system_clients /\ <<"system", 0>> \in Container
    BY DEF Held, Container
  <2> QED BY <1>4, <1>5, <2>1
<1>6. ASSUME NEW s \in Standard, Positions(client_queue[s], c) # {}
      PROVE  \E x \in Container : c \in ToSet(Held(x))
  <2>1. Held(<<"client", s>>) = client_queue[s]
    BY DEF Held
  <2> QED BY <1>2, <1>3, <1>4, <1>6, <2>1
<1>7. ASSUME NEW s \in Robotic, Positions(disable_client_queue[s], c) # {}
      PROVE  \E x \in Container : c \in ToSet(Held(x))
  <2>1. Held(<<"disable", s>>) = disable_client_queue[s]
    BY DEF Held
  <2> QED BY <1>2, <1>3, <1>4, <1>7, <2>1
<1>8. ASSUME NEW s \in Robotic, Positions(normal_client_queue[s], c) # {}
      PROVE  \E x \in Container : c \in ToSet(Held(x))
  <2>1. Held(<<"normal", s>>) = normal_client_queue[s]
    BY DEF Held
  <2> QED BY <1>2, <1>3, <1>4, <1>8, <2>1
<1>9. ASSUME NEW s \in Server, current_client[s] = c
      PROVE  \E x \in Container : c \in ToSet(Held(x))
  <2>1. c # NoClient
    BY DEF Client, NoClient
  <2>2. Held(<<"current", s>>) = <<c>>
    BY <1>9, <2>1 DEF Held
  <2>3. c \in ToSet(<<c>>)
    BY DEF ToSet
  <2> QED BY <1>2, <2>2, <2>3
<1>10. ASSUME NEW s \in Server, Positions(finished_clients_queue[s], c) # {}
       PROVE  \E x \in Container : c \in ToSet(Held(x))
  <2>1. Held(<<"finished", s>>) = finished_clients_queue[s]
    BY DEF Held
  <2> QED BY <1>2, <1>4, <1>10, <2>1
<1> QED BY <1>1, <1>5, <1>6, <1>7, <1>8, <1>9, <1>10, PlacesAre, Zenon

\* No container holds a client twice, and no two of them the same one.
LEMMA HeldOnce ==
  ASSUME PlacesInv
  PROVE  \A x \in Container :
           /\ Held(x) \in Seq(Client) /\ ToSet(Held(x)) \subseteq Client
           /\ IsInjective(Held(x))
           /\ \A y \in Container : ToSet(Held(x)) \cap ToSet(Held(y)) # {} => x = y
<1>1. TypeOK /\ NoClientTwice
  BY OnePlace DEF PlacesInv, Inv
<1> TAKE x \in Container
<1>2. \A y \in Container : /\ Held(y) \in Seq(Client) /\ DOMAIN Held(y) = 1 .. Len(Held(y))
                           /\ ToSet(Held(y)) \subseteq Client
  BY <1>1, HeldAre, ElementsOfSeq, LenProperties
<1>3. ASSUME NEW y \in Container, NEW c \in Client,
             NEW i \in 1 .. Len(Held(x)), NEW j \in 1 .. Len(Held(y)),
             Held(x)[i] = c, Held(y)[j] = c
      PROVE  <<x[2], x[1], i>> = <<y[2], y[1], j>>
  <2>1. i \in Positions(Held(x), c) /\ j \in Positions(Held(y), c)
    BY <1>3 DEF Positions
  <2>2. <<x[2], x[1], i>> \in Places(c) /\ <<y[2], y[1], j>> \in Places(c)
    BY <1>1, <2>1, HeldAre
  <2> QED BY <1>1, <2>2 DEF NoClientTwice
<1>4. IsInjective(Held(x))
  <2> SUFFICES ASSUME NEW i \in 1 .. Len(Held(x)), NEW j \in 1 .. Len(Held(x)),
                      Held(x)[i] = Held(x)[j]
               PROVE  i = j
    BY <1>2 DEF IsInjective
  <2>1. Held(x)[i] \in Client
    BY <1>2, ElementOfSeq
  <2>2. <<x[2], x[1], i>> = <<x[2], x[1], j>>
    BY <1>3, <2>1
  <2> QED BY <2>2
<1>5. ASSUME NEW y \in Container, ToSet(Held(x)) \cap ToSet(Held(y)) # {} PROVE x = y
  <2>1. PICK c : c \in ToSet(Held(x)) /\ c \in ToSet(Held(y))
    BY <1>5
  <2>2. c \in Client
    BY <1>2, <2>1
  <2>3. PICK i \in 1 .. Len(Held(x)) : Held(x)[i] = c
    BY <1>2, <2>1 DEF ToSet
  <2>4. PICK j \in 1 .. Len(Held(y)) : Held(y)[j] = c
    BY <1>2, <2>1 DEF ToSet
  <2>5. x[1] = y[1] /\ x[2] = y[2]
    BY <1>3, <2>2, <2>3, <2>4
  <2>6. \A z \in Container : z = <<z[1], z[2]>>
    BY DEF Container, ContainersOf
  <2> QED BY <2>5, <2>6
<1> QED BY <1>2, <1>4, <1>5

-----------------------------------------------------------------------------
(***************************************************************************)
(* The inductive invariant                                                 *)
(***************************************************************************)
\* What is left of heap: the clients in no container freed so far.
Unfreed ==
  {c \in Client : \A x \in Container \ ToSet(todo) : c \notin ToSet(Held(x))}

\* Nothing is freed before the simulation is done, then every container once.
FreedInv ==
  /\ todo \in Seq(Container) /\ IsInjective(todo)
  /\ heap = Unfreed
  /\ pc # "done" => todo = Containers

TestInv == PlacesInv /\ FreedInv

\* While nothing is freed every client is allocated.
LEMMA AllUnfreed == todo = Containers => Unfreed = Client
  BY ContainersAre DEF Unfreed

LEMMA InitTest == TestInit => TestInv
<1> SUFFICES ASSUME TestInit PROVE TestInv
  OBVIOUS
<1>1. Init /\ heap = Client /\ todo = Containers
  BY DEF TestInit
<1>2. PlacesInv
  BY <1>1, InitPlaces
<1> QED BY <1>1, <1>2, AllUnfreed, ContainersAre DEF TestInv, FreedInv

LEMMA SimulateKeepsTest == TestInv /\ Simulate => TestInv'
<1> SUFFICES ASSUME TestInv, Simulate PROVE TestInv'
  OBVIOUS
<1>1. Step /\ heap' = heap /\ todo' = todo
  BY Zenon DEF Simulate
<1>2. PlacesInv'
  BY <1>1, NextKeepsPlaces, Zenon DEF TestInv, Next
<1>3. pc # "done"
  BY <1>1 DEF Step, Begin, AdmitNobody, Admit, ServersUpdateServeTime, UpdateClient,
              Finish, Retry, Continue, StartNext, StartAborts, IsTurnOf
<1>4. todo = Containers /\ heap = Client
  BY <1>3, AllUnfreed DEF TestInv, FreedInv
<1>5. Containers' = Containers
  BY DEF Containers, ServerFree
<1>6. Unfreed' = Client
  <2>1. (todo = Containers => Unfreed = Client)'
    BY AllUnfreed, PTL
  <2> QED BY <1>1, <1>4, <1>5, <2>1
<1> QED BY <1>1, <1>2, <1>4, <1>5, <1>6, ContainersAre DEF TestInv, FreedInv

\* What is freed was allocated until then, and is so no more.
LEMMA FreeNextFrees ==
  ASSUME TestInv, FreeNext
  PROVE  /\ Head(todo) \in Container
         /\ ToSet(Held(Head(todo))) \subseteq heap
         /\ IsInjective(Held(Head(todo)))
         /\ FreedInv'
<1> DEFINE x == Head(todo)
           F(y) == ToSet(Held(y))
           left == ToSet(todo)
<1>1. /\ pc = "done" /\ todo # <<>>
      /\ heap' = heap \ F(x)
      /\ todo' = Tail(todo)
  BY Zenon DEF FreeNext
<1>2. /\ todo \in Seq(Container) /\ IsInjective(todo)
      /\ heap = {c \in Client : \A y \in Container \ left : c \notin F(y)}
  BY DEF TestInv, FreedInv, Unfreed
<1>3. /\ x \in Container /\ x \in left /\ IsInjective(Tail(todo))
      /\ ToSet(Tail(todo)) = left \ {x}
  BY <1>1, <1>2, InjectiveTail
<1>4. Tail(todo) \in Seq(Container)
  BY <1>1, <1>2, HeadTailProperties
<1>5. /\ F(x) \subseteq Client /\ IsInjective(Held(x))
      /\ \A y \in Container : F(x) \cap F(y) # {} => x = y
  BY <1>3, HeldOnce DEF TestInv
<1>6. \A y \in Container : F(y)' = F(y)
  BY DEF FreeNext, vars, queues, serving, Held
<1>7. pc' = "done"
  BY <1>1 DEF FreeNext, vars
<1>8. Unfreed' = {c \in Client : \A y \in Container \ (left \ {x}) : c \notin F(y)}
  <2>1. Unfreed' = {c \in Client : \A y \in Container \ ToSet(todo') : c \notin F(y)'}
    BY DEF Unfreed, Container, ContainersOf
  <2>2. ToSet(todo') = left \ {x}
    BY <1>1, <1>3
  <2> HIDE DEF F, left, x
  <2> QED BY <1>6, <2>1, <2>2
<1> HIDE DEF F, left
<1>9. F(x) \subseteq heap
  BY <1>2, <1>3, <1>5
<1>10. heap' = Unfreed'
  <2> HIDE DEF x
  <2>1. \A y : y \in Container \ (left \ {x}) <=> y \in Container \ left \/ y = x
    BY <1>3
  <2> QED BY <1>1, <1>2, <1>8, <2>1
<1>11. FreedInv'
  <2>1. Container' = Container
    BY DEF Container, ContainersOf
  <2> QED BY <1>1, <1>3, <1>4, <1>7, <1>10, <2>1 DEF FreedInv
<1> QED BY <1>3, <1>5, <1>9, <1>11 DEF F

LEMMA NextKeepsTest == TestInv /\ [TestNext]_testVars => TestInv'
<1>1. ASSUME TestInv, FreeNext PROVE TestInv'
  <2>1. UNCHANGED vars
    BY <1>1, Zenon DEF FreeNext
  <2>2. PlacesInv'
    BY <1>1, <2>1, NextKeepsPlaces, Zenon DEF TestInv
  <2> QED BY <1>1, <2>2, FreeNextFrees DEF TestInv
<1>2. ASSUME TestInv, UNCHANGED testVars PROVE TestInv'
  <2>1. UNCHANGED vars /\ heap' = heap /\ todo' = todo
    BY <1>2 DEF testVars
  <2>2. PlacesInv'
    BY <1>2, <2>1, NextKeepsPlaces, Zenon DEF TestInv
  <2>3. FreedInv'
    BY <1>2, <2>1 DEF TestInv, FreedInv, Unfreed, Container, ContainersOf, Containers,
                      ServerFree, Held, vars, queues, serving
  <2> QED BY <2>2, <2>3 DEF TestInv
<1> QED BY <1>1, <1>2, SimulateKeepsTest, Zenon DEF TestNext, TestStep

LEMMA TestInvariance == TestSpec => []TestInv
  BY InitTest, NextKeepsTest, PTL DEF TestSpec

-----------------------------------------------------------------------------
(***************************************************************************)
(* Theorems                                                                *)
(***************************************************************************)
\* No test of main.c frees a client twice, for any number of servers and
\* clients, wherever the simulation ends and whichever pushes fail.
THEOREM FreedOnce == TestSpec => NoDoubleFree
<1>1. TestInv /\ [TestNext]_testVars =>
        [todo' # todo => /\ ToSet(Held(Head(todo))) \subseteq heap
                         /\ IsInjective(Held(Head(todo)))]_testVars
  <2> SUFFICES ASSUME TestInv, [TestNext]_testVars, todo' # todo
               PROVE  /\ ToSet(Held(Head(todo))) \subseteq heap
                      /\ IsInjective(Held(Head(todo)))
    BY Zenon
  <2>1. FreeNext
    BY DEF TestNext, TestStep, Simulate, testVars
  <2> QED BY <2>1, FreeNextFrees
<1> QED BY <1>1, TestInvariance, PTL DEF TestSpec, NoDoubleFree

\* A test that gets to its end has freed every client it could still reach.
THEOREM ReachedAreFreed == TestSpec => []AllFreed
<1>1. TestInv => AllFreed
  <2> SUFFICES ASSUME TestInv, todo = <<>>
               PROVE  heap = {c \in Client : Places(c) = {}}
    BY DEF AllFreed
  <2>1. ToSet(todo) = {}
    BY DEF ToSet
  <2>2. heap = {c \in Client : \A x \in Container : c \notin ToSet(Held(x))}
    BY <2>1 DEF TestInv, FreedInv, Unfreed
  <2>3. TypeOK
    BY DEF TestInv, PlacesInv, Inv
  <2>4. ASSUME NEW c \in Client, NEW x \in Container, c \in ToSet(Held(x))
        PROVE  Places(c) # {}
    <3>1. Positions(Held(x), c) # {}
      BY <2>3, <2>4, HeldAre, PositionsAre
    <3> QED BY <2>3, <3>1, HeldAre
  <2>5. \A c \in Client : Places(c) # {} => \E x \in Container : c \in ToSet(Held(x))
    BY <2>3, PlacesAreHeld
  <2> QED BY <2>2, <2>4, <2>5
<1> QED BY <1>1, TestInvariance, PTL

\* So nothing leaks unless a push fails.
THEOREM NoLeak == FullSizes = {} => (TestSpec => [](todo = <<>> => heap = {}))
<1> SUFFICES ASSUME FullSizes = {} PROVE TestSpec => [](todo = <<>> => heap = {})
  OBVIOUS
<1>1. TestInv => NoClientLost
  BY AllHeld DEF TestInv
<1>2. AllFreed /\ NoClientLost => (todo = <<>> => heap = {})
  BY DEF AllFreed, NoClientLost
<1> QED BY <1>1, <1>2, TestInvariance, ReachedAreFreed, PTL

\* What is left of a whole test: the simulation, and one step per container.
TestStepsLeft == StepsLeft + Len(todo)
TestInBudget == TestStepsLeft \in Nat

LEMMA TestTakesOne ==
  ASSUME TestInv, TestInv', TurnIsServers, TestStep
  PROVE  TurnIsServers' /\ TestStepsLeft' < TestStepsLeft
<1>1. /\ Inv /\ Inv' /\ todo \in Seq(Container) /\ Len(todo) \in Nat
      /\ Len(todo') \in Nat
  BY LenProperties DEF TestInv, FreedInv, PlacesInv
<1>2. SimulationTime * TickSteps \in Nat
  BY TicksMultiply
<1>3. (Inv /\ TurnIsServers => StepsInBudget) /\ (Inv' /\ TurnIsServers' => StepsInBudget')
  BY BudgetHolds, PTL
<1>4. StepsLeft \in Int
  BY <1>1, <1>2, <1>3 DEF StepsInBudget
<1>5. CASE Simulate
  <2>1. TurnIsServers' /\ StepsLeft' < StepsLeft /\ todo' = todo
    BY <1>1, <1>5, StepTakesOne DEF Simulate
  <2>2. StepsLeft' \in Int
    BY <1>1, <1>2, <1>3, <2>1 DEF StepsInBudget, TickSteps
  <2> QED BY <1>1, <1>4, <2>1, <2>2 DEF TestStepsLeft
<1>6. CASE FreeNext
  <2>1. UNCHANGED vars /\ todo # <<>> /\ todo' = Tail(todo)
    BY <1>6, Zenon DEF FreeNext
  <2>2. TurnIsServers' /\ StepsLeft' = StepsLeft
    BY <2>1 DEF vars, TurnIsServers, StepsLeft
  <2>3. Len(todo') = Len(todo) - 1
    BY <1>1, <2>1, HeadTailProperties
  <2> QED BY <1>1, <1>4, <2>2, <2>3 DEF TestStepsLeft
<1> QED BY <1>5, <1>6 DEF TestStep

\* A test ends after as many steps as its simulation takes and one for each
\* container that is freed, wherever its simulation ends (main.c:44-105).
THEOREM TestIsFinite ==
  TestSpec => []TestInBudget /\ [][TestStepsLeft' < TestStepsLeft]_testVars
<1>1. TestInit => TurnIsServers
  BY Zenon DEF TestInit, Init, TurnIsServers
<1>2. TestInv /\ TestInv' /\ TurnIsServers /\ [TestNext]_testVars => TurnIsServers'
  <2>1. ASSUME TurnIsServers, UNCHANGED testVars PROVE TurnIsServers'
    BY <2>1 DEF testVars, vars, TurnIsServers
  <2> QED BY <2>1, TestTakesOne DEF TestNext
<1>3. TestInv /\ TestInv' /\ TurnIsServers /\ [TestNext]_testVars
        => [TestStepsLeft' < TestStepsLeft]_testVars
  BY TestTakesOne DEF TestNext
<1>4. TestInv /\ TurnIsServers => TestInBudget
  <2> SUFFICES ASSUME TestInv, TurnIsServers PROVE TestInBudget
    OBVIOUS
  <2>1. Inv /\ todo \in Seq(Container) /\ Len(todo) \in Nat
    BY LenProperties DEF TestInv, FreedInv, PlacesInv
  <2>2. StepsInBudget /\ SimulationTime * TickSteps \in Nat
    BY <2>1, BudgetHolds, TicksMultiply
  <2> QED BY <2>1, <2>2 DEF StepsInBudget, TestInBudget, TestStepsLeft
<1> QED BY <1>1, <1>2, <1>3, <1>4, TestInvariance, PTL DEF TestSpec

=============================================================================
