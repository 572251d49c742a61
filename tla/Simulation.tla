----------------------------- MODULE Simulation -----------------------------
(***************************************************************************)
(* One run of the discrete-time simulator: simulate and system_tick of     *)
(* src/src/system.c together with the servers of src/src/server.c they     *)
(* drive.  A tick admits at most one client and joins it to a server, lets *)
(* time pass at every server, and then gives every server its turn, in the *)
(* order standard servers first, to finish, retry or start a service and   *)
(* to update its statistics.                                               *)
(*                                                                         *)
(* The program is sequential; what is nondeterministic is the clients that *)
(* clients_init drew, whether each service succeeds (rand) and, where a    *)
(* queue may be full, whether realloc finds memory.  A queue_t is the      *)
(* sequence of its elements, oldest first, which QueueProofs justifies.    *)
(* Clients are numbered from 1 in the order clients_init makes them; the   *)
(* client_t with id n is client n + 1.                                     *)
(***************************************************************************)
EXTENDS Integers, SequencesExt

CONSTANTS
  NStandard, NRobotic,  \* standard_servers_size, robotic_servers_size
  SimulationTime,       \* params.simulation_time
  NumClients,           \* length of system_clients when the run starts
  ArrivalTimes,         \* the ticks at which a client may arrive
  DisabilityType,       \* the disability types and
  Destination,          \* the destinations that occur
  ServiceTime,          \* service_time_table, <<type, destination>> to ticks
  BoostNum, BoostDen,   \* boost_rate of the robotic servers, as a fraction
  IntMax,               \* the largest int
  FullSizes,            \* sizes at which a queue is full and cannot grow
  Junk                  \* the value of memory that was never written

NO_DISABILITY == 0
TYPE_1 == 2
TYPE_2 == 3
TYPE_3 == 4
DEST_1 == 0
DEST_2 == 1

ASSUME ServersAssumption == NStandard \in Nat /\ NRobotic \in Nat
ASSUME TimeAssumption == SimulationTime \in Nat
\* clients_init draws arrival times from 1 on and below the finish time.
ASSUME ClientsAssumption ==
  /\ NumClients \in Nat
  /\ ArrivalTimes \subseteq 1 .. SimulationTime - 1
ASSUME TableAssumption ==
  ServiceTime \in [DisabilityType \X Destination -> 1 .. IntMax]
ASSUME BoostAssumption == BoostNum \in Nat \ {0} /\ BoostDen \in Nat \ {0}
ASSUME MachineAssumption ==
  IntMax \in Nat /\ FullSizes \subseteq Nat /\ Junk \in Int

\* The service_time_table that init_table makes.
InitTable ==
  [k \in {NO_DISABILITY, TYPE_1, TYPE_2, TYPE_3} \X {DEST_1, DEST_2} |->
     CASE k = <<NO_DISABILITY, DEST_1>> -> 4
       [] k = <<NO_DISABILITY, DEST_2>> -> 6
       [] k = <<TYPE_1, DEST_1>>        -> 8
       [] k = <<TYPE_1, DEST_2>>        -> 10
       [] k = <<TYPE_2, DEST_1>>        -> 10
       [] k = <<TYPE_2, DEST_2>>        -> 14
       [] k = <<TYPE_3, DEST_1>>        -> 18
       [] k = <<TYPE_3, DEST_2>>        -> 16]

NumServers == NStandard + NRobotic
Standard == 1 .. NStandard
Robotic == NStandard + 1 .. NumServers
Server == 1 .. NumServers
Client == 1 .. NumClients
NoClient == 0           \* a NULL client_t pointer

VARIABLES
  pc,                     \* the next step of simulate
  clock,                  \* t of simulate, current_time elsewhere
  turn,                   \* the server update_clients is about to visit
  drawn,                  \* what clients_init drew for each client
  system_clients,         \* the clients still to arrive
  total_clients,          \* stat->total_clients
  client_queue,           \* of each standard server
  disable_client_queue,   \* of each robotic server
  normal_client_queue,
  current_client,         \* of each server
  to_serve,
  finished_clients_queue,
  service_stat,           \* service_stat of each client
  server_stat             \* stat of each server

queues == <<client_queue, disable_client_queue, normal_client_queue>>
serving == <<current_client, to_serve, finished_clients_queue>>
vars == <<pc, clock, turn, drawn, system_clients, total_clients, queues,
          serving, service_stat, server_stat>>

Draw == [arrival_time : ArrivalTimes, disability_type : DisabilityType,
         destination : Destination]

\* The types client_service_stat_t and server_stat_t.
ServiceStat ==
  [arrival_time : Nat, wait_time : Int, start_service_time : Nat,
   finish_time : Nat, failure_count : Nat, total_time : Int]
ServerStat ==
  [active_time : Nat, idle_time : Nat, client_served : Nat,
   failure_count : Nat, sum_queue_lens : Int, mean_server_queue_len : Int]

\* A zeroed client_service_stat_t and server_stat_t.
NoService ==
  [arrival_time |-> 0, wait_time |-> 0, start_service_time |-> 0,
   finish_time |-> 0, failure_count |-> 0, total_time |-> 0]
NoActivity ==
  [active_time |-> 0, idle_time |-> 0, client_served |-> 0,
   failure_count |-> 0, sum_queue_lens |-> 0, mean_server_queue_len |-> 0]

\* clients_init leaves the clients in the order of distinct arrival times;
\* standard_server_new, robotic_server_new make the servers.
Init ==
  /\ pc = "begin" /\ clock = 0 /\ turn = 1
  /\ \E arrival \in [Client -> ArrivalTimes] :
       /\ \A c, d \in Client : c < d => arrival[c] < arrival[d]
       /\ \E kind \in [Client -> DisabilityType \X Destination] :
            drawn = [c \in Client |-> [arrival_time    |-> arrival[c],
                                       disability_type |-> kind[c][1],
                                       destination     |-> kind[c][2]]]
  /\ system_clients = [c \in Client |-> c]
  /\ total_clients = Junk
  /\ client_queue = [s \in Standard |-> <<>>]
  /\ disable_client_queue = [s \in Robotic |-> <<>>]
  /\ normal_client_queue = [s \in Robotic |-> <<>>]
  /\ current_client = [s \in Server |-> NoClient]
  /\ to_serve = [s \in Server |-> Junk]
  /\ finished_clients_queue = [s \in Server |-> <<>>]
  /\ service_stat =
       [c \in Client |-> [NoService EXCEPT !.arrival_time = drawn[c].arrival_time,
                                           !.total_time = Junk]]
  /\ server_stat = [s \in Server |-> NoActivity]

-----------------------------------------------------------------------------
(***************************************************************************)
(* Helpers                                                                 *)
(***************************************************************************)
PushedIfEmpty(q, c) == {IF q = <<>> THEN <<c>> ELSE q}

\* What a queue_push whose result is ignored may leave of queue q.
Pushed(q, c) == {Append(q, c)} \cup (IF Len(q) \in FullSizes THEN {q} ELSE {})

\* The int that an out-of-range sum is stored as, and the int division of C.
ToInt(n) == ((n + IntMax + 1) % (2 * (IntMax + 1))) - (IntMax + 1)
Quotient(a, b) == IF a >= 0 THEN a \div b ELSE -((-a) \div b)

IsDisabled(c) == drawn[c].disability_type # NO_DISABILITY

\* get_service_time: the boosted time of a robotic server, a double, is cut
\* to an int.  One that no int can hold is undefined in C; the conversion of
\* x86 makes it the smallest int.
Boosted(t) ==
  LET cut == (t * BoostDen) \div BoostNum
  IN  IF cut <= IntMax THEN cut ELSE -IntMax - 1
GetServiceTime(s, c) ==
  LET t == ServiceTime[drawn[c].disability_type, drawn[c].destination]
  IN  IF s \in Robotic THEN Boosted(t) ELSE t

\* server_get_load of server s for a client like c.
Load(s, c) ==
  IF s \in Standard THEN Len(client_queue[s])
  ELSE IF IsDisabled(c) THEN Len(disable_client_queue[s])
  ELSE Len(normal_client_queue[s]) + Len(disable_client_queue[s])

\* The first of the servers S with the lowest load.
LowLoad(s, S, c) ==
  /\ s \in S
  /\ \A r \in S : \/ Load(s, c) < Load(r, c)
                 \/ (Load(s, c) = Load(r, c) /\ s <= r)

HighLoad(s, S, c) ==
  /\ s \in S
  /\ \A r \in S : \/ Load(s, c) > Load(r, c)
                 \/ (Load(s, c) = Load(r, c) /\ s <= r)

AssignedToHighLoad(s, c) ==
  \/ /\ HighLoad(s, Robotic, c)
     /\ IsDisabled(c) \/ \A r \in Standard : Load(s, c) > Load(r, c)
  \/ /\ HighLoad(s, Standard, c)
     /\ \/ Robotic = {}
        \/ (~IsDisabled(c) /\ \A r \in Robotic : Load(s, c) >= Load(r, c))

\* assign_client picks server s.
AssignedTo(s, c) ==
  \/ /\ LowLoad(s, Robotic, c)
     /\ IsDisabled(c) \/ \A r \in Standard : Load(s, c) < Load(r, c)
  \/ /\ LowLoad(s, Standard, c)
     /\ \/ Robotic = {}
        \/ (~IsDisabled(c) /\ \A r \in Robotic : Load(s, c) <= Load(r, c))

CallsNormalFirst(s) == s \in Robotic /\ normal_client_queue[s] = <<>>

\* Server s calls a disabled client next, if any client.
CallsDisabled(s) == s \in Robotic /\ disable_client_queue[s] # <<>>

\* The queue server s takes its next client from.
NextQueue(s) ==
  IF s \in Standard THEN client_queue[s]
  ELSE IF CallsDisabled(s) THEN disable_client_queue[s]
  ELSE normal_client_queue[s]

QueueLenAndCurrent(s) ==
  (IF s \in Standard THEN Len(client_queue[s])
   ELSE Len(normal_client_queue[s]) + Len(disable_client_queue[s]))
  + IF current_client[s] = NoClient THEN 0 ELSE 1

QueueLen(s) ==
  IF s \in Standard THEN Len(client_queue[s])
  ELSE Len(normal_client_queue[s]) + Len(disable_client_queue[s])

-----------------------------------------------------------------------------
(***************************************************************************)
(* simulate, system_tick                                                   *)
(***************************************************************************)
AtTickInclusive(n) == pc' = IF n <= SimulationTime THEN "admit" ELSE "done"

\* The loop test of simulate for t = n.
AtTick(n) == pc' = IF n < SimulationTime THEN "admit" ELSE "done"

\* simulate reads standard_servers[0] before it checks its arguments, so a
\* system of robotic servers only does not get past its first statement.
Begin ==
  /\ pc = "begin"
  /\ IF NStandard = 0
     THEN pc' = "aborted" /\ UNCHANGED total_clients
     ELSE AtTick(0) /\ total_clients' = Len(system_clients)
  /\ UNCHANGED <<clock, turn, drawn, system_clients, queues, serving,
                 service_stat, server_stat>>

ArrivesAfterwards(c) ==
  /\ system_clients # <<>>
  /\ c = Head(system_clients)
  /\ service_stat[c].arrival_time + 1 = clock

\* get_client only looks at the head of the queue.
Arrives(c) ==
  /\ system_clients # <<>>
  /\ c = Head(system_clients)
  /\ service_stat[c].arrival_time = clock

AdmitNobody ==
  /\ pc = "admit"
  /\ ~\E c \in Client : Arrives(c)
  /\ pc' = "serve"
  /\ UNCHANGED <<clock, turn, drawn, system_clients, total_clients, queues,
                 serving, service_stat, server_stat>>

\* server_assign_client
JoinQueue(s, c) ==
  \/ /\ s \in Standard
     /\ \E q \in Pushed(client_queue[s], c) :
          client_queue' = [client_queue EXCEPT ![s] = q]
     /\ UNCHANGED <<disable_client_queue, normal_client_queue>>
  \/ /\ s \in Robotic /\ IsDisabled(c)
     /\ \E q \in Pushed(disable_client_queue[s], c) :
          disable_client_queue' = [disable_client_queue EXCEPT ![s] = q]
     /\ UNCHANGED <<client_queue, normal_client_queue>>
  \/ /\ s \in Robotic /\ ~IsDisabled(c)
     /\ \E q \in Pushed(normal_client_queue[s], c) :
          normal_client_queue' = [normal_client_queue EXCEPT ![s] = q]
     /\ UNCHANGED <<client_queue, disable_client_queue>>

\* get_client takes the client out and zeroes its service_stat, the arrival
\* time with it; assign_client joins it to a server.
Admit(s, c) ==
  /\ pc = "admit"
  /\ Arrives(c)
  /\ AssignedTo(s, c)
  /\ system_clients' = Tail(system_clients)
  /\ service_stat' = [service_stat EXCEPT ![c] = NoService]
  /\ JoinQueue(s, c)
  /\ pc' = "serve"
  /\ UNCHANGED <<clock, turn, drawn, total_clients, serving, server_stat>>

UpdateServeTimeIdleAtEnd ==
  /\ pc = "serve"
  /\ pc' = IF \A s \in Server : current_client[s] # NoClient => to_serve[s] > 0
           THEN "update" ELSE "aborted"
  /\ to_serve' = [s \in Server |->
       IF current_client[s] # NoClient THEN to_serve[s] - 1 ELSE to_serve[s]]
  /\ server_stat' = [s \in Server |->
       IF current_client[s] # NoClient /\ to_serve[s] > 1
       THEN [server_stat[s] EXCEPT !.active_time = @ + 1]
       ELSE [server_stat[s] EXCEPT !.idle_time = @ + 1]]
  /\ UNCHANGED <<clock, turn, drawn, system_clients, total_clients, queues,
                 current_client, finished_clients_queue, service_stat>>

\* servers_update_serve_time: server_tick of every server, which asserts
\* that a client being served has time left to be served.
ServersUpdateServeTime ==
  /\ pc = "serve"
  /\ pc' = IF \A s \in Server : current_client[s] # NoClient => to_serve[s] > 0
           THEN "update" ELSE "aborted"
  /\ to_serve' = [s \in Server |->
       IF current_client[s] # NoClient THEN to_serve[s] - 1 ELSE to_serve[s]]
  /\ server_stat' = [s \in Server |->
       IF current_client[s] # NoClient
       THEN [server_stat[s] EXCEPT !.active_time = @ + 1]
       ELSE [server_stat[s] EXCEPT !.idle_time = @ + 1]]
  /\ UNCHANGED <<clock, turn, drawn, system_clients, total_clients, queues,
                 current_client, finished_clients_queue, service_stat>>

-----------------------------------------------------------------------------
(***************************************************************************)
(* update_clients, one server at a time                                    *)
(***************************************************************************)
IsTurnOf(s) == pc = "update" /\ turn = s

ServiceFinishedLate(s) == current_client[s] # NoClient /\ to_serve[s] < 0

\* is_service_finished
ServiceFinished(s) == current_client[s] # NoClient /\ to_serve[s] = 0

PopNextFromTheOther(s) ==
  \/ /\ s \in Standard
     /\ client_queue' = [client_queue EXCEPT ![s] = Tail(@)]
     /\ UNCHANGED <<disable_client_queue, normal_client_queue>>
  \/ /\ s \in Robotic /\ normal_client_queue[s] # <<>>
     /\ normal_client_queue' = [normal_client_queue EXCEPT ![s] = Tail(@)]
     /\ UNCHANGED <<client_queue, disable_client_queue>>
  \/ /\ s \in Robotic /\ normal_client_queue[s] = <<>>
     /\ disable_client_queue' = [disable_client_queue EXCEPT ![s] = Tail(@)]
     /\ UNCHANGED <<client_queue, normal_client_queue>>

\* The queue_pop of the queue that NextQueue is.
PopNext(s) ==
  \/ /\ s \in Standard
     /\ client_queue' = [client_queue EXCEPT ![s] = Tail(@)]
     /\ UNCHANGED <<disable_client_queue, normal_client_queue>>
  \/ /\ CallsDisabled(s)
     /\ disable_client_queue' = [disable_client_queue EXCEPT ![s] = Tail(@)]
     /\ UNCHANGED <<client_queue, normal_client_queue>>
  \/ /\ s \in Robotic /\ ~CallsDisabled(s)
     /\ normal_client_queue' = [normal_client_queue EXCEPT ![s] = Tail(@)]
     /\ UNCHANGED <<client_queue, disable_client_queue>>

SetNextClientKeeping(s, stats) ==
  \/ /\ NextQueue(s) = <<>>
     /\ to_serve' = [to_serve EXCEPT ![s] = 0]
     /\ service_stat' = stats
     /\ UNCHANGED <<queues, current_client>>
  \/ /\ NextQueue(s) # <<>>
     /\ LET next == Head(NextQueue(s)) IN
        /\ current_client' = [current_client EXCEPT ![s] = next]
        /\ to_serve' = [to_serve EXCEPT ![s] = GetServiceTime(s, next)]
        /\ service_stat' = stats
     /\ PopNext(s)

\* server_set_next_client, `stats' being the service_stat it finds.
SetNextClient(s, stats) ==
  \/ /\ NextQueue(s) = <<>>
     /\ current_client' = [current_client EXCEPT ![s] = NoClient]
     /\ to_serve' = [to_serve EXCEPT ![s] = 0]
     /\ service_stat' = stats
     /\ UNCHANGED queues
  \/ /\ NextQueue(s) # <<>>
     /\ LET next == Head(NextQueue(s)) IN
        /\ current_client' = [current_client EXCEPT ![s] = next]
        /\ to_serve' = [to_serve EXCEPT ![s] = GetServiceTime(s, next)]
        /\ service_stat' = [stats EXCEPT
             ![next].start_service_time = clock,
             ![next].wait_time = clock - stats[next].arrival_time]
     /\ PopNext(s)

\* robotic_server_set_next_client asserts that the time to serve is positive.
StartAssertFails(s) ==
  /\ s \in Robotic /\ NextQueue(s) # <<>>
  /\ ~(GetServiceTime(s, Head(NextQueue(s))) > 0)

\* What follows the turn of server s: the next server or the next tick.
NextTurn(s) ==
  \/ s < NumServers /\ turn' = s + 1 /\ UNCHANGED <<pc, clock>>
  \/ s = NumServers /\ turn' = 1 /\ clock' = clock + 1 /\ AtTick(clock + 1)

\* server_update_stat, `stat' being the stat it finds.  For a standard
\* server it asserts that the mean is not negative.
EndTurn(s, stat) ==
  LET sum  == ToInt(stat.sum_queue_lens + QueueLen(s)')
      mean == Quotient(sum, clock + 1)
  IN  /\ server_stat' = [server_stat EXCEPT ![s] =
           [stat EXCEPT !.sum_queue_lens = sum, !.mean_server_queue_len = mean]]
      /\ IF s \in Standard /\ mean < 0
         THEN pc' = "aborted" /\ UNCHANGED <<turn, clock>>
         ELSE NextTurn(s)
      /\ UNCHANGED <<drawn, system_clients, total_clients>>

\* server_finalize_current_client and client_finalize, then the next client.
Finish(s) ==
  /\ IsTurnOf(s) /\ ServiceFinished(s) /\ ~StartAssertFails(s)
  /\ LET c == current_client[s]
         finished == finished_clients_queue[s]
     IN  /\ \E q \in Pushed(finished, c) :
              finished_clients_queue' = [finished_clients_queue EXCEPT ![s] = q]
         /\ SetNextClient(s,
              [service_stat EXCEPT ![c].finish_time = clock,
                                   ![c].total_time = clock - service_stat[c].arrival_time])
  /\ EndTurn(s, [server_stat[s] EXCEPT !.client_served = @ + 1])

RetryUncounted(s) ==
  /\ IsTurnOf(s) /\ ServiceFinished(s)
  /\ to_serve' = [to_serve EXCEPT ![s] = GetServiceTime(s, current_client[s])]
  /\ UNCHANGED <<queues, current_client, finished_clients_queue, service_stat>>
  /\ EndTurn(s, [server_stat[s] EXCEPT !.failure_count = @ + 1])

\* server_retry: the service failed and starts again.
Retry(s) ==
  /\ IsTurnOf(s) /\ ServiceFinished(s)
  /\ service_stat' = [service_stat EXCEPT ![current_client[s]].failure_count = @ + 1]
  /\ to_serve' = [to_serve EXCEPT ![s] = GetServiceTime(s, current_client[s])]
  /\ UNCHANGED <<queues, current_client, finished_clients_queue>>
  /\ EndTurn(s, [server_stat[s] EXCEPT !.failure_count = @ + 1])

Continue(s) ==
  /\ IsTurnOf(s) /\ current_client[s] # NoClient /\ ~ServiceFinished(s)
  /\ UNCHANGED <<queues, serving, service_stat>>
  /\ EndTurn(s, server_stat[s])

StartNextStuck(s) ==
  /\ IsTurnOf(s) /\ current_client[s] = NoClient /\ ~StartAssertFails(s)
  /\ SetNextClient(s, service_stat)
  /\ UNCHANGED finished_clients_queue
  /\ IF NextQueue(s) = <<>>
     THEN UNCHANGED <<pc, turn, clock, server_stat, drawn, system_clients, total_clients>>
     ELSE EndTurn(s, server_stat[s])

StartNobody(s) ==
  /\ IsTurnOf(s) /\ current_client[s] = NoClient /\ ~StartAssertFails(s)
  /\ UNCHANGED <<queues, serving, service_stat>>
  /\ EndTurn(s, server_stat[s])

\* An inactive server looks for a client.
StartNext(s) ==
  /\ IsTurnOf(s) /\ current_client[s] = NoClient /\ ~StartAssertFails(s)
  /\ SetNextClient(s, service_stat)
  /\ UNCHANGED finished_clients_queue
  /\ EndTurn(s, server_stat[s])

StartAborts(s) ==
  /\ IsTurnOf(s) /\ (current_client[s] = NoClient \/ ServiceFinished(s))
  /\ StartAssertFails(s)
  /\ pc' = "aborted"
  /\ UNCHANGED <<clock, turn, drawn, system_clients, total_clients, queues,
                 serving, service_stat, server_stat>>

UpdateClient(s) == Finish(s) \/ Retry(s) \/ Continue(s) \/ StartNext(s) \/ StartAborts(s)

Stopped == pc \in {"done", "aborted"}

Step ==
  \/ Begin
  \/ AdmitNobody
  \/ \E s \in Server, c \in Client : Admit(s, c)
  \/ ServersUpdateServeTime
  \/ \E s \in Server : UpdateClient(s)

Next == Step \/ (Stopped /\ UNCHANGED vars)

\* The program is one thread and never waits.
Spec == Init /\ [][Next]_vars /\ WF_vars(Step)

-----------------------------------------------------------------------------
(***************************************************************************)
(* Properties                                                              *)
(***************************************************************************)
Queue(s) ==
  IF s \in Standard THEN ToSet(client_queue[s])
  ELSE ToSet(disable_client_queue[s]) \cup ToSet(normal_client_queue[s])
Finished(s) == ToSet(finished_clients_queue[s])
Current(s) == {current_client[s]} \ {NoClient}

\* A turn is under way, or was when an assertion in it failed.
InTurn == pc = "update" \/ (pc = "aborted" /\ NStandard > 0)
\* The number of updates of server s that have been completed.
Updates(s) == IF InTurn /\ turn > s THEN clock + 1 ELSE clock
\* The number of server_ticks that have been completed.
Ticks == IF InTurn THEN clock + 1 ELSE clock

\* Every variable has its type.
TypeOK ==
  /\ pc \in {"begin", "admit", "serve", "update", "done", "aborted"}
  /\ clock \in 0 .. SimulationTime
  /\ turn \in Nat
  /\ drawn \in [Client -> Draw]
  /\ system_clients \in Seq(Client)
  /\ total_clients \in Int
  /\ client_queue \in [Standard -> Seq(Client)]
  /\ disable_client_queue \in [Robotic -> Seq(Client)]
  /\ normal_client_queue \in [Robotic -> Seq(Client)]
  /\ current_client \in [Server -> Client \cup {NoClient}]
  /\ to_serve \in [Server -> Int]
  /\ finished_clients_queue \in [Server -> Seq(Client)]
  /\ service_stat \in [Client -> ServiceStat]
  /\ server_stat \in [Server -> ServerStat]

\* No arrival is missed: the clients still to come are the last ones, and
\* none of them should have been admitted in an earlier tick.  get_client
\* admits at most one client per tick and tests the arrival time of the
\* head for equality (system.c:17-22), so one client it passed over would
\* shut out every later one for the rest of the run.
NoArrivalMissed ==
  \A k \in 1 .. Len(system_clients) :
    /\ system_clients[k] = NumClients - Len(system_clients) + k
    /\ drawn[system_clients[k]].arrival_time >=
         IF pc \in {"serve", "update"} THEN clock + 1 ELSE clock

\* Where client c can be found.
Positions(q, c) == {k \in 1 .. Len(q) : q[k] = c}
Places(c) ==
  {<<0, "system", k>> : k \in Positions(system_clients, c)}
  \cup (UNION {{<<s, "client", k>> : k \in Positions(client_queue[s], c)} : s \in Standard})
  \cup (UNION {{<<s, "disable", k>> : k \in Positions(disable_client_queue[s], c)} :
                 s \in Robotic})
  \cup (UNION {{<<s, "normal", k>> : k \in Positions(normal_client_queue[s], c)} :
                 s \in Robotic})
  \cup {<<s, "current", 1>> : s \in {r \in Server : current_client[r] = c}}
  \cup (UNION {{<<s, "finished", k>> : k \in Positions(finished_clients_queue[s], c)} :
                 s \in Server})

\* While no push fails, no client_t is lost on its way through the simulator:
\* each is still to come, in a queue, being served or finished.
NoClientLost == \A c \in Client : Places(c) # {}

\* However little memory there is, no client_t is in two places or twice in
\* one: a push whose failure goes unnoticed (server.c:105, 114, 119, 438) may
\* lose a client, but two servers never hold the same one.
NoClientTwice == \A c \in Client : \A p, q \in Places(c) : p = q

\* The time a client took from the start of its service is the time its kind
\* takes at that server once for every failed attempt and once more for the
\* successful one; of a client still being served, the part that has passed.
\* No tick is lost or counted twice between server_tick, server_retry and
\* server_set_next_client.
ServiceTimesAddUp ==
  \A s \in Server :
    /\ \A c \in Finished(s) :
         service_stat[c].finish_time - service_stat[c].start_service_time =
           (service_stat[c].failure_count + 1) * GetServiceTime(s, c)
    /\ \A c \in Current(s) :
         Ticks - 1 - service_stat[c].start_service_time =
           (service_stat[c].failure_count + 1) * GetServiceTime(s, c) - to_serve[s]

\* The statistics of a server agree with those of the clients it served:
\* active_time is the time of their services, active_time and idle_time make
\* up the time that has passed, and served and failed attempts are theirs.
ServerStatsAddUp ==
  \A s \in Server :
    LET stat == server_stat[s]
        clients == Finished(s) \cup Current(s)
        end(c) == IF c \in Finished(s) THEN service_stat[c].finish_time ELSE Ticks - 1
    IN  /\ stat.active_time + stat.idle_time = Ticks
        /\ stat.active_time =
             SumFunction([c \in clients |-> end(c) - service_stat[c].start_service_time])
        /\ stat.client_served = Len(finished_clients_queue[s])
        /\ stat.failure_count =
             SumFunction([c \in clients |-> service_stat[c].failure_count])

\* Little's law: the sum of the lengths of a server's queue over the ticks is
\* the sum over its clients of the ticks they waited.  The left side is what
\* update_stat accumulates, the right side is known only from the times at
\* which clients came and were called.
LittlesLaw ==
  \A s \in Server :
    LET called == Finished(s) \cup Current(s)
        waited(c) == (IF c \in called THEN service_stat[c].start_service_time
                      ELSE Updates(s)) - drawn[c].arrival_time
    IN  server_stat[s].sum_queue_lens =
          SumFunction([c \in called \cup Queue(s) |-> waited(c)])

\* The stage of each client in the sense of ServiceDesk, and its server.
Stage == [c \in Client |->
  IF c \in ToSet(system_clients) THEN "outside"
  ELSE IF \E s \in Server : c \in Queue(s) THEN "waiting"
  ELSE IF \E s \in Server : c \in Current(s) THEN "served"
  ELSE "gone"]

Desk == [c \in Client |->
  IF c \in ToSet(system_clients) THEN 0
  ELSE CHOOSE s \in Server : c \in Queue(s) \cup Current(s) \cup Finished(s)]

\* The servers update_clients has visited in this tick; all, when it is over.
Visited == IF pc = "update" THEN {s \in Server : s < turn} ELSE Server

DESK == INSTANCE ServiceDesk WITH
  disabled <- {c \in Client : IsDisabled(c)}, stage <- Stage, desk <- Desk,
  visited <- Visited, open <- ~Stopped

\* The simulator serves its clients as ServiceDesk promises.  assign_client
\* sends a client to a server with the fewest clients ahead of it.  In every
\* tick each server has one turn, in which a server that has nobody to serve,
\* or no longer, calls whoever is first in line: the earliest there, at a
\* robotic server the earliest of the disabled if any waits.  A service that
\* has begun is not interrupted, and nobody changes servers.
ImplementsServiceDesk == DESK!Spec

\* wait_time counts from the arrival of the client, as the fields of
\* client_service_stat_t that README.md says track it suggest.
WaitTimeIsSinceArrival ==
  \A s \in Server : \A c \in Finished(s) :
    service_stat[c].wait_time =
      service_stat[c].start_service_time - drawn[c].arrival_time

\* No assertion fails and the run is not cut short.
NeverAborts == pc # "aborted"

\* The run ends.
Terminates == <>Stopped

=============================================================================
