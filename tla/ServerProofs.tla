---------------------------- MODULE ServerProofs ----------------------------
(***************************************************************************)
(* Proofs about what the servers of Simulation keep account of, for every  *)
(* number of servers, clients and ticks and every table of service times:  *)
(* that the times of the services add up, that no assertion fails, and     *)
(* that the statistics they add to tick by tick agree with those of their  *)
(* clients: the time of their services, the failures, and by Little's law  *)
(* the lengths of their queues.                                            *)
(***************************************************************************)
EXTENDS SimulationProofs, SumProofs

USE ServersAssumption, TimeAssumption, ClientsAssumption, MachineAssumption

\* The simulation has got past its use of standard_servers[0].
HasServers == pc \notin {"begin", "aborted"} => NStandard > 0

\* Who waits has never been served.
WaitingAreFresh ==
  \A s \in Server : \A c \in Queue(s) : service_stat[c].failure_count = 0

\* The times of the clients of one server.
FinishedTimes(s) ==
  \A c \in Finished(s) :
    service_stat[c].finish_time - service_stat[c].start_service_time =
      (service_stat[c].failure_count + 1) * GetServiceTime(s, c)
CurrentTimes(s) ==
  \A c \in Current(s) :
    Ticks - 1 - service_stat[c].start_service_time =
      (service_stat[c].failure_count + 1) * GetServiceTime(s, c) - to_serve[s]

\* The inductive invariant.
TimesInv ==
  /\ PlacesInv /\ HasServers /\ WaitingAreFresh
  /\ \A s \in Server : FinishedTimes(s) /\ CurrentTimes(s)

-----------------------------------------------------------------------------
(***************************************************************************)
(* What the turns do to the clock and to service_stat                      *)
(***************************************************************************)
\* A service takes as long after a step as before it.
LEMMA SameServiceTime ==
  ASSUME drawn' = drawn
  PROVE  \A s, c : GetServiceTime(s, c)' = GetServiceTime(s, c)
  BY DEF GetServiceTime

\* A turn happens in a tick whose server_ticks are counted, and is counted
\* to the same tick afterwards, whether or not it was the last.
LEMMA EndTurnTicks ==
  ASSUME clock \in Nat, NStandard > 0, pc = "update", NEW s \in Server, NEW stat,
         EndTurn(s, stat)
  PROVE  Ticks = clock + 1 /\ Ticks' = Ticks /\ HasServers'
<1>1. \/ pc' = "update" /\ clock' = clock
      \/ pc' = "aborted" /\ clock' = clock
      \/ pc' \in {"admit", "done"} /\ clock' = clock + 1
  BY DEF EndTurn, NextTurn, AtTick
<1> QED BY <1>1 DEF Ticks, InTurn, HasServers

\* client_finalize writes to one client, and not to its start.
LEMMA FinishedStatsAre ==
  ASSUME service_stat \in [Client -> ServiceStat], clock \in Nat,
         NEW s, current_client[s] \in Client
  PROVE  LET c == current_client[s]
             stats == FinishedStats(s)
         IN  /\ stats \in [Client -> ServiceStat]
             /\ \A d \in Client \ {c} : stats[d] = service_stat[d]
             /\ stats[c].finish_time = clock
             /\ stats[c].start_service_time = service_stat[c].start_service_time
             /\ stats[c].failure_count = service_stat[c].failure_count
<1> DEFINE c == current_client[s]
           total == clock - service_stat[c].arrival_time
           stats == [service_stat EXCEPT ![c] =
                       [@ EXCEPT !.finish_time = clock, !.total_time = total]]
<1>1. FinishedStats(s) = stats
  BY DEF FinishedStats
<1>2. total \in Int /\ service_stat[c] \in ServiceStat
  BY DEF ServiceStat
<1> HIDE DEF c, total
<1>3. c \in Client
  BY DEF c
<1> DEFINE old == service_stat[c]
           new == [old EXCEPT !.finish_time = clock, !.total_time = total]
<1>4. stats[c] = new /\ \A d \in Client \ {c} : stats[d] = service_stat[d]
  BY <1>3
<1>5. /\ new \in ServiceStat /\ new.finish_time = clock
      /\ new.start_service_time = old.start_service_time
      /\ new.failure_count = old.failure_count
  BY <1>2 DEF ServiceStat
<1>6. stats \in [Client -> ServiceStat]
  BY <1>5
<1> HIDE DEF stats, new
<1> QED BY <1>1, <1>4, <1>5, <1>6 DEF c, old

\* server_set_next_client writes to the client it calls, and not to its
\* failures.
LEMMA CallsStats ==
  ASSUME NEW s \in Server, NEW c \in Client, NEW stats \in [Client -> ServiceStat],
         clock \in Nat, Calls(s, c, stats)
  PROVE  /\ \A d \in Client \ {c} : service_stat'[d] = stats[d]
         /\ service_stat'[c].start_service_time = clock
         /\ service_stat'[c].failure_count = stats[c].failure_count
<1> DEFINE wait == clock - stats[c].arrival_time
<1>1. service_stat' = [stats EXCEPT ![c] =
        [@ EXCEPT !.start_service_time = clock, !.wait_time = wait]]
  BY DEF Calls
<1> HIDE DEF wait
<1>2. /\ service_stat'[c] = [stats[c] EXCEPT !.start_service_time = clock, !.wait_time = wait]
      /\ \A d \in Client \ {c} : service_stat'[d] = stats[d]
  BY <1>1
<1>3. stats[c] \in ServiceStat
  OBVIOUS
<1> QED BY <1>2, <1>3 DEF ServiceStat

-----------------------------------------------------------------------------
(***************************************************************************)
(* The service times add up                                                *)
(***************************************************************************)
\* A turn of server s that writes to nobody but the clients of s, and leaves
\* their times in order.
LEMMA KeepsTimes ==
  ASSUME TimesInv, PlacesInv', HasServers', NEW s \in Server,
         drawn' = drawn, Ticks' = Ticks,
         \A r \in Server \ {s} :
           /\ Queue(r)' = Queue(r)
           /\ current_client'[r] = current_client[r]
           /\ to_serve'[r] = to_serve[r]
           /\ finished_clients_queue'[r] = finished_clients_queue[r],
         \A c \in Client \ ClientsOf(s) : service_stat'[c] = service_stat[c],
         \A c \in Queue(s)' : service_stat'[c].failure_count = 0,
         FinishedTimes(s)', CurrentTimes(s)'
  PROVE  TimesInv'
<1>1. ASSUME NEW r \in Server, r # s
      PROVE  /\ Queue(r)' = Queue(r) /\ Current(r)' = Current(r)
             /\ Finished(r)' = Finished(r) /\ to_serve'[r] = to_serve[r]
             /\ \A c \in ClientsOf(r) : service_stat'[c] = service_stat[c]
  <2>1. /\ Queue(r)' = Queue(r) /\ current_client'[r] = current_client[r]
        /\ to_serve'[r] = to_serve[r]
        /\ finished_clients_queue'[r] = finished_clients_queue[r]
    BY <1>1
  <2>2. Current(r)' = Current(r) /\ Finished(r)' = Finished(r)
    BY <2>1 DEF Current, Finished
  <2>3. ClientsOf(r) \cap ClientsOf(s) = {}
    BY <1>1, Zenon DEF TimesInv, PlacesInv, OnePlaceEach
  <2>4. ClientsOf(r) \subseteq Client
    BY ClientsAreAdmitted, BeforeMoves DEF ClientsOf, TimesInv, PlacesInv
  <2> QED BY <2>1, <2>2, <2>3, <2>4
<1>2. ASSUME NEW r \in Server, r # s
      PROVE  /\ \A c \in Queue(r)' : service_stat'[c].failure_count = 0
             /\ FinishedTimes(r)' /\ CurrentTimes(r)'
  <2>1. /\ \A c \in Queue(r) : service_stat[c].failure_count = 0
        /\ FinishedTimes(r) /\ CurrentTimes(r)
    BY DEF TimesInv, WaitingAreFresh
  <2>2. \A c \in Queue(r)' : service_stat'[c].failure_count = 0
    BY <1>1, <1>2, <2>1 DEF ClientsOf
  <2>3. FinishedTimes(r)'
    BY <1>1, <1>2, <2>1, SameServiceTime DEF ClientsOf, FinishedTimes
  <2>4. CurrentTimes(r)'
    BY <1>1, <1>2, <2>1, SameServiceTime DEF ClientsOf, CurrentTimes
  <2> QED BY <2>2, <2>3, <2>4
<1>3. WaitingAreFresh'
  BY <1>2 DEF WaitingAreFresh
<1>4. \A r \in Server : FinishedTimes(r)' /\ CurrentTimes(r)'
  BY <1>2
<1> QED BY <1>3, <1>4 DEF TimesInv

\* What the turns start from.
LEMMA BeforeTimes ==
  ASSUME TimesInv, NEW s \in Server, pc = "update"
  PROVE  /\ PlacesInv /\ Inv /\ clock \in Nat /\ NStandard > 0
         /\ service_stat \in [Client -> ServiceStat]
         /\ ClientsOf(s) \subseteq Client
         /\ \A c \in Client : GetServiceTime(s, c) \in Int
<1>1. PlacesInv /\ Inv /\ NStandard > 0
  BY DEF TimesInv, PlacesInv, HasServers
<1>2. \A c \in Client : GetServiceTime(s, c) \in Int
  BY <1>1, BeforeMoves, ServiceTimeIsInt
<1> QED BY <1>1, <1>2, BeforeMoves, ClientsAreAdmitted DEF ClientsOf

\* The client called next starts in this tick, its queue and its server's
\* other clients keep their times.
LEMMA CalledTimes ==
  ASSUME TimesInv, NEW s \in Server, pc = "update", drawn' = drawn, Ticks' = clock + 1,
         NEW stats \in [Client -> ServiceStat],
         \A c \in Queue(s) : stats[c].failure_count = service_stat[c].failure_count,
         TurnMoves(s, stats)
  PROVE  /\ \A c \in Client \ Queue(s) : service_stat'[c] = stats[c]
         /\ \A c \in Queue(s)' : service_stat'[c].failure_count = 0
         /\ CurrentTimes(s)'
<1>1. \A c \in Queue(s) : c \in Client /\ stats[c].failure_count = 0
  BY BeforeTimes DEF ClientsOf, TimesInv, WaitingAreFresh
<1>2. CASE Rests(s, stats)
  BY <1>2 DEF Rests, CurrentTimes, Current
<1>3. ASSUME NEW c \in Admitted, Calls(s, c, stats)
      PROVE  /\ \A d \in Client \ Queue(s) : service_stat'[d] = stats[d]
             /\ \A d \in Queue(s)' : service_stat'[d].failure_count = 0
             /\ CurrentTimes(s)'
  <2>1. /\ c \in Queue(s) /\ c \in Client /\ c # NoClient /\ current_client'[s] = c
        /\ to_serve'[s] = GetServiceTime(s, c) /\ Queue(s)' = Queue(s) \ {c}
    BY <1>1, <1>3 DEF Calls, First, Client, NoClient
  <2>2. /\ \A d \in Client \ {c} : service_stat'[d] = stats[d]
        /\ service_stat'[c].start_service_time = clock
        /\ service_stat'[c].failure_count = 0
    BY <1>1, <1>3, <2>1, BeforeTimes, CallsStats
  <2>3. CurrentTimes(s)'
    <3>1. Current(s)' = {c} /\ GetServiceTime(s, c) \in Int /\ clock \in Nat
      BY <2>1, BeforeTimes DEF Current
    <3>2. GetServiceTime(s, c)' = GetServiceTime(s, c)
      BY SameServiceTime
    <3> QED BY <2>1, <2>2, <3>1, <3>2 DEF CurrentTimes
  <2> QED BY <1>1, <2>1, <2>2, <2>3
<1> QED BY <1>2, <1>3, Zenon DEF TurnMoves

\* The service of the client that leaves ends when its time is up.
LEMMA FinishKeepsTimes ==
  ASSUME TimesInv, NEW s \in Server, Finish(s)
  PROVE  TimesInv'
<1> DEFINE c == current_client[s]
           stats == FinishedStats(s)
<1>1. /\ pc = "update"
      /\ EndTurn(s, [server_stat[s] EXCEPT !.client_served = @ + 1])
  BY Zenon DEF Finish, IsTurnOf
<1>2. /\ PlacesInv /\ Inv /\ clock \in Nat /\ NStandard > 0
      /\ service_stat \in [Client -> ServiceStat]
      /\ ClientsOf(s) \subseteq Client
      /\ \A d \in Client : GetServiceTime(s, d) \in Int
  BY <1>1, BeforeTimes
<1>3. /\ TurnMoves(s, stats) /\ drawn' = drawn
      /\ c \in Admitted /\ Current(s) = {c} /\ to_serve[s] = 0
      /\ \E q \in Pushed(finished_clients_queue[s], c) :
           finished_clients_queue' = [finished_clients_queue EXCEPT ![s] = q]
  BY <1>2, FinishMoves, Zenon DEF PlacesInv
<1>4. Ticks = clock + 1 /\ Ticks' = Ticks /\ HasServers'
  BY <1>1, <1>2, EndTurnTicks, Zenon
<1>5. c \in Client /\ c \in ClientsOf(s) /\ c \notin Queue(s) /\ c \notin Finished(s)
  BY <1>2, <1>3 DEF ClientsOf, PlacesInv, OnePlaceEach
<1>6. /\ stats \in [Client -> ServiceStat]
      /\ \A d \in Client \ {c} : stats[d] = service_stat[d]
      /\ stats[c].finish_time = clock
      /\ stats[c].start_service_time = service_stat[c].start_service_time
      /\ stats[c].failure_count = service_stat[c].failure_count
  BY <1>2, <1>5, FinishedStatsAre, Zenon
<1> HIDE DEF c, stats
<1>7. /\ \A d \in Client \ Queue(s) : service_stat'[d] = stats[d]
      /\ \A d \in Queue(s)' : service_stat'[d].failure_count = 0
      /\ CurrentTimes(s)'
  <2>1. \A d \in Queue(s) : stats[d].failure_count = service_stat[d].failure_count
    BY <1>2, <1>5, <1>6 DEF ClientsOf
  <2>2. Ticks' = clock + 1
    BY <1>4
  <2> QED BY <1>1, <1>3, <1>6, <2>1, <2>2, CalledTimes, Zenon
<1>8. PICK q \in Pushed(finished_clients_queue[s], c) :
        finished_clients_queue' = [finished_clients_queue EXCEPT ![s] = q]
  BY <1>3
<1>9. /\ finished_clients_queue'[s] = q
      /\ \A r \in Server \ {s} : finished_clients_queue'[r] = finished_clients_queue[r]
      /\ finished_clients_queue[s] \in Seq(Admitted)
  <2>1. finished_clients_queue \in [Server -> Seq(Admitted)]
    BY <1>2 DEF OnlyAdmitted, Inv
  <2> QED BY <1>8, <2>1
<1>10. Finished(s)' \subseteq Finished(s) \cup {c}
  <2>1. ToSet(q) \subseteq ToSet(finished_clients_queue[s]) \cup {c}
    BY <1>3, <1>9, PushedElements, Zenon
  <2> QED BY <1>9, <2>1 DEF Finished
<1>11. FinishedTimes(s)'
  <2>1. \A d \in Finished(s) : d \in Client /\ d \notin Queue(s)
    BY <1>2 DEF ClientsOf, PlacesInv, OnePlaceEach
  <2>2. ASSUME NEW d \in Finished(s)
        PROVE  service_stat'[d] = service_stat[d]
    BY <1>5, <1>6, <1>7, <2>1
  <2>3. FinishedTimes(s) /\ CurrentTimes(s)
    BY DEF TimesInv
  <2>4. ASSUME NEW d \in Finished(s)
        PROVE  service_stat'[d].finish_time - service_stat'[d].start_service_time =
                 (service_stat'[d].failure_count + 1) * GetServiceTime(s, d)
    BY <2>2, <2>3 DEF FinishedTimes
  <2>5. service_stat'[c].finish_time - service_stat'[c].start_service_time =
          (service_stat'[c].failure_count + 1) * GetServiceTime(s, c)
    <3>1. service_stat'[c] = stats[c]
      BY <1>5, <1>7
    <3> DEFINE start == service_stat[c].start_service_time
               total == (service_stat[c].failure_count + 1) * GetServiceTime(s, c)
    <3>2. Ticks - 1 - start = total - to_serve[s]
      BY <1>3, <2>3, Zenon DEF CurrentTimes
    <3>3. start \in Int /\ total \in Int
      <4>1. service_stat[c] \in ServiceStat /\ GetServiceTime(s, c) \in Int
        BY <1>2, <1>5
      <4> QED BY <4>1 DEF ServiceStat
    <3>4. clock - start = total
      <4> HIDE DEF start, total
      <4> QED BY <1>2, <1>3, <1>4, <3>2, <3>3
    <3> QED BY <1>6, <3>1, <3>4
  <2> QED BY <1>3, <1>10, <2>4, <2>5, SameServiceTime DEF FinishedTimes
<1>12. \A r \in Server \ {s} :
         /\ Queue(r)' = Queue(r)
         /\ current_client'[r] = current_client[r]
         /\ to_serve'[r] = to_serve[r]
         /\ finished_clients_queue'[r] = finished_clients_queue[r]
  BY <1>3, <1>9, Zenon DEF TurnMoves
<1>13. \A d \in Client \ ClientsOf(s) : service_stat'[d] = service_stat[d]
  BY <1>5, <1>6, <1>7 DEF ClientsOf
<1>14. PlacesInv'
  BY <1>2, FinishKeepsPlaces
<1> QED BY <1>3, <1>4, <1>7, <1>11, <1>12, <1>13, <1>14, KeepsTimes, Zenon

\* A failed service takes its time once more.
LEMMA RetryKeepsTimes ==
  ASSUME TimesInv, NEW s \in Server, Retry(s)
  PROVE  TimesInv'
<1> DEFINE c == current_client[s]
           start == service_stat[c].start_service_time
           fails == service_stat[c].failure_count
           time == GetServiceTime(s, c)
<1>1. /\ pc = "update" /\ c # NoClient /\ to_serve[s] = 0
      /\ EndTurn(s, [server_stat[s] EXCEPT !.failure_count = @ + 1])
      /\ service_stat' = [service_stat EXCEPT ![c].failure_count = @ + 1]
      /\ to_serve' = [to_serve EXCEPT ![s] = time]
      /\ client_queue' = client_queue
      /\ disable_client_queue' = disable_client_queue
      /\ normal_client_queue' = normal_client_queue
      /\ current_client' = current_client
      /\ finished_clients_queue' = finished_clients_queue
  BY Zenon DEF Retry, IsTurnOf, ServiceFinished, queues
<1>2. /\ PlacesInv /\ Inv /\ clock \in Nat /\ NStandard > 0
      /\ service_stat \in [Client -> ServiceStat]
      /\ to_serve \in [Server -> Int]
      /\ ClientsOf(s) \subseteq Client
      /\ \A d \in Client : GetServiceTime(s, d) \in Int
  BY <1>1, BeforeTimes, BeforeMoves
<1>3. Ticks = clock + 1 /\ Ticks' = Ticks /\ HasServers'
  BY <1>1, <1>2, EndTurnTicks, Zenon
<1>4. drawn' = drawn /\ system_clients' = system_clients
  BY <1>1, EndTurnFrame, Zenon
<1>5. /\ Current(s) = {c} /\ c \in Client /\ c \in ClientsOf(s)
      /\ c \notin Queue(s) /\ c \notin Finished(s)
  BY <1>1, <1>2 DEF Current, ClientsOf, PlacesInv, OnePlaceEach
<1>6. /\ \A r \in Server : /\ Queue(r)' = Queue(r)
                           /\ Finished(r)' = Finished(r)
                           /\ Current(r)' = Current(r)
      /\ \A r \in Server \ {s} : to_serve'[r] = to_serve[r]
      /\ to_serve'[s] = time
  BY <1>1, <1>2, SameQueue DEF Current, Finished
<1> HIDE DEF c
<1>7. /\ \A d \in Client \ {c} : service_stat'[d] = service_stat[d]
      /\ service_stat'[c].start_service_time = start
      /\ service_stat'[c].failure_count = fails + 1
      /\ start \in Int /\ fails \in Int /\ time \in Int
  <2>1. service_stat[c] \in ServiceStat
    BY <1>2, <1>5
  <2>2. /\ service_stat'[c] = [service_stat[c] EXCEPT !.failure_count = fails + 1]
        /\ \A d \in Client \ {c} : service_stat'[d] = service_stat[d]
    BY <1>1, <1>2, <1>5
  <2> QED BY <1>2, <1>5, <2>1, <2>2 DEF ServiceStat
<1>8. FinishedTimes(s) /\ CurrentTimes(s)
  BY DEF TimesInv
<1>9. FinishedTimes(s)'
  <2>1. \A d \in Finished(s) : service_stat'[d] = service_stat[d]
    BY <1>2, <1>5, <1>7 DEF ClientsOf
  <2> QED BY <1>4, <1>6, <1>8, <2>1, SameServiceTime DEF FinishedTimes
<1>10. CurrentTimes(s)'
  <2>1. Ticks - 1 - start = (fails + 1) * time - to_serve[s]
    BY <1>5, <1>8, Zenon DEF CurrentTimes
  <2>2. \A d : GetServiceTime(s, d)' = GetServiceTime(s, d)
    BY <1>4, SameServiceTime
  <2>3. clock - start = (fails + 1 + 1) * time - time
    <3> HIDE DEF start, fails, time
    <3>1. (fails + 1) * time \in Int
      BY <1>7
    <3>2. clock - start = (fails + 1) * time
      BY <1>1, <1>2, <1>3, <1>7, <2>1, <3>1
    <3>3. \A f, t \in Int : (f + 1 + 1) * t - t = (f + 1) * t
      OBVIOUS
    <3> QED BY <1>7, <3>2, <3>3
  <2>4. Ticks' - 1 - service_stat'[c].start_service_time =
          (service_stat'[c].failure_count + 1) * time - to_serve'[s]
    <3>1. Ticks' - 1 = clock
      BY <1>2, <1>3
    <3> HIDE DEF start, fails, time
    <3> QED BY <1>6, <1>7, <2>3, <3>1
  <2>5. Current(s)' = {c}
    BY <1>5, <1>6
  <2> QED BY <2>2, <2>4, <2>5 DEF CurrentTimes
<1>11. \A d \in Queue(s)' : service_stat'[d].failure_count = 0
  BY <1>2, <1>5, <1>6, <1>7 DEF ClientsOf, TimesInv, WaitingAreFresh
<1>12. \A d \in Client \ ClientsOf(s) : service_stat'[d] = service_stat[d]
  BY <1>5, <1>7
<1>13. PlacesInv'
  <2>1. Inv'
    BY <1>2, RetryKeepsInv
  <2> QED BY <1>1, <1>2, <1>4, <2>1, NobodyMoves, Zenon
<1>14. \A r \in Server \ {s} :
         /\ Queue(r)' = Queue(r)
         /\ current_client'[r] = current_client[r]
         /\ to_serve'[r] = to_serve[r]
         /\ finished_clients_queue'[r] = finished_clients_queue[r]
  BY <1>1, <1>6, Zenon
<1> QED BY <1>3, <1>4, <1>9, <1>10, <1>11, <1>12, <1>13, <1>14, KeepsTimes, Zenon

\* The service of a client called by an inactive server starts.
LEMMA StartNextKeepsTimes ==
  ASSUME TimesInv, NEW s \in Server, StartNext(s)
  PROVE  TimesInv'
<1>1. pc = "update" /\ EndTurn(s, server_stat[s])
  BY Zenon DEF StartNext, IsTurnOf
<1>2. /\ PlacesInv /\ Inv /\ clock \in Nat /\ NStandard > 0
      /\ service_stat \in [Client -> ServiceStat]
      /\ ClientsOf(s) \subseteq Client
  BY <1>1, BeforeTimes
<1>3. /\ TurnMoves(s, service_stat) /\ drawn' = drawn
      /\ finished_clients_queue' = finished_clients_queue
  BY <1>2, StartNextMoves, Zenon DEF PlacesInv
<1>4. Ticks' = Ticks /\ HasServers' /\ Ticks' = clock + 1
  <2>1. Ticks = clock + 1 /\ Ticks' = Ticks /\ HasServers'
    BY <1>1, <1>2, EndTurnTicks, Zenon
  <2> QED BY <2>1
<1>5. /\ \A d \in Client \ Queue(s) : service_stat'[d] = service_stat[d]
      /\ \A d \in Queue(s)' : service_stat'[d].failure_count = 0
      /\ CurrentTimes(s)'
  BY <1>1, <1>2, <1>3, <1>4, CalledTimes, Zenon
<1>6. FinishedTimes(s)'
  <2>1. \A d \in Finished(s) : d \in Client /\ d \notin Queue(s)
    BY <1>2 DEF ClientsOf, PlacesInv, OnePlaceEach
  <2>2. FinishedTimes(s) /\ Finished(s)' = Finished(s)
    BY <1>3 DEF TimesInv, Finished
  <2> QED BY <1>3, <1>5, <2>1, <2>2, SameServiceTime DEF FinishedTimes
<1>7. \A d \in Client \ ClientsOf(s) : service_stat'[d] = service_stat[d]
  BY <1>5 DEF ClientsOf
<1>8. \A r \in Server \ {s} :
        /\ Queue(r)' = Queue(r)
        /\ current_client'[r] = current_client[r]
        /\ to_serve'[r] = to_serve[r]
        /\ finished_clients_queue'[r] = finished_clients_queue[r]
  BY <1>3, Zenon DEF TurnMoves
<1>9. PlacesInv'
  BY <1>2, StartNextKeepsPlaces
<1> QED BY <1>3, <1>4, <1>5, <1>6, <1>7, <1>8, <1>9, KeepsTimes, Zenon

\* A step that changes neither the clients' places nor their times, nor the
\* time that has passed.
LEMMA NothingKeepsTimes ==
  ASSUME TimesInv, Inv', HasServers', Ticks' = Ticks,
         client_queue' = client_queue,
         disable_client_queue' = disable_client_queue,
         normal_client_queue' = normal_client_queue,
         current_client' = current_client, to_serve' = to_serve,
         finished_clients_queue' = finished_clients_queue,
         service_stat' = service_stat,
         drawn' = drawn, system_clients' = system_clients
  PROVE  TimesInv'
<1>1. PlacesInv'
  BY NobodyMoves, Zenon DEF TimesInv
<1>2. \A s \in Server : /\ Queue(s)' = Queue(s) /\ Current(s)' = Current(s)
                        /\ Finished(s)' = Finished(s)
  BY DEF Queue, Current, Finished
<1>3. WaitingAreFresh'
  BY <1>2 DEF WaitingAreFresh, TimesInv
<1>4. \A s \in Server : FinishedTimes(s)' /\ CurrentTimes(s)'
  BY <1>2, SameServiceTime DEF FinishedTimes, CurrentTimes, TimesInv
<1> QED BY <1>1, <1>3, <1>4 DEF TimesInv

\* The client admitted starts with a clean account and changes no other.
LEMMA AdmitKeepsTimes ==
  ASSUME TimesInv, NEW s \in Server, NEW c \in Client, Admit(s, c)
  PROVE  TimesInv'
<1>1. /\ pc = "admit" /\ pc' = "serve" /\ clock' = clock /\ drawn' = drawn
      /\ current_client' = current_client /\ to_serve' = to_serve
      /\ finished_clients_queue' = finished_clients_queue
      /\ service_stat' = [service_stat EXCEPT ![c] = NoService]
      /\ JoinQueue(s, c)
  BY Zenon DEF Admit, serving
<1>2. PlacesInv /\ Inv /\ PlacesInv'
  BY AdmitKeepsPlaces DEF TimesInv, PlacesInv
<1>3. HasServers' /\ Ticks' = Ticks
  BY <1>1 DEF TimesInv, HasServers, Ticks, InTurn
<1>4. /\ Admitted' = Admitted \cup {c} /\ c \notin Admitted
      /\ service_stat'[c].failure_count = 0
      /\ \A d \in Client \ {c} : service_stat'[d] = service_stat[d]
  <2>1. Admitted' = Admitted \cup {c} /\ \A d \in Admitted : d \in Int /\ d < c
    BY <1>2, AdmitNext
  <2>2. service_stat'[c] = NoService
        /\ \A d \in Client \ {c} : service_stat'[d] = service_stat[d]
    BY <1>1, <1>2, BeforeMoves
  <2> QED BY <2>1, <2>2 DEF NoService
<1>5. \A r \in Server : \A d \in ClientsOf(r) : d \in Client /\ d # c
  BY <1>2, <1>4, ClientsAreAdmitted, BeforeMoves DEF ClientsOf
<1>6. \A r \in Server : Current(r)' = Current(r) /\ Finished(r)' = Finished(r)
  BY <1>1 DEF Current, Finished
<1>7. WaitingAreFresh'
  <2>1. ASSUME NEW r \in Server, NEW d \in Queue(r)'
        PROVE  service_stat'[d].failure_count = 0
    <3>1. d \in Queue(r) \cup {c}
      BY <1>2, <2>1, JoinQueueAdds DEF PlacesInv
    <3> QED BY <1>4, <1>5, <3>1 DEF ClientsOf, TimesInv, WaitingAreFresh
  <2> QED BY <2>1 DEF WaitingAreFresh
<1>8. ASSUME NEW r \in Server PROVE FinishedTimes(r)' /\ CurrentTimes(r)'
  <2>1. FinishedTimes(r) /\ CurrentTimes(r)
    BY DEF TimesInv
  <2>2. \A d \in ClientsOf(r) : service_stat'[d] = service_stat[d]
    BY <1>4, <1>5
  <2>3. FinishedTimes(r)'
    BY <1>1, <1>6, <2>1, <2>2, SameServiceTime DEF FinishedTimes, ClientsOf
  <2>4. CurrentTimes(r)'
    BY <1>1, <1>3, <1>6, <2>1, <2>2, SameServiceTime DEF CurrentTimes, ClientsOf
  <2> QED BY <2>3, <2>4
<1> QED BY <1>2, <1>3, <1>7, <1>8 DEF TimesInv

\* server_tick takes from the time to serve what it adds to the time passed.
LEMMA ServeKeepsTimes ==
  ASSUME TimesInv, ServersUpdateServeTime
  PROVE  TimesInv'
<1>1. /\ pc = "serve" /\ pc' \in {"update", "aborted"}
      /\ clock' = clock /\ drawn' = drawn /\ system_clients' = system_clients
      /\ client_queue' = client_queue
      /\ disable_client_queue' = disable_client_queue
      /\ normal_client_queue' = normal_client_queue
      /\ current_client' = current_client
      /\ finished_clients_queue' = finished_clients_queue
      /\ service_stat' = service_stat
      /\ to_serve' = [s \in Server |->
           IF current_client[s] # NoClient THEN to_serve[s] - 1 ELSE to_serve[s]]
  BY DEF ServersUpdateServeTime, queues
<1>2. Inv /\ PlacesInv /\ PlacesInv'
  <2>1. Inv'
    BY ServeKeepsInv DEF TimesInv, PlacesInv
  <2>2. PlacesInv'
    BY <1>1, <2>1, NobodyMoves, Zenon DEF TimesInv
  <2> QED BY <2>2 DEF TimesInv, PlacesInv
<1>3. clock \in Nat /\ HasServers' /\ Ticks = clock /\ Ticks' = clock + 1
  BY <1>1, <1>2, BeforeMoves DEF TimesInv, HasServers, Ticks, InTurn
<1>4. \A s \in Server : /\ Queue(s)' = Queue(s) /\ Current(s)' = Current(s)
                        /\ Finished(s)' = Finished(s)
  BY <1>1, SameQueue DEF Current, Finished
<1>5. WaitingAreFresh'
  BY <1>1, <1>4 DEF TimesInv, WaitingAreFresh
<1>6. ASSUME NEW s \in Server PROVE FinishedTimes(s)'
  BY <1>1, <1>4, SameServiceTime DEF FinishedTimes, TimesInv
<1>7. ASSUME NEW s \in Server PROVE CurrentTimes(s)'
  <2> SUFFICES ASSUME NEW c \in Current(s)
               PROVE  Ticks' - 1 - service_stat[c].start_service_time =
                        (service_stat[c].failure_count + 1) * GetServiceTime(s, c)
                        - to_serve'[s]
    BY <1>1, <1>4, SameServiceTime DEF CurrentTimes
  <2> DEFINE start == service_stat[c].start_service_time
             total == (service_stat[c].failure_count + 1) * GetServiceTime(s, c)
  <2>1. Ticks - 1 - start = total - to_serve[s]
    BY Zenon DEF CurrentTimes, TimesInv
  <2>2. to_serve'[s] = to_serve[s] - 1 /\ to_serve[s] \in Int
    BY <1>1, <1>2, BeforeMoves DEF Current
  <2>3. start \in Int /\ total \in Int
    <3>1. c \in Client
      BY <1>2, ClientsAreAdmitted, BeforeMoves
    <3>2. service_stat[c] \in ServiceStat /\ GetServiceTime(s, c) \in Int
      BY <1>2, <3>1, BeforeMoves, ServiceTimeIsInt
    <3> QED BY <3>2 DEF ServiceStat
  <2> HIDE DEF start, total
  <2>4. Ticks' - 1 - start = total - to_serve'[s]
    BY <1>3, <2>1, <2>2, <2>3
  <2> QED BY <2>4 DEF start, total
<1> QED BY <1>2, <1>3, <1>5, <1>6, <1>7 DEF TimesInv

\* Initially no service has begun.
LEMMA InitTimes == Init => TimesInv
<1> SUFFICES ASSUME Init PROVE TimesInv
  OBVIOUS
<1>1. /\ pc = "begin"
      /\ client_queue = [s \in Standard |-> <<>>]
      /\ disable_client_queue = [s \in Robotic |-> <<>>]
      /\ normal_client_queue = [s \in Robotic |-> <<>>]
      /\ current_client = [s \in Server |-> NoClient]
      /\ finished_clients_queue = [s \in Server |-> <<>>]
  BY Zenon DEF Init
<1>2. ToSet(<<>>) = {}
  BY EmptySeq DEF ToSet
<1>3. \A s \in Server : Queue(s) = {} /\ Current(s) = {} /\ Finished(s) = {}
  BY <1>1, <1>2, KindsOfServer DEF Queue, Current, Finished
<1> QED BY <1>1, <1>3, InitPlaces
        DEF TimesInv, HasServers, WaitingAreFresh, FinishedTimes, CurrentTimes

\* Every step keeps the times.
LEMMA NextKeepsTimes == TimesInv /\ [Next]_vars => TimesInv'
<1> SUFFICES ASSUME TimesInv, [Next]_vars PROVE TimesInv'
  OBVIOUS
<1>1. Inv /\ Inv' /\ clock \in Nat
  BY NextKeepsInv, BeforeMoves DEF TimesInv, PlacesInv
<1> DEFINE Stay == /\ client_queue' = client_queue
                   /\ disable_client_queue' = disable_client_queue
                   /\ normal_client_queue' = normal_client_queue
                   /\ current_client' = current_client /\ to_serve' = to_serve
                   /\ finished_clients_queue' = finished_clients_queue
                   /\ service_stat' = service_stat
                   /\ drawn' = drawn /\ system_clients' = system_clients
<1>2. Stay /\ HasServers' /\ Ticks' = Ticks => TimesInv'
  BY <1>1, NothingKeepsTimes, Zenon
<1>3. CASE Begin
  <2>1. Stay
    BY <1>3, Zenon DEF Begin, queues, serving
  <2>2. /\ clock' = clock /\ pc = "begin"
        /\ \/ NStandard = 0 /\ pc' = "aborted"
           \/ NStandard # 0 /\ pc' \in {"admit", "done"}
    BY <1>3 DEF Begin, AtTick
  <2>3. HasServers' /\ Ticks' = Ticks
    BY <2>2 DEF HasServers, Ticks, InTurn
  <2> QED BY <1>2, <2>1, <2>3, Zenon
<1>4. CASE AdmitNobody
  <2>1. Stay
    BY <1>4, Zenon DEF AdmitNobody, queues, serving
  <2>2. HasServers' /\ Ticks' = Ticks
    BY <1>4 DEF AdmitNobody, HasServers, Ticks, InTurn, TimesInv
  <2> QED BY <1>2, <2>1, <2>2, Zenon
<1>5. ASSUME NEW s \in Server, NEW c \in Client, Admit(s, c) PROVE TimesInv'
  BY <1>5, AdmitKeepsTimes
<1>6. CASE ServersUpdateServeTime
  BY <1>6, ServeKeepsTimes
<1>7. ASSUME NEW s \in Server, Finish(s) PROVE TimesInv'
  BY <1>7, FinishKeepsTimes
<1>8. ASSUME NEW s \in Server, Retry(s) PROVE TimesInv'
  BY <1>8, RetryKeepsTimes
<1>9. ASSUME NEW s \in Server, Continue(s) PROVE TimesInv'
  <2>1. Stay
    BY <1>9, Zenon DEF Continue, EndTurn, queues, serving
  <2>2. pc = "update" /\ EndTurn(s, server_stat[s])
    BY <1>9, Zenon DEF Continue, IsTurnOf
  <2>3. NStandard > 0
    BY <2>2 DEF TimesInv, HasServers
  <2>4. HasServers' /\ Ticks' = Ticks
    BY <1>1, <2>2, <2>3, EndTurnTicks, Zenon
  <2> QED BY <1>2, <2>1, <2>4, Zenon
<1>10. ASSUME NEW s \in Server, StartNext(s) PROVE TimesInv'
  BY <1>10, StartNextKeepsTimes
<1>11. ASSUME NEW s \in Server, StartAborts(s) PROVE TimesInv'
  <2>1. Stay
    BY <1>11, Zenon DEF StartAborts, queues, serving
  <2>2. HasServers' /\ Ticks' = Ticks
    BY <1>11 DEF StartAborts, IsTurnOf, HasServers, Ticks, InTurn, TimesInv
  <2> QED BY <1>2, <2>1, <2>2, Zenon
<1>12. CASE UNCHANGED vars
  <2>1. Stay
    BY <1>12, Zenon DEF vars, queues, serving
  <2>2. HasServers' /\ Ticks' = Ticks
    BY <1>12 DEF vars, HasServers, Ticks, InTurn, TimesInv
  <2> QED BY <1>2, <2>1, <2>2, Zenon
<1> QED BY <1>3, <1>4, <1>5, <1>6, <1>7, <1>8, <1>9, <1>10, <1>11, <1>12, Zenon
        DEF Next, Step, UpdateClient

LEMMA TimesInvariance == Spec => []TimesInv
  BY InitTimes, NextKeepsTimes, PTL DEF Spec

\* For every finished client and every client being served, the ticks since
\* its service started are those of all its attempts, whatever the services
\* take, however often they fail and wherever the run stops.
THEOREM ServiceTimes == Spec => []ServiceTimesAddUp
<1>1. TimesInv => ServiceTimesAddUp
  BY Zenon DEF TimesInv, FinishedTimes, CurrentTimes, ServiceTimesAddUp
<1> QED BY <1>1, TimesInvariance, PTL

-----------------------------------------------------------------------------
(***************************************************************************)
(* No assertion fails                                                      *)
(***************************************************************************)
\* What the code takes for granted: setup0 and setup1 make a standard server,
\* the boost of a robotic server leaves every kind of client at least one
\* tick and no more than an int can hold, and the queue lengths of a run add
\* up to an int.
BoostFits ==
  NRobotic > 0 =>
    \A k \in DisabilityType \X Destination :
      /\ BoostNum <= ServiceTime[k] * BoostDen
      /\ ServiceTime[k] * BoostDen < (IntMax + 1) * BoostNum
SumsFit == NumClients * SimulationTime <= IntMax

\* update_clients begins with the first server.
TurnInv == turn \in Nat /\ 1 <= turn /\ (pc # "update" => turn = 1)

\* A service has time left, or has just run out and waits for its turn.
ServicesRun ==
  \A s \in Server :
    current_client[s] # NoClient =>
      to_serve[s] > 0 \/ (pc = "update" /\ turn <= s /\ to_serve[s] = 0)

\* The lengths of the queues add up without wrapping.
SumsBounded ==
  \A s \in Server :
    /\ 0 <= server_stat[s].sum_queue_lens
    /\ server_stat[s].sum_queue_lens <= Updates(s) * NumClients

QueuesBounded == \A s \in Server : QueueLen(s) <= NumClients - Len(system_clients)

\* The inductive invariant.
RunsInv ==
  PlacesInv /\ TurnInv /\ ServicesRun /\ SumsBounded /\ QueuesBounded /\ pc # "aborted"

\* A sum that fits is stored as it is.
LEMMA ToIntFits == ASSUME NEW n \in 0 .. IntMax PROVE ToInt(n) = n
<1> DEFINE m == 2 * (IntMax + 1)
<1>1. n + IntMax + 1 \in 0 .. m - 1 /\ m \in Nat \ {0}
  OBVIOUS
<1>2. \A a \in Nat, b \in Nat \ {0} : a < b => a % b = a
  OBVIOUS
<1> QED BY <1>1, <1>2 DEF ToInt

\* A quotient that starts at 1 and ends at m lies between them.
LEMMA QuotientBetween ==
  ASSUME NEW a \in Nat, NEW b \in Nat \ {0}, NEW m \in Nat, b <= a, a < (m + 1) * b
  PROVE  a \div b \in 1 .. m
<1> DEFINE q == a \div b
<1>1. q \in Nat /\ q > 0 /\ q * b <= a
  OBVIOUS
<1> HIDE DEF q
<1>2. ASSUME q > m PROVE FALSE
  <2>1. (q - (m + 1)) * b \in Nat /\ (q - (m + 1)) * b = q * b - (m + 1) * b
    BY <1>1, <1>2
  <2> QED BY <1>1, <2>1
<1> QED BY <1>1, <1>2 DEF q

\* Every service takes time.
LEMMA ServiceTakesTime ==
  ASSUME BoostFits, drawn \in [Client -> Draw], NEW s \in Server, NEW c \in Client
  PROVE  GetServiceTime(s, c) \in Int /\ GetServiceTime(s, c) > 0
<1> DEFINE k == <<drawn[c].disability_type, drawn[c].destination>>
           t == ServiceTime[drawn[c].disability_type, drawn[c].destination]
<1>1. k \in DisabilityType \X Destination
  BY DEF Draw
<1>2. t \in Nat \ {0}
  <2>1. t \in 1 .. IntMax
    BY <1>1, TableAssumption
  <2> HIDE DEF t
  <2> QED BY <2>1, MachineAssumption
<1>3. /\ GetServiceTime(s, c) = IF s \in Robotic THEN Boosted(t) ELSE t
      /\ NRobotic > 0 => /\ BoostNum <= t * BoostDen
                         /\ t * BoostDen < (IntMax + 1) * BoostNum
  BY <1>1, Zenon DEF GetServiceTime, BoostFits
<1> HIDE DEF t
<1>4. CASE s \in Robotic
  <2>1. NRobotic > 0
    BY <1>4 DEF Robotic, NumServers
  <2>2. t * BoostDen \in Nat /\ BoostNum \in Nat \ {0} /\ IntMax \in Nat
    BY <1>2, BoostAssumption, MachineAssumption
  <2>3. (t * BoostDen) \div BoostNum \in 1 .. IntMax
    BY <1>3, <2>1, <2>2, QuotientBetween
  <2>4. Boosted(t) \in Int /\ Boosted(t) > 0
    BY <2>2, <2>3 DEF Boosted
  <2> QED BY <1>3, <1>4, <2>4
<1> QED BY <1>2, <1>3, <1>4

\* The length of the queue of a server of either kind.
LEMMA QueueLenIs ==
  /\ \A r \in Standard : /\ QueueLen(r) = Len(client_queue[r])
                         /\ QueueLen(r)' = Len(client_queue'[r])
  /\ \A r \in Robotic :
       /\ QueueLen(r) = Len(normal_client_queue[r]) + Len(disable_client_queue[r])
       /\ QueueLen(r)' = Len(normal_client_queue'[r]) + Len(disable_client_queue'[r])
<1>1. \A r \in Robotic : r \notin Standard
  BY DEF Standard, Robotic
<1>2. \A r : QueueLen(r) = IF r \in Standard THEN Len(client_queue[r])
        ELSE Len(normal_client_queue[r]) + Len(disable_client_queue[r])
  BY Zenon DEF QueueLen
<1>3. \A r : QueueLen(r)' = IF r \in Standard THEN Len(client_queue'[r])
        ELSE Len(normal_client_queue'[r]) + Len(disable_client_queue'[r])
  BY Zenon DEF QueueLen, Standard
<1> QED BY <1>1, <1>2, <1>3, Zenon

\* Queue lengths are natural numbers.
LEMMA QueueLenIsNat ==
  ASSUME OnlyAdmitted, NEW s \in Server PROVE QueueLen(s) \in Nat
<1>1. CASE s \in Standard
  <2>1. client_queue[s] \in Seq(Admitted)
    BY <1>1 DEF OnlyAdmitted
  <2> QED BY <1>1, <2>1, LenProperties, QueueLenIs
<1>2. CASE s \in Robotic
  <2>1. /\ disable_client_queue[s] \in Seq(Admitted)
        /\ normal_client_queue[s] \in Seq(Admitted)
    BY <1>2 DEF OnlyAdmitted
  <2>2. Len(disable_client_queue[s]) \in Nat /\ Len(normal_client_queue[s]) \in Nat
    BY <2>1, LenProperties
  <2>3. QueueLen(s) = Len(normal_client_queue[s]) + Len(disable_client_queue[s])
    BY <1>2, QueueLenIs, Zenon
  <2>4. \A a, b \in Nat : a + b \in Nat
    OBVIOUS
  <2> QED BY <2>2, <2>3, <2>4, Zenon
<1> QED BY <1>1, <1>2, KindsOfServer

LensAreNat == \A s \in Server : QueueLen(s) \in Nat

LEMMA QueueLensAreNat == OnlyAdmitted => LensAreNat
  BY QueueLenIsNat DEF LensAreNat

\* The length of a push's outcome.
LEMMA PushedLen ==
  ASSUME NEW S, NEW q \in Seq(S), NEW c \in S, NEW r \in Pushed(q, c)
  PROVE  Len(q) \in Nat /\ Len(r) \in Nat /\ Len(r) <= Len(q) + 1
  BY AppendProperties, LenProperties DEF Pushed

\* A queue grows by what one of its two parts grows.
LEMMA QueueLenChange ==
  ASSUME OnlyAdmitted, NEW r \in Server, NEW k \in Nat,
         r \in Standard => Len(client_queue'[r]) <= Len(client_queue[r]) + k,
         r \in Robotic =>
           /\ Len(disable_client_queue'[r]) \in Nat
           /\ Len(normal_client_queue'[r]) \in Nat
           /\ \/ /\ Len(disable_client_queue'[r]) <= Len(disable_client_queue[r]) + k
                 /\ Len(normal_client_queue'[r]) = Len(normal_client_queue[r])
              \/ /\ Len(normal_client_queue'[r]) <= Len(normal_client_queue[r]) + k
                 /\ Len(disable_client_queue'[r]) = Len(disable_client_queue[r])
  PROVE  QueueLen(r)' <= QueueLen(r) + k
<1>1. CASE r \in Standard
  <2>1. QueueLen(r) = Len(client_queue[r]) /\ QueueLen(r)' = Len(client_queue'[r])
    BY <1>1, QueueLenIs, Zenon
  <2>2. Len(client_queue'[r]) <= Len(client_queue[r]) + k
    BY <1>1
  <2> QED BY <2>1, <2>2, Zenon
<1>2. CASE r \in Robotic
  <2> DEFINE d == Len(disable_client_queue[r])
             n == Len(normal_client_queue[r])
             e == Len(disable_client_queue'[r])
             m == Len(normal_client_queue'[r])
  <2>1. QueueLen(r) = n + d /\ QueueLen(r)' = m + e
    BY <1>2, QueueLenIs, Zenon
  <2>2. d \in Nat /\ n \in Nat
    BY <1>2, LenProperties DEF OnlyAdmitted
  <2>3. e \in Nat /\ m \in Nat /\ ((e <= d + k /\ m = n) \/ (m <= n + k /\ e = d))
    BY <1>2, Zenon
  <2> HIDE DEF d, n, e, m
  <2>4. m + e <= n + d + k
    BY <2>2, <2>3
  <2> QED BY <2>1, <2>4, Zenon
<1> QED BY <1>1, <1>2, KindsOfServer

\* server_assign_client makes one queue of its server longer by one at most.
LEMMA JoinQueueLen ==
  ASSUME OnlyAdmitted, NEW s \in Server, NEW c, JoinQueue(s, c)
  PROVE  \A r \in Server : QueueLen(r)' <= QueueLen(r) + 1
<1> DEFINE A == Admitted \cup {c}
<1>1. /\ \A r \in Standard : client_queue[r] \in Seq(A)
      /\ \A r \in Robotic : /\ disable_client_queue[r] \in Seq(A)
                            /\ normal_client_queue[r] \in Seq(A)
      /\ c \in A
  BY SeqMonotonic DEF OnlyAdmitted
<1>2. /\ \A r \in Standard : Len(client_queue[r]) \in Nat
      /\ \A r \in Robotic : /\ Len(disable_client_queue[r]) \in Nat
                            /\ Len(normal_client_queue[r]) \in Nat
  BY <1>1, LenProperties
<1> HIDE DEF A
<1> TAKE r \in Server
<1>3. ASSUME s \in Standard,
             \E q \in Pushed(client_queue[s], c) :
                client_queue' = [client_queue EXCEPT ![s] = q],
             UNCHANGED <<disable_client_queue, normal_client_queue>>
      PROVE  QueueLen(r)' <= QueueLen(r) + 1
  <2>1. PICK q \in Pushed(client_queue[s], c) :
          client_queue' = [client_queue EXCEPT ![s] = q]
    BY <1>3
  <2>2. Len(q) <= Len(client_queue[s]) + 1
    BY <1>1, <1>3, PushedLen
  <2>3. \A t \in Standard : Len(client_queue'[t]) <= Len(client_queue[t]) + 1
    BY <1>2, <2>1, <2>2 DEF OnlyAdmitted
  <2> QED BY <1>2, <1>3, <2>3, QueueLenChange
<1>4. ASSUME s \in Robotic,
             \E q \in Pushed(disable_client_queue[s], c) :
                disable_client_queue' = [disable_client_queue EXCEPT ![s] = q],
             UNCHANGED <<client_queue, normal_client_queue>>
      PROVE  QueueLen(r)' <= QueueLen(r) + 1
  <2>1. PICK q \in Pushed(disable_client_queue[s], c) :
          disable_client_queue' = [disable_client_queue EXCEPT ![s] = q]
    BY <1>4
  <2>2. Len(q) <= Len(disable_client_queue[s]) + 1 /\ Len(q) \in Nat
    BY <1>1, <1>4, PushedLen
  <2>3. \A t \in Robotic : /\ Len(disable_client_queue'[t]) <= Len(disable_client_queue[t]) + 1
                           /\ Len(disable_client_queue'[t]) \in Nat
    BY <1>2, <2>1, <2>2 DEF OnlyAdmitted
  <2> QED BY <1>2, <1>4, <2>3, QueueLenChange DEF Standard, Robotic
<1>5. ASSUME s \in Robotic,
             \E q \in Pushed(normal_client_queue[s], c) :
                normal_client_queue' = [normal_client_queue EXCEPT ![s] = q],
             UNCHANGED <<client_queue, disable_client_queue>>
      PROVE  QueueLen(r)' <= QueueLen(r) + 1
  <2>1. PICK q \in Pushed(normal_client_queue[s], c) :
          normal_client_queue' = [normal_client_queue EXCEPT ![s] = q]
    BY <1>5
  <2>2. Len(q) <= Len(normal_client_queue[s]) + 1 /\ Len(q) \in Nat
    BY <1>1, <1>5, PushedLen
  <2>3. \A t \in Robotic : /\ Len(normal_client_queue'[t]) <= Len(normal_client_queue[t]) + 1
                           /\ Len(normal_client_queue'[t]) \in Nat
    BY <1>2, <2>1, <2>2 DEF OnlyAdmitted
  <2> QED BY <1>2, <1>5, <2>3, QueueLenChange
<1> QED BY <1>3, <1>4, <1>5, Zenon DEF JoinQueue

\* server_set_next_client makes no queue longer.
LEMMA SetNextClientLen ==
  ASSUME OnlyAdmitted, NEW s \in Server, NEW stats, SetNextClient(s, stats)
  PROVE  \A r \in Server : QueueLen(r)' <= QueueLen(r) + 0
<1>1. /\ \A r \in Standard : Len(client_queue[r]) \in Nat
      /\ \A r \in Robotic : /\ Len(disable_client_queue[r]) \in Nat
                            /\ Len(normal_client_queue[r]) \in Nat
  BY LenProperties DEF OnlyAdmitted
<1> TAKE r \in Server
<1>2. ASSUME UNCHANGED queues PROVE QueueLen(r)' <= QueueLen(r) + 0
  <2>1. QueueLen(r)' = QueueLen(r)
    BY <1>2 DEF queues, QueueLen
  <2> QED BY <2>1, QueueLenIsNat
<1>3. ASSUME NextQueue(s) # <<>>, s \in Standard,
             client_queue' = [client_queue EXCEPT ![s] = Tail(@)],
             UNCHANGED <<disable_client_queue, normal_client_queue>>
      PROVE  QueueLen(r)' <= QueueLen(r) + 0
  <2>1. client_queue[s] \in Seq(Admitted) /\ client_queue[s] # <<>>
    BY <1>3 DEF OnlyAdmitted, NextQueue
  <2>2. Len(Tail(client_queue[s])) = Len(client_queue[s]) - 1
    BY <2>1, TailIsSeq
  <2>3. \A t \in Standard : Len(client_queue'[t]) <= Len(client_queue[t]) + 0
    BY <1>1, <1>3, <2>2 DEF OnlyAdmitted
  <2> QED BY <1>1, <1>3, <2>3, QueueLenChange
<1>4. ASSUME CallsDisabled(s),
             disable_client_queue' = [disable_client_queue EXCEPT ![s] = Tail(@)],
             UNCHANGED <<client_queue, normal_client_queue>>
      PROVE  QueueLen(r)' <= QueueLen(r) + 0
  <2>1. /\ s \in Robotic /\ disable_client_queue[s] \in Seq(Admitted)
        /\ disable_client_queue[s] # <<>>
    BY <1>4 DEF OnlyAdmitted, CallsDisabled
  <2>2. Len(Tail(disable_client_queue[s])) = Len(disable_client_queue[s]) - 1
        /\ Len(Tail(disable_client_queue[s])) \in Nat
    BY <2>1, TailIsSeq, LenProperties
  <2>3. \A t \in Robotic : /\ Len(disable_client_queue'[t]) <= Len(disable_client_queue[t]) + 0
                           /\ Len(disable_client_queue'[t]) \in Nat
    BY <1>1, <1>4, <2>1, <2>2 DEF OnlyAdmitted
  <2> QED BY <1>1, <1>4, <2>3, QueueLenChange
<1>5. ASSUME NextQueue(s) # <<>>, s \in Robotic, ~CallsDisabled(s),
             normal_client_queue' = [normal_client_queue EXCEPT ![s] = Tail(@)],
             UNCHANGED <<client_queue, disable_client_queue>>
      PROVE  QueueLen(r)' <= QueueLen(r) + 0
  <2>1. normal_client_queue[s] \in Seq(Admitted) /\ normal_client_queue[s] # <<>>
    BY <1>5, KindsOfServer DEF OnlyAdmitted, NextQueue
  <2>2. Len(Tail(normal_client_queue[s])) = Len(normal_client_queue[s]) - 1
        /\ Len(Tail(normal_client_queue[s])) \in Nat
    BY <2>1, TailIsSeq, LenProperties
  <2>3. \A t \in Robotic : /\ Len(normal_client_queue'[t]) <= Len(normal_client_queue[t]) + 0
                           /\ Len(normal_client_queue'[t]) \in Nat
    BY <1>1, <1>5, <2>2 DEF OnlyAdmitted
  <2> QED BY <1>1, <1>5, <2>3, QueueLenChange
<1> QED BY <1>2, <1>3, <1>4, <1>5, Zenon DEF SetNextClient, PopNext

\* update_stat adds one length that the queue of server s can have to a sum
\* that leaves room for it, and finds the mean not negative.
LEMMA EndTurnSums ==
  ASSUME RunsInv, SumsFit, PlacesInv', NEW s \in Server, pc = "update", turn = s,
         NEW stat \in ServerStat,
         stat.sum_queue_lens = server_stat[s].sum_queue_lens,
         EndTurn(s, stat),
         \A r \in Server : QueueLen(r)' <= QueueLen(r) + 0
  PROVE  /\ server_stat'[s].sum_queue_lens = server_stat[s].sum_queue_lens + QueueLen(s)'
         /\ server_stat[s].sum_queue_lens \in Nat
         /\ server_stat'[s].sum_queue_lens \in Nat
         /\ server_stat'[s].sum_queue_lens <= (clock + 1) * NumClients
         /\ \A r \in Server \ {s} : server_stat'[r] = server_stat[r]
         /\ \A r \in Server : /\ QueueLen(r)' \in Nat
                              /\ QueueLen(r)' <= NumClients - Len(system_clients)
         /\ Updates(s) = clock /\ Updates(s)' = clock + 1
         /\ \A r \in Server \ {s} : Updates(r)' = Updates(r)
         /\ \/ /\ s < NumServers /\ turn' = s + 1 /\ pc' = "update" /\ clock' = clock
            \/ /\ s = NumServers /\ turn' = 1 /\ pc' \in {"admit", "done"}
               /\ clock' = clock + 1
<1> DEFINE old == server_stat[s].sum_queue_lens
           len == QueueLen(s)'
           sum == ToInt(stat.sum_queue_lens + QueueLen(s)')
           mean == Quotient(sum, clock + 1)
<1>1. /\ Inv /\ OnlyAdmitted /\ OnlyAdmitted' /\ clock \in Nat /\ clock < SimulationTime
      /\ server_stat \in [Server -> ServerStat]
      /\ system_clients \in Seq(Client) /\ system_clients' = system_clients
      /\ s \in Int /\ 1 <= s /\ s <= NumServers /\ NumServers \in Nat
  <2>1. Inv /\ OnlyAdmitted /\ OnlyAdmitted'
    BY DEF RunsInv, PlacesInv, Inv
  <2>2. /\ clock \in Nat /\ clock < SimulationTime
        /\ server_stat \in [Server -> ServerStat] /\ system_clients \in Seq(Client)
    BY <2>1 DEF Inv, TypeOK, ClockInv
  <2>3. system_clients' = system_clients
    BY EndTurnFrame
  <2>4. s \in Int /\ 1 <= s /\ s <= NumServers /\ NumServers \in Nat
    BY DEF Server, NumServers
  <2> QED BY <2>1, <2>2, <2>3, <2>4, Zenon
<1>2. \A r \in Server : /\ QueueLen(r) \in Nat /\ QueueLen(r)' \in Nat
                        /\ QueueLen(r)' <= NumClients - Len(system_clients)
                        /\ QueueLen(r)' <= NumClients
  <2>1. \A r \in Server : QueueLen(r) \in Nat
    BY <1>1, QueueLenIsNat
  <2>2. LensAreNat'
    BY <1>1, QueueLensAreNat, PTL
  <2>3. \A r \in Server : QueueLen(r)' \in Nat
    BY <2>2 DEF LensAreNat
  <2>4. Len(system_clients) \in Nat
    BY <1>1, LenProperties
  <2>5. ASSUME NEW r \in Server
        PROVE  QueueLen(r)' <= NumClients - Len(system_clients) /\ QueueLen(r)' <= NumClients
    <3>1. QueueLen(r) <= NumClients - Len(system_clients) /\ QueueLen(r)' <= QueueLen(r) + 0
      BY DEF RunsInv, QueuesBounded
    <3>2. \A a, b, n, l \in Nat : a <= b + 0 /\ b <= n - l => a <= n - l /\ a <= n
      OBVIOUS
    <3>3. QueueLen(r) \in Nat /\ QueueLen(r)' \in Nat
      BY <2>1, <2>3
    <3> QED BY <2>4, <3>1, <3>2, <3>3, Zenon
  <2> QED BY <2>1, <2>3, <2>5
<1>3. Updates(s) = clock
  BY <1>1 DEF Updates
<1>4. /\ old \in Nat /\ len \in Nat /\ old + len \in 0 .. IntMax
      /\ old + len <= (clock + 1) * NumClients
  <2>1. old \in Int
    BY <1>1 DEF ServerStat
  <2>2. 0 <= old /\ old <= clock * NumClients
    BY <1>3 DEF RunsInv, SumsBounded
  <2>3. len \in Nat /\ len <= NumClients
    BY <1>2
  <2>4. \A c, n, t \in Nat : c + 1 <= t => (c + 1) * n <= n * t
    OBVIOUS
  <2>5. (clock + 1) * NumClients <= NumClients * SimulationTime
    BY <1>1, <2>4
  <2>6. (clock + 1) * NumClients = clock * NumClients + NumClients
        /\ clock * NumClients \in Nat
    BY <1>1
  <2>7. SimulationTime \in Nat /\ NumClients * SimulationTime \in Nat
    OBVIOUS
  <2> HIDE DEF old, len
  <2> QED BY <2>1, <2>2, <2>3, <2>5, <2>6, <2>7 DEF SumsFit
<1>5. sum = old + len /\ sum \in Nat
  <2>1. sum = ToInt(old + len)
    OBVIOUS
  <2> HIDE DEF old, len, sum
  <2> QED BY <1>4, <2>1, ToIntFits
<1>6. ~(mean < 0)
  <2> HIDE DEF sum
  <2>1. \A a \in Nat, b \in Nat \ {0} : a \div b \in Int /\ ~(a \div b < 0)
    OBVIOUS
  <2> QED BY <1>1, <1>5, <2>1 DEF Quotient
<1>7. /\ server_stat' = [server_stat EXCEPT ![s] =
           [stat EXCEPT !.sum_queue_lens = sum, !.mean_server_queue_len = mean]]
      /\ NextTurn(s)
  BY <1>6, Zenon DEF EndTurn
<1> HIDE DEF old, len, sum, mean
<1>8. /\ server_stat'[s].sum_queue_lens = sum
      /\ \A r \in Server \ {s} : server_stat'[r] = server_stat[r]
  BY <1>1, <1>7 DEF ServerStat
<1>9. \/ /\ s < NumServers /\ turn' = s + 1 /\ pc' = "update" /\ clock' = clock
      \/ /\ s = NumServers /\ turn' = 1 /\ pc' \in {"admit", "done"} /\ clock' = clock + 1
  BY <1>7 DEF NextTurn, AtTick
<1>10. Updates(s)' = clock + 1 /\ \A r \in Server \ {s} : Updates(r)' = Updates(r)
  BY <1>1, <1>9 DEF Updates, InTurn, Server
<1>11. old + len \in Nat
  BY <1>4
<1> QED BY <1>2, <1>3, <1>4, <1>5, <1>8, <1>9, <1>10, <1>11, Zenon DEF old, len

\* The turn of server s ends without a failed assertion, and the sum of the
\* lengths of its queue has grown by one length that a queue can have.
LEMMA EndTurnRuns ==
  ASSUME RunsInv, SumsFit, PlacesInv', NEW s \in Server, pc = "update", turn = s,
         NEW stat \in ServerStat,
         stat.sum_queue_lens = server_stat[s].sum_queue_lens,
         EndTurn(s, stat),
         \A r \in Server : QueueLen(r)' <= QueueLen(r) + 0,
         current_client'[s] # NoClient => to_serve'[s] > 0,
         \A r \in Server \ {s} : /\ current_client'[r] = current_client[r]
                                 /\ to_serve'[r] = to_serve[r]
  PROVE  RunsInv'
<1>1. /\ Inv /\ system_clients' = system_clients /\ clock \in Nat
      /\ s \in Int /\ 1 <= s /\ NumServers \in Nat
  <2>1. Inv /\ system_clients' = system_clients
    BY EndTurnFrame, Zenon DEF RunsInv, PlacesInv
  <2>2. s \in Int /\ 1 <= s /\ NumServers \in Nat
    BY DEF Server, NumServers
  <2> QED BY <2>1, <2>2, BeforeMoves
<1>2. /\ server_stat'[s].sum_queue_lens \in Nat
      /\ server_stat'[s].sum_queue_lens <= (clock + 1) * NumClients
      /\ \A r \in Server \ {s} : server_stat'[r] = server_stat[r]
      /\ \A r \in Server : QueueLen(r)' <= NumClients - Len(system_clients)
      /\ Updates(s)' = clock + 1
      /\ \A r \in Server \ {s} : Updates(r)' = Updates(r)
      /\ \/ /\ s < NumServers /\ turn' = s + 1 /\ pc' = "update" /\ clock' = clock
         \/ /\ s = NumServers /\ turn' = 1 /\ pc' \in {"admit", "done"}
            /\ clock' = clock + 1
  BY EndTurnSums, Zenon
<1>3. TurnInv' /\ pc' # "aborted"
  BY <1>1, <1>2 DEF TurnInv
<1>4. ServicesRun'
  <2>1. ASSUME NEW r \in Server, r # s, current_client'[r] # NoClient
        PROVE  to_serve'[r] > 0 \/ (pc' = "update" /\ turn' <= r /\ to_serve'[r] = 0)
    BY <1>1, <1>2, <2>1 DEF RunsInv, ServicesRun, Server
  <2> QED BY <2>1 DEF ServicesRun
<1>5. SumsBounded'
  <2>1. ASSUME NEW r \in Server, r # s
        PROVE  /\ 0 <= server_stat'[r].sum_queue_lens
               /\ server_stat'[r].sum_queue_lens <= Updates(r)' * NumClients
    BY <1>2, <2>1 DEF RunsInv, SumsBounded
  <2>2. /\ 0 <= server_stat'[s].sum_queue_lens
        /\ server_stat'[s].sum_queue_lens <= Updates(s)' * NumClients
    BY <1>2
  <2> QED BY <2>1, <2>2 DEF SumsBounded
<1>6. QueuesBounded'
  <2>1. Len(system_clients') = Len(system_clients)
    BY <1>1
  <2> QED BY <1>2, <2>1 DEF QueuesBounded
<1> QED BY <1>3, <1>4, <1>5, <1>6 DEF RunsInv

\* The client that a turn calls has time to be served.
LEMMA CalledHasTime ==
  ASSUME BoostFits, Inv, NEW s \in Server, NEW stats, TurnMoves(s, stats)
  PROVE  current_client'[s] # NoClient => to_serve'[s] > 0
<1>1. \A c \in Admitted : GetServiceTime(s, c) > 0
  BY ServiceTakesTime, BeforeMoves
<1> QED BY <1>1, Zenon DEF TurnMoves, Rests, Calls

\* A turn moves on from the statistics of its server.
LEMMA StatsOfTurn ==
  ASSUME Inv, NEW s \in Server
  PROVE  LET stat == server_stat[s]
         IN  /\ stat \in ServerStat
             /\ [stat EXCEPT !.client_served = @ + 1] \in ServerStat
             /\ [stat EXCEPT !.client_served = @ + 1].sum_queue_lens = stat.sum_queue_lens
             /\ [stat EXCEPT !.failure_count = @ + 1] \in ServerStat
             /\ [stat EXCEPT !.failure_count = @ + 1].sum_queue_lens = stat.sum_queue_lens
<1>1. server_stat[s] \in ServerStat
  BY BeforeTurn
<1> QED BY <1>1 DEF ServerStat

LEMMA FinishRuns ==
  ASSUME RunsInv, BoostFits, SumsFit, NEW s \in Server, Finish(s)
  PROVE  RunsInv'
<1>1. /\ pc = "update" /\ turn = s
      /\ EndTurn(s, [server_stat[s] EXCEPT !.client_served = @ + 1])
      /\ SetNextClient(s, FinishedStats(s))
  BY Zenon DEF Finish, IsTurnOf, FinishedStats
<1>2. Inv /\ PlacesInv /\ OnlyAdmitted /\ QueuesInOrder /\ PlacesInv'
  BY FinishKeepsPlaces DEF RunsInv, PlacesInv, Inv
<1>3. TurnMoves(s, FinishedStats(s))
  BY <1>2, FinishMoves, Zenon
<1>4. current_client'[s] # NoClient => to_serve'[s] > 0
  BY <1>2, <1>3, CalledHasTime
<1>5. \A r \in Server : QueueLen(r)' <= QueueLen(r) + 0
  BY <1>1, <1>2, SetNextClientLen, Zenon
<1>6. \A r \in Server \ {s} : /\ current_client'[r] = current_client[r]
                              /\ to_serve'[r] = to_serve[r]
  BY <1>3, Zenon DEF TurnMoves
<1>7. /\ [server_stat[s] EXCEPT !.client_served = @ + 1] \in ServerStat
      /\ [server_stat[s] EXCEPT !.client_served = @ + 1].sum_queue_lens =
           server_stat[s].sum_queue_lens
  BY <1>2, StatsOfTurn, Zenon
<1> QED BY <1>1, <1>2, <1>4, <1>5, <1>6, <1>7, EndTurnRuns, Zenon

LEMMA StartNextRuns ==
  ASSUME RunsInv, BoostFits, SumsFit, NEW s \in Server, StartNext(s)
  PROVE  RunsInv'
<1>1. /\ pc = "update" /\ turn = s /\ EndTurn(s, server_stat[s])
      /\ SetNextClient(s, service_stat)
  BY Zenon DEF StartNext, IsTurnOf
<1>2. Inv /\ PlacesInv /\ OnlyAdmitted /\ QueuesInOrder /\ PlacesInv'
  BY StartNextKeepsPlaces DEF RunsInv, PlacesInv, Inv
<1>3. TurnMoves(s, service_stat)
  BY <1>2, StartNextMoves, Zenon
<1>4. current_client'[s] # NoClient => to_serve'[s] > 0
  BY <1>2, <1>3, CalledHasTime
<1>5. \A r \in Server : QueueLen(r)' <= QueueLen(r) + 0
  BY <1>1, <1>2, SetNextClientLen, Zenon
<1>6. \A r \in Server \ {s} : /\ current_client'[r] = current_client[r]
                              /\ to_serve'[r] = to_serve[r]
  BY <1>3, Zenon DEF TurnMoves
<1>7. server_stat[s] \in ServerStat
  BY <1>2, StatsOfTurn, Zenon
<1> QED BY <1>1, <1>2, <1>4, <1>5, <1>6, <1>7, EndTurnRuns, Zenon

\* Retry and Continue leave the queues alone.
LEMMA QueuesStayLen ==
  ASSUME OnlyAdmitted, client_queue' = client_queue,
         disable_client_queue' = disable_client_queue,
         normal_client_queue' = normal_client_queue
  PROVE  \A r \in Server : QueueLen(r)' = QueueLen(r) /\ QueueLen(r)' <= QueueLen(r) + 0
<1> TAKE r \in Server
<1>1. QueueLen(r)' = QueueLen(r)
  BY DEF QueueLen
<1> QED BY <1>1, QueueLenIsNat

LEMMA RetryRuns ==
  ASSUME RunsInv, BoostFits, SumsFit, NEW s \in Server, Retry(s)
  PROVE  RunsInv'
<1>1. /\ pc = "update" /\ turn = s /\ current_client[s] # NoClient
      /\ EndTurn(s, [server_stat[s] EXCEPT !.failure_count = @ + 1])
      /\ to_serve' = [to_serve EXCEPT ![s] = GetServiceTime(s, current_client[s])]
      /\ client_queue' = client_queue
      /\ disable_client_queue' = disable_client_queue
      /\ normal_client_queue' = normal_client_queue
      /\ current_client' = current_client
      /\ finished_clients_queue' = finished_clients_queue
  BY Zenon DEF Retry, IsTurnOf, ServiceFinished, queues
<1>2. Inv /\ PlacesInv /\ OnlyAdmitted
  BY DEF RunsInv, PlacesInv, Inv
<1>3. PlacesInv'
  <2>1. Inv' /\ drawn' = drawn /\ system_clients' = system_clients
    BY <1>1, <1>2, RetryKeepsInv, EndTurnFrame, Zenon
  <2> QED BY <1>1, <1>2, <2>1, NobodyMoves, Zenon
<1>4. /\ to_serve'[s] > 0
      /\ \A r \in Server \ {s} : to_serve'[r] = to_serve[r]
  <2>1. /\ current_client[s] \in Client /\ drawn \in [Client -> Draw]
        /\ to_serve \in [Server -> Int]
    BY <1>1, <1>2, BeforeMoves DEF OnlyAdmitted
  <2>2. GetServiceTime(s, current_client[s]) > 0
    BY <2>1, ServiceTakesTime
  <2> QED BY <1>1, <2>1, <2>2
<1>5. \A r \in Server : QueueLen(r)' <= QueueLen(r) + 0
  BY <1>1, <1>2, QueuesStayLen, Zenon
<1>6. /\ [server_stat[s] EXCEPT !.failure_count = @ + 1] \in ServerStat
      /\ [server_stat[s] EXCEPT !.failure_count = @ + 1].sum_queue_lens =
           server_stat[s].sum_queue_lens
  BY <1>2, StatsOfTurn, Zenon
<1> QED BY <1>1, <1>3, <1>4, <1>5, <1>6, EndTurnRuns, Zenon

LEMMA ContinueRuns ==
  ASSUME RunsInv, SumsFit, NEW s \in Server, Continue(s)
  PROVE  RunsInv'
<1>1. /\ pc = "update" /\ turn = s /\ EndTurn(s, server_stat[s])
      /\ current_client[s] # NoClient /\ to_serve[s] # 0
      /\ client_queue' = client_queue
      /\ disable_client_queue' = disable_client_queue
      /\ normal_client_queue' = normal_client_queue
      /\ current_client' = current_client /\ to_serve' = to_serve
      /\ finished_clients_queue' = finished_clients_queue
  BY Zenon DEF Continue, IsTurnOf, ServiceFinished, queues, serving
<1>2. Inv /\ PlacesInv /\ OnlyAdmitted
  BY DEF RunsInv, PlacesInv, Inv
<1>3. PlacesInv'
  <2>1. Inv' /\ drawn' = drawn /\ system_clients' = system_clients
    BY <1>1, <1>2, ContinueKeepsInv, EndTurnFrame, Zenon
  <2> QED BY <1>1, <1>2, <2>1, NobodyMoves, Zenon
<1>4. to_serve'[s] > 0
  BY <1>1, Zenon DEF RunsInv, ServicesRun
<1>5. \A r \in Server : QueueLen(r)' <= QueueLen(r) + 0
  BY <1>1, <1>2, QueuesStayLen, Zenon
<1>6. server_stat[s] \in ServerStat
  BY <1>2, StatsOfTurn, Zenon
<1> QED BY <1>1, <1>3, <1>4, <1>5, <1>6, EndTurnRuns, Zenon

\* robotic_server_set_next_client never finds a service that takes no time.
LEMMA StartSucceeds ==
  ASSUME BoostFits, Inv, NEW s \in Server
  PROVE  ~StartAssertFails(s)
<1> SUFFICES ASSUME NextQueue(s) # <<>>
             PROVE  GetServiceTime(s, Head(NextQueue(s))) > 0
  BY Zenon DEF StartAssertFails
<1>1. NextQueue(s) \in Seq(Admitted)
  BY BeforeTurn, KindsOfServer DEF NextQueue
<1>2. Head(NextQueue(s)) \in Admitted
  BY <1>1, TailIsSeq
<1> QED BY <1>2, BeforeMoves, ServiceTakesTime

\* A step outside the turns that leaves the servers alone.
LEMMA OutsideRuns ==
  ASSUME RunsInv, PlacesInv', pc' # "aborted", clock' = clock, turn' = turn,
         pc = "update" <=> pc' = "update",
         current_client' = current_client, to_serve' = to_serve,
         server_stat' = server_stat, QueuesBounded'
  PROVE  RunsInv'
<1>1. TurnInv'
  BY DEF RunsInv, TurnInv
<1>2. ServicesRun'
  BY DEF RunsInv, ServicesRun
<1>3. \A s \in Server : Updates(s)' = Updates(s)
  BY DEF RunsInv, Updates, InTurn
<1>4. SumsBounded'
  BY <1>3 DEF RunsInv, SumsBounded
<1> QED BY <1>1, <1>2, <1>4 DEF RunsInv

LEMMA AdmitRuns ==
  ASSUME RunsInv, NEW s \in Server, NEW c \in Client, Admit(s, c)
  PROVE  RunsInv'
<1>1. /\ pc = "admit" /\ pc' = "serve" /\ clock' = clock /\ turn' = turn
      /\ current_client' = current_client /\ to_serve' = to_serve
      /\ server_stat' = server_stat /\ JoinQueue(s, c)
      /\ system_clients # <<>> /\ system_clients' = Tail(system_clients)
  BY Zenon DEF Admit, Arrives, serving
<1>2. Inv /\ OnlyAdmitted /\ PlacesInv'
  BY AdmitKeepsPlaces DEF RunsInv, PlacesInv, Inv
<1>3. Len(system_clients') = Len(system_clients) - 1 /\ Len(system_clients) \in Nat
  <2>1. system_clients \in Seq(Client)
    BY <1>2 DEF Inv, TypeOK
  <2> QED BY <1>1, <2>1, TailIsSeq, LenProperties
<1>4. QueuesBounded'
  <2>1. ASSUME NEW r \in Server
        PROVE  QueueLen(r)' <= NumClients - Len(system_clients')
    <3>1. QueueLen(r)' <= QueueLen(r) + 1
      BY <1>1, <1>2, JoinQueueLen, Zenon
    <3>2. QueueLen(r) <= NumClients - Len(system_clients)
      BY DEF RunsInv, QueuesBounded
    <3>3. QueueLen(r) \in Nat
      BY <1>2, QueueLenIsNat
    <3>4. QueueLen(r)' \in Nat
      <4>1. OnlyAdmitted'
        BY <1>2 DEF PlacesInv, Inv
      <4>2. LensAreNat'
        BY <4>1, QueueLensAreNat, PTL
      <4> QED BY <4>2 DEF LensAreNat
    <3> DEFINE l == Len(system_clients)
               m == Len(system_clients')
               a == QueueLen(r)
               b == QueueLen(r)'
    <3>5. b <= a + 1 /\ a <= NumClients - l /\ m = l - 1
          /\ a \in Nat /\ b \in Nat /\ l \in Nat
      BY <1>3, <3>1, <3>2, <3>3, <3>4
    <3> HIDE DEF l, m, a, b
    <3>6. b <= NumClients - m
      BY <3>5
    <3> QED BY <3>6 DEF b, m
  <2> QED BY <2>1 DEF QueuesBounded
<1> QED BY <1>1, <1>2, <1>4, OutsideRuns

\* server_tick takes its tick from services that have time left.
LEMMA ServeRuns == ASSUME RunsInv, ServersUpdateServeTime PROVE RunsInv'
<1>1. /\ pc = "serve" /\ clock' = clock /\ turn' = turn /\ drawn' = drawn
      /\ pc' = IF \A s \in Server : current_client[s] # NoClient => to_serve[s] > 0
               THEN "update" ELSE "aborted"
      /\ to_serve' = [s \in Server |->
           IF current_client[s] # NoClient THEN to_serve[s] - 1 ELSE to_serve[s]]
      /\ server_stat' = [s \in Server |->
           IF current_client[s] # NoClient
           THEN [server_stat[s] EXCEPT !.active_time = @ + 1]
           ELSE [server_stat[s] EXCEPT !.idle_time = @ + 1]]
      /\ client_queue' = client_queue
      /\ disable_client_queue' = disable_client_queue
      /\ normal_client_queue' = normal_client_queue
      /\ current_client' = current_client
      /\ finished_clients_queue' = finished_clients_queue
      /\ system_clients' = system_clients
  BY Zenon DEF ServersUpdateServeTime, queues
<1>2. /\ Inv /\ PlacesInv /\ OnlyAdmitted
      /\ to_serve \in [Server -> Int] /\ server_stat \in [Server -> ServerStat]
  BY DEF RunsInv, PlacesInv, Inv, TypeOK
<1>3. PlacesInv'
  <2>1. Inv'
    BY <1>2, ServeKeepsInv
  <2> QED BY <1>1, <1>2, <2>1, NobodyMoves, Zenon
<1>4. /\ turn = 1 /\ pc' = "update"
      /\ \A s \in Server : current_client[s] # NoClient => to_serve[s] > 0
  BY <1>1 DEF RunsInv, TurnInv, ServicesRun
<1>5. TurnInv'
  BY <1>1, <1>4 DEF TurnInv
<1>6. ServicesRun'
  <2>1. ASSUME NEW s \in Server, current_client[s] # NoClient
        PROVE  to_serve'[s] > 0 \/ (turn <= s /\ to_serve'[s] = 0)
    BY <1>1, <1>2, <1>4, <2>1 DEF Server
  <2> QED BY <1>1, <1>4, <2>1 DEF ServicesRun
<1>7. SumsBounded'
  <2>1. ASSUME NEW s \in Server
        PROVE  server_stat'[s].sum_queue_lens = server_stat[s].sum_queue_lens
    BY <1>1, <1>2 DEF ServerStat
  <2>2. \A s \in Server : Updates(s)' = Updates(s)
    BY <1>1, <1>4 DEF Updates, InTurn, Server
  <2> QED BY <2>1, <2>2 DEF RunsInv, SumsBounded
<1>8. QueuesBounded'
  BY <1>1, <1>2, QueuesStayLen DEF RunsInv, QueuesBounded
<1> QED BY <1>3, <1>4, <1>5, <1>6, <1>7, <1>8 DEF RunsInv

LEMMA InitRuns == Init => RunsInv
<1> SUFFICES ASSUME Init PROVE RunsInv
  OBVIOUS
<1>1. /\ pc = "begin" /\ turn = 1 /\ clock = 0 /\ PlacesInv
      /\ current_client = [s \in Server |-> NoClient]
      /\ server_stat = [s \in Server |-> NoActivity]
      /\ client_queue = [s \in Standard |-> <<>>]
      /\ disable_client_queue = [s \in Robotic |-> <<>>]
      /\ normal_client_queue = [s \in Robotic |-> <<>>]
  BY InitPlaces, Zenon DEF Init
<1>2. TurnInv /\ ServicesRun
  BY <1>1 DEF TurnInv, ServicesRun
<1>3. SumsBounded
  BY <1>1 DEF SumsBounded, Updates, InTurn, NoActivity
<1>4. QueuesBounded
  <2>1. Len(<<>>) = 0
    BY EmptySeq
  <2>2. \A s \in Server : QueueLen(s) = 0
    BY <1>1, <2>1, KindsOfServer DEF QueueLen
  <2>3. 0 <= NumClients - Len(system_clients)
    <3>1. Len(system_clients) <= NumClients /\ system_clients \in Seq(Client)
      BY <1>1 DEF PlacesInv, Inv, ComeInOrder, TypeOK
    <3>2. Len(system_clients) \in Nat
      BY <3>1, LenProperties
    <3> QED BY <3>1, <3>2
  <2> QED BY <2>2, <2>3 DEF QueuesBounded
<1> QED BY <1>1, <1>2, <1>3, <1>4 DEF RunsInv

\* Every step keeps a run going.
LEMMA NextRuns ==
  ASSUME NStandard > 0, BoostFits, SumsFit, RunsInv, [Next]_vars
  PROVE  RunsInv'
<1>1. PlacesInv /\ PlacesInv' /\ Inv /\ OnlyAdmitted /\ pc # "aborted"
  BY NextKeepsPlaces DEF RunsInv, PlacesInv, Inv
<1> DEFINE Stay == /\ client_queue' = client_queue
                   /\ disable_client_queue' = disable_client_queue
                   /\ normal_client_queue' = normal_client_queue
                   /\ current_client' = current_client /\ to_serve' = to_serve
                   /\ server_stat' = server_stat /\ system_clients' = system_clients
                   /\ clock' = clock /\ turn' = turn
<1>2. ASSUME Stay, pc' # "aborted", pc = "update" <=> pc' = "update"
      PROVE  RunsInv'
  <2>1. QueuesBounded'
    BY <1>1, <1>2, QueuesStayLen DEF RunsInv, QueuesBounded
  <2> QED BY <1>1, <1>2, <2>1, OutsideRuns
<1>3. CASE Begin
  <2>1. Stay
    BY <1>3, Zenon DEF Begin, queues, serving
  <2>2. pc = "begin" /\ pc' \in {"admit", "done"}
    BY <1>3 DEF Begin, AtTick
  <2> QED BY <1>2, <2>1, <2>2
<1>4. CASE AdmitNobody
  <2>1. Stay
    BY <1>4, Zenon DEF AdmitNobody, queues, serving
  <2>2. pc = "admit" /\ pc' = "serve"
    BY <1>4, Zenon DEF AdmitNobody
  <2> QED BY <1>2, <2>1, <2>2
<1>5. ASSUME NEW s \in Server, NEW c \in Client, Admit(s, c) PROVE RunsInv'
  BY <1>5, AdmitRuns
<1>6. CASE ServersUpdateServeTime
  BY <1>6, ServeRuns
<1>7. ASSUME NEW s \in Server, Finish(s) PROVE RunsInv'
  BY <1>7, FinishRuns
<1>8. ASSUME NEW s \in Server, Retry(s) PROVE RunsInv'
  BY <1>8, RetryRuns
<1>9. ASSUME NEW s \in Server, Continue(s) PROVE RunsInv'
  BY <1>9, ContinueRuns
<1>10. ASSUME NEW s \in Server, StartNext(s) PROVE RunsInv'
  BY <1>10, StartNextRuns
<1>11. ASSUME NEW s \in Server, StartAborts(s) PROVE RunsInv'
  BY <1>1, <1>11, StartSucceeds, Zenon DEF StartAborts
<1>12. CASE UNCHANGED vars
  <2>1. Stay
    BY <1>12, Zenon DEF vars, queues, serving
  <2>2. pc' = pc
    BY <1>12, Zenon DEF vars
  <2> QED BY <1>1, <1>2, <2>1, <2>2
<1> QED BY <1>3, <1>4, <1>5, <1>6, <1>7, <1>8, <1>9, <1>10, <1>11, <1>12, Zenon
        DEF Next, Step, UpdateClient

\* With a standard server, a boost that leaves no service without a tick nor
\* with more than an int can hold, and queues whose lengths add up to an int,
\* none of the three assertions of the servers fails (server.c:223, 287 and
\* 305, 378): whatever the queues that fill up, a client being served always
\* has time left, its service takes time, and the mean queue length is not
\* negative.
THEOREM AssertionsHold ==
  NStandard > 0 /\ BoostFits /\ SumsFit => (Spec => []NeverAborts)
<1> SUFFICES ASSUME NStandard > 0, BoostFits, SumsFit
             PROVE  Spec => []NeverAborts
  OBVIOUS
<1>1. RunsInv /\ [Next]_vars => RunsInv'
  BY NextRuns
<1>2. RunsInv => NeverAborts
  BY DEF RunsInv, NeverAborts
<1> QED BY <1>1, <1>2, InitRuns, PTL DEF Spec

-----------------------------------------------------------------------------
(***************************************************************************)
(* The accounts of the servers and those of their clients                  *)
(***************************************************************************)
\* The clients server s has called, the ticks it served one of them, and the
\* failures of its services.
Called(s) == Finished(s) \cup Current(s)
ServedTime(s, c) ==
  (IF c \in Finished(s) THEN service_stat[c].finish_time ELSE Ticks - 1)
    - service_stat[c].start_service_time
ServedTimes(s) == [c \in Called(s) |-> ServedTime(s, c)]
Failures(s) == [c \in Called(s) |-> service_stat[c].failure_count]

\* The account of server s is in order.
StatsOf(s) ==
  /\ server_stat[s].active_time + server_stat[s].idle_time = Ticks
  /\ server_stat[s].active_time = SumFunction(ServedTimes(s))
  /\ server_stat[s].client_served = Len(finished_clients_queue[s])
  /\ server_stat[s].failure_count = SumFunction(Failures(s))

\* The inductive invariant.
StatsInv == TimesInv /\ \A s \in Server : StatsOf(s)

\* The ticks that client c has waited at server s, up to the last update.
WaitedTime(s, c) ==
  (IF c \in Called(s) THEN service_stat[c].start_service_time ELSE Updates(s))
    - drawn[c].arrival_time
WaitedTimes(s) == [c \in Called(s) \cup Queue(s) |-> WaitedTime(s, c)]

LawOf(s) == server_stat[s].sum_queue_lens = SumFunction(WaitedTimes(s))

-----------------------------------------------------------------------------
(***************************************************************************)
(* One server and one step                                                 *)
(***************************************************************************)
LEMMA ClientsAreFinite == ASSUME NEW S \in SUBSET Client PROVE IsFiniteSet(S)
<1>1. IsFiniteSet(Client)
  BY FS_Interval DEF Client
<1> QED BY <1>1, FS_Subset

\* The clients of P are served for one more tick in this step, those of Q
\* fail once more, and who is called brings nothing along.
LEMMA StatsMove ==
  ASSUME NEW s \in Server, StatsOf(s), Called(s) \subseteq Called(s)',
         Called(s)' \subseteq Client,
         \A c \in Called(s) : ServedTime(s, c) \in Int /\ service_stat[c].failure_count \in Int,
         \A c \in Called(s)' \ Called(s) :
           ServedTime(s, c)' = 0 /\ service_stat'[c].failure_count = 0,
         NEW P, \A c \in Called(s) :
           ServedTime(s, c)' = ServedTime(s, c) + IF c \in P THEN 1 ELSE 0,
         NEW Q, \A c \in Called(s) :
           service_stat'[c].failure_count =
             service_stat[c].failure_count + IF c \in Q THEN 1 ELSE 0,
         server_stat'[s].active_time + server_stat'[s].idle_time = Ticks',
         server_stat'[s].active_time =
           server_stat[s].active_time + Cardinality(Called(s) \cap P),
         server_stat'[s].client_served = Len(finished_clients_queue'[s]),
         server_stat'[s].failure_count =
           server_stat[s].failure_count + Cardinality(Called(s) \cap Q)
  PROVE  StatsOf(s)'
<1>1. IsFiniteSet(Called(s)')
  BY ClientsAreFinite
<1>2. Grows(ServedTimes(s), ServedTimes(s)', P)
  BY <1>1 DEF ServedTimes, Grows
<1>3. Grows(Failures(s), Failures(s)', Q)
  BY <1>1 DEF Failures, Grows
<1>4. DOMAIN ServedTimes(s) = Called(s) /\ DOMAIN Failures(s) = Called(s)
  BY DEF ServedTimes, Failures
<1>5. \A f, g, X, S : Grows(f, g, X) /\ DOMAIN f = S =>
        SumFunction(g) = SumFunction(f) + Cardinality(S \cap X)
  BY SumGrows
<1>6. SumFunction(ServedTimes(s)') =
        SumFunction(ServedTimes(s)) + Cardinality(Called(s) \cap P)
  BY ONLY <1>2, <1>4, <1>5, Zenon
<1>7. SumFunction(Failures(s)') =
        SumFunction(Failures(s)) + Cardinality(Called(s) \cap Q)
  BY ONLY <1>3, <1>4, <1>5, Zenon
<1> QED BY <1>6, <1>7, Zenon DEF StatsOf

\* The same if nobody is served any longer and nobody fails.
LEMMA StatsKept ==
  ASSUME NEW s \in Server, StatsOf(s), Called(s) \subseteq Called(s)',
         Called(s)' \subseteq Client, server_stat[s] \in ServerStat,
         \A c \in Called(s) : ServedTime(s, c) \in Int /\ service_stat[c].failure_count \in Int,
         \A c \in Called(s)' \ Called(s) :
           ServedTime(s, c)' = 0 /\ service_stat'[c].failure_count = 0,
         \A c \in Called(s) :
           /\ ServedTime(s, c)' = ServedTime(s, c)
           /\ service_stat'[c].failure_count = service_stat[c].failure_count,
         Ticks' = Ticks,
         server_stat'[s].active_time = server_stat[s].active_time,
         server_stat'[s].idle_time = server_stat[s].idle_time,
         server_stat'[s].client_served = Len(finished_clients_queue'[s]),
         server_stat'[s].failure_count = server_stat[s].failure_count
  PROVE  StatsOf(s)'
<1>1. Cardinality(Called(s) \cap {}) = 0
  BY FS_EmptySet
<1>2. server_stat[s].active_time \in Int /\ server_stat[s].failure_count \in Int
  BY DEF ServerStat
<1>3. server_stat'[s].active_time + server_stat'[s].idle_time = Ticks'
  BY DEF StatsOf
<1>4. \A c \in Called(s) :
        /\ ServedTime(s, c)' = ServedTime(s, c) + IF c \in {} THEN 1 ELSE 0
        /\ service_stat'[c].failure_count =
             service_stat[c].failure_count + IF c \in {} THEN 1 ELSE 0
  OBVIOUS
<1>5. /\ server_stat'[s].active_time =
           server_stat[s].active_time + Cardinality(Called(s) \cap {})
      /\ server_stat'[s].failure_count =
           server_stat[s].failure_count + Cardinality(Called(s) \cap {})
  BY <1>1, <1>2
<1> QED BY <1>3, <1>4, <1>5, StatsMove

\* What every step starts from.
LEMMA BeforeStats ==
  ASSUME TimesInv, NEW s \in Server
  PROVE  /\ PlacesInv /\ Inv /\ clock \in Nat /\ Ticks \in Nat
         /\ service_stat \in [Client -> ServiceStat]
         /\ server_stat \in [Server -> ServerStat]
         /\ Called(s) \subseteq ClientsOf(s) /\ ClientsOf(s) \subseteq Client
         /\ \A c \in Called(s) : /\ ServedTime(s, c) \in Int
                                 /\ service_stat[c].failure_count \in Int
<1>1. PlacesInv /\ Inv /\ OnlyAdmitted
  BY DEF TimesInv, PlacesInv, Inv
<1>2. /\ clock \in Nat /\ service_stat \in [Client -> ServiceStat]
      /\ server_stat \in [Server -> ServerStat]
  BY <1>1 DEF Inv, TypeOK
<1>3. Ticks \in Nat
  BY <1>2 DEF Ticks
<1>4. Called(s) \subseteq ClientsOf(s) /\ ClientsOf(s) \subseteq Client
  BY <1>1, ClientsAreAdmitted, BeforeMoves DEF Called, ClientsOf
<1>5. ASSUME NEW c \in Called(s)
      PROVE  ServedTime(s, c) \in Int /\ service_stat[c].failure_count \in Int
  <2>1. service_stat[c] \in ServiceStat
    BY <1>2, <1>4
  <2> QED BY <1>3, <2>1 DEF ServedTime, ServiceStat
<1> QED BY <1>1, <1>2, <1>3, <1>4, <1>5

\* A server at which nothing happens.
LEMMA StatsStay ==
  ASSUME NEW s \in Server, StatsOf(s), Ticks' = Ticks,
         Current(s)' = Current(s),
         finished_clients_queue'[s] = finished_clients_queue[s],
         \A c \in Called(s) : service_stat'[c] = service_stat[c],
         server_stat'[s].active_time = server_stat[s].active_time,
         server_stat'[s].idle_time = server_stat[s].idle_time,
         server_stat'[s].client_served = server_stat[s].client_served,
         server_stat'[s].failure_count = server_stat[s].failure_count
  PROVE  StatsOf(s)'
<1>1. Finished(s)' = Finished(s) /\ Called(s)' = Called(s)
  BY DEF Finished, Called
<1>2. ServedTimes(s)' = ServedTimes(s)
  BY <1>1 DEF ServedTimes, ServedTime
<1>3. Failures(s)' = Failures(s)
  BY <1>1 DEF Failures
<1> QED BY <1>2, <1>3, Zenon DEF StatsOf

\* The account of a server after its turn.
LEMMA EndTurnStat ==
  ASSUME NEW s \in Server, NEW stat \in ServerStat,
         server_stat \in [Server -> ServerStat], EndTurn(s, stat)
  PROVE  /\ server_stat'[s].active_time = stat.active_time
         /\ server_stat'[s].idle_time = stat.idle_time
         /\ server_stat'[s].client_served = stat.client_served
         /\ server_stat'[s].failure_count = stat.failure_count
         /\ \A r \in Server \ {s} : server_stat'[r] = server_stat[r]
<1> DEFINE sum == ToInt(stat.sum_queue_lens + QueueLen(s)')
           mean == Quotient(sum, clock + 1)
<1>1. server_stat' = [server_stat EXCEPT ![s] =
        [stat EXCEPT !.sum_queue_lens = sum, !.mean_server_queue_len = mean]]
  BY Zenon DEF EndTurn
<1> HIDE DEF sum, mean
<1>2. /\ server_stat'[s] =
           [stat EXCEPT !.sum_queue_lens = sum, !.mean_server_queue_len = mean]
      /\ \A r \in Server \ {s} : server_stat'[r] = server_stat[r]
  BY <1>1
<1> QED BY <1>2 DEF ServerStat

\* The turn of another server.
LEMMA OthersStay ==
  ASSUME StatsInv, NEW s \in Server, Ticks' = Ticks,
         \A c \in Client \ ClientsOf(s) : service_stat'[c] = service_stat[c],
         NEW r \in Server, r # s,
         current_client'[r] = current_client[r],
         finished_clients_queue'[r] = finished_clients_queue[r],
         server_stat'[r] = server_stat[r]
  PROVE  StatsOf(r)'
<1>1. Called(r) \subseteq ClientsOf(r) /\ ClientsOf(r) \subseteq Client /\ PlacesInv
  BY BeforeStats DEF StatsInv
<1>2. ClientsOf(r) \cap ClientsOf(s) = {}
  BY <1>1, Zenon DEF PlacesInv, OnePlaceEach
<1>3. \A c \in Called(r) : service_stat'[c] = service_stat[c]
  BY <1>1, <1>2
<1>4. Current(r)' = Current(r)
  BY DEF Current
<1>5. StatsOf(r)
  BY DEF StatsInv
<1> QED BY <1>3, <1>4, <1>5, StatsStay

-----------------------------------------------------------------------------
(***************************************************************************)
(* The statistics of the servers add up                                    *)
(***************************************************************************)
\* Who is called now starts now, and has not failed.
LEMMA CalledStarts ==
  ASSUME TimesInv, NEW s \in Server, pc = "update",
         NEW stats \in [Client -> ServiceStat],
         \A c \in Queue(s) : stats[c].failure_count = service_stat[c].failure_count,
         TurnMoves(s, stats)
  PROVE  \A n \in Current(s)' : /\ n \in Queue(s) /\ n \in Client
                                /\ service_stat'[n].start_service_time = clock
                                /\ service_stat'[n].failure_count = 0
<1>1. CASE Rests(s, stats)
  BY <1>1 DEF Rests, Current
<1>2. ASSUME NEW c \in Admitted, Calls(s, c, stats)
      PROVE  \A n \in Current(s)' : /\ n \in Queue(s) /\ n \in Client
                                    /\ service_stat'[n].start_service_time = clock
                                    /\ service_stat'[n].failure_count = 0
  <2>1. c \in Queue(s) /\ c \in Client /\ clock \in Nat
    BY <1>2, BeforeTimes DEF Calls, First, ClientsOf
  <2>2. stats[c].failure_count = 0
    BY <2>1 DEF TimesInv, WaitingAreFresh
  <2>3. /\ service_stat'[c].start_service_time = clock
        /\ service_stat'[c].failure_count = stats[c].failure_count
    BY <1>2, <2>1, CallsStats
  <2>4. Current(s)' \subseteq {c}
    BY <1>2 DEF Calls, Current
  <2> QED BY <2>1, <2>2, <2>3, <2>4
<1> QED BY <1>1, <1>2, Zenon DEF TurnMoves

LEMMA FinishKeepsStats ==
  ASSUME FullSizes = {}, StatsInv, NEW s \in Server, Finish(s)
  PROVE  \A r \in Server : StatsOf(r)'
<1> DEFINE c == current_client[s]
           stats == FinishedStats(s)
           stat == [server_stat[s] EXCEPT !.client_served = @ + 1]
<1>1. pc = "update" /\ EndTurn(s, stat)
  BY Zenon DEF Finish, IsTurnOf
<1>2. /\ TimesInv /\ PlacesInv /\ Inv /\ clock \in Nat /\ NStandard > 0
      /\ service_stat \in [Client -> ServiceStat]
      /\ server_stat \in [Server -> ServerStat]
      /\ Called(s) \subseteq ClientsOf(s) /\ ClientsOf(s) \subseteq Client
      /\ \A d \in Called(s) : ServedTime(s, d) \in Int /\ service_stat[d].failure_count \in Int
  BY <1>1, BeforeTimes, BeforeStats DEF StatsInv
<1>3. /\ TurnMoves(s, stats) /\ drawn' = drawn /\ Current(s) = {c} /\ c \in Admitted
      /\ \E q \in Pushed(finished_clients_queue[s], c) :
           finished_clients_queue' = [finished_clients_queue EXCEPT ![s] = q]
  BY <1>2, FinishMoves, Zenon DEF PlacesInv
<1>4. Ticks = clock + 1 /\ Ticks' = Ticks
  BY <1>1, <1>2, EndTurnTicks, Zenon
<1>5. /\ Called(s) = Finished(s) \cup {c} /\ c \notin Finished(s) /\ c \in Client
      /\ Queue(s) \cap Called(s) = {} /\ Queue(s) \subseteq Client
  BY <1>2, <1>3 DEF Called, ClientsOf, PlacesInv, OnePlaceEach
<1>6. /\ stats \in [Client -> ServiceStat]
      /\ \A d \in Client \ {c} : stats[d] = service_stat[d]
      /\ stats[c].finish_time = clock
      /\ stats[c].start_service_time = service_stat[c].start_service_time
      /\ stats[c].failure_count = service_stat[c].failure_count
  BY <1>2, <1>5, FinishedStatsAre, Zenon
<1>7. /\ stat \in ServerStat /\ server_stat[s] \in ServerStat
      /\ stat.active_time = server_stat[s].active_time
      /\ stat.idle_time = server_stat[s].idle_time
      /\ stat.failure_count = server_stat[s].failure_count
      /\ stat.client_served = server_stat[s].client_served + 1
  <2>1. server_stat[s] \in ServerStat
    BY <1>2
  <2> QED BY <2>1 DEF ServerStat
<1> HIDE DEF c, stats, stat
<1>8. /\ server_stat'[s].active_time = server_stat[s].active_time
      /\ server_stat'[s].idle_time = server_stat[s].idle_time
      /\ server_stat'[s].failure_count = server_stat[s].failure_count
      /\ server_stat'[s].client_served = server_stat[s].client_served + 1
      /\ \A r \in Server \ {s} : server_stat'[r] = server_stat[r]
  BY <1>1, <1>2, <1>7, EndTurnStat, Zenon
<1>9. /\ finished_clients_queue'[s] = Append(finished_clients_queue[s], c)
      /\ \A r \in Server \ {s} : finished_clients_queue'[r] = finished_clients_queue[r]
      /\ Finished(s)' = Finished(s) \cup {c}
      /\ Len(finished_clients_queue'[s]) = Len(finished_clients_queue[s]) + 1
  <2>1. /\ finished_clients_queue \in [Server -> Seq(Admitted)]
        /\ finished_clients_queue[s] \in Seq(Admitted)
    BY <1>2, BeforeTurn
  <2>2. finished_clients_queue' =
          [finished_clients_queue EXCEPT ![s] = Append(finished_clients_queue[s], c)]
    BY <1>3 DEF Pushed
  <2>3. /\ finished_clients_queue'[s] = Append(finished_clients_queue[s], c)
        /\ \A r \in Server \ {s} : finished_clients_queue'[r] = finished_clients_queue[r]
    BY <2>1, <2>2
  <2>4. /\ ToSet(Append(finished_clients_queue[s], c)) =
             ToSet(finished_clients_queue[s]) \cup {c}
        /\ Len(Append(finished_clients_queue[s], c)) = Len(finished_clients_queue[s]) + 1
    BY <1>3, <2>1, AppendElements, AppendProperties
  <2> QED BY <2>3, <2>4 DEF Finished
<1>10. \A d \in Queue(s) : stats[d].failure_count = service_stat[d].failure_count
  BY <1>5, <1>6
<1>11. \A d \in Client \ Queue(s) : service_stat'[d] = stats[d]
  <2>1. Ticks' = clock + 1
    BY <1>4
  <2> QED BY <1>1, <1>2, <1>3, <1>6, <1>10, <2>1, CalledTimes, Zenon
<1>12. \A n \in Current(s)' : /\ n \in Queue(s) /\ n \in Client
                              /\ service_stat'[n].start_service_time = clock
                              /\ service_stat'[n].failure_count = 0
  BY <1>1, <1>2, <1>3, <1>6, <1>10, CalledStarts, Zenon
<1>13. StatsOf(s)'
  <2>1. Called(s)' = Called(s) \cup Current(s)' /\ Called(s)' \subseteq Client
    BY <1>2, <1>5, <1>9, <1>12 DEF Called
  <2>2. \A d \in Called(s)' \ Called(s) :
          ServedTime(s, d)' = 0 /\ service_stat'[d].failure_count = 0
    <3> SUFFICES ASSUME NEW d \in Called(s)', d \notin Called(s)
                 PROVE  ServedTime(s, d)' = 0 /\ service_stat'[d].failure_count = 0
      OBVIOUS
    <3>1. /\ d \notin Finished(s)' /\ service_stat'[d].start_service_time = clock
          /\ service_stat'[d].failure_count = 0
      BY <1>5, <1>9, <1>12, <2>1
    <3>2. ServedTime(s, d)' = Ticks' - 1 - clock
      BY <3>1 DEF ServedTime
    <3> QED BY <1>2, <1>4, <3>1, <3>2
  <2>3. \A d \in Called(s) :
          /\ ServedTime(s, d)' = ServedTime(s, d)
          /\ service_stat'[d].failure_count = service_stat[d].failure_count
    <3> SUFFICES ASSUME NEW d \in Called(s)
                 PROVE  /\ ServedTime(s, d)' = ServedTime(s, d)
                        /\ service_stat'[d].failure_count = service_stat[d].failure_count
      OBVIOUS
    <3>1. service_stat'[d] = stats[d] /\ d \in Finished(s)'
      BY <1>2, <1>5, <1>9, <1>11
    <3>2. ServedTime(s, d)' = stats[d].finish_time - stats[d].start_service_time
      BY <3>1 DEF ServedTime
    <3>3. CASE d = c
      <4>1. ServedTime(s, d) = Ticks - 1 - service_stat[d].start_service_time
        BY <1>5, <3>3 DEF ServedTime
      <4>2. Ticks - 1 = clock
        BY <1>2, <1>4
      <4> QED BY <1>6, <3>1, <3>2, <3>3, <4>1, <4>2
    <3>4. CASE d # c
      <4>1. d \in Finished(s) /\ stats[d] = service_stat[d]
        BY <1>2, <1>5, <1>6, <3>4
      <4> QED BY <3>1, <3>2, <4>1 DEF ServedTime
    <3> QED BY <3>3, <3>4
  <2>4. StatsOf(s)
    BY DEF StatsInv
  <2>5. server_stat'[s].client_served = Len(finished_clients_queue'[s])
    BY <1>8, <1>9, <2>4 DEF StatsOf
  <2> QED BY <1>2, <1>4, <1>7, <1>8, <2>1, <2>2, <2>3, <2>4, <2>5, StatsKept
<1>14. ASSUME NEW r \in Server, r # s PROVE StatsOf(r)'
  <2>1. \A d \in Client \ ClientsOf(s) : service_stat'[d] = service_stat[d]
    BY <1>2, <1>5, <1>6, <1>11 DEF ClientsOf, Called
  <2>2. current_client'[r] = current_client[r]
    BY <1>3, <1>14, Zenon DEF TurnMoves
  <2> QED BY <1>4, <1>8, <1>9, <1>14, <2>1, <2>2, OthersStay
<1> QED BY <1>13, <1>14

LEMMA StartNextKeepsStats ==
  ASSUME StatsInv, NEW s \in Server, StartNext(s)
  PROVE  \A r \in Server : StatsOf(r)'
<1>1. pc = "update" /\ EndTurn(s, server_stat[s])
  BY Zenon DEF StartNext, IsTurnOf
<1>2. /\ TimesInv /\ PlacesInv /\ Inv /\ clock \in Nat /\ NStandard > 0
      /\ service_stat \in [Client -> ServiceStat]
      /\ server_stat \in [Server -> ServerStat] /\ server_stat[s] \in ServerStat
      /\ Called(s) \subseteq ClientsOf(s) /\ ClientsOf(s) \subseteq Client
      /\ \A d \in Called(s) : ServedTime(s, d) \in Int /\ service_stat[d].failure_count \in Int
  BY <1>1, BeforeTimes, BeforeStats DEF StatsInv
<1>3. /\ TurnMoves(s, service_stat) /\ drawn' = drawn /\ Current(s) = {}
      /\ finished_clients_queue' = finished_clients_queue
  BY <1>2, StartNextMoves, Zenon DEF PlacesInv
<1>4. Ticks = clock + 1 /\ Ticks' = Ticks
  BY <1>1, <1>2, EndTurnTicks, Zenon
<1>5. /\ Called(s) = Finished(s) /\ Finished(s)' = Finished(s)
      /\ Queue(s) \cap Called(s) = {}
  BY <1>2, <1>3 DEF Called, Finished, PlacesInv, OnePlaceEach
<1>6. /\ server_stat'[s].active_time = server_stat[s].active_time
      /\ server_stat'[s].idle_time = server_stat[s].idle_time
      /\ server_stat'[s].failure_count = server_stat[s].failure_count
      /\ server_stat'[s].client_served = server_stat[s].client_served
      /\ \A r \in Server \ {s} : server_stat'[r] = server_stat[r]
  BY <1>1, <1>2, EndTurnStat, Zenon
<1>7. \A d \in Client \ Queue(s) : service_stat'[d] = service_stat[d]
  <2>1. Ticks' = clock + 1
    BY <1>4
  <2> QED BY <1>1, <1>2, <1>3, <2>1, CalledTimes, Zenon
<1>8. \A n \in Current(s)' : /\ n \in Queue(s) /\ n \in Client
                             /\ service_stat'[n].start_service_time = clock
                             /\ service_stat'[n].failure_count = 0
  BY <1>1, <1>2, <1>3, CalledStarts, Zenon
<1>9. StatsOf(s)'
  <2>1. Called(s)' = Called(s) \cup Current(s)' /\ Called(s)' \subseteq Client
    BY <1>2, <1>5, <1>8 DEF Called
  <2>2. \A d \in Called(s)' \ Called(s) :
          ServedTime(s, d)' = 0 /\ service_stat'[d].failure_count = 0
    <3> SUFFICES ASSUME NEW d \in Called(s)', d \notin Called(s)
                 PROVE  ServedTime(s, d)' = 0 /\ service_stat'[d].failure_count = 0
      OBVIOUS
    <3>1. /\ d \notin Finished(s)' /\ service_stat'[d].start_service_time = clock
          /\ service_stat'[d].failure_count = 0
      BY <1>5, <1>8, <2>1
    <3>2. ServedTime(s, d)' = Ticks' - 1 - clock
      BY <3>1 DEF ServedTime
    <3> QED BY <1>2, <1>4, <3>1, <3>2
  <2>3. \A d \in Called(s) :
          /\ ServedTime(s, d)' = ServedTime(s, d)
          /\ service_stat'[d].failure_count = service_stat[d].failure_count
    BY <1>2, <1>5, <1>7 DEF ServedTime
  <2>4. StatsOf(s)
    BY DEF StatsInv
  <2>5. server_stat'[s].client_served = Len(finished_clients_queue'[s])
    BY <1>3, <1>6, <2>4 DEF StatsOf
  <2> QED BY <1>2, <1>4, <1>6, <2>1, <2>2, <2>3, <2>4, <2>5, StatsKept
<1>10. ASSUME NEW r \in Server, r # s PROVE StatsOf(r)'
  <2>1. \A d \in Client \ ClientsOf(s) : service_stat'[d] = service_stat[d]
    BY <1>7 DEF ClientsOf
  <2>2. /\ current_client'[r] = current_client[r]
        /\ finished_clients_queue'[r] = finished_clients_queue[r]
    BY <1>3, <1>10, Zenon DEF TurnMoves
  <2> QED BY <1>4, <1>6, <1>10, <2>1, <2>2, OthersStay
<1> QED BY <1>9, <1>10

LEMMA RetryKeepsStats ==
  ASSUME StatsInv, NEW s \in Server, Retry(s)
  PROVE  \A r \in Server : StatsOf(r)'
<1> DEFINE c == current_client[s]
           stat == [server_stat[s] EXCEPT !.failure_count = @ + 1]
<1>1. /\ pc = "update" /\ EndTurn(s, stat) /\ c # NoClient
      /\ service_stat' = [service_stat EXCEPT ![c].failure_count = @ + 1]
      /\ current_client' = current_client
      /\ finished_clients_queue' = finished_clients_queue
  BY Zenon DEF Retry, IsTurnOf, ServiceFinished
<1>2. /\ TimesInv /\ PlacesInv /\ Inv /\ clock \in Nat /\ NStandard > 0
      /\ service_stat \in [Client -> ServiceStat]
      /\ server_stat \in [Server -> ServerStat] /\ server_stat[s] \in ServerStat
      /\ Called(s) \subseteq ClientsOf(s) /\ ClientsOf(s) \subseteq Client
      /\ \A d \in Called(s) : ServedTime(s, d) \in Int /\ service_stat[d].failure_count \in Int
  BY <1>1, BeforeTimes, BeforeStats DEF StatsInv
<1>3. Ticks' = Ticks
  BY <1>1, <1>2, EndTurnTicks, Zenon
<1>4. /\ Called(s)' = Called(s) /\ c \in Called(s) /\ c \in Client
      /\ Finished(s)' = Finished(s)
  BY <1>1, <1>2 DEF Called, Current, Finished
<1>5. /\ stat \in ServerStat
      /\ stat.active_time = server_stat[s].active_time
      /\ stat.idle_time = server_stat[s].idle_time
      /\ stat.client_served = server_stat[s].client_served
      /\ stat.failure_count = server_stat[s].failure_count + 1
      /\ server_stat[s].active_time \in Int /\ server_stat[s].failure_count \in Int
  BY <1>2 DEF ServerStat
<1> HIDE DEF c, stat
<1>6. /\ server_stat'[s].active_time = server_stat[s].active_time
      /\ server_stat'[s].idle_time = server_stat[s].idle_time
      /\ server_stat'[s].client_served = server_stat[s].client_served
      /\ server_stat'[s].failure_count = server_stat[s].failure_count + 1
      /\ \A r \in Server \ {s} : server_stat'[r] = server_stat[r]
  BY <1>1, <1>2, <1>5, EndTurnStat, Zenon
<1>7. /\ \A d \in Client \ {c} : service_stat'[d] = service_stat[d]
      /\ service_stat'[c].start_service_time = service_stat[c].start_service_time
      /\ service_stat'[c].finish_time = service_stat[c].finish_time
      /\ service_stat'[c].failure_count = service_stat[c].failure_count + 1
  <2> DEFINE fails == service_stat[c].failure_count
  <2>1. service_stat[c] \in ServiceStat
    BY <1>2, <1>4
  <2>2. /\ service_stat'[c] = [service_stat[c] EXCEPT !.failure_count = fails + 1]
        /\ \A d \in Client \ {c} : service_stat'[d] = service_stat[d]
    BY <1>1, <1>2, <1>4
  <2> QED BY <2>1, <2>2 DEF ServiceStat
<1>8. StatsOf(s)'
  <2>1. \A d \in Called(s) :
          /\ ServedTime(s, d)' = ServedTime(s, d) + IF d \in {} THEN 1 ELSE 0
          /\ service_stat'[d].failure_count =
               service_stat[d].failure_count + IF d \in {c} THEN 1 ELSE 0
    <3> SUFFICES ASSUME NEW d \in Called(s)
                 PROVE  /\ ServedTime(s, d)' = ServedTime(s, d)
                        /\ service_stat'[d].failure_count =
                             service_stat[d].failure_count + IF d = c THEN 1 ELSE 0
      BY <1>2
    <3>1. ServedTime(s, d)' = ServedTime(s, d)
      BY <1>2, <1>3, <1>4, <1>7 DEF ServedTime
    <3>2. service_stat'[d].failure_count =
            service_stat[d].failure_count + IF d = c THEN 1 ELSE 0
      BY <1>2, <1>7
    <3> QED BY <3>1, <3>2
  <2>2. Cardinality(Called(s) \cap {}) = 0 /\ Cardinality(Called(s) \cap {c}) = 1
    <3>1. Called(s) \cap {} = {} /\ Called(s) \cap {c} = {c}
      BY <1>4
    <3> QED BY <3>1, FS_EmptySet, FS_Singleton
  <2>3. StatsOf(s)
    BY DEF StatsInv
  <2>4. /\ server_stat'[s].active_time =
             server_stat[s].active_time + Cardinality(Called(s) \cap {})
        /\ server_stat'[s].failure_count =
             server_stat[s].failure_count + Cardinality(Called(s) \cap {c})
    BY <1>5, <1>6, <2>2
  <2>5. /\ server_stat'[s].active_time + server_stat'[s].idle_time = Ticks'
        /\ server_stat'[s].client_served = Len(finished_clients_queue'[s])
    BY <1>1, <1>3, <1>6, <2>3 DEF StatsOf
  <2>6. Called(s) \subseteq Called(s)' /\ Called(s)' \subseteq Client
        /\ \A d \in Called(s)' \ Called(s) : FALSE
    BY <1>2, <1>4
  <2> QED BY <1>2, <2>1, <2>3, <2>4, <2>5, <2>6, StatsMove
<1>9. ASSUME NEW r \in Server, r # s PROVE StatsOf(r)'
  <2>1. \A d \in Client \ ClientsOf(s) : service_stat'[d] = service_stat[d]
    BY <1>2, <1>4, <1>7
  <2> QED BY <1>1, <1>3, <1>6, <1>9, <2>1, OthersStay
<1> QED BY <1>8, <1>9

\* A server tick counts for the client being served, or as idle.
LEMMA ServeKeepsStats ==
  ASSUME StatsInv, ServersUpdateServeTime
  PROVE  \A s \in Server : StatsOf(s)'
<1> SUFFICES ASSUME NEW s \in Server PROVE StatsOf(s)'
  OBVIOUS
<1>1. /\ pc = "serve" /\ pc' \in {"update", "aborted"} /\ clock' = clock
      /\ current_client' = current_client
      /\ finished_clients_queue' = finished_clients_queue
      /\ service_stat' = service_stat
      /\ server_stat' = [r \in Server |->
           IF current_client[r] # NoClient
           THEN [server_stat[r] EXCEPT !.active_time = @ + 1]
           ELSE [server_stat[r] EXCEPT !.idle_time = @ + 1]]
  BY DEF ServersUpdateServeTime
<1>2. /\ TimesInv /\ PlacesInv /\ Inv /\ clock \in Nat
      /\ service_stat \in [Client -> ServiceStat]
      /\ server_stat \in [Server -> ServerStat] /\ server_stat[s] \in ServerStat
      /\ Called(s) \subseteq ClientsOf(s) /\ ClientsOf(s) \subseteq Client
      /\ \A d \in Called(s) : ServedTime(s, d) \in Int /\ service_stat[d].failure_count \in Int
  BY BeforeStats DEF StatsInv
<1>3. Ticks = clock /\ Ticks' = clock + 1
  BY <1>1, <1>2 DEF TimesInv, HasServers, Ticks, InTurn
<1>4. /\ Called(s)' = Called(s) /\ Finished(s)' = Finished(s)
      /\ Current(s) \subseteq Called(s) /\ Current(s) \cap Finished(s) = {}
  BY <1>1, <1>2 DEF Called, Current, Finished, PlacesInv, OnePlaceEach
<1>5. \A d \in Called(s) :
        ServedTime(s, d)' = ServedTime(s, d) + IF d \in Current(s) THEN 1 ELSE 0
  <2> SUFFICES ASSUME NEW d \in Called(s)
               PROVE  ServedTime(s, d)' = ServedTime(s, d) + IF d \in Current(s) THEN 1 ELSE 0
    OBVIOUS
  <2>1. CASE d \in Finished(s)
    BY <1>1, <1>2, <1>4, <2>1 DEF ServedTime
  <2>2. CASE d \notin Finished(s)
    <3>1. /\ ServedTime(s, d) = Ticks - 1 - service_stat[d].start_service_time
          /\ ServedTime(s, d)' = Ticks' - 1 - service_stat[d].start_service_time
          /\ d \in Current(s)
      BY <1>1, <1>4, <2>2 DEF ServedTime, Called
    <3>2. service_stat[d].start_service_time \in Int
      <4>1. service_stat[d] \in ServiceStat
        BY <1>2
      <4> QED BY <4>1 DEF ServiceStat
    <3> QED BY <1>2, <1>3, <3>1, <3>2
  <2> QED BY <2>1, <2>2
<1>6. StatsOf(s) /\ Called(s) \cap {} = {} /\ Called(s) \cap Current(s) = Current(s)
  BY <1>4 DEF StatsInv
<1> DEFINE stat == server_stat[s]
<1>7. /\ stat.active_time + stat.idle_time = clock
      /\ stat.active_time \in Nat /\ stat.idle_time \in Nat /\ stat.failure_count \in Nat
      /\ stat.client_served = Len(finished_clients_queue[s])
  BY <1>2, <1>3, <1>6 DEF StatsOf, ServerStat
<1>8. /\ server_stat'[s].active_time + server_stat'[s].idle_time = Ticks'
      /\ server_stat'[s].active_time = stat.active_time + Cardinality(Current(s))
      /\ server_stat'[s].client_served = Len(finished_clients_queue'[s])
      /\ server_stat'[s].failure_count = stat.failure_count
  <2>1. CASE current_client[s] # NoClient
    <3>1. Current(s) = {current_client[s]}
      BY <2>1 DEF Current
    <3>2. Cardinality(Current(s)) = 1
      BY <3>1, FS_Singleton
    <3>3. server_stat'[s] = [stat EXCEPT !.active_time = stat.active_time + 1]
      BY <1>1, <2>1
    <3>4. /\ server_stat'[s].active_time = stat.active_time + 1
          /\ server_stat'[s].idle_time = stat.idle_time
          /\ server_stat'[s].client_served = stat.client_served
          /\ server_stat'[s].failure_count = stat.failure_count
      BY <1>2, <3>3 DEF ServerStat
    <3> QED BY <1>1, <1>2, <1>3, <1>7, <3>2, <3>4
  <2>2. CASE current_client[s] = NoClient
    <3>1. Current(s) = {}
      BY <2>2 DEF Current
    <3>2. Cardinality(Current(s)) = 0
      BY <3>1, FS_EmptySet
    <3>3. server_stat'[s] = [stat EXCEPT !.idle_time = stat.idle_time + 1]
      BY <1>1, <2>2
    <3>4. /\ server_stat'[s].active_time = stat.active_time
          /\ server_stat'[s].idle_time = stat.idle_time + 1
          /\ server_stat'[s].client_served = stat.client_served
          /\ server_stat'[s].failure_count = stat.failure_count
      BY <1>2, <3>3 DEF ServerStat
    <3> DEFINE new == server_stat'[s]
    <3> HIDE DEF stat, new
    <3>5. /\ new.active_time + new.idle_time = Ticks'
          /\ new.active_time = stat.active_time + Cardinality(Current(s))
      BY <1>2, <1>3, <1>7, <3>2, <3>4 DEF new
    <3> QED BY <1>1, <1>7, <3>4, <3>5 DEF new
  <2> QED BY <2>1, <2>2
<1>9. /\ server_stat'[s].active_time =
           stat.active_time + Cardinality(Called(s) \cap Current(s))
      /\ server_stat'[s].failure_count =
           stat.failure_count + Cardinality(Called(s) \cap {})
  <2>1. Cardinality({}) = 0
    BY FS_EmptySet
  <2>2. stat.failure_count + 0 = stat.failure_count
    BY <1>7
  <2> QED BY <1>6, <1>8, <2>1, <2>2, Zenon
<1>10. \A d \in Called(s) : service_stat'[d].failure_count =
          service_stat[d].failure_count + IF d \in {} THEN 1 ELSE 0
  BY <1>1, <1>2
<1>11. Called(s) \subseteq Called(s)' /\ Called(s)' \subseteq Client
       /\ \A d \in Called(s)' \ Called(s) : FALSE
  BY <1>2, <1>4
<1> QED BY <1>2, <1>5, <1>6, <1>8, <1>9, <1>10, <1>11, StatsMove

\* The client admitted is nobody's yet.
LEMMA AdmitKeepsStats ==
  ASSUME StatsInv, NEW s \in Server, NEW c \in Client, Admit(s, c)
  PROVE  \A r \in Server : StatsOf(r)'
<1> SUFFICES ASSUME NEW r \in Server PROVE StatsOf(r)'
  OBVIOUS
<1>1. /\ pc = "admit" /\ pc' = "serve" /\ clock' = clock
      /\ current_client' = current_client
      /\ finished_clients_queue' = finished_clients_queue
      /\ server_stat' = server_stat
      /\ service_stat' = [service_stat EXCEPT ![c] = NoService]
  BY Zenon DEF Admit, serving
<1>2. /\ TimesInv /\ PlacesInv /\ Inv /\ OnlyAdmitted
      /\ service_stat \in [Client -> ServiceStat]
      /\ Called(r) \subseteq ClientsOf(r) /\ ClientsOf(r) \subseteq Client
  BY BeforeStats, BeforeMoves DEF StatsInv
<1>3. Ticks' = Ticks
  BY <1>1 DEF Ticks, InTurn
<1>4. \A d \in Called(r) : d # c
  <2>1. \A d \in Admitted : d \in Int /\ d < c
    BY <1>2, AdmitNext
  <2>2. Called(r) \subseteq Admitted
    BY <1>2, ClientsAreAdmitted DEF Called
  <2>3. c \in Int
    BY DEF Client
  <2> QED BY <2>1, <2>2, <2>3
<1>5. \A d \in Called(r) : service_stat'[d] = service_stat[d]
  BY <1>1, <1>2, <1>4
<1>6. Current(r)' = Current(r) /\ StatsOf(r)
  BY <1>1 DEF Current, StatsInv
<1> QED BY <1>1, <1>3, <1>5, <1>6, StatsStay

LEMMA InitStats == Init => StatsInv
<1> SUFFICES ASSUME Init PROVE StatsInv
  OBVIOUS
<1>1. /\ pc = "begin" /\ clock = 0
      /\ current_client = [s \in Server |-> NoClient]
      /\ finished_clients_queue = [s \in Server |-> <<>>]
      /\ server_stat = [s \in Server |-> NoActivity]
  BY Zenon DEF Init
<1>2. ASSUME NEW s \in Server PROVE StatsOf(s)
  <2>1. ToSet(<<>>) = {} /\ Len(<<>>) = 0
    BY EmptySeq DEF ToSet
  <2>2. Called(s) = {} /\ Len(finished_clients_queue[s]) = 0
    BY <1>1, <2>1 DEF Called, Finished, Current
  <2>3. DOMAIN ServedTimes(s) = {} /\ DOMAIN Failures(s) = {}
    BY <2>2 DEF ServedTimes, Failures
  <2>4. SumFunction(ServedTimes(s)) = 0 /\ SumFunction(Failures(s)) = 0
    BY <2>3, SumEmpty, Zenon DEF SumFunction
  <2>5. Ticks = 0 /\ server_stat[s] = NoActivity
    BY <1>1 DEF Ticks, InTurn
  <2> QED BY <2>2, <2>4, <2>5 DEF StatsOf, NoActivity
<1> QED BY <1>2, InitTimes DEF StatsInv

\* Every step keeps the accounts in order.
LEMMA NextKeepsStats ==
  ASSUME FullSizes = {}, StatsInv, [Next]_vars
  PROVE  StatsInv'
<1>1. TimesInv /\ TimesInv'
  BY NextKeepsTimes DEF StatsInv
<1> DEFINE Kept == \A s \in Server : StatsOf(s)'
<1> SUFFICES Kept
  BY <1>1 DEF StatsInv
<1>2. ASSUME current_client' = current_client, service_stat' = service_stat,
             finished_clients_queue' = finished_clients_queue,
             server_stat' = server_stat, Ticks' = Ticks
      PROVE  Kept
  BY <1>2, StatsStay DEF StatsInv, Current
<1>3. CASE Begin
  <2>1. /\ current_client' = current_client /\ service_stat' = service_stat
        /\ finished_clients_queue' = finished_clients_queue
        /\ server_stat' = server_stat /\ clock' = clock /\ pc = "begin"
        /\ \/ NStandard = 0 /\ pc' = "aborted"
           \/ NStandard # 0 /\ pc' \in {"admit", "done"}
    BY <1>3 DEF Begin, serving, AtTick
  <2>2. Ticks' = Ticks
    BY <2>1 DEF Ticks, InTurn
  <2> QED BY <1>2, <2>1, <2>2
<1>4. CASE AdmitNobody
  <2>1. /\ current_client' = current_client /\ service_stat' = service_stat
        /\ finished_clients_queue' = finished_clients_queue
        /\ server_stat' = server_stat /\ clock' = clock
        /\ pc = "admit" /\ pc' = "serve"
    BY <1>4, Zenon DEF AdmitNobody, serving
  <2>2. Ticks' = Ticks
    BY <2>1 DEF Ticks, InTurn
  <2> QED BY <1>2, <2>1, <2>2
<1>5. ASSUME NEW s \in Server, NEW c \in Client, Admit(s, c) PROVE Kept
  BY <1>5, AdmitKeepsStats
<1>6. CASE ServersUpdateServeTime
  BY <1>6, ServeKeepsStats
<1>7. ASSUME NEW s \in Server, Finish(s) PROVE Kept
  BY <1>7, FinishKeepsStats
<1>8. ASSUME NEW s \in Server, Retry(s) PROVE Kept
  BY <1>8, RetryKeepsStats
<1>9. ASSUME NEW s \in Server, Continue(s) PROVE Kept
  <2>1. /\ current_client' = current_client /\ service_stat' = service_stat
        /\ finished_clients_queue' = finished_clients_queue
        /\ pc = "update" /\ EndTurn(s, server_stat[s])
    BY <1>9, Zenon DEF Continue, IsTurnOf, serving
  <2>2. clock \in Nat /\ NStandard > 0
    BY <1>1, <2>1, BeforeTimes
  <2>3. Ticks' = Ticks
    BY <2>1, <2>2, EndTurnTicks, Zenon
  <2>4. server_stat \in [Server -> ServerStat] /\ server_stat[s] \in ServerStat
    BY <1>1, BeforeStats
  <2>5. /\ server_stat'[s].active_time = server_stat[s].active_time
        /\ server_stat'[s].idle_time = server_stat[s].idle_time
        /\ server_stat'[s].failure_count = server_stat[s].failure_count
        /\ server_stat'[s].client_served = server_stat[s].client_served
        /\ \A r \in Server \ {s} : server_stat'[r] = server_stat[r]
    BY <2>1, <2>4, EndTurnStat, Zenon
  <2>6. ASSUME NEW r \in Server PROVE StatsOf(r)'
    <3>1. Current(r)' = Current(r) /\ StatsOf(r)
      BY <2>1 DEF Current, StatsInv
    <3> QED BY <2>1, <2>3, <2>5, <3>1, StatsStay
  <2> QED BY <2>6
<1>10. ASSUME NEW s \in Server, StartNext(s) PROVE Kept
  BY <1>10, StartNextKeepsStats
<1>11. ASSUME NEW s \in Server, StartAborts(s) PROVE Kept
  <2>1. /\ current_client' = current_client /\ service_stat' = service_stat
        /\ finished_clients_queue' = finished_clients_queue
        /\ server_stat' = server_stat /\ clock' = clock
        /\ pc = "update" /\ pc' = "aborted"
    BY <1>11, Zenon DEF StartAborts, IsTurnOf, serving
  <2>2. Ticks' = Ticks
    BY <1>1, <2>1 DEF Ticks, InTurn, TimesInv, HasServers
  <2> QED BY <1>2, <2>1, <2>2
<1>12. CASE UNCHANGED vars
  <2>1. /\ current_client' = current_client /\ service_stat' = service_stat
        /\ finished_clients_queue' = finished_clients_queue
        /\ server_stat' = server_stat /\ clock' = clock /\ pc' = pc
    BY <1>12, Zenon DEF vars, serving
  <2>2. Ticks' = Ticks
    BY <2>1 DEF Ticks, InTurn
  <2> QED BY <1>2, <2>1, <2>2
<1> QED BY <1>3, <1>4, <1>5, <1>6, <1>7, <1>8, <1>9, <1>10, <1>11, <1>12, Zenon
        DEF Next, Step, UpdateClient

\* While no push fails, a server's statistics are at every moment, even if an
\* assertion has stopped the run, those of the clients it has called: their
\* number, the ticks they were served for and the services that failed; and
\* a server is either active or idle in every tick.
THEOREM ServerStats == FullSizes = {} => (Spec => []ServerStatsAddUp)
<1> SUFFICES ASSUME FullSizes = {} PROVE Spec => []ServerStatsAddUp
  OBVIOUS
<1>1. StatsInv /\ [Next]_vars => StatsInv'
  BY NextKeepsStats
<1>2. StatsInv => ServerStatsAddUp
  BY Zenon DEF StatsInv, StatsOf, ServedTimes, ServedTime, Failures, Called,
               ServerStatsAddUp
<1> QED BY <1>1, <1>2, InitStats, PTL DEF Spec

-----------------------------------------------------------------------------
(***************************************************************************)
(* Little's law                                                            *)
(***************************************************************************)
\* A sequence without repetition has as many elements as it is long.
LEMMA SeqCardinality ==
  ASSUME NEW S, NEW q \in Seq(S), IsInjective(q)
  PROVE  IsFiniteSet(ToSet(q)) /\ Cardinality(ToSet(q)) = Len(q)
<1> DEFINE n == Len(q)
<1>1. n \in Nat /\ q \in [1 .. n -> S]
  BY LenProperties
<1>2. \A x : x \in ToSet(q) <=> \E i \in 1 .. n : q[i] = x
  BY ElementsOfSeq
<1>3. q \in [1 .. n -> ToSet(q)]
  BY <1>1, <1>2
<1> HIDE DEF n
<1>4. q \in Bijection(1 .. n, ToSet(q))
  BY <1>1, <1>2, <1>3 DEF Bijection, Injection, Surjection
<1>5. ExistsBijection(1 .. n, ToSet(q))
  BY <1>4 DEF ExistsBijection
<1>6. IsFiniteSet(1 .. n) /\ Cardinality(1 .. n) = n
  BY <1>1, FS_Interval
<1>7. IsFiniteSet(ToSet(q)) /\ Cardinality(ToSet(q)) = n
  BY <1>5, <1>6, FS_Bijection
<1> QED BY <1>7 DEF n

\* What a server's queue length counts: its waiting clients.
QueuesCounted == \A s \in Server : Cardinality(Queue(s)) = QueueLen(s)

LEMMA QueuesAreCounted == PlacesInv => QueuesCounted
<1> SUFFICES ASSUME PlacesInv, NEW s \in Server PROVE Cardinality(Queue(s)) = QueueLen(s)
  BY DEF QueuesCounted
<1>1. OnlyAdmitted /\ QueuesInOrder /\ Admitted \subseteq Int
  BY BeforeMoves DEF PlacesInv, Client
<1>2. CASE s \in Standard
  <2>1. client_queue[s] \in Seq(Admitted) /\ Increasing(client_queue[s])
    BY <1>1, <1>2 DEF OnlyAdmitted, QueuesInOrder
  <2>2. Cardinality(ToSet(client_queue[s])) = Len(client_queue[s])
    BY <1>1, <2>1, IncreasingIsInjective, SeqCardinality
  <2>3. Queue(s) = ToSet(client_queue[s])
    BY <1>2 DEF Queue
  <2> QED BY <1>2, <2>2, <2>3, QueueLenIs
<1>3. CASE s \in Robotic
  <2> DEFINE d == disable_client_queue[s]
             n == normal_client_queue[s]
  <2>1. /\ d \in Seq(Admitted) /\ Increasing(d) /\ n \in Seq(Admitted) /\ Increasing(n)
        /\ \A c \in ToSet(d) : IsDisabled(c)
        /\ \A c \in ToSet(n) : ~IsDisabled(c)
    BY <1>1, <1>3 DEF OnlyAdmitted, QueuesInOrder
  <2>2. Queue(s) = ToSet(d) \cup ToSet(n)
    BY <1>3, KindsOfServer DEF Queue
  <2>3. QueueLen(s) = Len(n) + Len(d)
    BY <1>3, QueueLenIs, Zenon
  <2> HIDE DEF d, n
  <2>4. /\ IsFiniteSet(ToSet(d)) /\ Cardinality(ToSet(d)) = Len(d)
        /\ IsFiniteSet(ToSet(n)) /\ Cardinality(ToSet(n)) = Len(n)
        /\ Len(d) \in Nat /\ Len(n) \in Nat
    BY <1>1, <2>1, IncreasingIsInjective, SeqCardinality, LenProperties
  <2>5. ToSet(d) \cap ToSet(n) = {}
    BY <2>1, Zenon
  <2>6. Cardinality(ToSet(d) \cup ToSet(n)) =
          Cardinality(ToSet(d)) + Cardinality(ToSet(n)) - Cardinality({})
    BY <2>4, <2>5, FS_Union
  <2> QED BY <2>2, <2>3, <2>4, <2>6, FS_EmptySet
<1> QED BY <1>2, <1>3, KindsOfServer

\* The law for one server and one step: who waits longer adds to the sum.
LEMMA LawMoves ==
  ASSUME NEW s \in Server, LawOf(s), ClientsOf(s) \subseteq ClientsOf(s)',
         ClientsOf(s)' \subseteq Client,
         \A c \in ClientsOf(s) : WaitedTime(s, c) \in Int,
         \A c \in ClientsOf(s)' \ ClientsOf(s) : WaitedTime(s, c)' = 0,
         NEW Q, \A c \in ClientsOf(s) :
           WaitedTime(s, c)' = WaitedTime(s, c) + IF c \in Q THEN 1 ELSE 0,
         server_stat'[s].sum_queue_lens =
           server_stat[s].sum_queue_lens + Cardinality(ClientsOf(s) \cap Q)
  PROVE  LawOf(s)'
<1>1. IsFiniteSet(ClientsOf(s)')
  BY ClientsAreFinite
<1>2. Called(s) \cup Queue(s) = ClientsOf(s) /\ Called(s)' \cup Queue(s)' = ClientsOf(s)'
  BY DEF Called, ClientsOf
<1>3. DOMAIN WaitedTimes(s) = ClientsOf(s) /\ DOMAIN WaitedTimes(s)' = ClientsOf(s)'
  BY <1>2 DEF WaitedTimes
<1>4. /\ \A c \in ClientsOf(s) : WaitedTimes(s)[c] = WaitedTime(s, c)
      /\ \A c \in ClientsOf(s)' : WaitedTimes(s)'[c] = WaitedTime(s, c)'
  BY <1>2 DEF WaitedTimes
<1>5. Grows(WaitedTimes(s), WaitedTimes(s)', Q)
  BY <1>1, <1>3, <1>4 DEF Grows
<1>6. \A f, g, X, S : Grows(f, g, X) /\ DOMAIN f = S =>
        SumFunction(g) = SumFunction(f) + Cardinality(S \cap X)
  BY SumGrows
<1>7. SumFunction(WaitedTimes(s)') =
        SumFunction(WaitedTimes(s)) + Cardinality(ClientsOf(s) \cap Q)
  BY ONLY <1>3, <1>5, <1>6, Zenon
<1> QED BY <1>7, Zenon DEF LawOf

\* The same if nobody waits any longer.
LEMMA LawKept ==
  ASSUME NEW s \in Server, LawOf(s), ClientsOf(s) \subseteq ClientsOf(s)',
         ClientsOf(s)' \subseteq Client,
         \A c \in ClientsOf(s) : WaitedTime(s, c) \in Int,
         \A c \in ClientsOf(s)' \ ClientsOf(s) : WaitedTime(s, c)' = 0,
         \A c \in ClientsOf(s) : WaitedTime(s, c)' = WaitedTime(s, c),
         server_stat[s].sum_queue_lens \in Int,
         server_stat'[s].sum_queue_lens = server_stat[s].sum_queue_lens
  PROVE  LawOf(s)'
<1>1. Cardinality(ClientsOf(s) \cap {}) = 0
  BY FS_EmptySet
<1>2. \A c \in ClientsOf(s) :
        WaitedTime(s, c)' = WaitedTime(s, c) + IF c \in {} THEN 1 ELSE 0
  OBVIOUS
<1>3. server_stat'[s].sum_queue_lens =
        server_stat[s].sum_queue_lens + Cardinality(ClientsOf(s) \cap {})
  BY <1>1
<1> QED BY <1>2, <1>3, LawMoves

LEMMA BeforeLaw ==
  ASSUME Inv, NEW s \in Server
  PROVE  /\ ClientsOf(s) \subseteq Client /\ clock \in Nat
         /\ server_stat[s].sum_queue_lens \in Int
         /\ \A c \in ClientsOf(s) : WaitedTime(s, c) \in Int
<1>1. /\ ClientsOf(s) \subseteq Client /\ clock \in Nat /\ drawn \in [Client -> Draw]
      /\ service_stat \in [Client -> ServiceStat]
  BY BeforeMoves, ClientsAreAdmitted DEF ClientsOf
<1>2. server_stat[s] \in ServerStat
  BY BeforeTurn
<1>3. ASSUME NEW c \in ClientsOf(s) PROVE WaitedTime(s, c) \in Int
  <2>1. service_stat[c] \in ServiceStat /\ drawn[c].arrival_time \in Nat
    BY <1>1, ArrivalIsNat
  <2>2. Updates(s) \in Nat
    BY <1>1 DEF Updates
  <2> QED BY <2>1, <2>2 DEF WaitedTime, ServiceStat
<1> QED BY <1>1, <1>2, <1>3 DEF ServerStat

\* A server at which nobody comes, goes or waits any longer.
LEMMA LawStays ==
  ASSUME NEW s \in Server, LawOf(s), Queue(s)' = Queue(s), Current(s)' = Current(s),
         Finished(s)' = Finished(s), drawn' = drawn, Updates(s)' = Updates(s),
         \A c \in ClientsOf(s) : service_stat'[c] = service_stat[c],
         server_stat'[s].sum_queue_lens = server_stat[s].sum_queue_lens
  PROVE  LawOf(s)'
<1>1. Called(s)' = Called(s) /\ Called(s) \subseteq ClientsOf(s)
  BY DEF Called, ClientsOf
<1>2. WaitedTimes(s)' = WaitedTimes(s)
  BY <1>1 DEF WaitedTimes, WaitedTime
<1> QED BY <1>2, Zenon DEF LawOf

\* The inductive invariant.
LawInv == RunsInv /\ TimesInv /\ \A s \in Server : LawOf(s)

\* A turn of server s at which who is called starts now: whoever still waits
\* then has waited one more tick, and is counted in the length of the queue.
LEMMA TurnKeepsLaw ==
  ASSUME LawInv, SumsFit, PlacesInv', NEW s \in Server, pc = "update", turn = s,
         NEW stat \in ServerStat, stat.sum_queue_lens = server_stat[s].sum_queue_lens,
         EndTurn(s, stat), \A r \in Server : QueueLen(r)' <= QueueLen(r) + 0,
         ClientsOf(s)' = ClientsOf(s), Called(s) \subseteq Called(s)',
         \A c \in Called(s) :
           service_stat'[c].start_service_time = service_stat[c].start_service_time,
         \A c \in Called(s)' \ Called(s) : service_stat'[c].start_service_time = clock,
         \A c \in Client \ ClientsOf(s) : service_stat'[c] = service_stat[c],
         \A r \in Server \ {s} :
           /\ Queue(r)' = Queue(r)
           /\ current_client'[r] = current_client[r]
           /\ finished_clients_queue'[r] = finished_clients_queue[r]
  PROVE  \A r \in Server : LawOf(r)'
<1>1. RunsInv /\ PlacesInv /\ Inv /\ drawn' = drawn
  BY EndTurnFrame DEF LawInv, RunsInv, PlacesInv
<1>2. /\ server_stat'[s].sum_queue_lens = server_stat[s].sum_queue_lens + QueueLen(s)'
      /\ \A r \in Server \ {s} : server_stat'[r] = server_stat[r]
      /\ Updates(s) = clock /\ Updates(s)' = clock + 1
      /\ \A r \in Server \ {s} : Updates(r)' = Updates(r)
  BY <1>1, EndTurnSums, Zenon
<1>3. ASSUME NEW r \in Server, r # s PROVE LawOf(r)'
  <2>1. Current(r)' = Current(r) /\ Finished(r)' = Finished(r) /\ Queue(r)' = Queue(r)
    BY <1>3 DEF Current, Finished
  <2>2. ClientsOf(r) \cap ClientsOf(s) = {}
    BY <1>1, <1>3, Zenon DEF PlacesInv, OnePlaceEach
  <2>3. \A c \in ClientsOf(r) : service_stat'[c] = service_stat[c]
    BY <1>1, <2>2, BeforeLaw
  <2>4. LawOf(r)
    BY DEF LawInv
  <2>5. Updates(r)' = Updates(r) /\ server_stat'[r] = server_stat[r]
    BY <1>2, <1>3
  <2> QED BY <1>1, <2>1, <2>3, <2>4, <2>5, LawStays
<1>4. LawOf(s)'
  <2>1. /\ ClientsOf(s) \subseteq Client /\ clock \in Nat
        /\ \A c \in ClientsOf(s) : WaitedTime(s, c) \in Int
        /\ \A c \in ClientsOf(s) : drawn[c].arrival_time \in Int
        /\ LawOf(s)
    BY <1>1, BeforeLaw, BeforeMoves, ArrivalIsNat DEF LawInv
  <2>2. /\ Queue(s)' \cap Called(s)' = {} /\ Called(s)' \cup Queue(s)' = ClientsOf(s)
        /\ Called(s) \cup Queue(s) = ClientsOf(s)
    <3>1. OnePlaceEach'
      BY DEF PlacesInv
    <3>2. Queue(s)' \cap Current(s)' = {} /\ Queue(s)' \cap Finished(s)' = {}
      BY <3>1 DEF OnePlaceEach
    <3> QED BY <3>2 DEF Called, ClientsOf
  <2>3. ASSUME NEW c \in ClientsOf(s)
        PROVE  WaitedTime(s, c)' = WaitedTime(s, c) + IF c \in Queue(s)' THEN 1 ELSE 0
    <3>0. drawn'[c] = drawn[c]
      BY <1>1
    <3>1. CASE c \in Called(s)
      <4>1. c \in Called(s)' /\ c \notin Queue(s)'
        BY <2>2, <3>1
      <4>2. WaitedTime(s, c)' = WaitedTime(s, c)
        BY <3>0, <3>1, <4>1 DEF WaitedTime
      <4> QED BY <2>1, <4>1, <4>2
    <3>2. CASE c \in Called(s)' /\ c \notin Called(s)
      <4>1. WaitedTime(s, c)' = clock - drawn[c].arrival_time
        BY <3>0, <3>2 DEF WaitedTime
      <4>2. WaitedTime(s, c) = clock - drawn[c].arrival_time
        BY <1>2, <3>2 DEF WaitedTime
      <4> QED BY <2>1, <2>2, <3>2, <4>1, <4>2
    <3>3. CASE c \notin Called(s)' /\ c \notin Called(s)
      <4>1. WaitedTime(s, c)' = Updates(s)' - drawn[c].arrival_time
        BY <3>0, <3>3 DEF WaitedTime
      <4>2. WaitedTime(s, c) = clock - drawn[c].arrival_time
        BY <1>2, <3>3 DEF WaitedTime
      <4>3. c \in Queue(s)'
        BY <2>2, <3>3
      <4>4. drawn[c].arrival_time \in Int
        BY <2>1
      <4> QED BY <1>2, <2>1, <4>1, <4>2, <4>3, <4>4
    <3> QED BY <3>1, <3>2, <3>3
  <2>4. server_stat'[s].sum_queue_lens =
          server_stat[s].sum_queue_lens + Cardinality(ClientsOf(s) \cap Queue(s)')
    <3>1. QueuesCounted'
      BY QueuesAreCounted, PTL
    <3>2. ClientsOf(s) \cap Queue(s)' = Queue(s)'
      BY <2>2
    <3> QED BY <1>2, <3>1, <3>2, Zenon DEF QueuesCounted
  <2>5. \A c \in ClientsOf(s)' \ ClientsOf(s) : WaitedTime(s, c)' = 0
    OBVIOUS
  <2> QED BY <2>1, <2>3, <2>4, <2>5, LawMoves
<1> QED BY <1>3, <1>4

LEMMA FinishKeepsLaw ==
  ASSUME FullSizes = {}, LawInv, SumsFit, NEW s \in Server, Finish(s)
  PROVE  \A r \in Server : LawOf(r)'
<1> DEFINE c == current_client[s]
           stats == FinishedStats(s)
           stat == [server_stat[s] EXCEPT !.client_served = @ + 1]
<1>1. /\ pc = "update" /\ turn = s /\ EndTurn(s, stat) /\ SetNextClient(s, stats)
  BY Zenon DEF Finish, IsTurnOf, FinishedStats
<1>2. /\ TimesInv /\ PlacesInv /\ Inv /\ OnlyAdmitted /\ clock \in Nat /\ PlacesInv'
      /\ service_stat \in [Client -> ServiceStat] /\ ClientsOf(s) \subseteq Client
  BY <1>1, BeforeTimes, FinishKeepsPlaces DEF LawInv, PlacesInv, Inv
<1>3. /\ TurnMoves(s, stats) /\ drawn' = drawn /\ Current(s) = {c} /\ c \in Admitted
      /\ \E q \in Pushed(finished_clients_queue[s], c) :
           finished_clients_queue' = [finished_clients_queue EXCEPT ![s] = q]
  BY <1>2, FinishMoves, Zenon DEF PlacesInv
<1>4. /\ c \in Client /\ c \notin Queue(s) /\ Queue(s) \cap Called(s) = {}
      /\ Called(s) = Finished(s) \cup {c} /\ Called(s) \subseteq Client
      /\ Queue(s)' \cup Current(s)' = Queue(s)
  BY <1>2, <1>3, TurnKeepsQueue DEF Called, ClientsOf, PlacesInv, OnePlaceEach
<1>5. /\ stats \in [Client -> ServiceStat]
      /\ \A d \in Client \ {c} : stats[d] = service_stat[d]
      /\ stats[c].start_service_time = service_stat[c].start_service_time
      /\ stats[c].failure_count = service_stat[c].failure_count
  BY <1>2, <1>4, FinishedStatsAre, Zenon
<1>6. stat \in ServerStat /\ stat.sum_queue_lens = server_stat[s].sum_queue_lens
  BY <1>2, StatsOfTurn, Zenon
<1> HIDE DEF c, stats, stat
<1>7. \A r \in Server : QueueLen(r)' <= QueueLen(r) + 0
  BY <1>1, <1>2, SetNextClientLen, Zenon
<1>8. /\ \A r \in Server \ {s} : finished_clients_queue'[r] = finished_clients_queue[r]
      /\ Finished(s)' = Finished(s) \cup {c}
  <2>1. /\ finished_clients_queue \in [Server -> Seq(Admitted)]
        /\ finished_clients_queue[s] \in Seq(Admitted)
    BY <1>2, BeforeTurn
  <2>2. finished_clients_queue' =
          [finished_clients_queue EXCEPT ![s] = Append(finished_clients_queue[s], c)]
    BY <1>3 DEF Pushed
  <2>3. /\ finished_clients_queue'[s] = Append(finished_clients_queue[s], c)
        /\ \A r \in Server \ {s} : finished_clients_queue'[r] = finished_clients_queue[r]
    BY <2>1, <2>2
  <2>4. ToSet(Append(finished_clients_queue[s], c)) =
          ToSet(finished_clients_queue[s]) \cup {c}
    BY <1>3, <2>1, AppendElements
  <2> QED BY <2>3, <2>4 DEF Finished
<1>9. \A d \in Queue(s) : stats[d].failure_count = service_stat[d].failure_count
  BY <1>2, <1>4, <1>5 DEF ClientsOf
<1>10. \A d \in Client \ Queue(s) : service_stat'[d] = stats[d]
  <2>1. Ticks' = clock + 1 /\ NStandard > 0
    BY <1>1, <1>2, EndTurnTicks, BeforeTimes
  <2> QED BY <1>1, <1>2, <1>3, <1>5, <1>9, <2>1, CalledTimes, Zenon
<1>11. \A n \in Current(s)' : service_stat'[n].start_service_time = clock
  BY <1>1, <1>2, <1>3, <1>5, <1>9, CalledStarts, Zenon
<1>12. /\ ClientsOf(s)' = ClientsOf(s) /\ Called(s) \subseteq Called(s)'
       /\ Called(s)' \ Called(s) \subseteq Current(s)'
  BY <1>4, <1>8 DEF ClientsOf, Called
<1>13. \A d \in Called(s) :
         service_stat'[d].start_service_time = service_stat[d].start_service_time
  BY <1>4, <1>5, <1>10
<1>14. \A d \in Called(s)' \ Called(s) : service_stat'[d].start_service_time = clock
  BY <1>11, <1>12
<1>15. \A d \in Client \ ClientsOf(s) : service_stat'[d] = service_stat[d]
  BY <1>4, <1>5, <1>10 DEF ClientsOf, Called
<1>16. \A r \in Server \ {s} : /\ Queue(r)' = Queue(r)
                               /\ current_client'[r] = current_client[r]
  BY <1>3, Zenon DEF TurnMoves
<1> QED BY <1>1, <1>2, <1>6, <1>7, <1>8, <1>12, <1>13, <1>14, <1>15, <1>16, TurnKeepsLaw,
          Zenon

LEMMA StartNextKeepsLaw ==
  ASSUME LawInv, SumsFit, NEW s \in Server, StartNext(s)
  PROVE  \A r \in Server : LawOf(r)'
<1>1. /\ pc = "update" /\ turn = s /\ EndTurn(s, server_stat[s])
      /\ SetNextClient(s, service_stat)
  BY Zenon DEF StartNext, IsTurnOf
<1>2. /\ TimesInv /\ PlacesInv /\ Inv /\ OnlyAdmitted /\ clock \in Nat /\ PlacesInv'
      /\ service_stat \in [Client -> ServiceStat] /\ ClientsOf(s) \subseteq Client
  BY <1>1, BeforeTimes, StartNextKeepsPlaces DEF LawInv, PlacesInv, Inv
<1>3. /\ TurnMoves(s, service_stat) /\ Current(s) = {} /\ drawn' = drawn
      /\ finished_clients_queue' = finished_clients_queue
  BY <1>2, StartNextMoves, Zenon DEF PlacesInv
<1>4. /\ Queue(s) \cap Called(s) = {} /\ Called(s) = Finished(s)
      /\ Finished(s)' = Finished(s) /\ Queue(s)' \cup Current(s)' = Queue(s)
      /\ Called(s) \subseteq Client
  BY <1>2, <1>3, TurnKeepsQueue DEF Called, Finished, ClientsOf, PlacesInv, OnePlaceEach
<1>5. server_stat[s] \in ServerStat
  BY <1>2, StatsOfTurn, Zenon
<1>6. \A r \in Server : QueueLen(r)' <= QueueLen(r) + 0
  BY <1>1, <1>2, SetNextClientLen, Zenon
<1>7. \A d \in Client \ Queue(s) : service_stat'[d] = service_stat[d]
  <2>1. Ticks' = clock + 1 /\ NStandard > 0
    BY <1>1, <1>2, EndTurnTicks, BeforeTimes
  <2> QED BY <1>1, <1>2, <1>3, <2>1, CalledTimes, Zenon
<1>8. \A n \in Current(s)' : service_stat'[n].start_service_time = clock
  BY <1>1, <1>2, <1>3, CalledStarts, Zenon
<1>9. /\ ClientsOf(s)' = ClientsOf(s) /\ Called(s) \subseteq Called(s)'
      /\ Called(s)' \ Called(s) \subseteq Current(s)'
  BY <1>3, <1>4 DEF ClientsOf, Called
<1>10. \A d \in Called(s) :
         service_stat'[d].start_service_time = service_stat[d].start_service_time
  BY <1>4, <1>7
<1>11. \A d \in Called(s)' \ Called(s) : service_stat'[d].start_service_time = clock
  BY <1>8, <1>9
<1>12. \A d \in Client \ ClientsOf(s) : service_stat'[d] = service_stat[d]
  BY <1>7 DEF ClientsOf
<1>13. \A r \in Server \ {s} : /\ Queue(r)' = Queue(r)
                               /\ current_client'[r] = current_client[r]
                               /\ finished_clients_queue'[r] = finished_clients_queue[r]
  BY <1>3, Zenon DEF TurnMoves
<1> QED BY <1>1, <1>2, <1>5, <1>6, <1>9, <1>10, <1>11, <1>12, <1>13, TurnKeepsLaw, Zenon

\* The turns at which nobody comes or goes.
LEMMA NobodyCalledKeepsLaw ==
  ASSUME LawInv, SumsFit, PlacesInv', NEW s \in Server, pc = "update", turn = s,
         NEW stat \in ServerStat, stat.sum_queue_lens = server_stat[s].sum_queue_lens,
         EndTurn(s, stat), client_queue' = client_queue,
         disable_client_queue' = disable_client_queue,
         normal_client_queue' = normal_client_queue,
         current_client' = current_client,
         finished_clients_queue' = finished_clients_queue,
         \A c \in Called(s) :
           service_stat'[c].start_service_time = service_stat[c].start_service_time,
         \A c \in Client \ ClientsOf(s) : service_stat'[c] = service_stat[c]
  PROVE  \A r \in Server : LawOf(r)'
<1>1. OnlyAdmitted
  BY DEF LawInv, RunsInv, PlacesInv, Inv
<1>2. \A r \in Server : QueueLen(r)' <= QueueLen(r) + 0
  BY <1>1, QueuesStayLen, Zenon
<1>3. \A r \in Server : /\ Queue(r)' = Queue(r) /\ Called(r)' = Called(r)
                        /\ ClientsOf(r)' = ClientsOf(r)
  BY DEF Queue, Called, Current, Finished, ClientsOf
<1>4. \A r \in Server \ {s} : /\ Queue(r)' = Queue(r)
                              /\ current_client'[r] = current_client[r]
                              /\ finished_clients_queue'[r] = finished_clients_queue[r]
  BY <1>3
<1>5. /\ ClientsOf(s)' = ClientsOf(s) /\ Called(s) \subseteq Called(s)'
      /\ \A c \in Called(s)' \ Called(s) : service_stat'[c].start_service_time = clock
  BY <1>3
<1> QED BY <1>2, <1>4, <1>5, TurnKeepsLaw, Zenon

LEMMA RetryKeepsLaw ==
  ASSUME LawInv, SumsFit, PlacesInv', NEW s \in Server, Retry(s)
  PROVE  \A r \in Server : LawOf(r)'
<1> DEFINE c == current_client[s]
           stat == [server_stat[s] EXCEPT !.failure_count = @ + 1]
<1>1. /\ pc = "update" /\ turn = s /\ EndTurn(s, stat) /\ c # NoClient
      /\ service_stat' = [service_stat EXCEPT ![c].failure_count = @ + 1]
      /\ client_queue' = client_queue
      /\ disable_client_queue' = disable_client_queue
      /\ normal_client_queue' = normal_client_queue
      /\ current_client' = current_client
      /\ finished_clients_queue' = finished_clients_queue
  BY Zenon DEF Retry, IsTurnOf, ServiceFinished, queues
<1>2. /\ Inv /\ service_stat \in [Client -> ServiceStat] /\ ClientsOf(s) \subseteq Client
  BY BeforeLaw, BeforeMoves DEF LawInv, RunsInv, PlacesInv
<1>3. stat \in ServerStat /\ stat.sum_queue_lens = server_stat[s].sum_queue_lens
  BY <1>2, StatsOfTurn, Zenon
<1>4. c \in Called(s) /\ c \in ClientsOf(s) /\ c \in Client /\ Called(s) \subseteq Client
  BY <1>1, <1>2 DEF Called, Current, ClientsOf
<1> HIDE DEF c, stat
<1>5. /\ \A d \in Client \ {c} : service_stat'[d] = service_stat[d]
      /\ service_stat'[c].start_service_time = service_stat[c].start_service_time
  <2> DEFINE fails == service_stat[c].failure_count
  <2>1. service_stat[c] \in ServiceStat
    BY <1>2, <1>4
  <2>2. /\ service_stat'[c] = [service_stat[c] EXCEPT !.failure_count = fails + 1]
        /\ \A d \in Client \ {c} : service_stat'[d] = service_stat[d]
    BY <1>1, <1>2, <1>4
  <2> QED BY <2>1, <2>2 DEF ServiceStat
<1>6. \A d \in Called(s) :
        service_stat'[d].start_service_time = service_stat[d].start_service_time
  BY <1>4, <1>5
<1>7. \A d \in Client \ ClientsOf(s) : service_stat'[d] = service_stat[d]
  BY <1>4, <1>5
<1> QED BY <1>1, <1>3, <1>6, <1>7, NobodyCalledKeepsLaw, Zenon

LEMMA ContinueKeepsLaw ==
  ASSUME LawInv, SumsFit, PlacesInv', NEW s \in Server, Continue(s)
  PROVE  \A r \in Server : LawOf(r)'
<1>1. /\ pc = "update" /\ turn = s /\ EndTurn(s, server_stat[s])
      /\ service_stat' = service_stat
      /\ client_queue' = client_queue
      /\ disable_client_queue' = disable_client_queue
      /\ normal_client_queue' = normal_client_queue
      /\ current_client' = current_client
      /\ finished_clients_queue' = finished_clients_queue
  BY Zenon DEF Continue, IsTurnOf, queues, serving
<1>2. Inv
  BY DEF LawInv, RunsInv, PlacesInv
<1>3. server_stat[s] \in ServerStat
  BY <1>2, StatsOfTurn, Zenon
<1>4. /\ \A d \in Called(s) :
           service_stat'[d].start_service_time = service_stat[d].start_service_time
      /\ \A d \in Client \ ClientsOf(s) : service_stat'[d] = service_stat[d]
  BY <1>1
<1> QED BY <1>1, <1>3, <1>4, NobodyCalledKeepsLaw, Zenon

\* The client admitted has not waited yet.
LEMMA AdmitKeepsLaw ==
  ASSUME LawInv, PlacesInv', NEW s \in Server, NEW c \in Client, Admit(s, c)
  PROVE  \A r \in Server : LawOf(r)'
<1>1. /\ pc = "admit" /\ pc' = "serve" /\ clock' = clock /\ drawn' = drawn
      /\ current_client' = current_client /\ server_stat' = server_stat
      /\ finished_clients_queue' = finished_clients_queue
      /\ service_stat' = [service_stat EXCEPT ![c] = NoService]
      /\ service_stat[c].arrival_time = clock
  BY Zenon DEF Admit, Arrives, serving
<1>2. /\ PlacesInv /\ Inv /\ clock \in Nat
      /\ service_stat \in [Client -> ServiceStat]
  BY BeforeMoves DEF LawInv, RunsInv, PlacesInv
<1>3. \A d \in Admitted : d \in Int /\ d < c
  BY <1>2, AdmitNext
<1>4. c \notin Admitted
  BY <1>3
<1>5. drawn[c].arrival_time = clock
  BY <1>1, <1>2, <1>4 DEF Inv, ComeInOrder
<1>6. \A r \in Server : /\ c \notin ClientsOf(r) /\ ClientsOf(r) \subseteq Client
                        /\ LawOf(r) /\ Updates(r)' = clock /\ Updates(r) = clock
                        /\ Current(r)' = Current(r) /\ Finished(r)' = Finished(r)
  <2> TAKE r \in Server
  <2>1. c \notin ClientsOf(r) /\ ClientsOf(r) \subseteq Client
    BY <1>2, <1>4, ClientsAreAdmitted, BeforeMoves DEF ClientsOf
  <2>2. LawOf(r)
    BY DEF LawInv
  <2> QED BY <1>1, <2>1, <2>2 DEF Updates, InTurn, Current, Finished
<1>7. \A d \in Client \ {c} : service_stat'[d] = service_stat[d]
  BY <1>1, <1>2
<1>8. /\ Queue(s)' \subseteq Queue(s) \cup {c} /\ Queue(s) \subseteq Queue(s)'
      /\ \A r \in Server \ {s} : Queue(r)' = Queue(r)
  BY <1>2, JoinQueueAdds DEF PlacesInv
<1>9. ASSUME NEW r \in Server, r # s PROVE LawOf(r)'
  <2>1. \A d \in ClientsOf(r) : service_stat'[d] = service_stat[d]
    BY <1>6, <1>7
  <2> QED BY <1>1, <1>6, <1>8, <1>9, <2>1, LawStays
<1>10. LawOf(s)'
  <2>1. /\ \A d \in ClientsOf(s) : WaitedTime(s, d) \in Int
        /\ server_stat[s].sum_queue_lens \in Int
    BY <1>2, BeforeLaw
  <2>2. Called(s)' = Called(s) /\ Called(s) \subseteq ClientsOf(s)
    BY <1>6 DEF Called, ClientsOf
  <2>3. /\ ClientsOf(s) \subseteq ClientsOf(s)' /\ ClientsOf(s)' \subseteq Client
        /\ ClientsOf(s)' \subseteq ClientsOf(s) \cup {c}
    BY <1>6, <1>8 DEF ClientsOf
  <2>4. WaitedTime(s, c)' = 0
    <3>1. WaitedTime(s, c)' = clock - drawn[c].arrival_time
      BY <1>1, <1>6, <2>2 DEF WaitedTime
    <3> QED BY <1>2, <1>5, <3>1
  <2>5. ASSUME NEW d \in ClientsOf(s) PROVE WaitedTime(s, d)' = WaitedTime(s, d)
    <3>1. service_stat'[d] = service_stat[d]
      BY <1>6, <1>7
    <3> QED BY <1>1, <1>6, <2>2, <3>1 DEF WaitedTime
  <2>6. \A d \in ClientsOf(s)' \ ClientsOf(s) : WaitedTime(s, d)' = 0
    BY <2>3, <2>4
  <2>7. LawOf(s) /\ server_stat'[s].sum_queue_lens = server_stat[s].sum_queue_lens
    BY <1>1, <1>6
  <2> QED BY <2>1, <2>3, <2>5, <2>6, <2>7, LawKept, Zenon
<1> QED BY <1>9, <1>10

\* server_tick does not touch the queues and their lengths.
LEMMA ServeKeepsLaw ==
  ASSUME LawInv, ServersUpdateServeTime, pc' # "aborted"
  PROVE  \A r \in Server : LawOf(r)'
<1> SUFFICES ASSUME NEW r \in Server PROVE LawOf(r)'
  OBVIOUS
<1>1. /\ pc = "serve" /\ clock' = clock /\ turn' = turn /\ drawn' = drawn
      /\ pc' = IF \A s \in Server : current_client[s] # NoClient => to_serve[s] > 0
               THEN "update" ELSE "aborted"
      /\ server_stat' = [s \in Server |->
           IF current_client[s] # NoClient
           THEN [server_stat[s] EXCEPT !.active_time = @ + 1]
           ELSE [server_stat[s] EXCEPT !.idle_time = @ + 1]]
      /\ client_queue' = client_queue
      /\ disable_client_queue' = disable_client_queue
      /\ normal_client_queue' = normal_client_queue
      /\ current_client' = current_client
      /\ finished_clients_queue' = finished_clients_queue
      /\ service_stat' = service_stat
  BY Zenon DEF ServersUpdateServeTime, queues
<1>2. server_stat[r] \in ServerStat /\ turn = 1 /\ LawOf(r)
  BY <1>1, BeforeTurn DEF LawInv, RunsInv, TurnInv, PlacesInv
<1>3. server_stat'[r].sum_queue_lens = server_stat[r].sum_queue_lens
  BY <1>1, <1>2 DEF ServerStat
<1>4. Updates(r)' = Updates(r)
  BY <1>1, <1>2 DEF Updates, InTurn, Server
<1>5. Queue(r)' = Queue(r) /\ Current(r)' = Current(r) /\ Finished(r)' = Finished(r)
  BY <1>1 DEF Queue, Current, Finished
<1> QED BY <1>1, <1>2, <1>3, <1>4, <1>5, LawStays

LEMMA InitLaw == Init => LawInv
<1> SUFFICES ASSUME Init PROVE LawInv
  OBVIOUS
<1>1. /\ client_queue = [s \in Standard |-> <<>>]
      /\ disable_client_queue = [s \in Robotic |-> <<>>]
      /\ normal_client_queue = [s \in Robotic |-> <<>>]
      /\ current_client = [s \in Server |-> NoClient]
      /\ finished_clients_queue = [s \in Server |-> <<>>]
      /\ server_stat = [s \in Server |-> NoActivity]
  BY Zenon DEF Init
<1>2. ToSet(<<>>) = {}
  BY EmptySeq DEF ToSet
<1>3. ASSUME NEW s \in Server PROVE LawOf(s)
  <2>1. Called(s) = {} /\ Queue(s) = {}
    BY <1>1, <1>2, KindsOfServer DEF Called, Finished, Current, Queue
  <2>2. DOMAIN WaitedTimes(s) = {}
    BY <2>1 DEF WaitedTimes
  <2>3. SumFunction(WaitedTimes(s)) = 0
    BY <2>2, SumEmpty, Zenon DEF SumFunction
  <2>4. server_stat[s].sum_queue_lens = 0
    BY <1>1 DEF NoActivity
  <2> QED BY <2>3, <2>4 DEF LawOf
<1> QED BY <1>3, InitRuns, InitTimes DEF LawInv

\* Every step keeps the law.
LEMMA NextKeepsLaw ==
  ASSUME FullSizes = {}, NStandard > 0, BoostFits, SumsFit, LawInv, [Next]_vars
  PROVE  LawInv'
<1>1. /\ RunsInv /\ RunsInv' /\ TimesInv' /\ PlacesInv' /\ Inv
      /\ pc # "aborted" /\ pc' # "aborted"
  <2>1. RunsInv /\ RunsInv' /\ TimesInv'
    BY NextRuns, NextKeepsTimes DEF LawInv
  <2> QED BY <2>1 DEF RunsInv, PlacesInv
<1> DEFINE Kept == \A r \in Server : LawOf(r)'
<1> SUFFICES Kept
  BY <1>1 DEF LawInv
<1> DEFINE Stay == /\ client_queue' = client_queue
                   /\ disable_client_queue' = disable_client_queue
                   /\ normal_client_queue' = normal_client_queue
                   /\ current_client' = current_client
                   /\ finished_clients_queue' = finished_clients_queue
                   /\ service_stat' = service_stat /\ server_stat' = server_stat
                   /\ drawn' = drawn /\ clock' = clock /\ turn' = turn
<1>2. ASSUME Stay, pc = "update" <=> pc' = "update" PROVE Kept
  <2> SUFFICES ASSUME NEW r \in Server PROVE LawOf(r)'
    OBVIOUS
  <2>1. Queue(r)' = Queue(r) /\ Current(r)' = Current(r) /\ Finished(r)' = Finished(r)
    BY <1>2 DEF Queue, Current, Finished
  <2>2. Updates(r)' = Updates(r)
    BY <1>1, <1>2 DEF Updates, InTurn
  <2>3. LawOf(r)
    BY DEF LawInv
  <2> QED BY <1>2, <2>1, <2>2, <2>3, LawStays
<1>3. CASE Begin
  <2>1. Stay
    BY <1>3, Zenon DEF Begin, queues, serving
  <2>2. pc = "begin" /\ pc' # "update"
    BY <1>3 DEF Begin, AtTick
  <2> QED BY <1>2, <2>1, <2>2
<1>4. CASE AdmitNobody
  <2>1. Stay
    BY <1>4, Zenon DEF AdmitNobody, queues, serving
  <2>2. pc = "admit" /\ pc' = "serve"
    BY <1>4, Zenon DEF AdmitNobody
  <2> QED BY <1>2, <2>1, <2>2
<1>5. ASSUME NEW s \in Server, NEW c \in Client, Admit(s, c) PROVE Kept
  BY <1>1, <1>5, AdmitKeepsLaw
<1>6. CASE ServersUpdateServeTime
  BY <1>1, <1>6, ServeKeepsLaw
<1>7. ASSUME NEW s \in Server, Finish(s) PROVE Kept
  BY <1>7, FinishKeepsLaw
<1>8. ASSUME NEW s \in Server, Retry(s) PROVE Kept
  BY <1>1, <1>8, RetryKeepsLaw
<1>9. ASSUME NEW s \in Server, Continue(s) PROVE Kept
  BY <1>1, <1>9, ContinueKeepsLaw
<1>10. ASSUME NEW s \in Server, StartNext(s) PROVE Kept
  BY <1>10, StartNextKeepsLaw
<1>11. ASSUME NEW s \in Server, StartAborts(s) PROVE Kept
  BY <1>1, <1>11, StartSucceeds, Zenon DEF StartAborts
<1>12. CASE UNCHANGED vars
  <2>1. Stay
    BY <1>12, Zenon DEF vars, queues, serving
  <2>2. pc' = pc
    BY <1>12, Zenon DEF vars
  <2> QED BY <1>2, <2>1, <2>2
<1> QED BY <1>3, <1>4, <1>5, <1>6, <1>7, <1>8, <1>9, <1>10, <1>11, <1>12, Zenon
        DEF Next, Step, UpdateClient

\* Little's law, for every number of servers, clients and ticks: what a
\* server has added to sum_queue_lens in its updates is what its clients have
\* waited, from the tick they came to the tick they were called.
THEOREM QueueLensAreWaits ==
  FullSizes = {} /\ NStandard > 0 /\ BoostFits /\ SumsFit
    => (Spec => []LittlesLaw)
<1> SUFFICES ASSUME FullSizes = {}, NStandard > 0, BoostFits, SumsFit
             PROVE  Spec => []LittlesLaw
  OBVIOUS
<1>1. LawInv /\ [Next]_vars => LawInv'
  BY NextKeepsLaw
<1>2. LawInv => LittlesLaw
  BY Zenon DEF LawInv, LawOf, WaitedTimes, WaitedTime, Called, LittlesLaw
<1> QED BY <1>1, <1>2, InitLaw, PTL DEF Spec

-----------------------------------------------------------------------------
(***************************************************************************)
(* What a simulation leaves to compute_stats                               *)
(***************************************************************************)
\* The finished clients in their queues, as compute_stats finds them.
FinishedPlaces == UNION {{s} \X DOMAIN finished_clients_queue[s] : s \in Server}
FinishedRecords ==
  [s \in Server |->
    [k \in DOMAIN finished_clients_queue[s] |->
      LET c == finished_clients_queue[s][k]
      IN  [disability_type |-> drawn[c].disability_type,
           wait_time |-> service_stat[c].wait_time,
           total_time |-> service_stat[c].total_time]]]

FinishedAt(p) == finished_clients_queue[p[1]][p[2]]

LeavesResult ==
  pc = "done" =>
    /\ total_clients = NumClients
    /\ FinishedRecords \in [Server -> Seq([disability_type : DisabilityType,
                                           wait_time : Int, total_time : Int])]
    /\ \A p, r \in FinishedPlaces : FinishedAt(p) = FinishedAt(r) => p = r
    /\ Cardinality(FinishedPlaces) <= total_clients
    /\ \A s \in Server :
         /\ Len(finished_clients_queue[s]) <= server_stat[s].client_served
         /\ FullSizes = {} =>
              Len(finished_clients_queue[s]) = server_stat[s].client_served

\* A server counts every service that succeeds, and keeps the client of each
\* in its finished queue unless the push there fails.
ServedOf(s) ==
  /\ Len(finished_clients_queue[s]) <= server_stat[s].client_served
  /\ FullSizes = {} => Len(finished_clients_queue[s]) = server_stat[s].client_served
ServedInv == \A s \in Server : ServedOf(s)

LEMMA InitServed == Init => ServedInv
<1> SUFFICES ASSUME Init, NEW s \in Server PROVE ServedOf(s)
  BY DEF ServedInv
<1>1. /\ finished_clients_queue = [r \in Server |-> <<>>]
      /\ server_stat = [r \in Server |-> NoActivity]
  BY Zenon DEF Init
<1>2. finished_clients_queue[s] = <<>> /\ server_stat[s] = NoActivity
  BY <1>1, Zenon
<1>3. Len(<<>>) = 0 /\ NoActivity.client_served = 0
  BY DEF NoActivity
<1> QED BY <1>2, <1>3 DEF ServedOf

\* A server whose queue of finished clients and counter stay.
LEMMA ServedStays ==
  ASSUME ServedInv, NEW s \in Server,
         finished_clients_queue'[s] = finished_clients_queue[s],
         server_stat'[s].client_served = server_stat[s].client_served
  PROVE  ServedOf(s)'
  BY DEF ServedInv, ServedOf

LEMMA NextKeepsServed == PlacesInv /\ ServedInv /\ [Next]_vars => ServedInv'
<1> SUFFICES ASSUME PlacesInv, ServedInv, [Next]_vars, NEW r \in Server PROVE ServedOf(r)'
  BY DEF ServedInv
<1>1. /\ server_stat \in [Server -> ServerStat]
      /\ finished_clients_queue \in [Server -> Seq(Client)]
      /\ current_client \in [Server -> Client \cup {NoClient}]
  BY DEF PlacesInv, Inv, TypeOK
<1>2. CASE UNCHANGED <<finished_clients_queue, server_stat>>
  BY <1>2, ServedStays
<1>3. CASE ServersUpdateServeTime
  <2>1. /\ server_stat'[r] = IF current_client[r] # NoClient
                             THEN [server_stat[r] EXCEPT !.active_time = @ + 1]
                             ELSE [server_stat[r] EXCEPT !.idle_time = @ + 1]
        /\ finished_clients_queue' = finished_clients_queue
    BY <1>3 DEF ServersUpdateServeTime
  <2>2. server_stat[r] \in ServerStat
    BY <1>1
  <2>3. server_stat'[r].client_served = server_stat[r].client_served
    BY <2>1, <2>2 DEF ServerStat
  <2> QED BY <2>1, <2>3, ServedStays
<1>4. ASSUME NEW s \in Server, finished_clients_queue' = finished_clients_queue,
             NEW stat \in ServerStat, EndTurn(s, stat),
             stat.client_served = server_stat[s].client_served
      PROVE  ServedOf(r)'
  <2>1. server_stat'[r].client_served = server_stat[r].client_served
    BY <1>1, <1>4, EndTurnStat
  <2> QED BY <1>4, <2>1, ServedStays
<1>5. ASSUME NEW s \in Server, Finish(s) PROVE ServedOf(r)'
  <2> DEFINE stat == [server_stat[s] EXCEPT !.client_served = @ + 1]
             c == current_client[s]
  <2>1. PICK q \in Pushed(finished_clients_queue[s], c) :
          finished_clients_queue' = [finished_clients_queue EXCEPT ![s] = q]
    BY <1>5, Zenon DEF Finish
  <2>2. EndTurn(s, stat) /\ c # NoClient
    BY <1>5 DEF Finish, ServiceFinished
  <2>3. server_stat[s] \in ServerStat /\ finished_clients_queue[s] \in Seq(Client) /\ c \in Client
    BY <1>1, <2>2
  <2>4. /\ stat \in ServerStat
        /\ stat.client_served = server_stat[s].client_served + 1
        /\ server_stat[s].client_served \in Nat
    <3>1. server_stat[s].client_served \in Nat
      BY <2>3 DEF ServerStat
    <3>2. server_stat[s].client_served + 1 \in Nat
      BY <3>1
    <3> QED BY <2>3, <3>1, <3>2 DEF ServerStat
  <2>5. \/ /\ q = Append(finished_clients_queue[s], c)
           /\ Len(q) = Len(finished_clients_queue[s]) + 1
        \/ q = finished_clients_queue[s] /\ FullSizes # {}
    BY <2>1, <2>3 DEF Pushed
  <2> HIDE DEF stat, c
  <2>6. /\ server_stat'[s].client_served = server_stat[s].client_served + 1
        /\ \A n \in Server \ {s} : server_stat'[n] = server_stat[n]
    BY <1>1, <2>2, <2>4, EndTurnStat
  <2>7. CASE r = s
    <3>1. ServedOf(s)
      BY DEF ServedInv
    <3>2. finished_clients_queue'[s] = q
      BY <1>1, <2>1
    <3>3. Len(finished_clients_queue[s]) \in Nat
      BY <2>3
    <3>4. \/ Len(q) = Len(finished_clients_queue[s]) + 1
          \/ Len(q) = Len(finished_clients_queue[s]) /\ FullSizes # {}
      BY <2>5
    <3>5. /\ Len(finished_clients_queue[s]) <= server_stat[s].client_served
          /\ FullSizes = {} =>
               Len(finished_clients_queue[s]) = server_stat[s].client_served
      BY <3>1 DEF ServedOf
    <3>6. /\ Len(q) <= server_stat[s].client_served + 1
          /\ FullSizes = {} => Len(q) = server_stat[s].client_served + 1
      <4> DEFINE n == Len(finished_clients_queue[s])
                 m == server_stat[s].client_served
      <4>1. n \in Nat /\ m \in Nat /\ n <= m /\ (FullSizes = {} => n = m)
        BY <2>4, <3>3, <3>5
      <4>2. Len(q) = n + 1 \/ (Len(q) = n /\ FullSizes # {})
        BY <3>4
      <4> HIDE DEF n, m
      <4>3. Len(q) <= m + 1 /\ (FullSizes = {} => Len(q) = m + 1)
        <5>1. CASE Len(q) = n + 1
          BY <4>1, <5>1
        <5>2. CASE Len(q) = n /\ FullSizes # {}
          <6>1. Len(q) <= m + 1
            BY <4>1, <5>2
          <6> QED BY <5>2, <6>1, Zenon
        <5> QED BY <4>2, <5>1, <5>2
      <4> QED BY <4>3 DEF m
    <3>7. /\ Len(finished_clients_queue'[s]) <= server_stat'[s].client_served
          /\ FullSizes = {} =>
               Len(finished_clients_queue'[s]) = server_stat'[s].client_served
      BY <2>6, <3>2, <3>6, Zenon
    <3> QED BY <2>7, <3>7 DEF ServedOf
  <2>8. CASE r # s
    <3>1. finished_clients_queue'[r] = finished_clients_queue[r]
      BY <1>1, <2>1, <2>8
    <3> QED BY <2>6, <2>8, <3>1, ServedStays
  <2> QED BY <2>7, <2>8
<1>6. ASSUME NEW s \in Server, Retry(s) PROVE ServedOf(r)'
  <2> DEFINE stat == [server_stat[s] EXCEPT !.failure_count = @ + 1]
  <2>1. EndTurn(s, stat) /\ finished_clients_queue' = finished_clients_queue
    BY <1>6 DEF Retry
  <2>2. server_stat[s] \in ServerStat
    BY <1>1
  <2>3. stat \in ServerStat /\ stat.client_served = server_stat[s].client_served
    BY <2>2 DEF ServerStat
  <2> HIDE DEF stat
  <2> QED BY <1>4, <2>1, <2>3
<1>7. ASSUME NEW s \in Server, Continue(s) \/ StartNext(s) PROVE ServedOf(r)'
  <2>1. EndTurn(s, server_stat[s]) /\ finished_clients_queue' = finished_clients_queue
    BY <1>7 DEF Continue, StartNext, serving
  <2>2. server_stat[s] \in ServerStat
    BY <1>1
  <2> QED BY <1>4, <2>1, <2>2
<1>8. CASE Begin
  BY <1>2, <1>8 DEF Begin, serving
<1>9. CASE AdmitNobody
  BY <1>2, <1>9 DEF AdmitNobody, serving
<1>10. CASE \E s \in Server, c \in Client : Admit(s, c)
  BY <1>2, <1>10 DEF Admit, serving
<1>11. ASSUME NEW s \in Server, StartAborts(s) PROVE ServedOf(r)'
  BY <1>2, <1>11 DEF StartAborts, serving
<1>12. CASE UNCHANGED vars
  BY <1>2, <1>12 DEF vars, serving
<1> QED BY <1>3, <1>5, <1>6, <1>7, <1>8, <1>9, <1>10, <1>11, <1>12, Zenon
        DEF Next, Step, UpdateClient

\* total_clients is what came in, from the first statements of simulate on.
TotalInv ==
  /\ pc = "begin" => Len(system_clients) = NumClients
  /\ pc \notin {"begin", "aborted"} => total_clients = NumClients

LEMMA InitTotal == Init => TotalInv
<1> SUFFICES ASSUME Init PROVE TotalInv
  OBVIOUS
<1>1. pc = "begin" /\ system_clients = [c \in Client |-> c]
  BY Zenon DEF Init
<1>2. Len(system_clients) = NumClients
  BY <1>1 DEF Client
<1> QED BY <1>1, <1>2 DEF TotalInv

LEMMA NextKeepsTotal == TotalInv /\ [Next]_vars => TotalInv'
<1> SUFFICES ASSUME TotalInv, [Next]_vars PROVE TotalInv'
  OBVIOUS
<1>1. ASSUME pc \notin {"begin", "aborted"}, pc' # "begin", total_clients' = total_clients
      PROVE  TotalInv'
  BY <1>1 DEF TotalInv
<1>2. CASE Begin
  <2>1. pc = "begin"
    BY <1>2 DEF Begin
  <2>2. \/ pc' = "aborted"
        \/ pc' \in {"admit", "done"} /\ total_clients' = Len(system_clients)
    BY <1>2 DEF Begin, AtTick
  <2> QED BY <2>1, <2>2 DEF TotalInv
<1>3. CASE AdmitNobody
  BY <1>1, <1>3 DEF AdmitNobody
<1>4. CASE \E s \in Server, c \in Client : Admit(s, c)
  BY <1>1, <1>4 DEF Admit
<1>5. CASE ServersUpdateServeTime
  BY <1>1, <1>5 DEF ServersUpdateServeTime
<1>6. ASSUME NEW s \in Server, UpdateClient(s) PROVE TotalInv'
  <2>1. pc = "update"
    BY <1>6 DEF UpdateClient, Finish, Retry, Continue, StartNext, StartAborts, IsTurnOf
  <2>2. ASSUME NEW stat, EndTurn(s, stat)
        PROVE  pc' # "begin" /\ total_clients' = total_clients
    BY <2>1, <2>2 DEF EndTurn, NextTurn, AtTick
  <2>3. CASE StartAborts(s)
    BY <1>1, <2>1, <2>3 DEF StartAborts
  <2>4. CASE ~StartAborts(s)
    <3>1. \E stat : EndTurn(s, stat)
      BY <1>6, <2>4, Zenon DEF UpdateClient, Finish, Retry, Continue, StartNext
    <3> QED BY <1>1, <2>1, <2>2, <3>1
  <2> QED BY <2>3, <2>4
<1>7. CASE Stopped /\ UNCHANGED vars
  BY <1>7 DEF Stopped, vars, TotalInv
<1>8. CASE UNCHANGED vars
  BY <1>8 DEF vars, TotalInv
<1> QED BY <1>2, <1>3, <1>4, <1>5, <1>6, <1>7, <1>8, Zenon DEF Next, Step

\* No client is finished twice, so that there are at most as many finished
\* clients as there are clients.
LEMMA FinishedFit ==
  ASSUME PlacesInv
  PROVE  /\ \A p, r \in FinishedPlaces : FinishedAt(p) = FinishedAt(r) => p = r
         /\ Cardinality(FinishedPlaces) <= NumClients
<1> DEFINE queue == finished_clients_queue
           f == [p \in FinishedPlaces |-> queue[p[1]][p[2]]]
<1>1. queue \in [Server -> Seq(Client)]
  BY DEF PlacesInv, Inv, TypeOK
<1>2. ASSUME NEW p \in FinishedPlaces
      PROVE  /\ p = <<p[1], p[2]>> /\ p[1] \in Server /\ p[2] \in DOMAIN queue[p[1]]
             /\ f[p] = queue[p[1]][p[2]]
             /\ f[p] \in Client /\ f[p] \in ClientsOf(p[1])
  <2>1. /\ p = <<p[1], p[2]>> /\ p[1] \in Server /\ p[2] \in DOMAIN queue[p[1]]
        /\ f[p] = queue[p[1]][p[2]]
    BY DEF FinishedPlaces
  <2>2. queue[p[1]] \in Seq(Client)
    BY <1>1, <2>1
  <2>3. f[p] \in Client
    BY <2>1, <2>2
  <2>4. f[p] \in Finished(p[1])
    BY <2>1 DEF Finished, ToSet
  <2> QED BY <2>1, <2>3, <2>4 DEF ClientsOf
<1>3. ASSUME NEW p \in FinishedPlaces, NEW r \in FinishedPlaces, f[p] = f[r]
      PROVE  p = r
  <2>1. p[1] = r[1]
    BY <1>2, <1>3 DEF PlacesInv, OnePlaceEach
  <2>2. IsInjective(queue[p[1]])
    BY <1>2 DEF PlacesInv, OnePlaceEach
  <2>3. p[2] = r[2]
    BY <1>2, <1>3, <2>1, <2>2 DEF IsInjective
  <2> QED BY <1>2, <2>1, <2>3
<1>4. f \in [FinishedPlaces -> Client]
  BY <1>2
<1>5. f \in Injection(FinishedPlaces, Client)
  <2> HIDE DEF f
  <2> QED BY <1>3, <1>4 DEF Injection, IsInjective
<1>6. IsFiniteSet(Client) /\ Cardinality(Client) = NumClients
  BY FS_Interval DEF Client
<1>7. Cardinality(FinishedPlaces) <= NumClients
  <2> HIDE DEF f
  <2> QED BY <1>5, <1>6, FS_Injection
<1>8. \A p \in FinishedPlaces : f[p] = FinishedAt(p)
  BY DEF FinishedAt
<1> HIDE DEF f
<1> QED BY <1>3, <1>7, <1>8

\* Where a simulation ends, total_clients is the number of clients it began
\* with; the finished clients have the types and times Statistics takes for
\* granted, none of them is in the finished queues twice, and so there are at
\* most total_clients of them.  A server's finished clients are as many as
\* its client_served, or fewer where pushes failed: server.c:436 counts a
\* client that the push at server.c:438 may lose (system.c:165-225, 261-268).
THEOREM SimulationLeavesResult == Spec => []LeavesResult
<1>1. TotalInv /\ PlacesInv /\ ServedInv => LeavesResult
  <2> SUFFICES ASSUME TotalInv, PlacesInv, ServedInv, pc = "done"
               PROVE  /\ total_clients = NumClients
                      /\ FinishedRecords \in [Server -> Seq([disability_type : DisabilityType,
                                                             wait_time : Int, total_time : Int])]
                      /\ \A p, r \in FinishedPlaces : FinishedAt(p) = FinishedAt(r) => p = r
                      /\ Cardinality(FinishedPlaces) <= total_clients
    BY DEF LeavesResult, ServedInv, ServedOf
  <2>1. total_clients = NumClients
    BY DEF TotalInv
  <2>2. ASSUME NEW s \in Server
        PROVE  FinishedRecords[s] \in Seq([disability_type : DisabilityType,
                                           wait_time : Int, total_time : Int])
    <3> DEFINE q == finished_clients_queue[s]
               Record(c) == [disability_type |-> drawn[c].disability_type,
                             wait_time |-> service_stat[c].wait_time,
                             total_time |-> service_stat[c].total_time]
    <3>1. q \in Seq(Client) /\ DOMAIN q = 1 .. Len(q) /\ Len(q) \in Nat
      BY DEF PlacesInv, Inv, TypeOK
    <3>2. \A c \in Client : Record(c) \in [disability_type : DisabilityType,
                                           wait_time : Int, total_time : Int]
      BY DEF PlacesInv, Inv, TypeOK, Draw, ServiceStat
    <3>3. FinishedRecords[s] = [k \in 1 .. Len(q) |-> Record(q[k])]
      BY <3>1, Zenon DEF FinishedRecords
    <3> HIDE DEF Record
    <3>4. \A k \in 1 .. Len(q) : q[k] \in Client
      BY <3>1
    <3> HIDE DEF q
    <3> QED BY <3>1, <3>2, <3>3, <3>4
  <2>3. FinishedRecords = [s \in Server |-> FinishedRecords[s]]
    BY DEF FinishedRecords
  <2> QED BY <2>1, <2>2, <2>3, FinishedFit
<1>2. PlacesInv /\ ServedInv /\ [Next]_vars => ServedInv'
  BY NextKeepsServed
<1> QED BY <1>1, <1>2, InitTotal, NextKeepsTotal, InitServed, PlacesInvariance, PTL DEF Spec

=============================================================================
