----------------------------- MODULE Statistics -----------------------------
(***************************************************************************)
(* compute_stats of src/src/system.c, one server or one finished client at *)
(* a time, as a part of Tests.  Results are what a simulation may leave:   *)
(* how many clients there were, those that each server finished, and its   *)
(* mean queue length.                                                      *)
(*                                                                         *)
(* Sums are ints and wrap.  total_queue_len is an int that is divided by a *)
(* size_t, for which it is first converted to that wider unsigned type.    *)
(* The iterator over the finished clients of a server needs memory; if     *)
(* there is none, the loop over them is not entered.                       *)
(***************************************************************************)
EXTENDS Integers, Sequences, FiniteSets, Functions

CONSTANTS
  NumServers,       \* standard_servers_size + robotic_servers_size
  Kind,             \* the disability types
  Results,          \* what the simulation may leave
  IntMax, SizeMax,  \* the largest int and the largest size_t
  MayFail,          \* whether malloc may fail
  All               \* stands for all types where sums are kept by type

ASSUME CountAssumption == NumServers \in Nat \ {0}
ASSUME KindAssumption == IsFiniteSet(Kind) /\ All \notin Kind
ASSUME MachineAssumption ==
  IntMax \in Nat /\ SizeMax \in Nat /\ IntMax < SizeMax /\ MayFail \in BOOLEAN

Server == 1 .. NumServers
Group == Kind \cup {All}
FinishedClient == [disability_type : Kind, wait_time : Int, total_time : Int]

\* The places of all elements of the queues of the servers S.
Places(S, queues) == UNION {{s} \X DOMAIN queues[s] : s \in S}

ASSUME ResultsAssumption ==
  \A r \in Results :
    /\ r.clients \in 0 .. IntMax
    /\ r.finished \in [Server -> Seq(FinishedClient)]
    /\ Cardinality(Places(Server, r.finished)) <= r.clients
    /\ r.queue_len \in [Server -> Int]

VARIABLES
  pc,                     \* "open" a server, "iterate" over its clients, "done"
  server,                 \* i
  index,                  \* of the iterator
  total_clients,          \* of the sim_stat_t, from the start of simulate
  finished,               \* finished_clients_queue of each server
  mean_server_queue_len,
  total_queue_len,
  count, wait, serve,     \* xx_total, xx_wait_time, xx_service_time by type
  opened                  \* history: the servers that had an iterator

inputs == <<total_clients, finished, mean_server_queue_len>>
vars == <<pc, server, index, inputs, total_queue_len, count, wait, serve, opened>>

SizeQuotientUp(a, b) == ((a % (SizeMax + 1)) + b - 1) \div b

\* The int that n is stored as, the int division, and the division of an int
\* by a size_t.
ToInt(n) == ((n + IntMax + 1) % (2 * (IntMax + 1))) - (IntMax + 1)
Quotient(a, b) == IF a >= 0 THEN a \div b ELSE -((-a) \div b)
SizeQuotient(a, b) == ToInt((a % (SizeMax + 1)) \div b)

Init ==
  /\ pc = "open" /\ server = 1 /\ index = 1
  /\ \E r \in Results :
       /\ total_clients = r.clients
       /\ finished = r.finished
       /\ mean_server_queue_len = r.queue_len
  /\ total_queue_len = 0
  /\ count = [g \in Group |-> 0]
  /\ wait = [g \in Group |-> 0]
  /\ serve = [g \in Group |-> 0]
  /\ opened = {}

-----------------------------------------------------------------------------
NextServer ==
  /\ server' = server + 1
  /\ pc' = IF server = NumServers THEN "done" ELSE "open"

\* queue_iterator_create yields no iterator of an empty queue.
OpenServer ==
  /\ pc = "open"
  /\ total_queue_len' = ToInt(total_queue_len + mean_server_queue_len[server])
  /\ \/ /\ finished[server] # <<>>
        /\ pc' = "iterate" /\ index' = 1
        /\ opened' = opened \cup {server}
        /\ UNCHANGED server
     \/ /\ finished[server] = <<>> \/ MayFail
        /\ NextServer
        /\ UNCHANGED <<index, opened>>
  /\ UNCHANGED <<inputs, count, wait, serve>>

HasNextButLast == index < Len(finished[server])

\* queue_iterator_has_next
HasNext == index <= Len(finished[server])

AddedToKind(f, k, n) == [f EXCEPT ![k] = ToInt(@ + n)]

\* f with n added to the sum of type k and to the sum of all.
AddedTo(f, k, n) == [f EXCEPT ![k] = ToInt(@ + n), ![All] = ToInt(@ + n)]

\* queue_iterator_next, compute_client_stats
CountClient ==
  /\ pc = "iterate" /\ HasNext
  /\ LET client == finished[server][index]
         kind == client.disability_type
     IN  /\ count' = AddedTo(count, kind, 1)
         /\ wait' = AddedTo(wait, kind, client.wait_time)
         /\ serve' = AddedTo(serve, kind, client.total_time)
  /\ index' = index + 1
  /\ UNCHANGED <<pc, server, inputs, total_queue_len, opened>>

CloseServer ==
  /\ pc = "iterate" /\ ~HasNext
  /\ NextServer
  /\ UNCHANGED <<index, inputs, total_queue_len, count, wait, serve, opened>>

Mean(f, g) == IF count[g] > 0 THEN Quotient(f[g], count[g]) ELSE 0

\* The fields of a sim_stat_t, those that are kept by type with their type.
Field == ({"total_clients", "mean_queue_size"} \X {All})
         \cup ({"mean_wait_time", "mean_serve_time"} \X Group)

\* The sim_stat_t that simulate and compute_stats fill in.
Stat ==
  [f \in Field |->
     CASE f[1] = "total_clients" -> total_clients
       [] f[1] = "mean_queue_size" -> SizeQuotient(total_queue_len, NumServers)
       [] f[1] = "mean_wait_time" -> Mean(wait, f[2])
       [] f[1] = "mean_serve_time" -> Mean(serve, f[2])]

-----------------------------------------------------------------------------
(***************************************************************************)
(* Properties                                                              *)
(***************************************************************************)
\* The sums of the types make up the sums of all at every moment, even when
\* sums have wrapped (system.c:187-206).
TypesMakeUpTotal ==
  \A f \in {count, wait, serve} : ToInt(SumFunctionOnSet(f, Kind)) = f[All]

\* What the means are means of: the finished clients of type g in the servers
\* that had an iterator, and the times of all.
Counted(g) ==
  {p \in Places(opened, finished) : g \in {finished[p[1]][p[2]].disability_type, All}}
WaitTime == [p \in Places(Server, finished) |-> finished[p[1]][p[2]].wait_time]
TotalTime == [p \in Places(Server, finished) |-> finished[p[1]][p[2]].total_time]
Waited(g) == SumFunctionOnSet(WaitTime, Counted(g))
Served(g) == SumFunctionOnSet(TotalTime, Counted(g))

IsMean(mean, n, len) ==
  IF len = 0 THEN mean = 0
  ELSE /\ n >= 0 => mean * len <= n /\ n < (mean + 1) * len
       /\ n <= 0 => mean * len >= n /\ n > (mean - 1) * len

InRange(n) == n \in -IntMax - 1 .. IntMax

\* The results are the means over the finished clients, of each type and of
\* all, rounded towards 0, but for the servers whose iterator found no memory
\* and for sums that exceed an int.
StatIsMean ==
  pc = "done" => \A g \in Group :
    LET n == Cardinality(Counted(g))
    IN  /\ InRange(Waited(g)) => IsMean(Stat[<<"mean_wait_time", g>>], Waited(g), n)
        /\ InRange(Served(g)) => IsMean(Stat[<<"mean_serve_time", g>>], Served(g), n)

\* The mean queue size is that of the servers, unless the sum of their mean
\* queue lengths exceeds an int.  Only a sum that is not negative survives
\* the division by a size_t (system.c:221).
QueueSizeIsMean ==
  pc = "done" =>
    LET total == SumFunction(mean_server_queue_len)
    IN  total \in 0 .. IntMax => IsMean(Stat[<<"mean_queue_size", All>>], total, NumServers)

=============================================================================
