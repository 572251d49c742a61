-------------------------- MODULE ClientInitProofs --------------------------
(***************************************************************************)
(* Proof that, unless rand returns RAND_MAX, clients_init leaves clients   *)
(* that get_client can admit one after the other, for any probabilities,   *)
(* rates and end of the simulation, and whatever pushes fail.              *)
(***************************************************************************)
EXTENDS ClientInit, SequenceTheorems, TLAPS

ClientRecord == [id : Nat, arrival_time : Int,
                 disability_type : {NO_DISABILITY, TYPE_1, TYPE_2, TYPE_3, Unset},
                 destination : {DEST_1, DEST_2}]

\* The inductive invariant.
Inv == TypeOK /\ next \in Nat /\ ArrivalsAdmissible

\* Two calls of exponential_sample never give the same time.
LEMMA SampleIsPositive ==
  ASSUME RandMax \notin Rand, NEW r \in Rand
  PROVE  ExponentialSample(r) \in Nat \ {0}
<1>1. r \in 0 .. RandMax - 1 /\ r # RandMax
  BY RandAssumption
<1>2. Log[r] \in Nat
  BY <1>1, LogAssumption
<1> QED BY <1>1, <1>2 DEF ExponentialSample

\* Appending a client that comes later keeps the order.
LEMMA AppendKeepsOrder ==
  ASSUME NEW cs \in Seq(ClientRecord), NEW c \in ClientRecord, NEW n \in Nat, NEW m \in Nat,
         NEW r, r = Append(cs, c),
         n < c.arrival_time, c.arrival_time < FinishTime, c.id = m,
         \A k \in 1 .. Len(cs) :
           /\ cs[k].arrival_time \in 1 .. FinishTime - 1
           /\ cs[k].arrival_time <= n
           /\ cs[k].id < m,
         \A k, l \in 1 .. Len(cs) : k < l =>
           /\ cs[k].arrival_time < cs[l].arrival_time
           /\ cs[k].id < cs[l].id
  PROVE  /\ r \in Seq(ClientRecord)
         /\ \A k \in 1 .. Len(r) :
              /\ r[k].arrival_time \in 1 .. FinishTime - 1
              /\ r[k].arrival_time <= c.arrival_time
              /\ r[k].id < m + 1
         /\ \A k, l \in 1 .. Len(r) : k < l =>
              /\ r[k].arrival_time < r[l].arrival_time
              /\ r[k].id < r[l].id
<1>1. /\ r \in Seq(ClientRecord) /\ Len(r) = Len(cs) + 1 /\ Len(cs) \in Nat
      /\ r[Len(cs) + 1] = c
      /\ \A k \in 1 .. Len(cs) : r[k] = cs[k]
  BY AppendProperties, LenProperties
<1>2. c.arrival_time \in Int /\ FinishTime \in Int
  BY BoundAssumption DEF ClientRecord
<1>3. \A k \in 1 .. Len(cs) : cs[k].arrival_time \in Int /\ cs[k].id \in Nat
  <2>1. \A k \in 1 .. Len(cs) : cs[k] \in ClientRecord
    BY ElementOfSeq
  <2> QED BY <2>1 DEF ClientRecord
<1>4. ASSUME NEW k \in 1 .. Len(r)
      PROVE  /\ r[k].arrival_time \in 1 .. FinishTime - 1
             /\ r[k].arrival_time <= c.arrival_time
             /\ r[k].id < m + 1
  <2>1. CASE k = Len(cs) + 1
    BY <1>1, <1>2, <2>1
  <2>2. CASE k \in 1 .. Len(cs)
    BY <1>1, <1>2, <1>3, <2>2
  <2> QED BY <1>1, <2>1, <2>2
<1>5. ASSUME NEW k \in 1 .. Len(r), NEW l \in 1 .. Len(r), k < l
      PROVE  r[k].arrival_time < r[l].arrival_time /\ r[k].id < r[l].id
  <2>1. k \in 1 .. Len(cs)
    BY <1>1, <1>5
  <2>2. CASE l = Len(cs) + 1
    BY <1>1, <1>2, <1>3, <2>1, <2>2
  <2>3. CASE l \in 1 .. Len(cs)
    BY <1>1, <1>5, <2>1, <2>3
  <2> QED BY <1>1, <2>2, <2>3
<1> QED BY <1>1, <1>4, <1>5

\* The loop starts with no clients.
LEMMA InitInv == Init => Inv
<1> SUFFICES ASSUME Init PROVE Inv
  OBVIOUS
<1>1. clients = <<>> /\ clients \in Seq(ClientRecord) /\ Len(clients) = 0
  BY EmptySeq DEF Init
<1> QED BY <1>1 DEF Init, Inv, TypeOK, ClientRecord, ArrivalsAdmissible

\* Every turn of the loop keeps the order.
LEMMA NextKeepsInv ==
  ASSUME RandMax \notin Rand, Inv, [Next]_vars
  PROVE  Inv'
<1> USE DEF Inv
<1>1. CASE DrawClient
  <2>1. PICK e \in Rand : next' = next + ExponentialSample(e) /\ next' < FinishTime
    BY <1>1 DEF DrawClient
  <2>2. next' \in Nat /\ next < next' /\ next \in Nat
    BY <2>1, SampleIsPositive
  <2>3. id' = id + 1 /\ pc' = pc /\ id \in Nat
    BY <1>1 DEF DrawClient, TypeOK
  <2>4. PICK r \in Rand, t \in Rand, d \in Rand :
          \/ clients' = Append(clients,
                          [id |-> id, arrival_time |-> next',
                           disability_type |-> DisabilityType(r, t),
                           destination |-> Destination(d)])
          \/ clients' = clients
    BY <1>1 DEF DrawClient
  <2>5. CASE clients' = clients
    <3>1. next' \in Int /\ id' \in Nat /\ pc' \in {"draw", "done"}
      BY <2>2, <2>3 DEF TypeOK
    <3>2. TypeOK'
      BY <2>5, <3>1 DEF TypeOK
    <3>3. ASSUME NEW k \in 1 .. Len(clients)
          PROVE  clients[k].arrival_time <= next' /\ clients[k].id < id'
      <4>1. clients[k].arrival_time \in Int /\ clients[k].id \in Nat
        <5>1. clients \in Seq(ClientRecord)
          BY DEF TypeOK, ClientRecord
        <5>2. clients[k] \in ClientRecord
          BY <5>1, ElementOfSeq
        <5> QED BY <5>2 DEF ClientRecord
      <4>2. clients[k].arrival_time <= next /\ clients[k].id < id
        BY DEF ArrivalsAdmissible
      <4> QED BY <2>2, <2>3, <4>1, <4>2
    <3>4. ArrivalsAdmissible'
      BY <2>5, <3>3 DEF ArrivalsAdmissible
    <3> QED BY <2>2, <3>2, <3>4
  <2>6. CASE clients' # clients
    <3> DEFINE c == [id |-> id, arrival_time |-> next',
                     disability_type |-> DisabilityType(r, t),
                     destination |-> Destination(d)]
    <3>1. DisabilityType(r, t) \in {NO_DISABILITY, TYPE_1, TYPE_2, TYPE_3, Unset}
      BY DEF DisabilityType
    <3>2. Destination(d) \in {DEST_1, DEST_2}
      BY DEF Destination
    <3>3. c \in ClientRecord /\ c.arrival_time = next' /\ c.id = id
      BY <2>2, <2>3, <3>1, <3>2 DEF ClientRecord
    <3>4. clients' = Append(clients, c)
      BY <2>4, <2>6
    <3>5. clients \in Seq(ClientRecord)
      BY DEF TypeOK, ClientRecord
    <3> HIDE DEF c
    <3>6. /\ clients' \in Seq(ClientRecord)
          /\ \A k \in 1 .. Len(clients') :
               /\ clients'[k].arrival_time \in 1 .. FinishTime - 1
               /\ clients'[k].arrival_time <= next'
               /\ clients'[k].id < id + 1
          /\ \A k, l \in 1 .. Len(clients') : k < l =>
               /\ clients'[k].arrival_time < clients'[l].arrival_time
               /\ clients'[k].id < clients'[l].id
      <4>1. next < c.arrival_time /\ c.arrival_time < FinishTime
        BY <2>1, <2>2, <3>3
      <4> QED BY <2>2, <2>3, <3>3, <3>4, <3>5, <4>1, AppendKeepsOrder
                 DEF ArrivalsAdmissible
    <3>7. TypeOK'
      BY <2>2, <2>3, <3>6 DEF TypeOK, ClientRecord
    <3>8. ArrivalsAdmissible'
      BY <2>3, <3>6 DEF ArrivalsAdmissible
    <3> QED BY <2>2, <3>7, <3>8
  <2> QED BY <2>5, <2>6
<1>2. CASE Finish
  <2>1. PICK e \in Rand : next' = next + ExponentialSample(e)
    BY <1>2 DEF Finish
  <2>2. next' \in Nat /\ next < next' /\ next \in Nat
    BY <2>1, SampleIsPositive
  <2>3. id' = id /\ clients' = clients /\ pc' = "done"
    BY <1>2 DEF Finish
  <2>4. TypeOK'
    BY <2>2, <2>3 DEF TypeOK
  <2>5. ASSUME NEW k \in 1 .. Len(clients)
        PROVE  clients[k].arrival_time <= next'
    <3>1. clients[k].arrival_time \in Int /\ clients[k].arrival_time <= next
      BY DEF TypeOK, ArrivalsAdmissible
    <3> QED BY <2>2, <3>1
  <2>6. ArrivalsAdmissible'
    BY <2>3, <2>5 DEF ArrivalsAdmissible
  <2> QED BY <2>2, <2>4, <2>6
<1>3. CASE UNCHANGED vars
  BY <1>3 DEF vars, TypeOK, ArrivalsAdmissible
<1> QED BY <1>1, <1>2, <1>3 DEF Next, Step

\* If rand never returns RAND_MAX, the clients of a run arrive in different
\* ticks, in the order of the queue and within the run, as get_client needs.
THEOREM ArrivalsAreAdmissible ==
  ASSUME RandMax \notin Rand
  PROVE  Spec => []ArrivalsAdmissible
<1>1. Inv /\ [Next]_vars => Inv'
  BY NextKeepsInv
<1>2. Inv => ArrivalsAdmissible
  BY DEF Inv
<1> QED BY <1>1, <1>2, InitInv, PTL DEF Spec

\* The turns that the loop has left at most.
TurnsLeft ==
  CASE pc = "done" -> 0
    [] pc = "draw" /\ next >= FinishTime -> 1
    [] OTHER -> FinishTime - next + 1
TurnsAreFew == TurnsLeft \in Nat

\* If rand never returns RAND_MAX, clients_init comes to an end: every turn
\* of its loop brings the next arrival nearer to the end of the run, or
\* leaves the loop (client.c:25-71).
THEOREM DrawingIsFinite ==
  ASSUME RandMax \notin Rand
  PROVE  Spec => []TurnsAreFew /\ [][TurnsLeft' < TurnsLeft]_vars
<1>1. Inv => TurnsAreFew
  BY BoundAssumption DEF Inv, TypeOK, TurnsAreFew, TurnsLeft
<1>2. Inv /\ [Next]_vars => [TurnsLeft' < TurnsLeft]_vars
  <2> SUFFICES ASSUME Inv, Next, ~ UNCHANGED vars PROVE TurnsLeft' < TurnsLeft
    BY Zenon
  <2>1. FinishTime \in Int /\ next \in Nat
    BY BoundAssumption DEF Inv
  <2>2. CASE DrawClient
    <3>1. PICK e \in Rand : next' = next + ExponentialSample(e) /\ next' < FinishTime
      BY <2>2 DEF DrawClient
    <3>2. next' \in Nat /\ next < next'
      BY <2>1, <3>1, SampleIsPositive
    <3>3. pc = "draw" /\ pc' = "draw"
      BY <2>2 DEF DrawClient
    <3> QED BY <2>1, <3>1, <3>2, <3>3 DEF TurnsLeft
  <2>3. CASE Finish
    BY <2>1, <2>3 DEF Finish, TurnsLeft
  <2> QED BY <2>2, <2>3 DEF Next, Step
<1>3. Inv /\ [Next]_vars => Inv'
  BY NextKeepsInv
<1> QED BY <1>1, <1>2, <1>3, InitInv, PTL DEF Spec

=============================================================================
