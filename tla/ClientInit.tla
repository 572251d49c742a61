----------------------------- MODULE ClientInit -----------------------------
(***************************************************************************)
(* clients_init of src/src/client.c, which draws the clients of a run, and *)
(* the two functions of src/src/utils.c it draws with.  What it leaves is  *)
(* the initial state of Simulation.  rand is a choice from Rand; with      *)
(* RAND_MAX among them the corner cases of both draws occur.               *)
(***************************************************************************)
EXTENDS Integers, Sequences

CONSTANTS
  RandMax, Rand,      \* RAND_MAX and the values that rand returns
  Log,                \* r below RAND_MAX to (int)(-log(1 - r/RAND_MAX) / RATE)
  IntMax,
  DisabilityNum, DisabilityDen,       \* disability_prob as a fraction
  DestinationNum, DestinationDen,     \* destination_prob
  FinishTime,
  FullSizes,          \* sizes at which a queue is full and cannot grow
  Unset               \* a disability_type that was never written

ASSUME RandAssumption == RandMax \in Nat \ {0} /\ Rand \subseteq 0 .. RandMax
ASSUME LogAssumption == Log \in [0 .. RandMax - 1 -> Nat]
ASSUME ProbabilityAssumption ==
  /\ DisabilityNum \in Nat /\ DisabilityDen \in Nat \ {0}
  /\ DestinationNum \in Nat /\ DestinationDen \in Nat \ {0}
ASSUME BoundAssumption == FinishTime \in Int /\ IntMax \in Nat /\ FullSizes \subseteq Nat

NO_DISABILITY == 0
TYPE_1 == 2
TYPE_2 == 3
TYPE_3 == 4
DEST_1 == 0
DEST_2 == 1

VARIABLES
  pc,           \* "draw" in the loop, "done" after it
  next, id,     \* locals
  clients       \* the queue, oldest first

vars == <<pc, next, id, clients>>

ExponentialUnshifted(r) == IF r = RandMax THEN -IntMax - 1 ELSE Log[r]

\* exponential_sample.  The logarithm of 0 is infinite; its conversion yields
\* the smallest int.
ExponentialSample(r) == (IF r = RandMax THEN -IntMax - 1 ELSE Log[r]) + 1

\* unifrom_sample
UniformSample(r, a, b) == a + (r * (b - a + 1)) \div RandMax

\* (double)rand () / RAND_MAX < num / den
Below(r, num, den) == r * den < num * RandMax

\* The disability_type of a client: what r and t, the values of rand, make it.
\* sizeof (DISABILITY_TYPE) - 2 is 2.
DisabilityType(r, t) ==
  IF Below(r, DisabilityNum, DisabilityDen)
  THEN CASE UniformSample(t, 0, 2) = 0 -> TYPE_1
         [] UniformSample(t, 0, 2) = 1 -> TYPE_2
         [] UniformSample(t, 0, 2) = 2 -> TYPE_3
         [] OTHER -> Unset
  ELSE NO_DISABILITY

Destination(r) == IF Below(r, DestinationNum, DestinationDen) THEN DEST_2 ELSE DEST_1

Init == pc = "draw" /\ next = 0 /\ id = 0 /\ clients = <<>>

\* One more client; a push that fails goes unnoticed and loses it.
DrawClient ==
  /\ pc = "draw"
  /\ \E e \in Rand :
       /\ next' = next + ExponentialSample(e)
       /\ next' < FinishTime
  /\ \E r, t, d \in Rand :
       LET client == [id |-> id, arrival_time |-> next',
                      disability_type |-> DisabilityType(r, t),
                      destination |-> Destination(d)]
       IN  \/ clients' = Append(clients, client)
           \/ Len(clients) \in FullSizes /\ UNCHANGED clients
  /\ id' = id + 1
  /\ UNCHANGED pc

FinishRedraws ==
  /\ pc = "draw"
  /\ \E e \in Rand : next + ExponentialSample(e) >= FinishTime
  /\ UNCHANGED vars

\* The next arrival would be too late.
Finish ==
  /\ pc = "draw"
  /\ \E e \in Rand :
       /\ next' = next + ExponentialSample(e)
       /\ next' >= FinishTime
  /\ pc' = "done"
  /\ UNCHANGED <<id, clients>>

Step == DrawClient \/ Finish

Next == Step \/ (pc = "done" /\ UNCHANGED vars)

Spec == Init /\ [][Next]_vars /\ WF_vars(Step)

-----------------------------------------------------------------------------
\* Every variable has its type.
TypeOK ==
  /\ pc \in {"draw", "done"}
  /\ next \in Int /\ id \in Nat
  /\ clients \in Seq([id : Nat, arrival_time : Int,
                      disability_type : {NO_DISABILITY, TYPE_1, TYPE_2, TYPE_3, Unset},
                      destination : {DEST_1, DEST_2}])

\* The queue is what get_client needs, which admits one client per tick and
\* only from the head of the queue (system.c:17-22): no two clients arrive in
\* one tick, they are in the order of their arrival, which is that of their
\* ids, and they arrive within the run.
ArrivalsAdmissible ==
  /\ \A k \in 1 .. Len(clients) :
       /\ clients[k].arrival_time \in 1 .. FinishTime - 1
       /\ clients[k].arrival_time <= next
       /\ clients[k].id < id
  /\ \A k, l \in 1 .. Len(clients) : k < l =>
       /\ clients[k].arrival_time < clients[l].arrival_time
       /\ clients[k].id < clients[l].id

\* The arrivals come to an end.
Ends == <>(pc = "done")

\* Every client has one of the types, as the comments of client.c:36-39 say.
DisabilityDetermined ==
  \A k \in 1 .. Len(clients) : clients[k].disability_type # Unset

=============================================================================
