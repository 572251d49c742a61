-------------------------- MODULE StatisticsProofs --------------------------
(***************************************************************************)
(* Proofs about the statistics of any number of tests with any results: at *)
(* the end of a test they are the means over its finished clients and its  *)
(* servers, and at the end of all tests the means of those means, unless   *)
(* a sum has exceeded an int.                                              *)
(***************************************************************************)
EXTENDS Tests, SumProofs, SequenceTheorems

USE CountAssumption, KindAssumption, MachineAssumption, TestCountAssumption

-----------------------------------------------------------------------------
(***************************************************************************)
(* Sums that wrap                                                          *)
(***************************************************************************)
Ints == -IntMax - 1 .. IntMax
Modulus == 2 * (IntMax + 1)

LEMMA DivisionWithRest ==
  ASSUME NEW a \in Int, NEW b \in Nat \ {0}
  PROVE  /\ a \div b \in Int
         /\ a % b \in 0 .. b - 1
         /\ a = b * (a \div b) + (a % b)
  OBVIOUS

\* An int is as far from what is stored in it as a multiple of the modulus.
LEMMA ToIntWraps ==
  ASSUME NEW n \in Int
  PROVE  ToInt(n) \in Ints /\ \E q \in Int : n = ToInt(n) + Modulus * q
<1> DEFINE a == n + IntMax + 1
<1>1. a \in Int /\ Modulus \in Nat \ {0}
  BY DEF Modulus
<1>2. /\ a \div Modulus \in Int
      /\ a % Modulus \in 0 .. Modulus - 1
      /\ a = Modulus * (a \div Modulus) + (a % Modulus)
  BY <1>1, DivisionWithRest
<1>3. ToInt(n) = (a % Modulus) - (IntMax + 1)
  BY DEF ToInt, Modulus
<1>4. a % Modulus \in 0 .. 2 * IntMax + 1
  BY <1>2 DEF Modulus
<1> DEFINE q == a \div Modulus
           p == Modulus * q
<1>5. p \in Int /\ q \in Int
  BY <1>1, <1>2
<1>6. n = ToInt(n) + p
  <2> DEFINE r == a % Modulus
  <2>1. a = p + r /\ r \in Int /\ ToInt(n) = r - (IntMax + 1)
    BY <1>2, <1>3
  <2> HIDE DEF p, q, r
  <2> QED BY <1>5, <2>1
<1>7. ToInt(n) \in Ints
  BY <1>3, <1>4 DEF Ints
<1> QED BY <1>5, <1>6, <1>7

\* One int only is stored for all numbers that far from it.
LEMMA WrapsToOne ==
  ASSUME NEW m \in Ints, NEW n \in Ints, NEW q \in Int, m = n + Modulus * q
  PROVE  m = n
<1>1. q <= -1 \/ q = 0 \/ q >= 1
  OBVIOUS
<1>2. Modulus \in Nat /\ m - n < Modulus /\ n - m < Modulus /\ m \in Int /\ n \in Int
  BY DEF Ints, Modulus
<1>3. q >= 1 => Modulus * q >= Modulus
  BY <1>2
<1>4. q <= -1 => Modulus * q <= -Modulus
  BY <1>2
<1> DEFINE p == Modulus * q
<1>5. p \in Int
  BY <1>2
<1>6. q = 0 => p = 0
  BY <1>2
<1> HIDE DEF p
<1> QED BY <1>1, <1>2, <1>3, <1>4, <1>5, <1>6 DEF p

\* A sum that fits is stored as it is.
LEMMA ToIntFits == ASSUME NEW n \in Ints PROVE ToInt(n) = n
<1>1. n \in Int
  BY DEF Ints
<1>2. PICK q \in Int : n = ToInt(n) + Modulus * q
  BY <1>1, ToIntWraps
<1>3. ToInt(n) \in Ints
  BY <1>1, ToIntWraps
<1> QED BY <1>2, <1>3, WrapsToOne

\* A sum may wrap before or after the next addition.
LEMMA ToIntAdds ==
  ASSUME NEW a \in Int, NEW b \in Int
  PROVE  ToInt(a + ToInt(b)) = ToInt(a + b)
<1> DEFINE c == ToInt(b)
           m == ToInt(a + b)
           n == ToInt(a + c)
<1>1. c \in Ints /\ c \in Int
  BY ToIntWraps DEF Ints
<1>2. m \in Ints /\ n \in Ints /\ m \in Int /\ n \in Int /\ Modulus \in Int
  <2>1. m \in Ints /\ n \in Ints
    BY <1>1, ToIntWraps
  <2>2. Ints \subseteq Int /\ Modulus \in Int
    BY DEF Ints, Modulus
  <2> QED BY <2>1, <2>2
<1>3. PICK q \in Int : b = c + Modulus * q
  BY ToIntWraps
<1>4. PICK r \in Int : a + b = m + Modulus * r
  BY ToIntWraps
<1>5. PICK t \in Int : a + c = n + Modulus * t
  BY <1>1, ToIntWraps
<1>6. n = m + Modulus * ((r - q) - t)
  <2> HIDE DEF c, m, n
  <2>1. Modulus * ((r - q) - t) = Modulus * r - Modulus * q - Modulus * t
    BY <1>2
  <2> QED BY <1>1, <1>2, <1>3, <1>4, <1>5, <2>1
<1>7. (r - q) - t \in Int
  OBVIOUS
<1> QED BY <1>2, <1>6, <1>7, WrapsToOne

-----------------------------------------------------------------------------
(***************************************************************************)
(* Divisions                                                               *)
(***************************************************************************)
\* A factor that is positive keeps the order.
LEMMA Cancel ==
  ASSUME NEW x \in Int, NEW y \in Int, NEW c \in Nat \ {0}, x * c < y * c
  PROVE  x < y
  OBVIOUS

\* The quotient of a number that is not negative.
LEMMA QuotientBounds ==
  ASSUME NEW n \in Nat, NEW c \in Nat \ {0}
  PROVE  n \div c \in Nat /\ (n \div c) * c <= n /\ n < (n \div c + 1) * c
<1> DEFINE q == n \div c
           r == n % c
           p == c * q
<1>1. q \in Int /\ r \in 0 .. c - 1 /\ n = p + r
  BY DivisionWithRest
<1>2. q \in Nat
  OBVIOUS
<1>3. p \in Int /\ q * c = p /\ (q + 1) * c = p + c
  BY <1>1
<1> HIDE DEF p, q, r
<1>4. q * c <= n /\ n < (q + 1) * c
  BY <1>1, <1>3
<1> QED BY <1>2, <1>4 DEF q

\* The int division rounds towards 0.
LEMMA QuotientIsMean ==
  ASSUME NEW n \in Int, NEW c \in Nat \ {0}
  PROVE  Quotient(n, c) \in Int /\ IsMean(Quotient(n, c), n, c)
<1>1. CASE n >= 0
  <2> DEFINE q == n \div c
  <2>1. q \in Nat /\ q * c <= n /\ n < (q + 1) * c
    BY <1>1, QuotientBounds
  <2>2. Quotient(n, c) = q
    BY <1>1 DEF Quotient
  <2> HIDE DEF q
  <2>3. n <= 0 => q = 0
    <3> SUFFICES ASSUME n = 0 PROVE q = 0
      BY <1>1
    <3>1. q > 0 => q * c > 0
      BY <2>1
    <3> QED BY <2>1, <3>1
  <2>4. n <= 0 => q * c >= n /\ n > (q - 1) * c
    BY <1>1, <2>3
  <2> QED BY <2>1, <2>2, <2>4 DEF IsMean
<1>2. CASE n < 0
  <2> DEFINE q == (-n) \div c
  <2>1. q \in Nat /\ q * c <= -n /\ -n < (q + 1) * c
    BY <1>2, QuotientBounds
  <2>2. Quotient(n, c) = -q
    BY <1>2 DEF Quotient
  <2> HIDE DEF q
  <2>3. (-q) * c = -(q * c) /\ ((-q) - 1) * c = -((q + 1) * c) /\ q * c \in Int /\ (q + 1) * c \in Int
    BY <2>1
  <2>4. (-q) * c >= n /\ n > ((-q) - 1) * c
    BY <2>1, <2>3
  <2> QED BY <1>2, <2>1, <2>2, <2>4 DEF IsMean
<1> QED BY <1>1, <1>2

\* A quotient and a quotient of a multiple, which is finer.
LEMMA FinerQuotient ==
  ASSUME NEW n \in Nat, NEW c \in Nat \ {0}, NEW d \in Nat \ {0}
  PROVE  /\ (n * d) \div c \in Nat
         /\ (n \div c) * d <= (n * d) \div c
         /\ (n * d) \div c <= (n \div c + 1) * d
<1> DEFINE q == n \div c
           m == n * d
           e == m \div c
<1>1. q \in Nat /\ q * c <= n /\ n < (q + 1) * c
  BY QuotientBounds
<1>2. m \in Nat
  OBVIOUS
<1>3. e \in Nat /\ e * c <= m /\ m < (e + 1) * c
  <2> HIDE DEF m
  <2> QED BY <1>2, QuotientBounds
<1> HIDE DEF q, e
<1>4. (q * c) * d <= m
  BY <1>1
<1>5. m < ((q + 1) * c) * d
  BY <1>1
<1>6. (q * d) * c = (q * c) * d /\ ((q + 1) * d) * c = ((q + 1) * c) * d
  BY <1>1
<1> HIDE DEF m
<1> DEFINE u == q * d
           v == (q + 1) * d
<1>7. u \in Int /\ v \in Int /\ u * c \in Int /\ v * c \in Int /\ e * c \in Int /\ (e + 1) * c \in Int
  BY <1>1, <1>3
<1>8. u * c <= m /\ m < v * c
  BY <1>4, <1>5, <1>6
<1> HIDE DEF u, v
<1>9. u * c < (e + 1) * c /\ e * c < v * c
  BY <1>2, <1>3, <1>7, <1>8
<1>10. u < e + 1 /\ e < v
  BY <1>3, <1>7, <1>9, Cancel
<1>11. u <= e /\ e <= v
  BY <1>3, <1>7, <1>10
<1> QED BY <1>3, <1>11 DEF e, m, u, v, q

-----------------------------------------------------------------------------
(***************************************************************************)
(* The inductive invariant                                                 *)
(***************************************************************************)
\* What a test is about is a result a simulation may leave.
InputsOK ==
  /\ total_clients \in 0 .. IntMax
  /\ finished \in [Server -> Seq(FinishedClient)]
  /\ mean_server_queue_len \in [Server -> Int]
  /\ Cardinality(Places(Server, finished)) <= total_clients

\* Servers are taken one after the other, and one has an iterator while its
\* clients are counted.
OrderOK ==
  /\ pc \in {"open", "iterate", "done", "finalize", "over"}
  /\ server \in IF pc \in {"open", "iterate"} THEN Server ELSE {NumServers + 1}
  /\ opened \subseteq 1 .. server
  /\ server \in opened <=> pc = "iterate"
  /\ pc = "iterate" => index \in 1 .. Len(finished[server]) + 1

SumsOK == count \in [Group -> Ints] /\ wait \in [Group -> Ints] /\ serve \in [Group -> Ints]

\* The servers whose mean queue length has been added.
Asked == 1 .. IF pc = "iterate" THEN server ELSE server - 1

QueueLensAdded ==
  total_queue_len = ToInt(SumFunctionOnSet(mean_server_queue_len, Asked))

\* The finished clients that have been counted, and those of type g.
Reached == {p \in Places(opened, finished) : pc = "iterate" /\ p[1] = server => p[2] < index}
CountedYet(g) == {p \in Reached : g \in {finished[p[1]][p[2]].disability_type, All}}

TimesAdded ==
  \A g \in Group :
    /\ count[g] = ToInt(Cardinality(CountedYet(g)))
    /\ wait[g] = ToInt(SumFunctionOnSet(WaitTime, CountedYet(g)))
    /\ serve[g] = ToInt(SumFunctionOnSet(TotalTime, CountedYet(g)))

StatInv == InputsOK /\ OrderOK /\ SumsOK /\ QueueLensAdded /\ TimesAdded

-----------------------------------------------------------------------------
(***************************************************************************)
(* The places of the finished clients                                      *)
(***************************************************************************)
LEMMA PlacesAre ==
  ASSUME NEW S, NEW q, \A s \in S : q[s] \in Seq(FinishedClient)
  PROVE  \A p : p \in Places(S, q) <=> \E s \in S : \E i \in 1 .. Len(q[s]) : p = <<s, i>>
<1>1. \A s \in S : DOMAIN q[s] = 1 .. Len(q[s])
  OBVIOUS
<1> QED BY <1>1 DEF Places

LEMMA PlacesAreFinite ==
  ASSUME NEW S, IsFiniteSet(S), NEW q, \A s \in S : q[s] \in Seq(FinishedClient)
  PROVE  IsFiniteSet(Places(S, q))
<1> DEFINE of == [s \in S |-> {s} \X DOMAIN q[s]]
           All_ == {{s} \X DOMAIN q[s] : s \in S}
<1>1. of \in Surjection(S, All_)
  BY DEF Surjection
<1>2. IsFiniteSet(All_)
  BY <1>1, FS_Surjection
<1>3. \A s \in S : IsFiniteSet({s} \X DOMAIN q[s])
  <2> TAKE s \in S
  <2>1. DOMAIN q[s] = 1 .. Len(q[s]) /\ Len(q[s]) \in Nat
    OBVIOUS
  <2>2. IsFiniteSet(DOMAIN q[s])
    BY <2>1, FS_Interval
  <2> QED BY <2>2, FS_Singleton, FS_Product
<1> QED BY <1>2, <1>3, FS_UNION DEF Places

LEMMA ServersAreFinite == ASSUME NEW S \in SUBSET Server PROVE IsFiniteSet(S)
<1>1. IsFiniteSet(Server)
  BY FS_Interval DEF Server
<1> QED BY <1>1, FS_Subset

\* What the invariant says of the clients that have been counted.
ReachedIs ==
  \A p : p \in Reached <=>
    \E s \in opened : \E i \in 1 .. Len(finished[s]) :
      p = <<s, i>> /\ (pc = "iterate" /\ s = server => i < index)
ReachedInPlaces ==
  /\ Reached \subseteq Places(Server, finished)
  /\ IsFiniteSet(Places(Server, finished))

LEMMA ReachedAre == InputsOK /\ OrderOK => ReachedIs /\ ReachedInPlaces
<1> SUFFICES ASSUME InputsOK, OrderOK PROVE ReachedIs /\ ReachedInPlaces
  OBVIOUS
<1>1. opened \subseteq Server
  BY DEF OrderOK, Server
<1>2. \A s \in Server : finished[s] \in Seq(FinishedClient)
  BY DEF InputsOK
<1>3. /\ \A p : p \in Places(Server, finished) <=>
              \E s \in Server : \E i \in 1 .. Len(finished[s]) : p = <<s, i>>
      /\ \A p : p \in Places(opened, finished) <=>
              \E s \in opened : \E i \in 1 .. Len(finished[s]) : p = <<s, i>>
  BY <1>1, <1>2, PlacesAre
<1>4. IsFiniteSet(Places(Server, finished))
  BY <1>2, PlacesAreFinite, ServersAreFinite
<1>5. Places(opened, finished) \subseteq Places(Server, finished)
  BY <1>1 DEF Places
<1>6. \A p : p \in Reached <=>
         \E s \in opened : \E i \in 1 .. Len(finished[s]) :
           p = <<s, i>> /\ (pc = "iterate" /\ s = server => i < index)
  BY <1>3 DEF Reached
<1> QED BY <1>4, <1>5, <1>6 DEF Reached, ReachedIs, ReachedInPlaces

LEMMA TimesAreInts ==
  ASSUME InputsOK
  PROVE  \A p \in Places(Server, finished) :
           /\ finished[p[1]][p[2]] \in FinishedClient
           /\ WaitTime[p] = finished[p[1]][p[2]].wait_time /\ WaitTime[p] \in Int
           /\ TotalTime[p] = finished[p[1]][p[2]].total_time /\ TotalTime[p] \in Int
<1> TAKE p \in Places(Server, finished)
<1>1. \A s \in Server : finished[s] \in Seq(FinishedClient)
  BY DEF InputsOK
<1>2. PICK s \in Server : \E i \in 1 .. Len(finished[s]) : p = <<s, i>>
  BY <1>1, PlacesAre
<1>3. PICK i \in 1 .. Len(finished[s]) : p = <<s, i>>
  BY <1>2
<1>4. finished[p[1]][p[2]] \in FinishedClient
  BY <1>1, <1>3
<1> QED BY <1>4 DEF WaitTime, TotalTime, FinishedClient

-----------------------------------------------------------------------------
(***************************************************************************)
(* The steps keep the invariant                                            *)
(***************************************************************************)
\* The accumulators of a test start at 0.
LEMMA InitStat == Init => StatInv
<1> SUFFICES ASSUME Init PROVE StatInv
  OBVIOUS
<1>1. InputsOK
  BY ResultsAssumption DEF Init, InputsOK
<1>2. OrderOK
  BY DEF Init, OrderOK, Server
<1>3. 0 \in Ints /\ ToInt(0) = 0
  <2>1. 0 \in Ints
    BY DEF Ints
  <2> QED BY <2>1, ToIntFits
<1>4. SumsOK
  BY <1>3 DEF Init, SumsOK
<1>5. QueueLensAdded
  <2>1. Asked = {} /\ total_queue_len = 0
    BY DEF Asked, Init
  <2> QED BY <1>3, <2>1, SumEmpty DEF QueueLensAdded
<1>6. TimesAdded
  <2>1. \A g : CountedYet(g) = {}
    BY DEF CountedYet, Reached, Places, Init
  <2>2. Cardinality({}) = 0
    BY FS_EmptySet
  <2> QED BY <1>3, <2>1, <2>2, SumEmpty DEF TimesAdded, Init
<1> QED BY <1>1, <1>2, <1>4, <1>5, <1>6 DEF StatInv

\* What is added up stays as it is while no client is counted.
LEMMA TimesStay ==
  ASSUME TimesAdded, UNCHANGED <<inputs, count, wait, serve>>, Reached' = Reached
  PROVE  TimesAdded'
<1>1. finished' = finished /\ count' = count /\ wait' = wait /\ serve' = serve
  BY DEF inputs
<1>2. \A g : CountedYet(g)' = CountedYet(g)
  BY <1>1 DEF CountedYet
<1>3. WaitTime' = WaitTime /\ TotalTime' = TotalTime
  BY <1>1 DEF WaitTime, TotalTime
<1> QED BY <1>1, <1>2, <1>3, Zenon DEF TimesAdded

LEMMA InputsStay == ASSUME InputsOK, UNCHANGED inputs PROVE InputsOK'
  BY Zenon DEF InputsOK, inputs

LEMMA OpenServerKeeps == ASSUME StatInv, OpenServer PROVE StatInv'
<1> USE DEF StatInv
<1>1. /\ pc = "open" /\ UNCHANGED <<inputs, count, wait, serve>>
      /\ total_queue_len' = ToInt(total_queue_len + mean_server_queue_len[server])
      /\ \/ /\ pc' = "iterate" /\ index' = 1 /\ finished[server] # <<>>
            /\ opened' = opened \cup {server} /\ server' = server
         \/ /\ pc' = IF server = NumServers THEN "done" ELSE "open"
            /\ server' = server + 1 /\ opened' = opened
  BY DEF OpenServer, NextServer
<1>2. finished' = finished /\ mean_server_queue_len' = mean_server_queue_len
  BY <1>1 DEF inputs
<1>3. /\ server \in Server /\ server \in 1 .. NumServers /\ opened \subseteq Server
      /\ opened \subseteq 1 .. server /\ server \notin opened
  <2>1. server \in Server /\ opened \subseteq 1 .. server /\ server \notin opened
    BY <1>1 DEF OrderOK
  <2>2. 1 .. server \subseteq Server
    BY <2>1 DEF Server
  <2> QED BY <2>1, <2>2 DEF Server
<1>4. \A s \in Server : finished[s] \in Seq(FinishedClient)
  BY DEF InputsOK
<1>5. InputsOK'
  BY <1>1, InputsStay
<1>6. OrderOK'
  <2>1. Len(finished[server]) \in Nat
    BY <1>3, <1>4
  <2>2. CASE pc' = "iterate"
    <3>1. opened' = opened \cup {server} /\ server' = server /\ index' = 1
      BY <1>1, <2>2
    <3>2. server' \in Server /\ opened' \subseteq 1 .. server' /\ server' \in opened'
      BY <1>3, <3>1
    <3>3. index' \in 1 .. Len(finished'[server']) + 1
      BY <1>2, <2>1, <3>1
    <3> QED BY <2>2, <3>2, <3>3 DEF OrderOK
  <2>3. CASE pc' # "iterate"
    <3>1. /\ opened' = opened /\ server' = server + 1
          /\ pc' = IF server = NumServers THEN "done" ELSE "open"
      BY <1>1, <2>3
    <3>2. opened' \subseteq 1 .. server' /\ server' \notin opened'
      <4>1. 1 .. server \subseteq 1 .. server + 1 /\ server + 1 \notin 1 .. server
        BY <1>3
      <4> QED BY <1>3, <3>1, <4>1
    <3>3. server' \in IF pc' = "open" THEN Server ELSE {NumServers + 1}
      BY <1>3, <3>1 DEF Server
    <3> QED BY <2>3, <3>1, <3>2, <3>3 DEF OrderOK
  <2> QED BY <2>2, <2>3
<1>7. SumsOK'
  BY <1>1 DEF SumsOK
<1>8. QueueLensAdded'
  <2>1. Asked = 1 .. server - 1 /\ Asked' = Asked \cup {server} /\ server \notin Asked
    <3>1. Asked = 1 .. server - 1 /\ Asked' = 1 .. server
      BY <1>1, <1>3 DEF Asked
    <3>2. \A n \in Nat \ {0} : 1 .. n = (1 .. n - 1) \cup {n} /\ n \notin 1 .. n - 1
      OBVIOUS
    <3> QED BY <1>3, <3>1, <3>2
  <2>2. /\ IsFiniteSet(Asked)
        /\ \A s \in Asked \cup {server} : mean_server_queue_len[s] \in Int
    <3>1. Asked \cup {server} \in SUBSET Server
      <4>1. 1 .. server - 1 \subseteq 1 .. NumServers
        BY <1>3
      <4> QED BY <1>3, <2>1, <4>1 DEF Server
    <3>2. IsFiniteSet(Asked)
      BY <3>1, ServersAreFinite
    <3> QED BY <3>1, <3>2 DEF InputsOK
  <2> DEFINE n == mean_server_queue_len[server]
             sum == SumFunctionOnSet(mean_server_queue_len, Asked)
  <2>3. n \in Int /\ sum \in Int /\ total_queue_len = ToInt(sum)
    BY <2>2, SumIsInt DEF QueueLensAdded
  <2>4. SumFunctionOnSet(mean_server_queue_len, Asked \cup {server}) = n + sum
    BY <2>1, <2>2, SumInsert
  <2>5. total_queue_len' = ToInt(n + sum)
    <3> HIDE DEF n, sum
    <3>1. ToInt(sum) \in Int /\ ToInt(n + ToInt(sum)) = ToInt(n + sum)
      BY <2>3, ToIntAdds, ToIntWraps DEF Ints
    <3>2. total_queue_len' = ToInt(total_queue_len + n)
      BY <1>1 DEF n
    <3>3. ToInt(sum) + n = n + ToInt(sum)
      BY <2>3, <3>1
    <3> QED BY <2>3, <3>1, <3>2, <3>3
  <2> QED BY <1>2, <2>1, <2>4, <2>5, Zenon DEF QueueLensAdded
<1>9. Reached' = Reached
  <2>1. /\ \A p : p \in Reached <=>
              \E s \in opened : \E i \in 1 .. Len(finished[s]) :
                p = <<s, i>> /\ (pc = "iterate" /\ s = server => i < index)
        /\ \A p : p \in Reached' <=>
              \E s \in opened' : \E i \in 1 .. Len(finished[s]) :
                p = <<s, i>> /\ (pc' = "iterate" /\ s = server' => i < index')
    <3>1. \A p : p \in Places(opened, finished) <=>
               \E s \in opened : \E i \in 1 .. Len(finished[s]) : p = <<s, i>>
      <4>1. \A s \in opened : finished[s] \in Seq(FinishedClient)
        BY <1>3, <1>4
      <4> QED BY <4>1, PlacesAre
    <3>2. opened' \subseteq Server
      BY <1>1, <1>3
    <3>3. \A p : p \in Places(opened', finished) <=>
               \E s \in opened' : \E i \in 1 .. Len(finished[s]) : p = <<s, i>>
      BY <1>4, <3>2, PlacesAre
    <3> QED BY <1>2, <3>1, <3>3 DEF Reached
  <2>2. ASSUME NEW p PROVE p \in Reached' <=> p \in Reached
    <3>1. CASE /\ pc' = "iterate" /\ index' = 1
               /\ opened' = opened \cup {server} /\ server' = server
      <4>1. \A i \in 1 .. Len(finished[server]) : ~ (i < 1)
        OBVIOUS
      <4> QED BY <1>1, <1>3, <2>1, <3>1, <4>1
    <3>2. CASE pc' # "iterate" /\ opened' = opened
      BY <1>1, <2>1, <3>2
    <3> QED BY <1>1, <3>1, <3>2
  <2> QED BY <2>2
<1>10. TimesAdded'
  BY <1>1, <1>9, TimesStay
<1> QED BY <1>5, <1>6, <1>7, <1>8, <1>10

LEMMA CloseServerKeeps == ASSUME StatInv, CloseServer PROVE StatInv'
<1> USE DEF StatInv
<1>1. /\ pc = "iterate" /\ ~HasNext
      /\ UNCHANGED <<index, inputs, total_queue_len, count, wait, serve, opened>>
      /\ pc' = IF server = NumServers THEN "done" ELSE "open"
      /\ server' = server + 1
  BY DEF CloseServer, NextServer
<1>2. finished' = finished /\ mean_server_queue_len' = mean_server_queue_len
  BY <1>1 DEF inputs
<1>3. server \in Server /\ server \in Nat /\ opened \subseteq 1 .. server
  BY <1>1 DEF OrderOK, Server
<1>4. InputsOK'
  BY <1>1, InputsStay
<1>5. OrderOK'
  BY <1>1, <1>2, <1>3 DEF OrderOK, Server
<1>6. SumsOK'
  BY <1>1 DEF SumsOK
<1>7. QueueLensAdded'
  <2>1. Asked' = Asked
    BY <1>1, <1>3 DEF Asked
  <2> QED BY <1>1, <1>2, <2>1, Zenon DEF QueueLensAdded
<1>8. Reached' = Reached
  <2>1. \A p \in Places(opened, finished) : p[1] = server => p[2] < index
    <3>1. \A s \in opened : finished[s] \in Seq(FinishedClient)
      BY <1>3 DEF InputsOK, Server
    <3>2. Len(finished[server]) \in Nat /\ index \in Nat /\ Len(finished[server]) < index
      <4>1. finished[server] \in Seq(FinishedClient) /\ index \in 1 .. Len(finished[server]) + 1
        BY <1>1, <1>3 DEF OrderOK, InputsOK
      <4> QED BY <1>1, <4>1 DEF HasNext
    <3> TAKE p \in Places(opened, finished)
    <3>3. PICK s \in opened : \E i \in 1 .. Len(finished[s]) : p = <<s, i>>
      BY <3>1, PlacesAre
    <3>4. PICK i \in 1 .. Len(finished[s]) : p = <<s, i>>
      BY <3>3
    <3>5. p[1] = s /\ p[2] = i
      BY <3>4
    <3> QED BY <3>2, <3>5
  <2>2. pc' # "iterate" /\ Places(opened, finished)' = Places(opened, finished)
    BY <1>1, <1>2 DEF Places
  <2> QED BY <2>1, <2>2 DEF Reached
<1>9. TimesAdded'
  BY <1>1, <1>8, TimesStay
<1> QED BY <1>4, <1>5, <1>6, <1>7, <1>9

\* f with n added to the sums of a type and of all.
LEMMA AddedToIs ==
  ASSUME NEW f \in [Group -> Ints], NEW k \in Kind, NEW n \in Int
  PROVE  /\ AddedTo(f, k, n) \in [Group -> Ints]
         /\ \A g \in Group : AddedTo(f, k, n)[g] = IF g \in {k, All} THEN ToInt(f[g] + n) ELSE f[g]
<1>1. k \in Group /\ All \in Group /\ k # All
  BY DEF Group
<1>2. f[k] + n \in Int /\ f[All] + n \in Int
  BY <1>1 DEF Ints
<1>3. ToInt(f[k] + n) \in Ints /\ ToInt(f[All] + n) \in Ints
  BY <1>2, ToIntWraps
<1> QED BY <1>1, <1>3, Zenon DEF AddedTo

LEMMA ToIntIsInt == ASSUME NEW n \in Int PROVE ToInt(n) \in Int
<1>1. Ints \subseteq Int
  BY DEF Ints
<1> QED BY <1>1, ToIntWraps

\* One more place of a time is added up.
LEMMA TimeAdded ==
  ASSUME NEW T, IsFiniteSet(T), NEW p, p \notin T,
         NEW f, \A x \in T \cup {p} : f[x] \in Int
  PROVE  ToInt(ToInt(SumFunctionOnSet(f, T)) + f[p]) = ToInt(SumFunctionOnSet(f, T \cup {p}))
<1> DEFINE sum == SumFunctionOnSet(f, T)
           n == f[p]
<1>1. sum \in Int /\ n \in Int
  BY SumIsInt
<1>2. SumFunctionOnSet(f, T \cup {p}) = n + sum
  BY SumInsert
<1> HIDE DEF sum, n
<1>3. ToInt(sum) \in Int /\ ToInt(n + ToInt(sum)) = ToInt(n + sum)
  BY <1>1, ToIntAdds, ToIntIsInt
<1>4. n + ToInt(sum) = ToInt(sum) + n
  BY <1>1, <1>3
<1> QED BY <1>2, <1>3, <1>4 DEF sum, n

LEMMA PlaceCounted ==
  ASSUME NEW T, IsFiniteSet(T), NEW p, p \notin T
  PROVE  ToInt(ToInt(Cardinality(T)) + 1) = ToInt(Cardinality(T \cup {p}))
<1> DEFINE n == Cardinality(T)
<1>1. n \in Int /\ Cardinality(T \cup {p}) = 1 + n
  <2>1. n \in Nat
    BY FS_CardinalityType
  <2>2. Cardinality(T \cup {p}) = n + 1
    BY FS_AddElement
  <2> QED BY <2>1, <2>2
<1> HIDE DEF n
<1>2. ToInt(n) \in Int /\ ToInt(1 + ToInt(n)) = ToInt(1 + n)
  <2>1. n \in Int /\ 1 \in Int
    BY <1>1
  <2>2. ToInt(1 + ToInt(n)) = ToInt(1 + n)
    BY <2>1, ToIntAdds
  <2> QED BY <2>1, <2>2, ToIntIsInt
<1>3. 1 + ToInt(n) = ToInt(n) + 1
  BY <1>2
<1> QED BY <1>1, <1>2, <1>3 DEF n

LEMMA CountClientKeeps == ASSUME StatInv, CountClient PROVE StatInv'
<1> USE DEF StatInv
<1> DEFINE client == finished[server][index]
           kind == client.disability_type
           p == <<server, index>>
<1>1. /\ pc = "iterate" /\ HasNext
      /\ index' = index + 1
      /\ UNCHANGED <<pc, server, inputs, total_queue_len, opened>>
  BY DEF CountClient
<1>2. /\ count' = AddedTo(count, kind, 1)
      /\ wait' = AddedTo(wait, kind, client.wait_time)
      /\ serve' = AddedTo(serve, kind, client.total_time)
  BY Zenon DEF CountClient
<1>3. finished' = finished /\ mean_server_queue_len' = mean_server_queue_len
  BY <1>1 DEF inputs
<1>4. /\ server \in Server /\ server \in opened
      /\ finished[server] \in Seq(FinishedClient)
      /\ index \in 1 .. Len(finished[server])
  <2>1. server \in Server /\ server \in opened /\ index \in 1 .. Len(finished[server]) + 1
    BY <1>1 DEF OrderOK
  <2>2. finished[server] \in Seq(FinishedClient)
    BY <2>1 DEF InputsOK
  <2> QED BY <1>1, <2>1, <2>2 DEF HasNext
<1>5. client \in FinishedClient
  BY <1>4
<1>6. kind \in Kind /\ client.wait_time \in Int /\ client.total_time \in Int
  BY <1>5 DEF FinishedClient
<1>7. InputsOK'
  BY <1>1, InputsStay
<1>8. OrderOK'
  <2>1. index' \in 1 .. Len(finished'[server']) + 1
    BY <1>1, <1>3, <1>4
  <2> QED BY <1>1, <2>1 DEF OrderOK
<1> HIDE DEF client, kind
<1>9. SumsOK'
  BY <1>2, <1>6, AddedToIs DEF SumsOK
<1>10. QueueLensAdded'
  <2>1. Asked' = Asked
    BY <1>1 DEF Asked
  <2> QED BY <1>1, <1>3, <2>1, Zenon DEF QueueLensAdded
<1>11. Reached' = Reached \cup {p} /\ p \notin Reached
  <2>1. \A x : x \in Reached <=>
          \E s \in opened : \E i \in 1 .. Len(finished[s]) :
            x = <<s, i>> /\ (s = server => i < index)
    BY <1>1, ReachedAre DEF ReachedIs
  <2>2. \A x : x \in Reached' <=>
          \E s \in opened : \E i \in 1 .. Len(finished[s]) :
            x = <<s, i>> /\ (s = server => i < index + 1)
    <3>1. \A x : x \in Reached' <=>
            \E s \in opened' : \E i \in 1 .. Len(finished'[s]) :
              x = <<s, i>> /\ (pc' = "iterate" /\ s = server' => i < index')
      <4>1. ReachedIs'
        BY <1>7, <1>8, ReachedAre, PTL
      <4> QED BY <4>1 DEF ReachedIs
    <3> QED BY <1>1, <1>3, <3>1
  <2>3. p \notin Reached
    <3>1. ~ (index < index)
      BY <1>4
    <3> QED BY <2>1, <3>1
  <2>4. \A i \in 1 .. Len(finished[server]) : i < index + 1 <=> i < index \/ i = index
    BY <1>4
  <2>5. ASSUME NEW x PROVE x \in Reached' <=> x \in Reached \cup {p}
    BY <1>4, <2>1, <2>2, <2>4
  <2> QED BY <2>3, <2>5
<1>12. ASSUME NEW g \in Group
       PROVE  /\ CountedYet(g)' = CountedYet(g) \cup (IF g \in {kind, All} THEN {p} ELSE {})
              /\ p \notin CountedYet(g)
              /\ IsFiniteSet(CountedYet(g))
              /\ \A x \in CountedYet(g) \cup {p} : WaitTime[x] \in Int /\ TotalTime[x] \in Int
  <2>1. CountedYet(g)' = {x \in Reached' : g \in {finished[x[1]][x[2]].disability_type, All}}
    BY <1>3 DEF CountedYet
  <2>2. finished[p[1]][p[2]].disability_type = kind
    BY DEF kind, client
  <2>3. CountedYet(g)' = CountedYet(g) \cup (IF g \in {kind, All} THEN {p} ELSE {})
    <3> HIDE DEF p
    <3> QED BY <1>11, <2>1, <2>2 DEF CountedYet
  <2>4. Reached \cup {p} \subseteq Places(Server, finished)
    <3>1. ReachedInPlaces'
      BY <1>7, <1>8, ReachedAre, PTL
    <3>2. Reached' \subseteq Places(Server, finished)
      BY <1>3, <3>1 DEF ReachedInPlaces, Places
    <3> QED BY <1>11, <3>2
  <2>5. IsFiniteSet(Places(Server, finished)) /\ CountedYet(g) \subseteq Reached
    BY ReachedAre DEF CountedYet, ReachedInPlaces
  <2>6. IsFiniteSet(CountedYet(g))
    BY <2>4, <2>5, FS_Subset
  <2> QED BY <1>11, <2>3, <2>4, <2>5, <2>6, TimesAreInts
<1>13. WaitTime[p] = client.wait_time /\ TotalTime[p] = client.total_time
  <2>1. p \in Places(Server, finished)
    <3>1. DOMAIN finished[server] = 1 .. Len(finished[server])
      BY <1>4
    <3> QED BY <1>4, <3>1 DEF Places
  <2> QED BY <2>1, TimesAreInts DEF client
<1>14. WaitTime' = WaitTime /\ TotalTime' = TotalTime
  BY <1>3 DEF WaitTime, TotalTime
<1>15. ASSUME NEW g \in Group
       PROVE  /\ count'[g] = ToInt(Cardinality(CountedYet(g)'))
              /\ wait'[g] = ToInt(SumFunctionOnSet(WaitTime, CountedYet(g)'))
              /\ serve'[g] = ToInt(SumFunctionOnSet(TotalTime, CountedYet(g)'))
  <2>1. /\ count[g] = ToInt(Cardinality(CountedYet(g)))
        /\ wait[g] = ToInt(SumFunctionOnSet(WaitTime, CountedYet(g)))
        /\ serve[g] = ToInt(SumFunctionOnSet(TotalTime, CountedYet(g)))
    BY DEF TimesAdded
  <2>2. /\ count'[g] = IF g \in {kind, All} THEN ToInt(count[g] + 1) ELSE count[g]
        /\ wait'[g] = IF g \in {kind, All} THEN ToInt(wait[g] + WaitTime[p]) ELSE wait[g]
        /\ serve'[g] = IF g \in {kind, All} THEN ToInt(serve[g] + TotalTime[p]) ELSE serve[g]
    BY <1>2, <1>6, <1>13, AddedToIs DEF SumsOK
  <2>3. CASE g \notin {kind, All}
    <3>1. CountedYet(g)' = CountedYet(g)
      BY <1>12, <2>3
    <3> QED BY <2>1, <2>2, <2>3, <3>1
  <2>4. CASE g \in {kind, All}
    <3> DEFINE T == CountedYet(g)
    <3>1. /\ CountedYet(g)' = T \cup {p} /\ p \notin T /\ IsFiniteSet(T)
          /\ \A x \in T \cup {p} : WaitTime[x] \in Int
          /\ \A x \in T \cup {p} : TotalTime[x] \in Int
      BY <1>12, <2>4
    <3> HIDE DEF T, p
    <3>2. ToInt(ToInt(Cardinality(T)) + 1) = ToInt(Cardinality(T \cup {p}))
      BY <3>1, PlaceCounted
    <3>3. ToInt(ToInt(SumFunctionOnSet(WaitTime, T)) + WaitTime[p])
            = ToInt(SumFunctionOnSet(WaitTime, T \cup {p}))
      BY <3>1, TimeAdded
    <3>4. ToInt(ToInt(SumFunctionOnSet(TotalTime, T)) + TotalTime[p])
            = ToInt(SumFunctionOnSet(TotalTime, T \cup {p}))
      BY <3>1, TimeAdded
    <3> QED BY <2>1, <2>2, <2>4, <3>1, <3>2, <3>3, <3>4, Zenon DEF T
  <2> QED BY <2>3, <2>4
<1>16. TimesAdded'
  BY <1>14, <1>15, Zenon DEF TimesAdded
<1> QED BY <1>7, <1>8, <1>9, <1>10, <1>16

\* A test is left as it is when the totals are.
LEMMA StaysOver ==
  ASSUME StatInv, pc \notin {"open", "iterate"}, pc' \in {"done", "finalize", "over"},
         UNCHANGED <<server, index, inputs, total_queue_len, count, wait, serve, opened>>
  PROVE  StatInv'
<1> USE DEF StatInv
<1>1. finished' = finished /\ mean_server_queue_len' = mean_server_queue_len
  BY DEF inputs
<1>2. InputsOK' /\ SumsOK'
  BY InputsStay DEF SumsOK
<1>3. OrderOK'
  BY DEF OrderOK
<1>4. QueueLensAdded'
  <2>1. Asked' = Asked
    BY DEF Asked
  <2> QED BY <1>1, <2>1, Zenon DEF QueueLensAdded
<1>5. Reached' = Reached
  BY <1>1 DEF Reached, Places
<1> QED BY <1>2, <1>3, <1>4, <1>5, TimesStay

LEMMA StatStutters == ASSUME StatInv, UNCHANGED vars PROVE StatInv'
<1> USE DEF StatInv
<1>1. /\ pc' = pc /\ server' = server /\ index' = index /\ opened' = opened
      /\ UNCHANGED <<inputs, total_queue_len, count, wait, serve>>
  BY DEF vars
<1>2. finished' = finished /\ mean_server_queue_len' = mean_server_queue_len
  BY <1>1 DEF inputs
<1>3. InputsOK'
  BY <1>1, InputsStay
<1>4. OrderOK' /\ SumsOK'
  BY <1>1, <1>2, Zenon DEF OrderOK, SumsOK
<1>5. QueueLensAdded'
  BY <1>1, <1>2, Zenon DEF QueueLensAdded, Asked
<1>6. Reached' = Reached
  BY <1>1, <1>2, Zenon DEF Reached, Places
<1> QED BY <1>1, <1>3, <1>4, <1>5, <1>6, TimesStay

LEMMA StatInvariance == TestsSpec => []StatInv
<1>1. TestsInit => StatInv
  BY InitStat DEF TestsInit
<1>2. StatInv /\ [TestsNext]_testsVars => StatInv'
  <2> SUFFICES ASSUME StatInv, [TestsNext]_testsVars PROVE StatInv'
    OBVIOUS
  <2>1. CASE ComputeStats
    BY <2>1, OpenServerKeeps, CountClientKeeps, CloseServerKeeps DEF ComputeStats
  <2>2. CASE UpdateTotalStats
    <3>1. CASE NextTest
      <4>1. Init'
        BY <3>1, Zenon DEF NextTest, Init
      <4> QED BY <4>1, InitStat, PTL
    <3>2. CASE ~NextTest
      <4>1. /\ pc = "done" /\ pc' = "finalize"
            /\ UNCHANGED <<server, index, inputs, total_queue_len, count, wait, serve, opened>>
        BY <2>2, <3>2, Zenon DEF UpdateTotalStats
      <4> QED BY <4>1, StaysOver
    <3> QED BY <3>1, <3>2
  <2>3. CASE FinalizeStat
    <3>1. /\ pc = "finalize" /\ pc' = "over"
          /\ UNCHANGED <<server, index, inputs, total_queue_len, count, wait, serve, opened>>
      BY <2>3 DEF FinalizeStat
    <3> QED BY <3>1, StaysOver
  <2>4. CASE UNCHANGED testsVars
    <3>1. UNCHANGED vars
      BY <2>4, Zenon DEF testsVars
    <3> QED BY <3>1, StatStutters
  <2> QED BY <2>1, <2>2, <2>3, <2>4, Zenon DEF TestsNext, MainStep
<1> QED BY <1>1, <1>2, PTL DEF TestsSpec

-----------------------------------------------------------------------------
(***************************************************************************)
(* The types make up the total                                             *)
(***************************************************************************)
MadeUp(f) == ToInt(SumFunctionOnSet(f, Kind)) = f[All]

LEMMA AddedToMadeUp ==
  ASSUME NEW f \in [Group -> Ints], NEW k \in Kind, NEW n \in Int, MadeUp(f)
  PROVE  MadeUp(AddedTo(f, k, n))
<1> DEFINE h == AddedTo(f, k, n)
           rest == SumFunctionOnSet(f, Kind \ {k})
           m == f[k] + n
<1>1. Kind \subseteq Group /\ All \in Group /\ All \notin Kind /\ Ints \subseteq Int
  BY DEF Group, Ints
<1>2. h \in [Group -> Ints] /\ h[k] = ToInt(m) /\ h[All] = ToInt(f[All] + n)
  BY <1>1, AddedToIs
<1>3. \A x \in Kind \ {k} : h[x] = f[x]
  BY <1>1, AddedToIs
<1>4. /\ \A x \in Kind : f[x] \in Int
      /\ \A x \in Kind : h[x] \in Int
      /\ f[All] \in Int
  BY <1>1, <1>2
<1> HIDE DEF h
<1>5. IsFiniteSet(Kind \ {k})
  BY FS_Subset
<1>6. SumFunctionOnSet(h, Kind \ {k}) = rest
  BY <1>3, <1>5, SumSame
<1>7. SumFunctionOnSet(h, Kind) = h[k] + rest
  BY <1>4, <1>6, SumByAny
<1>8. SumFunctionOnSet(f, Kind) = f[k] + rest
  BY <1>4, SumByAny
<1>9. rest \in Int /\ m \in Int /\ f[k] \in Int
  BY <1>4, <1>5, SumIsInt
<1> HIDE DEF rest
<1>10. ToInt(rest + ToInt(m)) = ToInt(rest + m)
  BY <1>9, ToIntAdds
<1>11. ToInt(n + ToInt(f[k] + rest)) = ToInt(n + (f[k] + rest))
  <2>1. f[k] + rest \in Int
    BY <1>9
  <2> QED BY <2>1, ToIntAdds
<1>12. f[All] = ToInt(f[k] + rest)
  BY <1>8 DEF MadeUp
<1>13. ToInt(m) + rest = rest + ToInt(m)
  BY <1>9, ToIntIsInt
<1>14. rest + m = n + (f[k] + rest) /\ f[All] + n = n + f[All]
  BY <1>4, <1>9
<1>15. ToInt(SumFunctionOnSet(h, Kind)) = ToInt(rest + m)
  BY <1>2, <1>7, <1>10, <1>13
<1>16. h[All] = ToInt(rest + m)
  BY <1>2, <1>11, <1>12, <1>14
<1> QED BY <1>15, <1>16 DEF MadeUp, h

LEMMA NothingIsMadeUp == Init => TypesMakeUpTotal
<1> SUFFICES ASSUME Init PROVE TypesMakeUpTotal
  OBVIOUS
<1> DEFINE f == [g \in Group |-> 0]
<1>1. count = f /\ wait = f /\ serve = f
  BY DEF Init
<1>2. \A k \in Kind : f[k] = 0 /\ f[All] = 0
  BY DEF Group
<1>3. 0 \in Ints /\ ToInt(0) = 0 /\ f[All] = 0
  <2>1. 0 \in Ints
    BY DEF Ints
  <2> QED BY <2>1, ToIntFits DEF Group
<1> HIDE DEF f
<1>4. SumFunctionOnSet(f, Kind) = 0
  BY <1>2, SumOfZeros
<1> QED BY <1>1, <1>3, <1>4 DEF TypesMakeUpTotal

\* The sums of the types make up the sums of all at every moment, whatever
\* the results, even when sums have wrapped (system.c:187-206).
THEOREM TypesMakeUpTotals == TestsSpec => []TypesMakeUpTotal
<1>1. TestsInit => TypesMakeUpTotal
  BY NothingIsMadeUp DEF TestsInit
<1>2. StatInv /\ TypesMakeUpTotal /\ [TestsNext]_testsVars => TypesMakeUpTotal'
  <2> SUFFICES ASSUME StatInv, TypesMakeUpTotal, [TestsNext]_testsVars PROVE TypesMakeUpTotal'
    OBVIOUS
  <2>1. MadeUp(count) /\ MadeUp(wait) /\ MadeUp(serve)
    BY DEF TypesMakeUpTotal, MadeUp
  <2>2. ASSUME UNCHANGED <<count, wait, serve>> PROVE TypesMakeUpTotal'
    BY <2>2, Zenon DEF TypesMakeUpTotal
  <2>3. CASE CountClient
    <3> DEFINE client == finished[server][index]
    <3>1. client \in FinishedClient
      <4>1. pc = "iterate" /\ HasNext
        BY <2>3 DEF CountClient
      <4>2. /\ server \in Server /\ index \in 1 .. Len(finished[server]) + 1
            /\ finished[server] \in Seq(FinishedClient)
        BY <4>1 DEF StatInv, OrderOK, InputsOK
      <4>3. index \in 1 .. Len(finished[server])
        BY <4>1, <4>2 DEF HasNext
      <4> QED BY <4>2, <4>3
    <3>2. /\ count' = AddedTo(count, client.disability_type, 1)
          /\ wait' = AddedTo(wait, client.disability_type, client.wait_time)
          /\ serve' = AddedTo(serve, client.disability_type, client.total_time)
      BY <2>3, Zenon DEF CountClient
    <3>3. client.disability_type \in Kind /\ client.wait_time \in Int /\ client.total_time \in Int
      BY <3>1 DEF FinishedClient
    <3> HIDE DEF client
    <3>4. MadeUp(count') /\ MadeUp(wait') /\ MadeUp(serve')
      BY <2>1, <3>2, <3>3, AddedToMadeUp DEF StatInv, SumsOK
    <3> QED BY <3>4, Zenon DEF TypesMakeUpTotal, MadeUp
  <2>4. CASE NextTest
    <3>1. Init'
      BY <2>4, Zenon DEF NextTest, Init
    <3> QED BY <3>1, NothingIsMadeUp, PTL
  <2>5. CASE ~CountClient /\ ~NextTest
    <3>1. UNCHANGED <<count, wait, serve>>
      BY <2>5, Zenon DEF TestsNext, MainStep, ComputeStats, OpenServer, CloseServer,
         UpdateTotalStats, FinalizeStat, testsVars, vars
    <3> QED BY <2>2, <3>1
  <2> QED BY <2>3, <2>4, <2>5
<1> QED BY <1>1, <1>2, StatInvariance, PTL DEF TestsSpec

-----------------------------------------------------------------------------
(***************************************************************************)
(* The results are means                                                   *)
(***************************************************************************)
\* How many clients are counted fits an int: there are no more than
\* total_clients.
LEMMA CountFits ==
  ASSUME StatInv, pc = "done", NEW g \in Group
  PROVE  /\ count[g] = Cardinality(Counted(g)) /\ Cardinality(Counted(g)) \in Nat
         /\ wait[g] = ToInt(Waited(g)) /\ serve[g] = ToInt(Served(g))
         /\ Waited(g) \in Int /\ Served(g) \in Int
<1> DEFINE T == CountedYet(g)
           n == Cardinality(T)
<1>1. T = Counted(g)
  BY DEF CountedYet, Reached, Counted
<1>2. T \subseteq Places(Server, finished) /\ IsFiniteSet(Places(Server, finished))
  BY ReachedAre DEF StatInv, ReachedInPlaces, CountedYet
<1>3. IsFiniteSet(T) /\ n <= Cardinality(Places(Server, finished))
  BY <1>2, FS_Subset
<1>4. n \in Nat /\ Cardinality(Places(Server, finished)) \in Nat
  BY <1>2, <1>3, FS_CardinalityType
<1>5. n \in Ints
  <2>1. Cardinality(Places(Server, finished)) <= IntMax
    BY <1>4 DEF StatInv, InputsOK
  <2> HIDE DEF n
  <2> QED BY <1>3, <1>4, <2>1 DEF Ints
<1>6. /\ count[g] = ToInt(n)
      /\ wait[g] = ToInt(SumFunctionOnSet(WaitTime, T))
      /\ serve[g] = ToInt(SumFunctionOnSet(TotalTime, T))
  BY DEF StatInv, TimesAdded
<1>7. (\A x \in T : WaitTime[x] \in Int) /\ (\A x \in T : TotalTime[x] \in Int)
  BY <1>2, TimesAreInts DEF StatInv
<1>8. SumFunctionOnSet(WaitTime, T) \in Int /\ SumFunctionOnSet(TotalTime, T) \in Int
  BY <1>3, <1>7, SumIsInt
<1> HIDE DEF T
<1>9. ToInt(n) = n
  BY <1>5, ToIntFits
<1> QED BY <1>1, <1>4, <1>6, <1>8, <1>9 DEF Waited, Served

\* What compute_stats divides, rounded towards 0.
LEMMA MeansAre ==
  ASSUME StatInv, pc = "done", NEW g \in Group
  PROVE  LET n == Cardinality(Counted(g))
         IN  /\ InRange(Waited(g)) =>
                  Mean(wait, g) = IF n = 0 THEN 0 ELSE Quotient(Waited(g), n)
             /\ InRange(Served(g)) =>
                  Mean(serve, g) = IF n = 0 THEN 0 ELSE Quotient(Served(g), n)
<1> DEFINE n == Cardinality(Counted(g))
<1>1. /\ count[g] = n /\ n \in Nat
      /\ wait[g] = ToInt(Waited(g)) /\ serve[g] = ToInt(Served(g))
  BY CountFits
<1>2. InRange(Waited(g)) => wait[g] = Waited(g)
  BY <1>1, ToIntFits DEF InRange, Ints
<1>3. InRange(Served(g)) => serve[g] = Served(g)
  BY <1>1, ToIntFits DEF InRange, Ints
<1>4. n > 0 <=> n # 0
  BY <1>1
<1> HIDE DEF n
<1>5. /\ Mean(wait, g) = IF n # 0 THEN Quotient(wait[g], n) ELSE 0
      /\ Mean(serve, g) = IF n # 0 THEN Quotient(serve[g], n) ELSE 0
  BY <1>1, <1>4 DEF Mean
<1> QED BY <1>2, <1>3, <1>5 DEF n

LEMMA StatFields ==
  /\ DOMAIN Stat = Field
  /\ <<"total_clients", All>> \in Field /\ Stat[<<"total_clients", All>>] = total_clients
  /\ <<"mean_queue_size", All>> \in Field
  /\ Stat[<<"mean_queue_size", All>>] = SizeQuotient(total_queue_len, NumServers)
  /\ \A g \in Group :
       /\ <<"mean_wait_time", g>> \in Field /\ Stat[<<"mean_wait_time", g>>] = Mean(wait, g)
       /\ <<"mean_serve_time", g>> \in Field /\ Stat[<<"mean_serve_time", g>>] = Mean(serve, g)
<1>1. /\ <<"total_clients", All>> \in Field
      /\ <<"mean_queue_size", All>> \in Field
      /\ \A g \in Group : <<"mean_wait_time", g>> \in Field /\ <<"mean_serve_time", g>> \in Field
  BY DEF Field
<1> QED BY <1>1, Zenon DEF Stat

LEMMA MeanOfDivision ==
  ASSUME NEW n \in Int, NEW c \in Nat
  PROVE  IsMean(IF c = 0 THEN 0 ELSE Quotient(n, c), n, c)
<1>1. CASE c = 0
  BY <1>1 DEF IsMean
<1>2. CASE c # 0
  BY <1>2, QuotientIsMean
<1> QED BY <1>1, <1>2

\* At the end of a test its results are the means over the finished clients,
\* of each type and of all, but for the servers whose iterator found no
\* memory and for sums that exceed an int (system.c:174-225).
THEOREM StatsAreMeans == TestsSpec => []StatIsMean
<1>1. StatInv => StatIsMean
  <2> SUFFICES ASSUME StatInv, pc = "done", NEW g \in Group
               PROVE  LET n == Cardinality(Counted(g))
                      IN  /\ InRange(Waited(g)) =>
                               IsMean(Stat[<<"mean_wait_time", g>>], Waited(g), n)
                          /\ InRange(Served(g)) =>
                               IsMean(Stat[<<"mean_serve_time", g>>], Served(g), n)
    BY DEF StatIsMean
  <2> DEFINE n == Cardinality(Counted(g))
  <2>1. n \in Nat /\ Waited(g) \in Int /\ Served(g) \in Int
    BY CountFits
  <2>2. /\ IsMean(IF n = 0 THEN 0 ELSE Quotient(Waited(g), n), Waited(g), n)
        /\ IsMean(IF n = 0 THEN 0 ELSE Quotient(Served(g), n), Served(g), n)
    <3> HIDE DEF n
    <3> QED BY <2>1, MeanOfDivision
  <2>3. /\ Stat[<<"mean_wait_time", g>>] = Mean(wait, g)
        /\ Stat[<<"mean_serve_time", g>>] = Mean(serve, g)
    BY StatFields
  <2>4. /\ InRange(Waited(g)) =>
             Mean(wait, g) = IF n = 0 THEN 0 ELSE Quotient(Waited(g), n)
        /\ InRange(Served(g)) =>
             Mean(serve, g) = IF n = 0 THEN 0 ELSE Quotient(Served(g), n)
    BY MeansAre
  <2> QED BY <2>2, <2>3, <2>4, Zenon
<1> QED BY <1>1, StatInvariance, PTL

\* The queue size of a test, where the sum of the mean queue lengths fits.
LEMMA QueueSizeIs ==
  ASSUME StatInv, pc = "done"
  PROVE  LET total == SumFunction(mean_server_queue_len)
         IN  /\ total \in Int
             /\ total \in 0 .. IntMax =>
                  SizeQuotient(total_queue_len, NumServers) = total \div NumServers
<1> DEFINE total == SumFunction(mean_server_queue_len)
           n == NumServers
<1>1. mean_server_queue_len \in [Server -> Int]
  BY DEF StatInv, InputsOK
<1>2. total = SumFunctionOnSet(mean_server_queue_len, Server)
  BY <1>1 DEF SumFunction, SumFunctionOnSet, FoldFunction
<1>3. total \in Int
  BY <1>1, <1>2, ServersAreFinite, SumIsInt
<1>4. Asked = Server
  <2>1. server = NumServers + 1
    BY DEF StatInv, OrderOK
  <2> QED BY <2>1 DEF Asked, Server
<1>5. total_queue_len = ToInt(total)
  BY <1>2, <1>4 DEF StatInv, QueueLensAdded
<1> HIDE DEF total
<1>6. ASSUME total \in 0 .. IntMax
      PROVE  SizeQuotient(total_queue_len, n) = total \div n
  <2>1. total_queue_len = total
    BY <1>5, <1>6, ToIntFits DEF Ints
  <2>2. total % (SizeMax + 1) = total
    <3>1. \A a \in Nat, b \in Nat \ {0} : a < b => a % b = a
      OBVIOUS
    <3> QED BY <1>6, <3>1
  <2> DEFINE q == total \div n
  <2>3. q \in Nat /\ q * n <= total
    BY <1>6, QuotientBounds
  <2> HIDE DEF q
  <2>4. q <= q * n
    BY <2>3
  <2>5. q \in Ints
    BY <1>6, <2>3, <2>4 DEF Ints
  <2>6. ToInt(q) = q
    BY <2>5, ToIntFits
  <2> QED BY <2>1, <2>2, <2>6 DEF SizeQuotient, q
<1> QED BY <1>3, <1>6 DEF total

\* The mean queue size is that of the servers, unless the sum of their mean
\* queue lengths exceeds an int or is negative (system.c:180, 220-222).
THEOREM QueueSizesAreMeans == TestsSpec => []QueueSizeIsMean
<1>1. StatInv => QueueSizeIsMean
  <2> DEFINE total == SumFunction(mean_server_queue_len)
  <2> SUFFICES ASSUME StatInv, pc = "done", total \in 0 .. IntMax
               PROVE  IsMean(Stat[<<"mean_queue_size", All>>], total, NumServers)
    BY DEF QueueSizeIsMean
  <2>1. Stat[<<"mean_queue_size", All>>] = total \div NumServers
    BY QueueSizeIs, StatFields
  <2> HIDE DEF total
  <2>2. Quotient(total, NumServers) = total \div NumServers
    BY DEF Quotient
  <2>3. IsMean(Quotient(total, NumServers), total, NumServers)
    BY QuotientIsMean
  <2> QED BY <2>1, <2>2, <2>3
<1> QED BY <1>1, StatInvariance, PTL

-----------------------------------------------------------------------------
(***************************************************************************)
(* The averages are means of means                                         *)
(***************************************************************************)
LEMMA Distribute ==
  ASSUME NEW a \in Int, NEW b \in Int, NEW d \in Nat
  PROVE  a * d \in Int /\ (a + b) * d = a * d + b * d
  OBVIOUS

LEMMA FactorKeepsOrder ==
  ASSUME NEW a \in Int, NEW b \in Int, NEW d \in Nat \ {0}
  PROVE  /\ a <= b => a * d <= b * d
         /\ a < b => a * d < b * d
  OBVIOUS

\* What a test adds is what its results are when nothing is rounded, but for
\* less than one.
LEMMA RoundedDown ==
  ASSUME NEW n \in Nat, NEW c \in Nat, NEW d \in Nat \ {0}
  PROVE  LET q == IF c = 0 THEN 0 ELSE n \div c
             e == IF c = 0 THEN 0 ELSE (n * d) \div c
         IN  q \in Nat /\ e \in Nat /\ q * d <= e /\ e <= (q + 1) * d
<1>1. CASE c = 0
  <2>1. 0 * d = 0 /\ (0 + 1) * d = d
    OBVIOUS
  <2> QED BY <1>1, <2>1
<1>2. CASE c # 0
  <2>1. c \in Nat \ {0}
    BY <1>2
  <2>2. n \div c \in Nat
    BY <2>1, QuotientBounds
  <2> QED BY <1>2, <2>1, <2>2, FinerQuotient
<1> QED BY <1>1, <1>2

LEMMA StatIsRounded ==
  ASSUME StatInv, pc = "done", NEW f \in Field, ExactSum(f) \in 0 .. IntMax
  PROVE  /\ ExactCount(f) \in Nat
         /\ Stat[f] = IF ExactCount(f) = 0 THEN 0 ELSE ExactSum(f) \div ExactCount(f)
<1>1. CASE f = <<"total_clients", All>>
  <2>1. ExactCount(f) = 1 /\ ExactSum(f) = total_clients
    BY <1>1 DEF ExactCount, ExactSum
  <2>2. ExactSum(f) \div 1 = ExactSum(f)
    <3>1. \A n \in Nat : n \div 1 = n
      OBVIOUS
    <3> QED BY <3>1
  <2> QED BY <1>1, <2>1, <2>2, StatFields
<1>2. CASE f = <<"mean_queue_size", All>>
  <2>1. ExactCount(f) = NumServers /\ ExactSum(f) = SumFunction(mean_server_queue_len)
    BY <1>2, Zenon DEF ExactCount, ExactSum
  <2>2. SizeQuotient(total_queue_len, NumServers) = ExactSum(f) \div NumServers
    BY <2>1, QueueSizeIs
  <2> QED BY <1>2, <2>1, <2>2, StatFields
<1>3. ASSUME NEW g \in Group, NEW name, NEW sum, NEW mean,
             ExactCount(f) = Cardinality(Counted(g)), ExactSum(f) = sum,
             InRange(sum) => mean = IF Cardinality(Counted(g)) = 0 THEN 0
                                    ELSE Quotient(sum, Cardinality(Counted(g))),
             Stat[f] = mean
      PROVE  /\ ExactCount(f) \in Nat
             /\ Stat[f] = IF ExactCount(f) = 0 THEN 0 ELSE ExactSum(f) \div ExactCount(f)
  <2>1. Cardinality(Counted(g)) \in Nat
    BY CountFits
  <2>2. InRange(sum) /\ sum >= 0
    BY <1>3 DEF InRange
  <2> QED BY <1>3, <2>1, <2>2 DEF Quotient
<1>4. ASSUME NEW g \in Group, f = <<"mean_wait_time", g>>
      PROVE  /\ ExactCount(f) \in Nat
             /\ Stat[f] = IF ExactCount(f) = 0 THEN 0 ELSE ExactSum(f) \div ExactCount(f)
  <2>1. ExactCount(f) = Cardinality(Counted(g)) /\ ExactSum(f) = Waited(g)
    BY <1>4, Zenon DEF ExactCount, ExactSum
  <2>2. Stat[f] = Mean(wait, g)
    BY <1>4, StatFields
  <2> QED BY <1>3, <2>1, <2>2, MeansAre
<1>5. ASSUME NEW g \in Group, f = <<"mean_serve_time", g>>
      PROVE  /\ ExactCount(f) \in Nat
             /\ Stat[f] = IF ExactCount(f) = 0 THEN 0 ELSE ExactSum(f) \div ExactCount(f)
  <2>1. ExactCount(f) = Cardinality(Counted(g)) /\ ExactSum(f) = Served(g)
    BY <1>5, Zenon DEF ExactCount, ExactSum
  <2>2. Stat[f] = Mean(serve, g)
    BY <1>5, StatFields
  <2> QED BY <1>3, <2>1, <2>2, MeansAre
<1>6. \/ f = <<"total_clients", All>> \/ f = <<"mean_queue_size", All>>
      \/ \E g \in Group : f = <<"mean_wait_time", g>> \/ f = <<"mean_serve_time", g>>
  BY DEF Field
<1> QED BY <1>1, <1>2, <1>4, <1>5, <1>6

\* While no sum has exceeded an int, the totals are what they are when nothing
\* is rounded, but for less than one in each test, and at last for one more.
TotalIsNear(f) ==
  /\ total_stats[f] \in 0 .. IntMax /\ exact[f] \in Int
  /\ pc # "over" => /\ total_stats[f] * Denominator <= exact[f]
                    /\ exact[f] <= (total_stats[f] + test) * Denominator
  /\ pc = "over" => /\ total_stats[f] * TestCount * Denominator <= exact[f]
                    /\ exact[f] < (total_stats[f] + 2) * TestCount * Denominator

TestsCounted ==
  /\ test \in 0 .. TestCount
  /\ pc \in {"finalize", "over"} => test = TestCount

TotalsInv == TestsCounted /\ (~exceeded => \A f \in Field : TotalIsNear(f))

LEMMA AddedTest ==
  ASSUME NEW t \in Nat, NEW s \in Nat, NEW k \in Nat, NEW e \in Int, NEW m \in Int,
         NEW d \in Nat \ {0},
         t * d <= e, e <= (t + k) * d, s * d <= m, m <= (s + 1) * d
  PROVE  (t + s) * d <= e + m /\ e + m <= ((t + s) + (k + 1)) * d
<1>1. (t + s) * d = t * d + s * d /\ t * d \in Int /\ s * d \in Int
  BY Distribute
<1>2. /\ ((t + k) + (s + 1)) * d = (t + k) * d + (s + 1) * d
      /\ (t + k) * d \in Int /\ (s + 1) * d \in Int
  <2>1. t + k \in Int /\ s + 1 \in Int
    OBVIOUS
  <2> QED BY <2>1, Distribute
<1>3. (t + k) + (s + 1) = (t + s) + (k + 1)
  OBVIOUS
<1> DEFINE a == t * d
           b == s * d
           x == (t + k) * d
           y == (s + 1) * d
<1>4. a <= e /\ b <= m /\ e <= x /\ m <= y /\ a \in Int /\ b \in Int /\ x \in Int /\ y \in Int
  BY <1>1, <1>2
<1> HIDE DEF a, b, x, y
<1>5. a + b <= e + m /\ e + m <= x + y
  BY <1>4
<1> QED BY <1>1, <1>2, <1>3, <1>5 DEF a, b, x, y

LEMMA UpdateKeepsTotals ==
  ASSUME StatInv, TotalsInv, UpdateTotalStats PROVE TotalsInv'
<1>1. /\ pc = "done" /\ test' = test + 1 /\ test \in 0 .. TestCount
      /\ \/ test + 1 < TestCount /\ pc' = "open"
         \/ test + 1 = TestCount /\ pc' = "finalize"
  BY DEF UpdateTotalStats, NextTest, TotalsInv, TestsCounted
<1>2. /\ total_stats' = [f \in Field |-> ToInt(total_stats[f] + Stat[f])]
      /\ exact' = [f \in Field |-> exact[f] + ExactMean(f)]
  BY Zenon DEF UpdateTotalStats
<1>3. TestsCounted'
  BY <1>1 DEF TestsCounted
<1>4. ASSUME ~exceeded', NEW f \in Field PROVE TotalIsNear(f)'
  <2>1. ~exceeded /\ ExactSum(f) \in 0 .. IntMax /\ ~ (total_stats[f] + Stat[f] > IntMax)
    BY <1>4, Zenon DEF UpdateTotalStats
  <2> DEFINE t == total_stats[f]
             s == Stat[f]
             e == exact[f]
             m == ExactMean(f)
             n == ExactSum(f)
             c == ExactCount(f)
             d == Denominator
  <2>2. TotalIsNear(f)
    BY <2>1, Zenon DEF TotalsInv
  <2>3. t \in Nat /\ e \in Int /\ t * d <= e /\ e <= (t + test) * d
    BY <1>1, <2>2 DEF TotalIsNear
  <2>4. d \in Nat \ {0} /\ test \in Nat
    BY <1>1, DenominatorAssumption
  <2>5. s \in Nat /\ m \in Nat /\ s * d <= m /\ m <= (s + 1) * d
    <3>1. c \in Nat /\ s = IF c = 0 THEN 0 ELSE n \div c
      BY <1>1, <2>1, StatIsRounded
    <3>2. n \in Nat /\ m = IF c = 0 THEN 0 ELSE (n * d) \div c
      BY <2>1 DEF ExactMean
    <3> HIDE DEF n, c, d, s, m
    <3> QED BY <2>4, <3>1, <3>2, RoundedDown
  <2>6. total_stats'[f] = ToInt(t + s) /\ exact'[f] = e + m
    BY <1>2
  <2>7. ~ (t + s > IntMax)
    BY <2>1
  <2> HIDE DEF t, s, e, m, n, c, d
  <2>8. t + s \in 0 .. IntMax /\ t + s \in Ints
    BY <2>3, <2>5, <2>7 DEF Ints
  <2>9. total_stats'[f] = t + s
    BY <2>6, <2>8, ToIntFits
  <2>10. (t + s) * d <= e + m /\ e + m <= ((t + s) + (test + 1)) * d
    BY <2>3, <2>4, <2>5, AddedTest
  <2>11. e + m \in Int /\ pc' # "over"
    BY <1>1, <2>3, <2>5
  <2> QED BY <1>1, <2>6, <2>8, <2>9, <2>10, <2>11 DEF TotalIsNear, d
<1> QED BY <1>3, <1>4, Zenon DEF TotalsInv

\* The final division by the number of tests.
LEMMA DividedTotal ==
  ASSUME NEW t \in Nat, NEW c \in Nat \ {0}, NEW d \in Nat \ {0}, NEW e \in Int,
         t * d <= e, e <= (t + c) * d
  PROVE  (t \div c) * c * d <= e /\ e < (t \div c + 2) * c * d
<1> DEFINE q == t \div c
           a == q * c
           b == (q + 2) * c
<1>1. q \in Nat /\ a <= t /\ t < (q + 1) * c
  BY QuotientBounds
<1> HIDE DEF q
<1>2. a \in Int /\ b \in Int /\ b = (q + 1) * c + c /\ (q + 1) * c \in Int
  BY <1>1
<1>3. t + c < b
  BY <1>1, <1>2
<1> HIDE DEF a, b
<1>4. a * d <= t * d /\ (t + c) * d < b * d
  <2>1. t + c \in Int /\ t \in Int
    OBVIOUS
  <2> QED BY <1>1, <1>2, <1>3, <2>1, FactorKeepsOrder
<1>5. a * d \in Int /\ b * d \in Int /\ t * d \in Int /\ (t + c) * d \in Int
  BY <1>2
<1>6. a * d <= e /\ e < b * d
  BY <1>4, <1>5
<1> QED BY <1>6 DEF a, b, q

LEMMA FinalizeKeepsTotals ==
  ASSUME TotalsInv, FinalizeStat PROVE TotalsInv'
<1>1. /\ pc = "finalize" /\ pc' = "over" /\ test' = test /\ test = TestCount
      /\ exact' = exact /\ exceeded' = exceeded
      /\ total_stats' = [f \in Field |-> Quotient(total_stats[f], TestCount)]
  BY Zenon DEF FinalizeStat, TotalsInv, TestsCounted
<1>2. TestsCounted'
  BY <1>1 DEF TestsCounted
<1>3. ASSUME ~exceeded, NEW f \in Field PROVE TotalIsNear(f)'
  <2> DEFINE t == total_stats[f]
             e == exact[f]
             d == Denominator
             q == t \div TestCount
  <2>1. TotalIsNear(f)
    BY <1>3, Zenon DEF TotalsInv
  <2>2. t \in 0 .. IntMax /\ e \in Int /\ t * d <= e /\ e <= (t + TestCount) * d
    BY <1>1, <2>1 DEF TotalIsNear
  <2>3. d \in Nat \ {0}
    BY DenominatorAssumption
  <2>4. total_stats'[f] = q /\ exact'[f] = e
    BY <1>1, <2>2 DEF Quotient
  <2>5. q * TestCount * d <= e /\ e < (q + 2) * TestCount * d
    <3> HIDE DEF t, e, d
    <3> QED BY <2>2, <2>3, DividedTotal
  <2>6. q \in 0 .. IntMax
    <3>1. q \in Nat /\ q * TestCount <= t
      BY <2>2, QuotientBounds
    <3> HIDE DEF q
    <3>2. q <= q * TestCount
      BY <3>1
    <3> QED BY <2>2, <3>1, <3>2
  <2> HIDE DEF t, e, q
  <2> QED BY <1>1, <2>2, <2>4, <2>5, <2>6 DEF TotalIsNear
<1> QED BY <1>1, <1>2, <1>3, Zenon DEF TotalsInv

\* At the end of all tests each average is, but for two roundings that each
\* lose less than one, the mean over the tests of the means of each test,
\* unless a sum has exceeded an int or been negative (main.c:134-141,
\* stat.c:4-20, 41-57).
THEOREM AveragesAreMeansOfMeans == TestsSpec => []AveragesAreMeans
<1>1. TestsInit => TotalsInv
  <2> SUFFICES ASSUME TestsInit PROVE TotalsInv
    OBVIOUS
  <2>1. /\ pc = "open" /\ test = 0
        /\ total_stats = [f \in Field |-> 0] /\ exact = [f \in Field |-> 0]
    BY DEF TestsInit, Init
  <2>2. 0 * Denominator = 0 /\ (0 + 0) * Denominator = 0 /\ Denominator \in Nat
    BY DenominatorAssumption
  <2>3. \A f \in Field : TotalIsNear(f)
    BY <2>1, <2>2 DEF TotalIsNear
  <2> QED BY <2>1, <2>3 DEF TotalsInv, TestsCounted
<1>2. StatInv /\ TotalsInv /\ [TestsNext]_testsVars => TotalsInv'
  <2> SUFFICES ASSUME StatInv, TotalsInv, [TestsNext]_testsVars PROVE TotalsInv'
    OBVIOUS
  <2>1. CASE ComputeStats
    <3>1. UNCHANGED <<test, total_stats, exact, exceeded>>
      BY <2>1, Zenon DEF ComputeStats
    <3>2. pc \in {"open", "iterate"} /\ pc' \in {"open", "iterate", "done"}
      BY <2>1 DEF ComputeStats, OpenServer, CountClient, CloseServer, NextServer
    <3>3. \A f \in Field : TotalIsNear(f) => TotalIsNear(f)'
      BY <3>1, <3>2 DEF TotalIsNear
    <3>4. TestsCounted'
      BY <3>1, <3>2 DEF TotalsInv, TestsCounted
    <3> QED BY <3>1, <3>3, <3>4, Zenon DEF TotalsInv
  <2>2. CASE UpdateTotalStats
    BY <2>2, UpdateKeepsTotals
  <2>3. CASE FinalizeStat
    BY <2>3, FinalizeKeepsTotals
  <2>4. CASE UNCHANGED testsVars
    <3>1. UNCHANGED <<pc, test, total_stats, exact, exceeded>>
      BY <2>4, Zenon DEF testsVars, vars
    <3> QED BY <3>1, Zenon DEF TotalsInv, TestsCounted, TotalIsNear
  <2> QED BY <2>1, <2>2, <2>3, <2>4, Zenon DEF TestsNext, MainStep
<1>3. TotalsInv => AveragesAreMeans
  BY Zenon DEF TotalsInv, AveragesAreMeans, TotalIsNear
<1> QED BY <1>1, <1>2, <1>3, StatInvariance, PTL DEF TestsSpec

=============================================================================
