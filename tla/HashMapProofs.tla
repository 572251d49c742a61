--------------------------- MODULE HashMapProofs ----------------------------
(***************************************************************************)
(* Proofs about the hash map, for any keys, hashes, first capacity, load   *)
(* factors and growth powers and whatever allocations fail: the types, the *)
(* robin-hood order, that no key is lost or held twice, and that the map   *)
(* implements Dictionary.                                                  *)
(***************************************************************************)
EXTENDS HashMap, FiniteSetTheorems, WellFoundedInduction, TLAPS

\* Induction over the numbers, by the smallest counterexample.
LEMMA SmallestNumber ==
  ASSUME NEW W \in SUBSET Nat, W # {}
  PROVE  \E m \in W : \A k \in W : m <= k
<1>1. \E m \in W : \A k \in W : ~ (<<k, m>> \in OpToRel(<, Nat))
  BY WFMin, NatLessThanWellFounded, Zenon
<1>2. \A k, m \in W : k < m => <<k, m>> \in OpToRel(<, Nat)
  BY DEF OpToRel
<1>3. \E m \in W : \A k \in W : ~ (k < m)
  BY <1>1, <1>2, Zenon
<1> QED BY <1>3

\* Of numbers below a bound one is the largest.
LEMMA LargestNumber ==
  ASSUME NEW W \in SUBSET Nat, W # {}, NEW top \in Nat, \A k \in W : k <= top
  PROVE  \E m \in W : \A k \in W : k <= m
<1> DEFINE V == {n \in Nat : \A k \in W : k <= n}
<1>1. V \in SUBSET Nat /\ top \in V
  OBVIOUS
<1>2. PICK m \in V : \A k \in V : m <= k
  BY <1>1, SmallestNumber
<1>3. m \in Nat /\ \A k \in W : k <= m
  BY <1>2
<1>4. m \in W
  <2> SUFFICES ASSUME m \notin W PROVE FALSE
    OBVIOUS
  <2>1. \A k \in W : k < m
    BY <1>3
  <2>2. m # 0
    <3>1. PICK k : k \in W
      OBVIOUS
    <3>2. k \in Nat /\ k < m
      BY <2>1, <3>1
    <3> QED BY <3>2
  <2>3. m - 1 \in Nat /\ \A k \in W : k <= m - 1
    BY <1>3, <2>1, <2>2
  <2>4. m - 1 \in V
    BY <2>3
  <2> QED BY <1>2, <1>3, <2>4
<1> QED BY <1>3, <1>4

-----------------------------------------------------------------------------
(***************************************************************************)
(* Capacities: the smallest one, doubled some times                        *)
(***************************************************************************)
LEMMA SmallestCap == MinCap \in Nat /\ MinCap >= 2
<1>1. PICK k \in 1 .. 4 : MinCap = 2 ^ k
  BY MinCapAssumption
<1>2. k = 1 \/ k = 2 \/ k = 3 \/ k = 4
  BY <1>1
<1>3. 2 ^ 1 = 2 /\ 2 ^ 2 = 4 /\ 2 ^ 3 = 8 /\ 2 ^ 4 = 16
  OBVIOUS
<1>4. MinCap \in {2, 4, 8, 16}
  BY <1>1, <1>2, <1>3, Zenon
<1> QED BY <1>4

USE SmallestCap

Doubling(S) == MinCap \in S /\ \A n \in S : 2 * n \in S
Size == {n \in Nat : \A S \in SUBSET Nat : Doubling(S) => n \in S}

LEMMA SizeDoubles ==
  /\ Size \in SUBSET Nat /\ Doubling(Size)
  /\ \A S \in SUBSET Nat : Doubling(S) => Size \subseteq S
<1>1. Size \in SUBSET Nat /\ \A S \in SUBSET Nat : Doubling(S) => Size \subseteq S
  BY DEF Size
<1>2. ASSUME NEW n \in Nat, \A S \in SUBSET Nat : Doubling(S) => n \in S
      PROVE  n \in Size
  BY <1>2 DEF Size
<1>3. MinCap \in Size
  BY <1>2 DEF Doubling
<1>4. ASSUME NEW n \in Size PROVE 2 * n \in Size
  <2>1. 2 * n \in Nat
    BY <1>1
  <2>2. \A S \in SUBSET Nat : Doubling(S) => 2 * n \in S
    BY <1>1 DEF Doubling
  <2> QED BY <1>2, <2>1, <2>2
<1> QED BY <1>1, <1>3, <1>4 DEF Doubling

\* What is not the smallest size is twice another, and twice a size is the
\* next one.
LEMMA SizesAre ==
  /\ \A n \in Size : n \in Nat /\ n >= MinCap
  /\ \A n \in Size : n = MinCap \/ \E m \in Size : n = 2 * m
  /\ \A n, m \in Size : n < m => 2 * n <= m
<1>1. Size \subseteq {n \in Nat : n >= MinCap}
  <2>1. Doubling({n \in Nat : n >= MinCap})
    BY DEF Doubling
  <2> QED BY <2>1, SizeDoubles
<1> DEFINE T == {n \in Size : n = MinCap \/ \E m \in Size : n = 2 * m}
<1>2. T \in SUBSET Nat /\ Doubling(T)
  BY SizeDoubles DEF Doubling
<1>3. Size \subseteq T
  BY <1>2, SizeDoubles
<1> DEFINE U == {n \in Size : \A m \in Size : n < m => 2 * n <= m}
<1>4. MinCap \in U
  <2>1. MinCap \in Size
    BY SizeDoubles DEF Doubling
  <2> SUFFICES ASSUME NEW m \in Size, MinCap < m PROVE 2 * MinCap <= m
    BY <2>1
  <2>2. PICK l \in Size : m = 2 * l
    BY <1>3
  <2> QED BY <1>1, <2>2
<1>5. ASSUME NEW n \in U PROVE 2 * n \in U
  <2>1. 2 * n \in Size /\ n \in Nat /\ n >= MinCap
    BY <1>1, SizeDoubles DEF Doubling
  <2> SUFFICES ASSUME NEW m \in Size, 2 * n < m PROVE 2 * (2 * n) <= m
    BY <2>1
  <2>2. m \in Nat /\ m # MinCap
    BY <1>1, <2>1
  <2>3. PICK l \in Size : m = 2 * l
    BY <1>3, <2>2
  <2>4. l \in Nat /\ n < l
    BY <1>1, <2>1, <2>3
  <2>5. 2 * n <= l
    BY <2>4
  <2> QED BY <2>1, <2>3, <2>4, <2>5
<1>6. Doubling(U) /\ U \in SUBSET Nat
  BY <1>1, <1>4, <1>5 DEF Doubling
<1>7. Size \subseteq U
  BY <1>6, SizeDoubles
<1> QED BY <1>1, <1>3, <1>7

\* The function that RoundUp defines, and what its recursion comes to.
Doubles(f, n) == f = [c \in Nat |-> IF c < n THEN f[c * 2] ELSE c]

LEMMA DoublesExists ==
  ASSUME NEW n \in Nat PROVE \E f : Doubles(f, n)
<1> DEFINE From(f, m) == /\ f \in [Nat -> Nat]
                         /\ \A c \in Nat : c >= m => f[c] = IF c < n THEN f[c * 2] ELSE c
           W == {m \in Nat : \E f : From(f, m)}
<1>1. n \in W
  <2>1. From([c \in Nat |-> c], n)
    OBVIOUS
  <2> QED BY <2>1
<1>2. W \in SUBSET Nat
  OBVIOUS
<1> HIDE DEF W
<1>3. PICK m \in W : \A k \in W : m <= k
  BY <1>1, <1>2, SmallestNumber
<1>4. PICK f : From(f, m)
  BY <1>3 DEF W
<1>5. CASE m = 0
  <2>1. \A c \in Nat : f[c] = IF c < n THEN f[c * 2] ELSE c
    BY <1>4, <1>5
  <2> QED BY <1>4, <2>1 DEF Doubles
<1>6. CASE m # 0
  <2>1. m \in Nat /\ m - 1 \in Nat /\ 2 * (m - 1) \in Nat
    BY <1>2, <1>6
  <2> DEFINE v == IF m - 1 < n THEN f[(m - 1) * 2] ELSE m - 1
             g == [f EXCEPT ![m - 1] = v]
  <2>2. v \in Nat
    BY <1>4, <2>1
  <2> HIDE DEF v
  <2>3. /\ g \in [Nat -> Nat] /\ g[m - 1] = v
        /\ \A c \in Nat : c # m - 1 => g[c] = f[c]
    BY <1>4, <2>1, <2>2
  <2> HIDE DEF g
  <2>4. \A c \in Nat : c >= m => c # m - 1 /\ c * 2 # m - 1 /\ c * 2 \in Nat
    BY <2>1
  <2>5. \A c \in Nat : c >= m => g[c] = IF c < n THEN g[c * 2] ELSE c
    BY <1>4, <2>3, <2>4
  <2>6. g[m - 1] = IF m - 1 < n THEN g[(m - 1) * 2] ELSE m - 1
    <3>1. CASE m - 1 = 0
      <4>1. (m - 1) * 2 = m - 1
        BY <3>1
      <4>2. ~ (m - 1 < n) => v = m - 1
        BY DEF v
      <4> QED BY <2>3, <4>1, <4>2
    <3>2. CASE m - 1 # 0
      <4>1. (m - 1) * 2 # m - 1 /\ (m - 1) * 2 \in Nat
        BY <2>1, <3>2
      <4> QED BY <2>3, <4>1 DEF v
    <3> QED BY <3>1, <3>2
  <2>7. \A c \in Nat : c >= m - 1 => c >= m \/ c = m - 1
    BY <2>1
  <2>8. From(g, m - 1)
    BY <2>3, <2>5, <2>6, <2>7
  <2>9. m - 1 \in W
    BY <2>1, <2>8 DEF W
  <2> QED BY <1>3, <2>1, <2>9
<1> QED BY <1>5, <1>6

LEMMA RoundUpIs ==
  ASSUME NEW n \in Nat
  PROVE  RoundUp(n) \in Size /\ RoundUp(n) >= n
<1> DEFINE f == CHOOSE g : Doubles(g, n)
<1>1. Doubles(f, n)
  BY DoublesExists, Zenon
<1>2. RoundUp(n) = f[MinCap]
  BY Zenon DEF RoundUp, Doubles
<1> HIDE DEF f
<1>3. \A c \in Nat : f[c] = IF c < n THEN f[c * 2] ELSE c
  BY <1>1 DEF Doubles
<1> DEFINE Bad == {c \in Size : ~ (f[c] \in Size /\ f[c] >= n)}
<1>4. Bad = {}
  <2> SUFFICES ASSUME Bad # {} PROVE FALSE
    OBVIOUS
  <2>1. Bad \in SUBSET Nat
    BY SizesAre
  <2>2. \A c \in Bad : c <= n
    BY <1>3, <2>1
  <2> HIDE DEF Bad
  <2>3. PICK c \in Bad : \A k \in Bad : k <= c
    BY <2>1, <2>2, LargestNumber
  <2>4. c \in Size /\ c \in Nat /\ c >= 2 /\ 2 * c \in Size /\ c * 2 = 2 * c
    BY <2>3, SizesAre, SizeDoubles DEF Bad, Doubling
  <2>5. c * 2 \notin Bad
    BY <2>3, <2>4
  <2>6. f[c * 2] \in Size /\ f[c * 2] >= n
    BY <2>4, <2>5 DEF Bad
  <2> QED BY <1>3, <2>3, <2>4, <2>6 DEF Bad
<1>5. MinCap \in Size
  BY SizeDoubles DEF Doubling
<1> QED BY <1>2, <1>4, <1>5

\* A map grows by at least twice.
LEMMA PowersAre == \A p \in 1 .. 16 : 2 ^ p \in Nat /\ 2 ^ p >= 2
<1> DEFINE Good(p) == 2 ^ p \in Nat /\ 2 ^ p >= 2
<1>1. /\ Good(1) /\ Good(2) /\ Good(3) /\ Good(4) /\ Good(5) /\ Good(6) /\ Good(7)
      /\ Good(8) /\ Good(9) /\ Good(10) /\ Good(11) /\ Good(12) /\ Good(13) /\ Good(14)
      /\ Good(15) /\ Good(16)
  OBVIOUS
<1> HIDE DEF Good
<1>2. \A p \in 1 .. 16 : Good(p)
  BY <1>1
<1> QED BY <1>2, Zenon DEF Good

\* A map of n buckets grows before it is full, and once it holds something.
LEMMA GrowAtIs ==
  ASSUME NEW n \in Nat, n >= 2, NEW f \in 50 .. 95
  PROVE  GrowAt(n, f) \in 1 .. n - 1
<1>1. /\ n * f \in Nat
      /\ n * f >= 100 /\ n * f <= 95 * n
  OBVIOUS
<1> DEFINE p == n * f
<1> HIDE DEF p
<1>2. p \in Nat /\ p >= 100 /\ p <= 95 * n => p \div 100 \in 1 .. n - 1
  OBVIOUS
<1>3. p \div 100 \in 1 .. n - 1
  BY <1>1, <1>2 DEF p
<1> QED BY <1>3 DEF GrowAt, p

-----------------------------------------------------------------------------
(***************************************************************************)
(* Arrays of n buckets in a ring                                           *)
(***************************************************************************)
USE HashAssumption

Ahead(m, n) == IF m + 1 = n THEN 0 ELSE m + 1
Behind(m, n) == IF m = 0 THEN n - 1 ELSE m - 1

\* The steps from bucket h on to bucket m.
Dist(h, m, n) == IF h <= m THEN m - h ELSE m - h + n

LEMMA RingIs ==
  ASSUME NEW n \in Nat, n >= 2, NEW m \in 0 .. n - 1
  PROVE  /\ (m + 1) % n = Ahead(m, n) /\ Ahead(m, n) \in 0 .. n - 1
         /\ (m + n - 1) % n = Behind(m, n) /\ Behind(m, n) \in 0 .. n - 1
         /\ Ahead(Behind(m, n), n) = m /\ Behind(Ahead(m, n), n) = m
<1>1. (m + 1) % n = Ahead(m, n)
  BY DEF Ahead
<1>2. (m + n - 1) % n = Behind(m, n)
  <2>1. CASE m = 0
    <3>1. m + n - 1 = n - 1 /\ (n - 1) % n = n - 1
      BY <2>1
    <3> QED BY <2>1, <3>1 DEF Behind
  <2>2. CASE m # 0
    <3>1. m + n - 1 = (m - 1) + n /\ m - 1 \in 0 .. n - 1
      BY <2>2
    <3>2. \A l \in 0 .. n - 1 : (l + n) % n = l
      OBVIOUS
    <3>3. ((m - 1) + n) % n = m - 1
      BY <3>1, <3>2
    <3> QED BY <2>2, <3>1, <3>3 DEF Behind
  <2> QED BY <2>1, <2>2
<1> QED BY <1>1, <1>2 DEF Ahead, Behind

LEMMA HomeIs ==
  ASSUME NEW k \in Key, NEW n \in Nat, n >= 2
  PROVE  Home(k, n) \in 0 .. n - 1
<1>1. Hash[k] \in Nat
  OBVIOUS
<1> QED BY <1>1 DEF Home

\* A bucket is free or holds a key.
LEMMA BucketIs ==
  ASSUME NEW b \in Bucket
  PROVE  /\ b.dib \in Nat /\ b.value \in Value \cup {Null}
         /\ b.dib = 0 <=> b = Free
         /\ b.dib # 0 => b.key \in Key /\ b.value \in Value
         /\ b.dib # 0 => \A d \in Nat \ {0} :
              /\ [b EXCEPT !.dib = d] \in Bucket
              /\ [b EXCEPT !.dib = d].dib = d
              /\ [b EXCEPT !.dib = d].key = b.key
              /\ [b EXCEPT !.dib = d].value = b.value
         /\ b.dib # 0 => \A v \in Value :
              /\ [b EXCEPT !.value = v] \in Bucket
              /\ [b EXCEPT !.value = v].dib = b.dib
              /\ [b EXCEPT !.value = v].key = b.key
              /\ [b EXCEPT !.value = v].value = v
  BY DEF Bucket, Free

LEMMA FreeIs == Free \in Bucket /\ Free.dib = 0
  BY DEF Bucket, Free

\* An array of n buckets, of which as many are at least in use.
Array(B, n) ==
  /\ n \in Nat /\ n >= 2
  /\ 0 .. n - 1 \subseteq DOMAIN B
  /\ \A m \in DOMAIN B : B[m] \in Bucket

Occupied(B, n) == {m \in 0 .. n - 1 : B[m].dib # 0}

\* Entry e knows how far bucket m is from its home.
Seated(e, m, n) == e.dib = Dist(Home(e.key, n), m, n) + 1

\* The robin-hood order.
InOrder(B, n) ==
  \A m \in Occupied(B, n) :
    Seated(B[m], m, n) /\ B[m].dib <= B[Behind(m, n)].dib + 1

\* Along the ring up to an entry, from its home on, no bucket is nearer to
\* the home of what it holds than that bucket is to the home of the entry.
LEMMA Chain ==
  ASSUME NEW B, NEW n, Array(B, n), InOrder(B, n),
         NEW m \in Occupied(B, n), NEW x \in 0 .. n - 1, Dist(x, m, n) < B[m].dib
  PROVE  B[x].dib >= B[m].dib - Dist(x, m, n)
<1> DEFINE Bad(d) == \E y \in 0 .. n - 1 :
                       /\ Dist(y, m, n) = d /\ d < B[m].dib
                       /\ ~ (B[y].dib >= B[m].dib - d)
           W == {d \in Nat : Bad(d)}
<1>1. /\ n \in Nat /\ n >= 2 /\ m \in 0 .. n - 1 /\ B[m].dib \in Nat
      /\ \A y \in 0 .. n - 1 : B[y].dib \in Nat /\ Dist(y, m, n) \in Nat
  BY BucketIs DEF Array, Occupied, Dist
<1>2. CASE W = {}
  <2>1. Dist(x, m, n) \notin W
    BY <1>2
  <2> QED BY <1>1, <2>1
<1>3. CASE W # {}
  <2>1. PICK d \in W : \A k \in W : d <= k
    BY <1>3, SmallestNumber
  <2>2. PICK y \in 0 .. n - 1 : /\ Dist(y, m, n) = d /\ d < B[m].dib
                                /\ ~ (B[y].dib >= B[m].dib - d)
    BY <2>1
  <2>3. d \in Nat
    BY <2>1
  <2>4. d # 0
    <3>1. y = m \/ Dist(y, m, n) # 0
      BY <1>1 DEF Dist
    <3> QED BY <1>1, <2>2, <2>3, <3>1
  <2> DEFINE z == Ahead(y, n)
  <2>5. z \in 0 .. n - 1 /\ Dist(z, m, n) = d - 1 /\ Behind(z, n) = y
    BY <1>1, <2>2, <2>3, <2>4 DEF Ahead, Behind, Dist
  <2>6. d - 1 \in Nat /\ d - 1 \notin W
    BY <2>1, <2>3, <2>4
  <2>7. B[z].dib >= B[m].dib - (d - 1)
    BY <1>1, <2>2, <2>5, <2>6
  <2>8. z \in Occupied(B, n)
    BY <1>1, <2>2, <2>3, <2>5, <2>7 DEF Occupied
  <2>9. B[z].dib <= B[y].dib + 1
    BY <2>5, <2>8 DEF InOrder
  <2> QED BY <1>1, <2>2, <2>3, <2>5, <2>7, <2>9
<1> QED BY <1>2, <1>3

\* The same from any bucket that the entry's key passes.
LEMMA OnTheWay ==
  ASSUME NEW B, NEW n, Array(B, n), InOrder(B, n),
         NEW m \in Occupied(B, n), NEW x \in 0 .. n - 1,
         Dist(Home(B[m].key, n), x, n) <= Dist(Home(B[m].key, n), m, n)
  PROVE  B[x].dib >= Dist(Home(B[m].key, n), x, n) + 1
<1> DEFINE h == Home(B[m].key, n)
<1>1. n \in Nat /\ n >= 2 /\ m \in 0 .. n - 1 /\ h \in 0 .. n - 1
  BY BucketIs, HomeIs DEF Array, Occupied
<1>2. B[m].dib = Dist(h, m, n) + 1
  BY DEF InOrder, Seated
<1> HIDE DEF h
<1>3. Dist(h, x, n) <= Dist(h, m, n)
  BY DEF h
<1>4. Dist(x, m, n) = Dist(h, m, n) - Dist(h, x, n) /\ Dist(x, m, n) < B[m].dib
  BY <1>1, <1>2, <1>3 DEF Dist
<1>5. B[x].dib >= B[m].dib - Dist(x, m, n)
  BY <1>4, Chain
<1>6. B[x].dib \in Nat /\ Dist(h, m, n) \in Nat /\ Dist(h, x, n) \in Nat
  BY <1>1, BucketIs DEF Array, Dist
<1>7. B[x].dib >= Dist(h, x, n) + 1
  BY <1>2, <1>4, <1>5, <1>6
<1> QED BY <1>7 DEF h

-----------------------------------------------------------------------------
(***************************************************************************)
(* Probing: entry e is carried to bucket i, or key k looked for there      *)
(***************************************************************************)
Fits(e, B, m, n) ==
  /\ e \in Bucket /\ e.dib # 0 /\ m \in 0 .. n - 1
  /\ Seated(e, m, n) /\ e.dib <= B[Behind(m, n)].dib + 1

\* An entry with key k is nowhere before bucket m.
NotBefore(k, B, m, n) ==
  \A l \in Occupied(B, n) :
    B[l].key = k => Dist(Home(k, n), m, n) <= Dist(Home(k, n), l, n)

Put(B, m, e) == [B EXCEPT ![m] = e]

LEMMA PutIs ==
  ASSUME NEW B, NEW n, Array(B, n), NEW m \in 0 .. n - 1, NEW e \in Bucket,
         NEW C, C = Put(B, m, e)
  PROVE  /\ Array(C, n) /\ DOMAIN C = DOMAIN B /\ C[m] = e
         /\ \A l \in DOMAIN B : l # m => C[l] = B[l]
         /\ \A l \in 0 .. n - 1 : l # m => C[l] = B[l]
         /\ e.dib = 0 => Occupied(C, n) = Occupied(B, n) \ {m}
         /\ e.dib # 0 => Occupied(C, n) = Occupied(B, n) \cup {m}
<1>1. /\ DOMAIN C = DOMAIN B /\ m \in DOMAIN B /\ C[m] = e
      /\ \A l \in DOMAIN B : l # m => C[l] = B[l]
  BY DEF Array, Put
<1>2. Array(C, n)
  BY <1>1 DEF Array
<1>3. \A l \in 0 .. n - 1 : l # m => C[l] = B[l]
  BY <1>1 DEF Array
<1>4. /\ e.dib = 0 => Occupied(C, n) = Occupied(B, n) \ {m}
      /\ e.dib # 0 => Occupied(C, n) = Occupied(B, n) \cup {m}
  BY <1>1, <1>3 DEF Occupied
<1> QED BY <1>1, <1>2, <1>3, <1>4

LEMMA NotBeforeHome ==
  ASSUME NEW B, NEW n, Array(B, n), NEW k \in Key
  PROVE  NotBefore(k, B, Home(k, n), n)
<1> DEFINE h == Home(k, n)
<1>1. n \in Nat /\ n >= 2 /\ h \in 0 .. n - 1
  BY HomeIs DEF Array
<1> HIDE DEF h
<1>2. \A l \in Occupied(B, n) : Dist(h, h, n) <= Dist(h, l, n)
  BY <1>1 DEF Occupied, Dist
<1> QED BY <1>2 DEF NotBefore, h

LEMMA FitsAtHome ==
  ASSUME NEW B, NEW n, Array(B, n), NEW e \in Bucket, e.dib = 1
  PROVE  Fits(e, B, Home(e.key, n), n)
<1> DEFINE h == Home(e.key, n)
<1>1. n \in Nat /\ n >= 2 /\ h \in 0 .. n - 1
  BY BucketIs, HomeIs DEF Array
<1>2. Dist(h, h, n) = 0 /\ Behind(h, n) \in 0 .. n - 1
  BY <1>1 DEF Dist, Behind
<1>3. B[Behind(h, n)].dib \in Nat
  BY <1>2, BucketIs DEF Array
<1> QED BY <1>1, <1>2, <1>3 DEF Fits, Seated

\* An entry may take a bucket that is nearer to the home of what it holds.
LEMMA TakesBucket ==
  ASSUME NEW B, NEW n, Array(B, n), InOrder(B, n), NEW e, NEW m,
         Fits(e, B, m, n), B[m].dib < e.dib
  PROVE  InOrder(Put(B, m, e), n)
<1> DEFINE C == Put(B, m, e)
<1>1. /\ n \in Nat /\ n >= 2 /\ m \in 0 .. n - 1 /\ e \in Bucket /\ e.dib # 0
      /\ Seated(e, m, n) /\ e.dib <= B[Behind(m, n)].dib + 1
  BY DEF Array, Fits
<1>2. /\ C[m] = e /\ DOMAIN C = DOMAIN B
      /\ \A l \in 0 .. n - 1 : l # m => C[l] = B[l]
      /\ Occupied(C, n) = Occupied(B, n) \cup {m}
  <2>1. m \in 0 .. n - 1 /\ e \in Bucket
    BY <1>1
  <2>2. \A l \in 0 .. n - 1 : l # m => C[l] = B[l]
    BY <2>1, PutIs
  <2>3. /\ C[m] = e /\ DOMAIN C = DOMAIN B
        /\ Occupied(C, n) = Occupied(B, n) \cup {m}
    BY <1>1, <2>1, PutIs
  <2> QED BY <2>2, <2>3, Zenon
<1>3. \A l \in 0 .. n - 1 : B[l].dib \in Nat
  BY BucketIs DEF Array
<1>4. e.dib \in Nat
  BY <1>1, BucketIs
<1> HIDE DEF C
<1> SUFFICES ASSUME NEW l \in Occupied(C, n)
             PROVE  Seated(C[l], l, n) /\ C[l].dib <= C[Behind(l, n)].dib + 1
  BY DEF InOrder, C
<1>5. l \in 0 .. n - 1 /\ Behind(l, n) \in 0 .. n - 1 /\ Behind(l, n) # l
  BY <1>1 DEF Occupied, Behind
<1>6. CASE l = m
  BY <1>1, <1>2, <1>5, <1>6
<1>7. CASE l # m
  <2>1. /\ l \in Occupied(B, n) /\ C[l] = B[l] /\ Seated(B[l], l, n)
        /\ B[l].dib <= B[Behind(l, n)].dib + 1
    BY <1>2, <1>5, <1>7 DEF InOrder
  <2>2. B[Behind(l, n)].dib <= C[Behind(l, n)].dib
    BY <1>2, <1>3, <1>4, <1>5
  <2>3. B[l].dib \in Nat /\ B[Behind(l, n)].dib \in Nat /\ C[Behind(l, n)].dib \in Nat
    BY <1>2, <1>3, <1>4, <1>5
  <2> QED BY <2>1, <2>2, <2>3
<1> QED BY <1>6, <1>7

\* What is carried on from an occupied bucket fits into the next one, since
\* no entry is carried all around: a bucket is free.
LEMMA CarriedOn ==
  ASSUME NEW B, NEW n, Array(B, n), InOrder(B, n), NEW e, NEW m,
         Fits(e, B, m, n), B[m].dib # 0,
         \E f \in 0 .. n - 1 : B[f].dib = 0
  PROVE  LET carried == IF Displaces(B[m], e) THEN B[m] ELSE e
             C == IF Displaces(B[m], e) THEN Put(B, m, e) ELSE B
         IN  /\ Array(C, n) /\ DOMAIN C = DOMAIN B /\ InOrder(C, n)
             /\ Occupied(C, n) = Occupied(B, n)
             /\ Fits([carried EXCEPT !.dib = @ + 1], C, Ahead(m, n), n)
<1>1. /\ n \in Nat /\ n >= 2 /\ m \in 0 .. n - 1 /\ e \in Bucket /\ e.dib # 0
      /\ Seated(e, m, n) /\ e.dib <= B[Behind(m, n)].dib + 1
      /\ m \in Occupied(B, n) /\ B[m] \in Bucket /\ Seated(B[m], m, n)
  BY DEF Array, Fits, Occupied, InOrder
<1>2. /\ B[m].dib \in Nat /\ e.dib \in Nat /\ B[m].key \in Key /\ e.key \in Key
  BY <1>1, BucketIs
<1>3. Ahead(m, n) \in 0 .. n - 1 /\ Behind(Ahead(m, n), n) = m
  BY <1>1, RingIs
\* An entry that is not at the end of its way is carried one step on.
<1>4. ASSUME NEW b \in Bucket, b.dib # 0, Seated(b, m, n), b.dib < n,
             NEW C, C[m].dib \in Nat, b.dib <= C[m].dib
      PROVE  Fits([b EXCEPT !.dib = @ + 1], C, Ahead(m, n), n)
  <2>1. b.dib \in Nat /\ b.key \in Key
    BY <1>4, BucketIs
  <2> DEFINE h == Home(b.key, n)
             c == [b EXCEPT !.dib = @ + 1]
  <2>2. h \in 0 .. n - 1 /\ b.dib = Dist(h, m, n) + 1
    BY <1>1, <1>4, <2>1, HomeIs DEF Seated
  <2>3. c = [b EXCEPT !.dib = b.dib + 1] /\ b.dib + 1 \in Nat \ {0}
    BY <2>1
  <2>4. c \in Bucket /\ c.dib = b.dib + 1 /\ c.key = b.key
    BY <1>4, <2>3, BucketIs
  <2> HIDE DEF c, h
  <2>5. Dist(h, Ahead(m, n), n) = Dist(h, m, n) + 1
    BY <1>1, <1>4, <2>1, <2>2 DEF Dist, Ahead
  <2>6. Seated(c, Ahead(m, n), n)
    BY <2>2, <2>4, <2>5 DEF Seated, h
  <2>7. c.dib # 0 /\ c.dib <= C[Behind(Ahead(m, n), n)].dib + 1
    BY <1>3, <1>4, <2>1, <2>4
  <2> QED BY <1>3, <2>4, <2>6, <2>7 DEF Fits, c
<1>5. e.dib <= n /\ B[m].dib <= n
  <2>1. \A k \in Key : Dist(Home(k, n), m, n) < n /\ Dist(Home(k, n), m, n) \in Nat
    BY <1>1, HomeIs DEF Dist
  <2> QED BY <1>1, <1>2, <2>1 DEF Seated
<1>6. CASE Displaces(B[m], e)
  <2> DEFINE C == Put(B, m, e)
  <2>1. B[m].dib < e.dib
    BY <1>6 DEF Displaces
  <2>2. /\ Array(C, n) /\ DOMAIN C = DOMAIN B /\ C[m] = e
        /\ Occupied(C, n) = Occupied(B, n) \cup {m}
    BY <1>1, PutIs
  <2>3. InOrder(C, n)
    BY <2>1, TakesBucket
  <2> HIDE DEF C
  <2>4. Fits([B[m] EXCEPT !.dib = @ + 1], C, Ahead(m, n), n)
    BY <1>1, <1>2, <1>4, <1>5, <2>1, <2>2
  <2>5. Occupied(C, n) = Occupied(B, n)
    BY <1>1, <2>2
  <2> QED BY <1>6, <2>2, <2>3, <2>4, <2>5, Zenon DEF C
<1>7. CASE ~Displaces(B[m], e)
  <2>1. e.dib <= B[m].dib
    BY <1>2, <1>7 DEF Displaces
  <2>2. e.dib < n
    <3> SUFFICES ASSUME e.dib >= n PROVE FALSE
      BY <1>1, <1>2
    <3>1. B[m].dib = n
      BY <1>1, <1>2, <1>5, <2>1
    <3>2. PICK f \in 0 .. n - 1 : B[f].dib = 0
      OBVIOUS
    <3>3. Dist(f, m, n) < n /\ Dist(f, m, n) \in Nat
      BY <1>1 DEF Dist
    <3>4. B[f].dib >= B[m].dib - Dist(f, m, n)
      BY <1>1, <3>1, <3>3, Chain
    <3> QED BY <1>1, <3>1, <3>2, <3>3, <3>4
  <2>3. Fits([e EXCEPT !.dib = @ + 1], B, Ahead(m, n), n)
    BY <1>1, <1>2, <1>4, <2>1, <2>2
  <2> QED BY <1>7, <2>3, Zenon
<1> QED BY <1>6, <1>7

\* A key that would be at or after a bucket which is nearer to the home of
\* what it holds, or free, is not in the map.
LEMMA NotThere ==
  ASSUME NEW B, NEW n, Array(B, n), InOrder(B, n), NEW k \in Key, NEW m \in 0 .. n - 1,
         NotBefore(k, B, m, n), B[m].dib < Dist(Home(k, n), m, n) + 1
  PROVE  \A l \in Occupied(B, n) : B[l].key # k
<1> SUFFICES ASSUME NEW l \in Occupied(B, n), B[l].key = k PROVE FALSE
  OBVIOUS
<1>1. Dist(Home(B[l].key, n), m, n) <= Dist(Home(B[l].key, n), l, n)
  BY DEF NotBefore
<1>2. B[m].dib >= Dist(Home(B[l].key, n), m, n) + 1
  BY <1>1, OnTheWay
<1>3. B[m].dib \in Nat /\ Dist(Home(k, n), m, n) \in Nat
  BY BucketIs, HomeIs DEF Array, Dist
<1> QED BY <1>2, <1>3

\* A bucket with another key is passed.
LEMMA PassedOn ==
  ASSUME NEW B, NEW n, Array(B, n), NEW k \in Key, NEW m \in 0 .. n - 1,
         NotBefore(k, B, m, n), m \in Occupied(B, n) => B[m].key # k
  PROVE  NotBefore(k, B, Ahead(m, n), n)
<1> SUFFICES ASSUME NEW l \in Occupied(B, n), B[l].key = k
             PROVE  Dist(Home(k, n), Ahead(m, n), n) <= Dist(Home(k, n), l, n)
  BY DEF NotBefore
<1> DEFINE h == Home(k, n)
<1>1. n \in Nat /\ n >= 2 /\ h \in 0 .. n - 1 /\ l \in 0 .. n - 1 /\ l # m
  BY HomeIs DEF Array, Occupied
<1>2. Dist(h, m, n) <= Dist(h, l, n)
  BY DEF NotBefore
<1> HIDE DEF h
<1>3. Dist(h, Ahead(m, n), n) <= Dist(h, l, n)
  BY <1>1, <1>2 DEF Dist, Ahead
<1> QED BY <1>3 DEF h

-----------------------------------------------------------------------------
(***************************************************************************)
(* The backward shift: bucket h counts as free, the others are in order    *)
(***************************************************************************)
InOrderBut(B, n, h) ==
  \A m \in Occupied(B, n) \ {h} :
    /\ Seated(B[m], m, n)
    /\ m = Ahead(h, n) => B[m].dib <= B[Behind(h, n)].dib + 2
    /\ m # Ahead(h, n) => B[m].dib <= B[Behind(m, n)].dib + 1

LEMMA HoleMade ==
  ASSUME NEW B, NEW n, Array(B, n), InOrder(B, n), NEW h \in Occupied(B, n)
  PROVE  InOrderBut(Put(B, h, Free), n, h)
<1> DEFINE C == Put(B, h, Free)
<1>1. n \in Nat /\ n >= 2 /\ h \in 0 .. n - 1
  BY DEF Array, Occupied
<1>2. \A l \in 0 .. n - 1 : l # h => C[l] = B[l]
  BY <1>1, FreeIs, PutIs
<1>3. \A l \in 0 .. n - 1 : B[l].dib \in Nat
  BY BucketIs DEF Array
<1> HIDE DEF C
<1> SUFFICES ASSUME NEW m \in Occupied(C, n) \ {h}
             PROVE  /\ Seated(C[m], m, n)
                    /\ m = Ahead(h, n) => C[m].dib <= C[Behind(h, n)].dib + 2
                    /\ m # Ahead(h, n) => C[m].dib <= C[Behind(m, n)].dib + 1
  BY DEF InOrderBut, C
<1>4. m \in 0 .. n - 1 /\ C[m] = B[m] /\ m \in Occupied(B, n)
  BY <1>2 DEF Occupied
<1>5. Seated(B[m], m, n) /\ B[m].dib <= B[Behind(m, n)].dib + 1
  BY <1>4 DEF InOrder
<1>6. CASE m = Ahead(h, n)
  <2>1. /\ Behind(m, n) = h /\ Behind(h, n) \in 0 .. n - 1 /\ Behind(h, n) # h
    BY <1>1, <1>6 DEF Ahead, Behind
  <2>2. B[h].dib <= B[Behind(h, n)].dib + 1
    BY DEF InOrder
  <2>3. C[m].dib <= C[Behind(h, n)].dib + 2
    BY <1>1, <1>2, <1>3, <1>4, <1>5, <2>1, <2>2
  <2> QED BY <1>4, <1>5, <1>6, <2>3
<1>7. CASE m # Ahead(h, n)
  <2>1. Behind(m, n) \in 0 .. n - 1 /\ Behind(m, n) # h
    BY <1>1, <1>4, <1>7 DEF Ahead, Behind
  <2> QED BY <1>2, <1>4, <1>5, <1>7, <2>1
<1> QED BY <1>6, <1>7

LEMMA HoleMoves ==
  ASSUME NEW B, NEW n, Array(B, n), NEW h \in 0 .. n - 1, InOrderBut(B, n, h),
         B[Ahead(h, n)].dib > 1
  PROVE  LET next == B[Ahead(h, n)]
         IN  InOrderBut(Put(B, h, [next EXCEPT !.dib = @ - 1]), n, Ahead(h, n))
<1> DEFINE a == Ahead(h, n)
           e == [B[a] EXCEPT !.dib = @ - 1]
           C == Put(B, h, e)
<1>1. n \in Nat /\ n >= 2
  BY DEF Array
<1>2. a \in 0 .. n - 1 /\ a # h /\ Behind(a, n) = h
  BY <1>1 DEF Ahead, Behind
<1>3. \A l \in 0 .. n - 1 : B[l].dib \in Nat
  BY BucketIs DEF Array
<1> HIDE DEF a
<1>4. B[a] \in Bucket /\ B[a].dib - 1 \in Nat \ {0} /\ B[a].key \in Key
  BY <1>2, <1>3, BucketIs DEF Array, a
<1>5. e = [B[a] EXCEPT !.dib = B[a].dib - 1]
  OBVIOUS
<1> HIDE DEF e
<1>6. e \in Bucket /\ e.dib = B[a].dib - 1 /\ e.key = B[a].key
  BY <1>3, <1>4, <1>5, BucketIs
<1>7. C[h] = e /\ Occupied(C, n) = Occupied(B, n) \cup {h}
  <2>1. e \in Bucket /\ e.dib # 0
    BY <1>4, <1>6
  <2> QED BY <2>1, PutIs
<1>8. \A l \in 0 .. n - 1 : l # h => C[l] = B[l]
  BY <1>6, PutIs
<1>9. a \in Occupied(B, n) \ {h} /\ Seated(B[a], a, n) /\ B[a].dib <= B[Behind(h, n)].dib + 2
  <2>1. a \in Occupied(B, n) \ {h}
    BY <1>2, <1>3, <1>4 DEF Occupied
  <2> QED BY <2>1 DEF InOrderBut, a
<1> HIDE DEF C
<1> SUFFICES ASSUME NEW m \in Occupied(C, n) \ {a}
             PROVE  /\ Seated(C[m], m, n)
                    /\ m = Ahead(a, n) => C[m].dib <= C[Behind(a, n)].dib + 2
                    /\ m # Ahead(a, n) => C[m].dib <= C[Behind(m, n)].dib + 1
  BY DEF InOrderBut, C, e, a
<1>10. CASE m = h
  <2>1. Seated(C[m], m, n)
    <3>1. Home(B[a].key, n) \in 0 .. n - 1
      BY <1>1, <1>4, HomeIs
    <3>2. B[a].dib = Dist(Home(B[a].key, n), a, n) + 1
      BY <1>9 DEF Seated
    <3> DEFINE o == Home(B[a].key, n)
    <3> HIDE DEF o
    <3>3. o \in 0 .. n - 1 /\ B[a].dib = Dist(o, a, n) + 1
      BY <3>1, <3>2 DEF o
    <3>4. Dist(o, h, n) = Dist(o, a, n) - 1
      BY <1>1, <1>2, <1>4, <3>3 DEF Dist, Ahead, a
    <3>5. Dist(o, a, n) \in Int
      BY <1>1, <1>2, <3>3 DEF Dist
    <3>6. e.dib = Dist(o, h, n) + 1
      BY <1>6, <3>3, <3>4, <3>5
    <3> QED BY <1>6, <1>7, <1>10, <3>6 DEF Seated, o
  <2>2. Behind(h, n) \in 0 .. n - 1 /\ Behind(h, n) # h
    BY <1>1 DEF Behind
  <2>3. C[m].dib <= C[Behind(m, n)].dib + 1
    BY <1>2, <1>3, <1>6, <1>7, <1>8, <1>9, <1>10, <2>2
  <2>4. C[m].dib <= C[Behind(a, n)].dib + 2
    BY <1>2, <1>3, <1>6, <1>7, <1>10
  <2> QED BY <2>1, <2>3, <2>4
<1>11. CASE m # h
  <2>1. m \in 0 .. n - 1 /\ C[m] = B[m] /\ m \in Occupied(B, n) \ {h}
    BY <1>7, <1>8, <1>11 DEF Occupied
  <2>2. Seated(B[m], m, n) /\ B[m].dib <= B[Behind(m, n)].dib + 1
    BY <2>1 DEF InOrderBut, a
  <2>3. CASE m = Ahead(a, n)
    <3>1. Behind(m, n) = a
      BY <1>1, <1>2, <2>3 DEF Ahead, Behind
    <3>2. C[m].dib <= C[Behind(a, n)].dib + 2
      BY <1>2, <1>3, <1>6, <1>7, <2>1, <2>2, <3>1
    <3> QED BY <2>1, <2>2, <2>3, <3>2
  <2>4. CASE m # Ahead(a, n)
    <3>1. Behind(m, n) \in 0 .. n - 1 /\ Behind(m, n) # h
      BY <1>1, <2>1 DEF Ahead, Behind, a
    <3> QED BY <1>8, <2>1, <2>2, <2>4, <3>1
  <2> QED BY <2>3, <2>4
<1> QED BY <1>10, <1>11

LEMMA HoleCloses ==
  ASSUME NEW B, NEW n, Array(B, n), NEW h \in 0 .. n - 1, InOrderBut(B, n, h),
         ~ (B[Ahead(h, n)].dib > 1)
  PROVE  InOrder(Put(B, h, Free), n)
<1> DEFINE C == Put(B, h, Free)
<1>1. n \in Nat /\ n >= 2
  BY DEF Array
<1>2. \A l \in 0 .. n - 1 : l # h => C[l] = B[l]
  BY FreeIs, PutIs
<1>3. C[h] = Free /\ Occupied(C, n) = Occupied(B, n) \ {h}
  BY FreeIs, PutIs
<1>4. \A l \in 0 .. n - 1 : B[l].dib \in Nat /\ C[l].dib \in Nat
  BY <1>2, <1>3, FreeIs, BucketIs DEF Array
<1> HIDE DEF C
<1> SUFFICES ASSUME NEW m \in Occupied(C, n)
             PROVE  Seated(C[m], m, n) /\ C[m].dib <= C[Behind(m, n)].dib + 1
  BY DEF InOrder, C
<1>5. m \in 0 .. n - 1 /\ C[m] = B[m] /\ m \in Occupied(B, n) \ {h}
  BY <1>2, <1>3 DEF Occupied
<1>6. Behind(m, n) \in 0 .. n - 1
  BY <1>1, <1>5 DEF Behind
<1>7. CASE m = Ahead(h, n)
  BY <1>4, <1>5, <1>6, <1>7 DEF InOrderBut
<1>8. CASE m # Ahead(h, n)
  <2>1. Behind(m, n) # h
    BY <1>1, <1>5, <1>8 DEF Ahead, Behind
  <2> QED BY <1>2, <1>5, <1>6, <1>8, <2>1 DEF InOrderBut
<1> QED BY <1>7, <1>8

-----------------------------------------------------------------------------
(***************************************************************************)
(* The inductive invariant, loop by loop                                   *)
(***************************************************************************)
\* No two of the buckets of S hold the same key.
Distinct(B, S) == \A m, l \in S : B[m].key = B[l].key => m = l

OrderedMap(B, n, c) ==
  InOrder(B, n) /\ Distinct(B, Occupied(B, n)) /\ Cardinality(Occupied(B, n)) = c

SizeInv ==
  /\ Cardinality(DOMAIN buckets) \in Nat /\ NewCap \in Nat
  /\ nbuckets \in Size /\ cap \in Size
  /\ count < nbuckets
  /\ pc = "ready" => call = NoCall
  /\ pc # "ready" => call \in Call

PlainInv ==
  pc \in {"ready", "begin", "return", "insert", "find"} =>
    OrderedMap(buckets, nbuckets, count)

FindInv ==
  pc = "find" =>
    call.op \in {"get", "delete"} /\ NotBefore(call.key, buckets, i, nbuckets)

InsertInv ==
  pc = "insert" =>
    /\ call.op = "set" /\ count + 1 < nbuckets
    /\ Fits(entry, buckets, i, nbuckets)
    /\ entry.key = call.key => NotBefore(call.key, buckets, i, nbuckets)
    /\ Swapped => \A m \in Occupied(buckets, nbuckets) : buckets[m].key # entry.key

ShiftInv ==
  pc = "shift" =>
    /\ call.op = "delete"
    /\ InOrderBut(buckets, nbuckets, i)
    /\ Distinct(buckets, Occupied(buckets, nbuckets) \ {i})
    /\ Cardinality(Occupied(buckets, nbuckets) \ {i}) = count - 1

\* The old buckets that a rehash has not emptied yet.
Left == {m \in Occupied(buckets, nbuckets) : m >= i}

RehashInv ==
  pc \in {"pick", "rehash"} =>
    /\ call.op \in {"set", "delete"} /\ i <= nbuckets
    /\ NewCap \in Size /\ cap <= NewCap /\ count < NewCap
    /\ call.op = "set" => count + 1 < NewCap
    /\ InOrder(fresh, NewCap)
    /\ Distinct(buckets, Left) /\ Distinct(fresh, Occupied(fresh, NewCap))
    /\ \A m \in Left, l \in Occupied(fresh, NewCap) : buckets[m].key # fresh[l].key
    /\ Cardinality(Left) + Cardinality(Occupied(fresh, NewCap)) = count
    /\ pc = "rehash" => i \in Left /\ Fits(buckets[i], fresh, j, NewCap)

MapInv ==
  /\ TypeOK /\ SizeInv /\ PlainInv /\ FindInv /\ InsertInv /\ ShiftInv /\ RehashInv

-----------------------------------------------------------------------------
(***************************************************************************)
(* Sizes and types                                                         *)
(***************************************************************************)
\* An array of a buckets.
LEMMA AllocatedIs ==
  ASSUME NEW a \in Nat, NEW B \in [0 .. a - 1 -> Bucket]
  PROVE  /\ Cardinality(DOMAIN B) = a
         /\ B \in [0 .. Cardinality(DOMAIN B) - 1 -> Bucket]
         /\ \A n \in Nat : n >= 2 /\ n <= a => Array(B, n)
<1>1. DOMAIN B = 0 .. a - 1
  OBVIOUS
<1>2. Cardinality(0 .. a - 1) = a
  BY FS_Interval
<1> QED BY <1>1, <1>2 DEF Array

LEMMA EmptyIs ==
  ASSUME NEW n \in Nat, n >= 2
  PROVE  /\ Empty(n) \in [0 .. n - 1 -> Bucket] /\ Cardinality(DOMAIN Empty(n)) = n
         /\ Array(Empty(n), n) /\ Occupied(Empty(n), n) = {}
         /\ OrderedMap(Empty(n), n, 0)
<1>1. Empty(n) \in [0 .. n - 1 -> Bucket] /\ \A m \in 0 .. n - 1 : Empty(n)[m] = Free
  BY FreeIs DEF Empty
<1>2. Occupied(Empty(n), n) = {}
  BY <1>1, FreeIs DEF Occupied
<1>3. OrderedMap(Empty(n), n, 0)
  BY <1>2, FS_EmptySet DEF OrderedMap, InOrder, Distinct
<1> QED BY <1>1, <1>2, <1>3, AllocatedIs

LEMMA OccupiedIs ==
  ASSUME NEW B, NEW n, Array(B, n)
  PROVE  /\ IsFiniteSet(Occupied(B, n)) /\ Cardinality(Occupied(B, n)) \in Nat
         /\ Cardinality(Occupied(B, n)) < n => \E f \in 0 .. n - 1 : B[f].dib = 0
<1>1. IsFiniteSet(0 .. n - 1) /\ Cardinality(0 .. n - 1) = n
  BY FS_Interval DEF Array
<1>2. Occupied(B, n) \in SUBSET (0 .. n - 1)
  BY DEF Occupied
<1>3. IsFiniteSet(Occupied(B, n)) /\ Cardinality(Occupied(B, n)) \in Nat
  BY <1>1, <1>2, FS_Subset, FS_CardinalityType
<1>4. ASSUME \A f \in 0 .. n - 1 : B[f].dib # 0
      PROVE  Occupied(B, n) = 0 .. n - 1
  BY <1>4 DEF Occupied
<1> QED BY <1>1, <1>3, <1>4 DEF Array

\* What holds of the variables in every state.
Basics ==
  /\ Array(buckets, nbuckets)
  /\ nbuckets \in Nat /\ nbuckets >= 2 /\ nbuckets \in Size
  /\ cap \in Nat /\ cap >= 2 /\ cap <= nbuckets /\ cap \in Size
  /\ count \in Nat /\ count < nbuckets /\ i \in Nat /\ j \in Nat
  /\ buckets \in [DOMAIN buckets -> Bucket]
  /\ entry \in Bucket /\ fresh \in [DOMAIN fresh -> Bucket]
  /\ DOMAIN fresh = 0 .. NewCap - 1 /\ NewCap \in Nat
  /\ pc \in {"insert", "find", "shift"} => i \in 0 .. nbuckets - 1
  /\ pc \in {"pick", "rehash"} => Array(fresh, NewCap)
  /\ pc = "rehash" => i \in 0 .. nbuckets - 1 /\ j \in 0 .. NewCap - 1

LEMMA BasicsHold == ASSUME MapInv PROVE Basics
<1>1. TypeOK /\ SizeInv /\ RehashInv
  BY DEF MapInv
<1> DEFINE a == Cardinality(DOMAIN buckets)
<1>2. a \in Nat /\ buckets \in [0 .. a - 1 -> Bucket] /\ nbuckets \in 1 .. a
  BY <1>1 DEF TypeOK, SizeInv
<1> HIDE DEF a
<1>3. nbuckets \in Nat /\ nbuckets >= 2 /\ nbuckets \in Size /\ cap \in Size /\ cap >= 2
  BY <1>1, SizesAre DEF SizeInv
<1>4. Array(buckets, nbuckets) /\ buckets \in [DOMAIN buckets -> Bucket]
  BY <1>2, <1>3 DEF Array
<1>5. cap \in Nat /\ cap <= nbuckets /\ count \in Nat /\ i \in Nat /\ j \in Nat
  BY <1>1, <1>3 DEF TypeOK
<1>6. NewCap \in Nat /\ fresh \in [0 .. NewCap - 1 -> Bucket] /\ entry \in Bucket
  BY <1>1 DEF TypeOK, SizeInv
<1>7. ASSUME pc \in {"pick", "rehash"} PROVE Array(fresh, NewCap)
  <2>1. NewCap \in Nat /\ NewCap >= 2
    BY <1>1, <1>7, SizesAre DEF RehashInv
  <2> QED BY <1>6, <2>1 DEF Array
<1>8. pc \in {"insert", "rehash", "find", "shift"} => i < nbuckets
  BY <1>1 DEF TypeOK
<1>9. pc = "rehash" => j < NewCap /\ NewCap \in Nat
  BY <1>1, SizesAre DEF TypeOK, RehashInv
<1> QED BY <1>1, <1>3, <1>4, <1>5, <1>6, <1>7, <1>8, <1>9 DEF Basics, SizeInv

\* The calls and their arguments.
LEMMA CallIs ==
  ASSUME NEW c \in Call
  PROVE  /\ c.op \in {"get", "delete", "set"} => c.key \in Key
         /\ c.op = "set" => c.value \in Value
         /\ c.op = "load_factor" => c.factor \in Int \cup {NaN}
         /\ c.op = "grow_by_power" => c.power \in Nat
  BY TuningAssumption DEF Call, Tuning


LEMMA NoFresh ==
  Cardinality(DOMAIN <<>>) = 0 /\ <<>> \in [0 .. Cardinality(DOMAIN <<>>) - 1 -> Bucket]
<1>1. DOMAIN <<>> = {} /\ 0 .. 0 - 1 = {}
  OBVIOUS
<1>2. Cardinality(DOMAIN <<>>) = 0
  BY <1>1, FS_EmptySet
<1>3. <<>> \in [1 .. 0 -> Bucket] /\ 1 .. 0 = {}
  OBVIOUS
<1>4. <<>> \in [0 .. 0 - 1 -> Bucket]
  BY <1>1, <1>3, Zenon
<1> QED BY <1>2, <1>4, Zenon

LEMMA InitMap == Init => MapInv
<1> SUFFICES ASSUME Init PROVE MapInv
  OBVIOUS
<1>1. /\ cap \in Size /\ cap \in Nat /\ cap >= MinCap /\ cap >= 2 /\ nbuckets = cap
      /\ buckets = Empty(cap)
  BY RoundUpIs, SizesAre, BaseCapAssumption DEF Init
<1>2. /\ buckets \in [0 .. cap - 1 -> Bucket] /\ Cardinality(DOMAIN buckets) = cap
      /\ OrderedMap(buckets, nbuckets, 0)
  BY <1>1, EmptyIs
<1>3. loadfactor = 60 /\ growat \in 1 .. nbuckets - 1
  <2>1. loadfactor = 60 /\ growat = GrowAt(cap, loadfactor)
    BY DEF Init, Clamp, GROW_AT
  <2> QED BY <1>1, <2>1, GrowAtIs
<1>4. NewCap = 0 /\ fresh \in [0 .. NewCap - 1 -> Bucket]
  BY NoFresh DEF Init, NewCap
<1>5. /\ pc = "ready" /\ count = 0 /\ oom = FALSE /\ growpower = 1 /\ call = NoCall
      /\ ret = Null /\ entry = Free /\ i = 0 /\ j = 0
  BY DEF Init
<1>6. TypeOK
  BY <1>1, <1>2, <1>3, <1>4, <1>5, FreeIs DEF TypeOK
<1>7. SizeInv /\ PlainInv
  BY <1>1, <1>2, <1>4, <1>5 DEF SizeInv, PlainInv
<1> QED BY <1>5, <1>6, <1>7 DEF MapInv, FindInv, InsertInv, ShiftInv, RehashInv

-----------------------------------------------------------------------------
(***************************************************************************)
(* The beginning and the end of the calls                                  *)
(***************************************************************************)
LEMMA BeginKeeps == ASSUME MapInv, NEW c \in Call, Begin(c) PROVE MapInv'
<1>1. /\ TypeOK /\ SizeInv /\ PlainInv
      /\ pc = "ready" /\ pc' = "begin" /\ call' = c /\ oom' \in BOOLEAN
      /\ buckets' = buckets /\ nbuckets' = nbuckets /\ cap' = cap /\ count' = count
      /\ entry' = entry /\ i' = i /\ j' = j /\ fresh' = fresh /\ ret' = ret
      /\ loadfactor' = loadfactor /\ growpower' = growpower /\ growat' = growat
      /\ NewCap' = NewCap
  BY DEF MapInv, Begin, locals, tuning, NewCap
<1>2. TypeOK'
  BY <1>1 DEF TypeOK
<1>3. SizeInv' /\ PlainInv'
  BY <1>1 DEF SizeInv, PlainInv
<1> QED BY <1>1, <1>2, <1>3 DEF MapInv, FindInv, InsertInv, ShiftInv, RehashInv

LEMMA ReturnKeeps == ASSUME MapInv, Return PROVE MapInv'
<1>1. /\ TypeOK /\ SizeInv /\ PlainInv
      /\ pc = "return" /\ pc' = "ready" /\ call' = NoCall /\ oom' = oom
      /\ buckets' = buckets /\ nbuckets' = nbuckets /\ cap' = cap /\ count' = count
      /\ entry' = Free /\ i' = 0 /\ j' = 0 /\ fresh' = <<>> /\ ret' = Null
      /\ loadfactor' = loadfactor /\ growpower' = growpower /\ growat' = growat
      /\ NewCap' = Cardinality(DOMAIN <<>>)
  BY DEF MapInv, Return, tuning, NewCap
<1>2. NewCap' = 0 /\ fresh' \in [0 .. NewCap' - 1 -> Bucket]
  BY <1>1, NoFresh
<1>3. TypeOK'
  BY <1>1, <1>2, FreeIs DEF TypeOK
<1>4. SizeInv' /\ PlainInv'
  BY <1>1, <1>2 DEF SizeInv, PlainInv
<1> QED BY <1>1, <1>3, <1>4 DEF MapInv, FindInv, InsertInv, ShiftInv, RehashInv

LEMMA GetOrDeleteKeeps == ASSUME MapInv, GetOrDelete PROVE MapInv'
<1>1. /\ TypeOK /\ SizeInv /\ PlainInv
      /\ pc = "begin" /\ call.op \in {"get", "delete"} /\ pc' = "find"
      /\ i' = Home(call.key, nbuckets)
      /\ buckets' = buckets /\ nbuckets' = nbuckets /\ cap' = cap /\ count' = count
      /\ call' = call /\ oom' = oom
      /\ entry' = entry /\ j' = j /\ fresh' = fresh /\ ret' = ret
      /\ loadfactor' = loadfactor /\ growpower' = growpower /\ growat' = growat
      /\ NewCap' = NewCap
  BY DEF MapInv, GetOrDelete, tuning, NewCap
<1>2. call.key \in Key
  BY <1>1, CallIs DEF SizeInv
<1>3. i' \in 0 .. nbuckets - 1
  BY <1>1, <1>2, HomeIs, BasicsHold DEF Basics
<1>4. NotBefore(call.key, buckets, i', nbuckets)
  BY <1>1, <1>2, NotBeforeHome, BasicsHold DEF Basics
<1>5. TypeOK'
  BY <1>1, <1>3, BasicsHold DEF TypeOK, Basics
<1>6. SizeInv' /\ PlainInv' /\ FindInv'
  BY <1>1, <1>4 DEF SizeInv, PlainInv, FindInv
<1> QED BY <1>1, <1>5, <1>6 DEF MapInv, InsertInv, ShiftInv, RehashInv


LEMMA SetLoadFactorKeeps == ASSUME MapInv, SetLoadFactor PROVE MapInv'
<1>1. /\ TypeOK /\ SizeInv /\ PlainInv
      /\ pc = "begin" /\ call.op = "load_factor" /\ pc' = "return"
      /\ loadfactor' = Clamp(call.factor, loadfactor) /\ growat' = GrowAt(nbuckets, loadfactor')
      /\ buckets' = buckets /\ nbuckets' = nbuckets /\ cap' = cap /\ count' = count
      /\ call' = call /\ oom' = oom
      /\ entry' = entry /\ i' = i /\ j' = j /\ fresh' = fresh /\ ret' = ret
      /\ growpower' = growpower /\ NewCap' = NewCap
  BY DEF MapInv, SetLoadFactor, locals, NewCap
<1>2. call.factor \in Int \cup {NaN} /\ loadfactor \in 50 .. 95
  BY <1>1, CallIs DEF SizeInv, TypeOK
<1>3. loadfactor' \in 50 .. 95
  BY <1>1, <1>2 DEF Clamp
<1>4. growat' \in 1 .. nbuckets - 1
  BY <1>1, <1>3, GrowAtIs, BasicsHold DEF Basics
<1>5. TypeOK'
  BY <1>1, <1>3, <1>4 DEF TypeOK
<1>6. SizeInv' /\ PlainInv'
  BY <1>1 DEF SizeInv, PlainInv
<1> QED BY <1>1, <1>5, <1>6 DEF MapInv, FindInv, InsertInv, ShiftInv, RehashInv

LEMMA SetGrowByPowerKeeps == ASSUME MapInv, SetGrowByPower PROVE MapInv'
<1>1. /\ TypeOK /\ SizeInv /\ PlainInv
      /\ pc = "begin" /\ call.op = "grow_by_power" /\ pc' = "return"
      /\ growpower' = (CASE call.power < 1 -> 1 [] call.power > 16 -> 16
                         [] OTHER -> call.power)
      /\ buckets' = buckets /\ nbuckets' = nbuckets /\ cap' = cap /\ count' = count
      /\ call' = call /\ oom' = oom
      /\ entry' = entry /\ i' = i /\ j' = j /\ fresh' = fresh /\ ret' = ret
      /\ loadfactor' = loadfactor /\ growat' = growat /\ NewCap' = NewCap
  BY DEF MapInv, SetGrowByPower, locals, NewCap
<1>2. call.power \in Nat
  BY <1>1, CallIs DEF SizeInv
<1>3. growpower' \in 1 .. 16
  BY <1>1, <1>2
<1>4. TypeOK'
  BY <1>1, <1>3 DEF TypeOK
<1>5. SizeInv' /\ PlainInv'
  BY <1>1 DEF SizeInv, PlainInv
<1> QED BY <1>1, <1>4, <1>5 DEF MapInv, FindInv, InsertInv, ShiftInv, RehashInv

LEMMA WithinIs ==
  ASSUME NEW x \in Nat, NEW y \in Nat, x <= y
  PROVE  \A m \in 0 .. x - 1 : m \in 0 .. y - 1
OBVIOUS

LEMMA ClearKeeps == ASSUME MapInv, Clear PROVE MapInv'
<1> DEFINE wiped == [m \in DOMAIN buckets |-> Free]
           a == Cardinality(DOMAIN buckets)
<1>1. /\ TypeOK /\ SizeInv
      /\ pc = "begin" /\ pc' = "return" /\ count' = 0
      /\ growat' = GrowAt(nbuckets', loadfactor)
      /\ call' = call /\ oom' = oom
      /\ entry' = entry /\ i' = i /\ j' = j /\ fresh' = fresh /\ ret' = ret
      /\ loadfactor' = loadfactor /\ growpower' = growpower /\ NewCap' = NewCap
  BY DEF MapInv, Clear, locals, NewCap
<1>2. \/ cap' = nbuckets /\ buckets' = wiped /\ nbuckets' = nbuckets
      \/ cap' = cap /\ nbuckets' = cap /\ (buckets' = wiped \/ buckets' = Empty(cap))
  BY DEF Clear
<1>3. /\ nbuckets' \in Size /\ nbuckets' \in Nat /\ nbuckets' >= 2 /\ cap' = nbuckets'
      /\ cap' \in Size /\ nbuckets' <= nbuckets
  BY <1>2, BasicsHold DEF Basics
<1>4. /\ a \in Nat /\ nbuckets' <= a /\ DOMAIN buckets = 0 .. a - 1
      /\ wiped \in [0 .. a - 1 -> Bucket] /\ \A m \in 0 .. a - 1 : wiped[m] = Free
  BY <1>1, <1>3, FreeIs, BasicsHold DEF Basics, TypeOK, SizeInv
<1>5. PICK b \in Nat : /\ buckets' \in [0 .. b - 1 -> Bucket] /\ nbuckets' <= b
                       /\ \A m \in 0 .. nbuckets' - 1 : buckets'[m] = Free
  <2>1. CASE buckets' = wiped
    <3> HIDE DEF wiped, a
    <3>1. a \in Nat /\ nbuckets' \in Nat /\ nbuckets' <= a
      BY <1>3, <1>4
    <3>2. \A m \in 0 .. nbuckets' - 1 : m \in 0 .. a - 1
      BY <3>1, WithinIs, Zenon
    <3> QED BY <1>4, <2>1, <3>1, <3>2
  <2>2. CASE buckets' = Empty(cap) /\ nbuckets' = cap
    BY <1>3, <2>2, FreeIs DEF Empty
  <2> QED BY <1>2, <2>1, <2>2
<1>6. /\ Cardinality(DOMAIN buckets') = b
      /\ buckets' \in [0 .. Cardinality(DOMAIN buckets') - 1 -> Bucket]
  BY <1>5, AllocatedIs
<1>7. OrderedMap(buckets', nbuckets', 0)
  <2>1. Occupied(buckets', nbuckets') = {}
    BY <1>5, FreeIs DEF Occupied
  <2> QED BY <2>1, FS_EmptySet DEF OrderedMap, InOrder, Distinct
<1>8. growat' \in 1 .. nbuckets' - 1
  BY <1>1, <1>3, GrowAtIs DEF TypeOK
<1>9. cap' \in MinCap .. nbuckets'
  BY <1>3, SizesAre
<1>10. nbuckets' \in 1 .. Cardinality(DOMAIN buckets')
  BY <1>3, <1>5, <1>6
<1>11. TypeOK'
  BY <1>1, <1>6, <1>8, <1>9, <1>10 DEF TypeOK
<1>12. SizeInv' /\ PlainInv'
  BY <1>1, <1>3, <1>5, <1>6, <1>7 DEF SizeInv, PlainInv
<1> QED BY <1>1, <1>11, <1>12 DEF MapInv, FindInv, InsertInv, ShiftInv, RehashInv

-----------------------------------------------------------------------------
(***************************************************************************)
(* hashmap_set and its loop                                                *)
(***************************************************************************)
\* An insertion begins at the home of its key.
LEMMA InsertBegins ==
  ASSUME NEW B, NEW n, Array(B, n), OrderedMap(B, n, count),
         count \in Nat, count + 1 < n,
         call \in Call, call.op = "set", BeginInsert(call, n),
         buckets' = B, nbuckets' = n, count' = count, call' = call
  PROVE  /\ pc' = "insert" /\ entry' \in Bucket /\ i' \in 0 .. n - 1 /\ j' = j
         /\ fresh' = fresh /\ PlainInv' /\ InsertInv'
<1>1. /\ entry' = [dib |-> 1, key |-> call.key, value |-> call.value]
      /\ i' = Home(call.key, n) /\ pc' = "insert" /\ j' = j /\ fresh' = fresh
  BY DEF BeginInsert
<1>2. call.key \in Key /\ call.value \in Value
  BY CallIs
<1>3. entry' \in Bucket /\ entry'.dib = 1 /\ entry'.key = call.key
  BY <1>1, <1>2 DEF Bucket
<1>4. Fits(entry', B, i', n) /\ NotBefore(call.key, B, i', n)
  BY <1>1, <1>2, <1>3, FitsAtHome, NotBeforeHome
<1>5. i' \in 0 .. n - 1
  BY <1>4 DEF Fits
<1>6. PlainInv'
  BY DEF PlainInv
<1>7. InsertInv'
  BY <1>1, <1>3, <1>4 DEF InsertInv, Swapped
<1> QED BY <1>1, <1>3, <1>5, <1>6, <1>7

\* A rehash begins with all old buckets left and an empty new array.
LEMMA ResizeBegins ==
  ASSUME NEW B, Array(B, nbuckets), OrderedMap(B, nbuckets, count'), count' \in Nat,
         NEW n \in Nat, cap <= RoundUp(n), count' < RoundUp(n),
         call.op \in {"set", "delete"}, call.op = "set" => count' + 1 < RoundUp(n),
         BeginResize(n), buckets' = B, nbuckets' = nbuckets, cap' = cap, call' = call
  PROVE  /\ pc' = "pick" /\ i' = 0 /\ j' = j /\ entry' = entry
         /\ NewCap' \in Nat /\ fresh' \in [0 .. NewCap' - 1 -> Bucket] /\ RehashInv'
<1> DEFINE c == RoundUp(n)
<1>1. fresh' = Empty(c) /\ i' = 0 /\ j' = j /\ entry' = entry /\ pc' = "pick"
  BY DEF BeginResize
<1>2. c \in Size /\ c \in Nat /\ c >= 2
  BY RoundUpIs, SizesAre
<1> HIDE DEF c
<1>3. /\ fresh' \in [0 .. c - 1 -> Bucket] /\ Cardinality(DOMAIN fresh') = c
      /\ Occupied(fresh', c) = {} /\ InOrder(fresh', c) /\ Distinct(fresh', {})
  BY <1>1, <1>2, EmptyIs DEF OrderedMap, Distinct
<1>4. NewCap' = c
  BY <1>3 DEF NewCap
<1>5. Left' = Occupied(B, nbuckets)
  BY <1>1 DEF Left, Occupied
<1>6. Cardinality(Left') + Cardinality({}) = count' /\ Distinct(B, Left')
  BY <1>5, FS_EmptySet DEF OrderedMap
<1>7. cap <= c /\ count' < c /\ (call.op = "set" => count' + 1 < c)
  BY DEF c
<1>8. nbuckets \in Nat /\ 0 <= nbuckets
  BY DEF Array
<1>9. RehashInv'
  BY <1>1, <1>2, <1>3, <1>4, <1>6, <1>7, <1>8 DEF RehashInv
<1> QED BY <1>1, <1>2, <1>3, <1>4, <1>9


LEMMA SetKeeps == ASSUME MapInv, Set PROVE MapInv'
<1>1. /\ TypeOK /\ SizeInv /\ PlainInv /\ Basics
      /\ pc = "begin" /\ call.op = "set" /\ call \in Call
      /\ buckets' = buckets /\ nbuckets' = nbuckets /\ cap' = cap /\ count' = count
      /\ call' = call /\ ret' = ret
      /\ loadfactor' = loadfactor /\ growpower' = growpower /\ growat' = growat
  BY BasicsHold DEF MapInv, Set, tuning, SizeInv
<1>2. Array(buckets, nbuckets) /\ OrderedMap(buckets, nbuckets, count)
  BY <1>1 DEF PlainInv, Basics
<1>3. CASE count < growat /\ BeginInsert(call, nbuckets) /\ oom' = oom
  <2>1. count + 1 < nbuckets /\ count \in Nat
    BY <1>1, <1>3 DEF TypeOK, Basics
  <2>2. /\ pc' = "insert" /\ entry' \in Bucket /\ i' \in 0 .. nbuckets - 1 /\ j' = j
        /\ fresh' = fresh /\ PlainInv' /\ InsertInv'
    BY <1>1, <1>2, <1>3, <2>1, InsertBegins
  <2>3. NewCap' = NewCap
    BY <2>2 DEF NewCap
  <2>4. TypeOK'
    BY <1>1, <1>3, <2>2, <2>3 DEF TypeOK, Basics
  <2>5. SizeInv'
    BY <1>1, <2>2, <2>3 DEF SizeInv
  <2> QED BY <2>2, <2>4, <2>5 DEF MapInv, FindInv, ShiftInv, RehashInv
<1>4. CASE count >= growat /\ BeginResize(nbuckets * 2 ^ growpower) /\ oom' = oom
  <2> DEFINE p == 2 ^ growpower
             n == nbuckets * p
             c == RoundUp(n)
  <2>1. p \in Nat /\ p >= 2
    BY <1>1, PowersAre DEF TypeOK
  <2> HIDE DEF p
  <2>2. n \in Nat /\ n >= 2 * nbuckets
    BY <1>1, <2>1 DEF Basics
  <2>3. c \in Nat /\ c >= n
    BY <2>2, RoundUpIs, SizesAre
  <2> HIDE DEF n
  <2>4. cap <= c /\ count < c /\ count + 1 < c
    BY <1>1, <2>2, <2>3 DEF Basics
  <2>5. BeginResize(n)
    BY <1>4 DEF n, p
  <2> HIDE DEF c
  <2>6. cap <= RoundUp(n) /\ count' < RoundUp(n) /\ count' + 1 < RoundUp(n)
    BY <1>1, <2>4 DEF c
  <2>7. count' \in Nat /\ OrderedMap(buckets, nbuckets, count')
    BY <1>1, <1>2 DEF Basics
  <2>8. /\ pc' = "pick" /\ i' = 0 /\ j' = j /\ entry' = entry
        /\ NewCap' \in Nat /\ fresh' \in [0 .. NewCap' - 1 -> Bucket] /\ RehashInv'
    BY <1>1, <1>2, <2>2, <2>5, <2>6, <2>7, ResizeBegins
  <2>9. TypeOK'
    BY <1>1, <1>4, <2>8 DEF TypeOK
  <2>10. SizeInv'
    BY <1>1, <2>8 DEF SizeInv
  <2> QED BY <2>8, <2>9, <2>10 DEF MapInv, PlainInv, FindInv, InsertInv, ShiftInv
<1>5. CASE oom' = TRUE /\ pc' = "return" /\ UNCHANGED locals
  <2>1. /\ entry' = entry /\ i' = i /\ j' = j /\ fresh' = fresh /\ NewCap' = NewCap
    BY <1>5 DEF locals, NewCap
  <2>2. TypeOK'
    BY <1>1, <1>5, <2>1 DEF TypeOK
  <2>3. SizeInv' /\ PlainInv'
    BY <1>1, <1>5, <2>1 DEF SizeInv, PlainInv
  <2> QED BY <1>5, <2>2, <2>3 DEF MapInv, FindInv, InsertInv, ShiftInv, RehashInv
<1> QED BY <1>3, <1>4, <1>5 DEF Set

\* What stays the same when only the buckets, and what is carried, change.
LEMMA PutTypes ==
  ASSUME TypeOK, SizeInv, Basics, NEW m \in 0 .. nbuckets - 1, NEW e \in Bucket,
         buckets' = Put(buckets, m, e)
  PROVE  /\ DOMAIN buckets' = DOMAIN buckets
         /\ buckets' \in [0 .. Cardinality(DOMAIN buckets') - 1 -> Bucket]
         /\ Array(buckets', nbuckets)
<1> DEFINE a == Cardinality(DOMAIN buckets)
<1>1. buckets \in [0 .. a - 1 -> Bucket] /\ Array(buckets, nbuckets)
  BY DEF TypeOK, Basics
<1>2. DOMAIN buckets' = DOMAIN buckets /\ Array(buckets', nbuckets)
  BY <1>1, PutIs
<1> HIDE DEF a
<1>3. buckets' \in [0 .. a - 1 -> Bucket]
  BY <1>1 DEF Put
<1> QED BY <1>2, <1>3 DEF a

\* The order is one of distances and keys.
LEMMA SameOrder ==
  ASSUME NEW B, NEW C, NEW n, Array(B, n), NEW c, OrderedMap(B, n, c),
         \A l \in 0 .. n - 1 : C[l].dib = B[l].dib /\ C[l].key = B[l].key
  PROVE  OrderedMap(C, n, c)
<1>1. n \in Nat /\ n >= 2
  BY DEF Array
<1>2. Occupied(C, n) = Occupied(B, n)
  BY DEF Occupied
<1>3. \A m \in Occupied(B, n) : m \in 0 .. n - 1 /\ Behind(m, n) \in 0 .. n - 1
  BY <1>1 DEF Occupied, Behind
<1>4. InOrder(C, n)
  BY <1>2, <1>3 DEF InOrder, Seated, OrderedMap
<1>5. Distinct(C, Occupied(C, n))
  BY <1>2, <1>3 DEF Distinct, OrderedMap
<1> QED BY <1>2, <1>4, <1>5 DEF OrderedMap

\* What is carried to a bucket nearer to the home of what it holds, or free,
\* is not in the map.
LEMMA CarriedIsNew ==
  ASSUME MapInv, pc = "insert", buckets[i].dib < entry.dib
  PROVE  \A m \in Occupied(buckets, nbuckets) : buckets[m].key # entry.key
<1>1. /\ InsertInv /\ PlainInv /\ Basics
  BY BasicsHold DEF MapInv
<1>2. /\ Array(buckets, nbuckets) /\ InOrder(buckets, nbuckets)
      /\ i \in 0 .. nbuckets - 1 /\ Fits(entry, buckets, i, nbuckets) /\ entry.key \in Key
  BY <1>1, BucketIs DEF PlainInv, OrderedMap, Basics, InsertInv, Fits
<1>3. CASE Swapped
  BY <1>1, <1>3 DEF InsertInv
<1>4. CASE ~Swapped
  <2>1. NotBefore(entry.key, buckets, i, nbuckets)
    BY <1>1, <1>4 DEF Swapped, InsertInv
  <2>2. buckets[i].dib < Dist(Home(entry.key, nbuckets), i, nbuckets) + 1
    BY <1>2 DEF Fits, Seated
  <2> QED BY <1>2, <2>1, <2>2, NotThere
<1> QED BY <1>3, <1>4

LEMMA InsertPlaceKeeps == ASSUME MapInv, InsertPlace PROVE MapInv'
<1>1. /\ TypeOK /\ SizeInv /\ PlainInv /\ InsertInv /\ Basics
      /\ pc = "insert" /\ call \in Call
      /\ buckets[i].dib = 0 /\ buckets' = Put(buckets, i, entry)
      /\ count' = count + 1 /\ pc' = "return"
      /\ nbuckets' = nbuckets /\ cap' = cap /\ oom' = oom /\ call' = call /\ ret' = ret
      /\ entry' = entry /\ i' = i /\ j' = j /\ fresh' = fresh /\ NewCap' = NewCap
      /\ loadfactor' = loadfactor /\ growpower' = growpower /\ growat' = growat
  BY BasicsHold DEF MapInv, InsertPlace, locals, tuning, NewCap, SizeInv, Put
<1>2. /\ Array(buckets, nbuckets) /\ OrderedMap(buckets, nbuckets, count)
      /\ i \in 0 .. nbuckets - 1 /\ count \in Nat /\ count + 1 < nbuckets
      /\ Fits(entry, buckets, i, nbuckets) /\ call.op = "set"
  BY <1>1 DEF PlainInv, Basics, InsertInv
<1>3. entry \in Bucket /\ entry.dib # 0 /\ entry.dib \in Nat /\ entry.key \in Key
  BY <1>2, BucketIs DEF Fits
<1>4. /\ DOMAIN buckets' = DOMAIN buckets /\ Array(buckets', nbuckets)
      /\ buckets' \in [0 .. Cardinality(DOMAIN buckets') - 1 -> Bucket]
  BY <1>1, <1>2, <1>3, PutTypes
<1>5. Occupied(buckets', nbuckets) = Occupied(buckets, nbuckets) \cup {i} /\ buckets'[i] = entry
  BY <1>1, <1>2, <1>3, PutIs
<1>6. \A l \in 0 .. nbuckets - 1 : l # i => buckets'[l] = buckets[l]
  BY <1>1, <1>2, <1>3, PutIs
<1>7. InOrder(buckets', nbuckets)
  BY <1>1, <1>2, <1>3, TakesBucket DEF OrderedMap
<1>8. \A m \in Occupied(buckets, nbuckets) : buckets[m].key # entry.key
  <2>1. buckets[i].dib < entry.dib
    BY <1>1, <1>3
  <2> QED BY <1>1, <2>1, CarriedIsNew
<1>9. Distinct(buckets', Occupied(buckets', nbuckets))
  <2>1. \A m \in Occupied(buckets, nbuckets) : m # i => buckets'[m] = buckets[m]
    BY <1>6 DEF Occupied
  <2>2. i \notin Occupied(buckets, nbuckets)
    BY <1>1 DEF Occupied
  <2> QED BY <1>2, <1>5, <1>8, <2>1, <2>2 DEF Distinct, OrderedMap
<1>10. Cardinality(Occupied(buckets', nbuckets)) = count + 1
  <2>1. i \notin Occupied(buckets, nbuckets)
    BY <1>1 DEF Occupied
  <2> QED BY <1>2, <1>5, <2>1, OccupiedIs, FS_AddElement DEF OrderedMap
<1>11. TypeOK'
  BY <1>1, <1>2, <1>4 DEF TypeOK
<1>12. SizeInv' /\ PlainInv'
  BY <1>1, <1>2, <1>4, <1>7, <1>9, <1>10 DEF SizeInv, PlainInv, OrderedMap
<1> QED BY <1>1, <1>11, <1>12 DEF MapInv, FindInv, InsertInv, ShiftInv, RehashInv


LEMMA InsertReplaceKeeps == ASSUME MapInv, InsertReplace PROVE MapInv'
<1> DEFINE e == [buckets[i] EXCEPT !.value = entry.value]
<1>1. /\ TypeOK /\ SizeInv /\ PlainInv /\ InsertInv /\ Basics
      /\ pc = "insert" /\ call \in Call
      /\ buckets[i].dib # 0 /\ buckets[i].key = entry.key
      /\ ret' = buckets[i].value /\ pc' = "return"
      /\ nbuckets' = nbuckets /\ cap' = cap /\ oom' = oom /\ call' = call /\ count' = count
      /\ entry' = entry /\ i' = i /\ j' = j /\ fresh' = fresh /\ NewCap' = NewCap
      /\ loadfactor' = loadfactor /\ growpower' = growpower /\ growat' = growat
  BY BasicsHold DEF MapInv, InsertReplace, locals, tuning, NewCap, SizeInv
<1>2. /\ Array(buckets, nbuckets) /\ OrderedMap(buckets, nbuckets, count)
      /\ i \in 0 .. nbuckets - 1 /\ Fits(entry, buckets, i, nbuckets)
  BY <1>1 DEF PlainInv, Basics, InsertInv
<1>3. /\ entry.value \in Value /\ buckets[i] \in Bucket /\ buckets[i].value \in Value
  BY <1>1, <1>2, BucketIs DEF Fits, Array
<1>4. buckets' = Put(buckets, i, e)
  <2>1. buckets' = [buckets EXCEPT ![i] = [@ EXCEPT !.value = entry.value]]
    BY DEF InsertReplace
  <2> QED BY <2>1 DEF Put
<1>5. e \in Bucket /\ e.dib = buckets[i].dib /\ e.key = buckets[i].key
  BY <1>1, <1>3, BucketIs
<1> HIDE DEF e
<1>6. /\ DOMAIN buckets' = DOMAIN buckets /\ Array(buckets', nbuckets)
      /\ buckets' \in [0 .. Cardinality(DOMAIN buckets') - 1 -> Bucket]
  BY <1>1, <1>2, <1>4, <1>5, PutTypes
<1>7. buckets'[i] = e
  BY <1>2, <1>4, <1>5, PutIs
<1>8. \A l \in 0 .. nbuckets - 1 : l # i => buckets'[l] = buckets[l]
  BY <1>2, <1>4, <1>5, PutIs
<1>9. \A l \in 0 .. nbuckets - 1 :
        buckets'[l].dib = buckets[l].dib /\ buckets'[l].key = buckets[l].key
  BY <1>5, <1>7, <1>8
<1>10. OrderedMap(buckets', nbuckets, count)
  BY <1>2, <1>9, SameOrder
<1>11. TypeOK'
  BY <1>1, <1>3, <1>6 DEF TypeOK
<1>12. SizeInv' /\ PlainInv'
  BY <1>1, <1>6, <1>10 DEF SizeInv, PlainInv
<1> QED BY <1>1, <1>11, <1>12 DEF MapInv, FindInv, InsertInv, ShiftInv, RehashInv

LEMMA InsertNextKeeps == ASSUME MapInv, InsertNext PROVE MapInv'
<1> DEFINE carried == IF Displaces(buckets[i], entry) THEN buckets[i] ELSE entry
           C == IF Displaces(buckets[i], entry) THEN Put(buckets, i, entry) ELSE buckets
<1>1. /\ TypeOK /\ SizeInv /\ PlainInv /\ InsertInv /\ Basics
      /\ pc = "insert" /\ call \in Call
      /\ buckets[i].dib # 0 /\ buckets[i].key # entry.key
      /\ i' = (i + 1) % nbuckets
      /\ pc' = pc /\ ret' = ret
      /\ nbuckets' = nbuckets /\ cap' = cap /\ oom' = oom /\ call' = call /\ count' = count
      /\ j' = j /\ fresh' = fresh /\ NewCap' = NewCap
      /\ loadfactor' = loadfactor /\ growpower' = growpower /\ growat' = growat
  BY BasicsHold DEF MapInv, InsertNext, tuning, NewCap, SizeInv
<1>2. /\ Array(buckets, nbuckets) /\ OrderedMap(buckets, nbuckets, count)
      /\ i \in 0 .. nbuckets - 1 /\ Fits(entry, buckets, i, nbuckets)
      /\ nbuckets \in Nat /\ nbuckets >= 2 /\ count < nbuckets
      /\ call.op = "set" /\ count + 1 < nbuckets
  BY <1>1 DEF PlainInv, Basics, InsertInv
<1>3. buckets' = C /\ entry' = [carried EXCEPT !.dib = @ + 1]
  BY DEF InsertNext, Put
<1>4. i' = Ahead(i, nbuckets) /\ i' \in 0 .. nbuckets - 1
  BY <1>1, <1>2, RingIs
<1>5. \E f \in 0 .. nbuckets - 1 : buckets[f].dib = 0
  BY <1>2, OccupiedIs DEF OrderedMap
<1>6. /\ Array(C, nbuckets) /\ DOMAIN C = DOMAIN buckets /\ InOrder(C, nbuckets)
      /\ Occupied(C, nbuckets) = Occupied(buckets, nbuckets)
      /\ Fits([carried EXCEPT !.dib = @ + 1], C, Ahead(i, nbuckets), nbuckets)
  BY <1>1, <1>2, <1>5, CarriedOn DEF OrderedMap
<1>7. /\ entry \in Bucket /\ entry.dib # 0 /\ entry.dib \in Nat /\ entry.key \in Key
      /\ buckets[i] \in Bucket /\ buckets[i].key \in Key /\ call.key \in Key
      /\ buckets[i].dib \in Nat /\ i \in Occupied(buckets, nbuckets)
  BY <1>1, <1>2, BucketIs, CallIs DEF Fits, Array, Occupied
<1>8. C \in [0 .. Cardinality(DOMAIN C) - 1 -> Bucket]
  BY <1>1, <1>2, <1>3, <1>7, PutTypes DEF TypeOK
<1>9. entry'.key = carried.key /\ entry' \in Bucket
  BY <1>3, <1>6, <1>7 DEF Fits
\* Who is displaced is in the map no more, and who displaces was not in it.
<1> DEFINE Still ==
      /\ Distinct(C, Occupied(C, nbuckets))
      /\ entry'.key = call.key => NotBefore(call.key, C, i', nbuckets)
      /\ entry'.key # call.key => \A m \in Occupied(C, nbuckets) : C[m].key # entry'.key
<1>10. ASSUME Displaces(buckets[i], entry) PROVE Still
  <2>1. \A m \in Occupied(buckets, nbuckets) : buckets[m].key # entry.key
    BY <1>1, <1>10, CarriedIsNew DEF Displaces
  <2>2. C[i] = entry
    BY <1>2, <1>7, <1>10, PutIs
  <2>3. \A l \in 0 .. nbuckets - 1 : l # i => C[l] = buckets[l]
    BY <1>2, <1>7, <1>10, PutIs
  <2>4. \A l \in Occupied(buckets, nbuckets) : l # i => C[l] = buckets[l]
    BY <2>3 DEF Occupied
  <2> HIDE DEF C
  <2>5. Distinct(C, Occupied(C, nbuckets))
    BY <1>2, <1>6, <2>1, <2>2, <2>4 DEF Distinct, OrderedMap
  <2>6. \A m \in Occupied(C, nbuckets) : C[m].key # buckets[i].key
    BY <1>1, <1>2, <1>6, <1>7, <2>2, <2>4 DEF Distinct, OrderedMap
  <2>7. entry'.key = buckets[i].key
    BY <1>9, <1>10
  <2>8. entry'.key = call.key => NotBefore(call.key, C, i', nbuckets)
    BY <2>6, <2>7 DEF NotBefore
  <2> QED BY <2>5, <2>6, <2>7, <2>8, Zenon
<1>11. ASSUME ~Displaces(buckets[i], entry) PROVE Still
  <2>1. C = buckets /\ entry'.key = entry.key
    BY <1>9, <1>11
  <2> HIDE DEF C
  <2>2. Distinct(C, Occupied(C, nbuckets))
    BY <1>2, <2>1 DEF OrderedMap
  <2>3. entry'.key = call.key => NotBefore(call.key, C, i', nbuckets)
    BY <1>1, <1>2, <1>4, <1>7, <2>1, PassedOn DEF InsertInv
  <2>4. entry'.key # call.key => \A m \in Occupied(C, nbuckets) : C[m].key # entry'.key
    BY <1>1, <2>1 DEF InsertInv, Swapped
  <2> QED BY <2>2, <2>3, <2>4
<1>12. Still
  BY <1>10, <1>11, Zenon
<1> HIDE DEF C, carried
<1>13. OrderedMap(C, nbuckets, count)
  BY <1>2, <1>6, <1>12 DEF OrderedMap
<1>14. TypeOK'
  BY <1>1, <1>2, <1>3, <1>4, <1>6, <1>8, <1>9 DEF TypeOK
<1>15. SizeInv' /\ PlainInv'
  BY <1>1, <1>3, <1>6, <1>13 DEF SizeInv, PlainInv
<1>16. InsertInv'
  BY <1>1, <1>2, <1>3, <1>4, <1>6, <1>12 DEF InsertInv, Swapped
<1> QED BY <1>1, <1>14, <1>15, <1>16 DEF MapInv, FindInv, ShiftInv, RehashInv

-----------------------------------------------------------------------------
(***************************************************************************)
(* The loops of hashmap_get and hashmap_delete                             *)
(***************************************************************************)
LEMMA FindNextKeeps == ASSUME MapInv, FindNext PROVE MapInv'
<1>1. /\ TypeOK /\ SizeInv /\ PlainInv /\ FindInv /\ Basics
      /\ pc = "find" /\ pc' = pc /\ call \in Call
      /\ buckets[i].key # call.key /\ i' = (i + 1) % nbuckets
      /\ buckets' = buckets /\ nbuckets' = nbuckets /\ cap' = cap /\ count' = count
      /\ call' = call /\ oom' = oom
      /\ entry' = entry /\ j' = j /\ fresh' = fresh /\ ret' = ret
      /\ loadfactor' = loadfactor /\ growpower' = growpower /\ growat' = growat
      /\ NewCap' = NewCap
  BY BasicsHold DEF MapInv, FindNext, tuning, NewCap, SizeInv
<1>2. /\ call.op \in {"get", "delete"} /\ call.key \in Key
      /\ NotBefore(call.key, buckets, i, nbuckets)
      /\ Array(buckets, nbuckets) /\ i \in 0 .. nbuckets - 1
      /\ nbuckets \in Nat /\ nbuckets >= 2
  BY <1>1, CallIs DEF FindInv, Basics
<1>3. i' = Ahead(i, nbuckets) /\ i' \in 0 .. nbuckets - 1
  BY <1>1, <1>2, RingIs
<1>4. NotBefore(call.key, buckets, i', nbuckets)
  BY <1>1, <1>2, <1>3, PassedOn
<1>5. TypeOK'
  BY <1>1, <1>2, <1>3 DEF TypeOK
<1>6. SizeInv' /\ PlainInv' /\ FindInv'
  BY <1>1, <1>2, <1>4 DEF SizeInv, PlainInv, FindInv
<1> QED BY <1>1, <1>5, <1>6 DEF MapInv, InsertInv, ShiftInv, RehashInv

LEMMA FoundOrNotKeeps == ASSUME MapInv, NotFound \/ GetFound PROVE MapInv'
<1>1. /\ TypeOK /\ SizeInv /\ PlainInv /\ Basics
      /\ pc = "find" /\ pc' = "return"
      /\ buckets' = buckets /\ nbuckets' = nbuckets /\ cap' = cap /\ count' = count
      /\ call' = call /\ oom' = oom
      /\ entry' = entry /\ i' = i /\ j' = j /\ fresh' = fresh
      /\ loadfactor' = loadfactor /\ growpower' = growpower /\ growat' = growat
      /\ NewCap' = NewCap
  BY BasicsHold DEF MapInv, NotFound, GetFound, Found, locals, tuning, NewCap
<1>2. ret' \in Value \cup {Null}
  <2>1. CASE NotFound
    BY <1>1, <2>1 DEF NotFound, TypeOK
  <2>2. CASE GetFound
    <3>1. buckets[i].dib # 0 /\ ret' = buckets[i].value
      BY <2>2 DEF GetFound, Found
    <3>2. buckets[i] \in Bucket
      BY <1>1 DEF Basics, Array
    <3> QED BY <3>1, <3>2, BucketIs
  <2> QED BY <2>1, <2>2
<1>3. TypeOK'
  BY <1>1, <1>2 DEF TypeOK
<1>4. SizeInv' /\ PlainInv'
  BY <1>1 DEF SizeInv, PlainInv
<1> QED BY <1>1, <1>3, <1>4 DEF MapInv, FindInv, InsertInv, ShiftInv, RehashInv

\* The entry is taken out and its bucket becomes the hole of the shift.
LEMMA DeleteFoundKeeps == ASSUME MapInv, DeleteFound PROVE MapInv'
<1>1. /\ TypeOK /\ SizeInv /\ PlainInv /\ Basics
      /\ pc = "find" /\ pc' = "shift" /\ call \in Call /\ call.op = "delete"
      /\ buckets[i].dib # 0 /\ ret' = buckets[i].value
      /\ buckets' = Put(buckets, i, Free)
      /\ nbuckets' = nbuckets /\ cap' = cap /\ count' = count
      /\ call' = call /\ oom' = oom
      /\ entry' = entry /\ i' = i /\ j' = j /\ fresh' = fresh
      /\ loadfactor' = loadfactor /\ growpower' = growpower /\ growat' = growat
      /\ NewCap' = NewCap
  BY BasicsHold DEF MapInv, DeleteFound, Found, locals, tuning, NewCap, SizeInv, Put
<1>2. /\ Array(buckets, nbuckets) /\ OrderedMap(buckets, nbuckets, count)
      /\ i \in 0 .. nbuckets - 1 /\ i \in Occupied(buckets, nbuckets)
  BY <1>1 DEF PlainInv, Basics, Occupied
<1>3. buckets[i] \in Bucket /\ ret' \in Value
  BY <1>1, <1>2, BucketIs DEF Array
<1>4. /\ DOMAIN buckets' = DOMAIN buckets /\ Array(buckets', nbuckets)
      /\ buckets' \in [0 .. Cardinality(DOMAIN buckets') - 1 -> Bucket]
  BY <1>1, <1>2, FreeIs, PutTypes
<1>5. Occupied(buckets', nbuckets) = Occupied(buckets, nbuckets) \ {i}
  BY <1>1, <1>2, FreeIs, PutIs
<1>6. \A l \in 0 .. nbuckets - 1 : l # i => buckets'[l] = buckets[l]
  BY <1>1, <1>2, FreeIs, PutIs
<1>7. InOrderBut(buckets', nbuckets, i)
  BY <1>1, <1>2, HoleMade DEF OrderedMap
<1>8. Distinct(buckets', Occupied(buckets', nbuckets) \ {i})
  <2>1. \A l \in Occupied(buckets', nbuckets) :
          l \in Occupied(buckets, nbuckets) /\ buckets'[l] = buckets[l]
    BY <1>5, <1>6 DEF Occupied
  <2> QED BY <1>2, <2>1 DEF Distinct, OrderedMap
<1>9. Cardinality(Occupied(buckets', nbuckets) \ {i}) = count - 1
  <2>1. Cardinality(Occupied(buckets, nbuckets) \ {i}) = count - 1
    BY <1>2, OccupiedIs, FS_RemoveElement DEF OrderedMap
  <2>2. Occupied(buckets', nbuckets) \ {i} = Occupied(buckets, nbuckets) \ {i}
    BY <1>5
  <2> QED BY <2>1, <2>2
<1>10. TypeOK'
  BY <1>1, <1>2, <1>3, <1>4 DEF TypeOK
<1>11. SizeInv' /\ ShiftInv'
  BY <1>1, <1>4, <1>7, <1>8, <1>9 DEF SizeInv, ShiftInv
<1> QED BY <1>1, <1>10, <1>11 DEF MapInv, PlainInv, FindInv, InsertInv, RehashInv

\* The hole moves on; the buckets that hold an entry besides it are as many
\* as before, and hold the same keys.
LEMMA ShiftBackKeeps == ASSUME MapInv, ShiftBack PROVE MapInv'
<1> DEFINE a == Ahead(i, nbuckets)
           e == [buckets[a] EXCEPT !.dib = @ - 1]
           S == Occupied(buckets, nbuckets)
           T == Occupied(buckets', nbuckets)
<1>1. /\ TypeOK /\ SizeInv /\ ShiftInv /\ Basics
      /\ pc = "shift" /\ pc' = pc /\ call \in Call
      /\ nbuckets' = nbuckets /\ cap' = cap /\ count' = count
      /\ call' = call /\ oom' = oom /\ ret' = ret
      /\ entry' = entry /\ j' = j /\ fresh' = fresh
      /\ loadfactor' = loadfactor /\ growpower' = growpower /\ growat' = growat
      /\ NewCap' = NewCap
  BY BasicsHold DEF MapInv, ShiftBack, tuning, NewCap, SizeInv
<1>2. /\ Array(buckets, nbuckets) /\ InOrderBut(buckets, nbuckets, i)
      /\ i \in 0 .. nbuckets - 1 /\ nbuckets \in Nat /\ nbuckets >= 2
  BY <1>1 DEF ShiftInv, Basics
<1>3. (i + 1) % nbuckets = a /\ a \in 0 .. nbuckets - 1 /\ a # i
  <2>1. (i + 1) % nbuckets = a /\ a \in 0 .. nbuckets - 1
    BY <1>2, RingIs
  <2>2. a # i
    BY <1>2 DEF Ahead
  <2> QED BY <2>1, <2>2
<1>4. buckets' = Put(buckets, i, e) /\ i' = a /\ buckets[a].dib > 1
  BY <1>3 DEF ShiftBack, Shifts, Put
<1>5. /\ buckets[a] \in Bucket /\ buckets[a].dib \in Nat /\ buckets[a].dib - 1 \in Nat \ {0}
      /\ a \in S
  BY <1>2, <1>3, <1>4, BucketIs DEF Array, Occupied
<1>6. e \in Bucket /\ e.dib # 0 /\ e.key = buckets[a].key
  <2>1. e = [buckets[a] EXCEPT !.dib = buckets[a].dib - 1]
    OBVIOUS
  <2> QED BY <1>4, <1>5, <2>1, BucketIs
<1>7. InOrderBut(buckets', nbuckets, a)
  BY <1>2, <1>4, HoleMoves
<1> HIDE DEF a, e
<1>8. /\ DOMAIN buckets' = DOMAIN buckets /\ Array(buckets', nbuckets)
      /\ buckets' \in [0 .. Cardinality(DOMAIN buckets') - 1 -> Bucket]
  BY <1>1, <1>2, <1>4, <1>6, PutTypes
<1>9. buckets'[i] = e /\ T = S \cup {i}
  <2>1. buckets'[i] = e
    BY <1>2, <1>4, <1>6, PutIs
  <2>2. Occupied(buckets', nbuckets) = Occupied(buckets, nbuckets) \cup {i}
    BY <1>2, <1>4, <1>6, PutIs
  <2> QED BY <2>1, <2>2
<1>10. \A l \in 0 .. nbuckets - 1 : l # i => buckets'[l] = buckets[l]
  BY <1>2, <1>4, <1>6, PutIs
<1>11. \A l \in S \ {i} : buckets'[l] = buckets[l]
  BY <1>10 DEF Occupied
<1>12. Distinct(buckets, S \ {i}) /\ Cardinality(S \ {i}) = count - 1 /\ call.op = "delete"
  BY <1>1 DEF ShiftInv
<1>13. IsFiniteSet(S)
  BY <1>2, OccupiedIs
<1> HIDE DEF S, T
<1>14. Distinct(buckets', T \ {a})
  BY <1>3, <1>5, <1>6, <1>9, <1>11, <1>12 DEF Distinct
<1>15. Cardinality(T \ {a}) = count - 1
  <2>1. IsFiniteSet(S \ {i}) /\ a \in S \ {i}
    BY <1>3, <1>5, <1>13, FS_Subset
  <2> DEFINE R == (S \ {i}) \ {a}
  <2>2. IsFiniteSet(R) /\ Cardinality(R) = (count - 1) - 1
    BY <1>12, <2>1, FS_RemoveElement
  <2>3. T \ {a} = R \cup {i} /\ i \notin R
    BY <1>3, <1>9
  <2> HIDE DEF R
  <2>4. Cardinality(R \cup {i}) = Cardinality(R) + 1
    BY <2>2, <2>3, FS_AddElement
  <2>5. count \in Nat
    BY <1>1 DEF Basics
  <2> QED BY <2>2, <2>3, <2>4, <2>5
<1>16. TypeOK'
  BY <1>1, <1>2, <1>3, <1>4, <1>8 DEF TypeOK
<1>17. SizeInv'
  BY <1>1, <1>8 DEF SizeInv
<1>18. ShiftInv'
  BY <1>1, <1>4, <1>7, <1>12, <1>14, <1>15 DEF ShiftInv, T
<1> QED BY <1>1, <1>16, <1>17, <1>18 DEF MapInv, PlainInv, FindInv, InsertInv, RehashInv

\* The hole becomes a free bucket, and the map stays as it is or is moved to a
\* smaller array, which is still large enough.
LEMMA ShiftEndKeeps == ASSUME MapInv, ShiftEnd PROVE MapInv'
<1>1. /\ TypeOK /\ SizeInv /\ ShiftInv /\ Basics
      /\ pc = "shift" /\ call \in Call
      /\ buckets' = Put(buckets, i, Free) /\ count' = count - 1
      /\ nbuckets' = nbuckets /\ cap' = cap
      /\ call' = call /\ oom' = oom /\ ret' = ret
      /\ loadfactor' = loadfactor /\ growpower' = growpower /\ growat' = growat
  BY BasicsHold DEF MapInv, ShiftEnd, tuning, SizeInv, Put
<1>2. /\ Array(buckets, nbuckets) /\ InOrderBut(buckets, nbuckets, i)
      /\ i \in 0 .. nbuckets - 1 /\ nbuckets \in Nat /\ nbuckets >= 2
      /\ call.op = "delete"
  BY <1>1 DEF ShiftInv, Basics
<1>3. (i + 1) % nbuckets = Ahead(i, nbuckets)
  BY <1>2, RingIs
<1>4. ~ (buckets[Ahead(i, nbuckets)].dib > 1)
  BY <1>3 DEF ShiftEnd, Shifts
<1>5. InOrder(buckets', nbuckets)
  BY <1>1, <1>2, <1>4, HoleCloses
<1>6. /\ DOMAIN buckets' = DOMAIN buckets /\ Array(buckets', nbuckets)
      /\ buckets' \in [0 .. Cardinality(DOMAIN buckets') - 1 -> Bucket]
  BY <1>1, <1>2, FreeIs, PutTypes
<1>7. Occupied(buckets', nbuckets) = Occupied(buckets, nbuckets) \ {i}
  BY <1>1, <1>2, FreeIs, PutIs
<1>8. \A l \in 0 .. nbuckets - 1 : l # i => buckets'[l] = buckets[l]
  BY <1>1, <1>2, FreeIs, PutIs
<1>9. OrderedMap(buckets', nbuckets, count') /\ count' \in Nat
  <2>1. \A l \in Occupied(buckets', nbuckets) :
          l \in Occupied(buckets, nbuckets) \ {i} /\ buckets'[l] = buckets[l]
    BY <1>7, <1>8 DEF Occupied
  <2>2. Distinct(buckets', Occupied(buckets', nbuckets))
    BY <1>1, <2>1 DEF ShiftInv, Distinct
  <2>3. Cardinality(Occupied(buckets', nbuckets)) = count'
    BY <1>1, <1>7 DEF ShiftInv
  <2> QED BY <1>5, <1>6, <2>2, <2>3, OccupiedIs DEF OrderedMap
<1>10. count' < nbuckets /\ count \in Nat
  BY <1>1 DEF Basics
<1>11. CASE /\ nbuckets > cap /\ count - 1 <= ShrinkAt(nbuckets)
            /\ BeginResize(nbuckets \div 2)
  <2>1. cap \in Size /\ cap \in Nat /\ cap >= MinCap /\ nbuckets \in Size
    BY <1>1, SizesAre DEF Basics
  <2>2. nbuckets # MinCap
    BY <1>11, <2>1
  <2>3. PICK m \in Size : nbuckets = 2 * m
    BY <2>1, <2>2, SizesAre
  <2>4. m \in Nat /\ nbuckets \div 2 = m /\ cap <= m
    <3>1. m \in Nat /\ 2 * cap <= nbuckets
      BY <1>11, <2>1, <2>3, SizesAre
    <3> QED BY <2>1, <2>3, <3>1
  <2>5. RoundUp(m) \in Nat /\ RoundUp(m) >= m
    BY <2>4, RoundUpIs, SizesAre
  <2>6. count' < m
    <3>1. count' <= (2 * m) \div 10
      BY <1>1, <1>11, <2>3 DEF ShrinkAt
    <3>2. m >= 2
      BY <2>3, SizesAre
    <3> QED BY <1>9, <2>4, <3>1, <3>2
  <2>7. cap <= RoundUp(m) /\ count' < RoundUp(m)
    BY <1>9, <2>1, <2>4, <2>5, <2>6
  <2>8. BeginResize(m)
    BY <1>11, <2>4
  <2>9. /\ pc' = "pick" /\ i' = 0 /\ j' = j /\ entry' = entry
        /\ NewCap' \in Nat /\ fresh' \in [0 .. NewCap' - 1 -> Bucket] /\ RehashInv'
    BY <1>1, <1>2, <1>6, <1>9, <2>4, <2>7, <2>8, ResizeBegins
  <2>10. TypeOK'
    BY <1>1, <1>6, <1>9, <2>9 DEF TypeOK
  <2>11. SizeInv'
    BY <1>1, <1>6, <1>10, <2>9 DEF SizeInv
  <2> QED BY <2>9, <2>10, <2>11 DEF MapInv, PlainInv, FindInv, InsertInv, ShiftInv
<1>12. CASE pc' = "return" /\ UNCHANGED locals
  <2>1. entry' = entry /\ i' = i /\ j' = j /\ fresh' = fresh /\ NewCap' = NewCap
    BY <1>12 DEF locals, NewCap
  <2>2. TypeOK'
    BY <1>1, <1>6, <1>9, <1>12, <2>1 DEF TypeOK
  <2>3. SizeInv' /\ PlainInv'
    BY <1>1, <1>6, <1>9, <1>10, <1>12, <2>1 DEF SizeInv, PlainInv
  <2> QED BY <1>12, <2>2, <2>3 DEF MapInv, FindInv, InsertInv, ShiftInv, RehashInv
<1> QED BY <1>11, <1>12 DEF ShiftEnd

-----------------------------------------------------------------------------
(***************************************************************************)
(* resize0                                                                 *)
(***************************************************************************)
LEMMA PickFreeKeeps == ASSUME MapInv, PickFree PROVE MapInv'
<1>1. /\ TypeOK /\ SizeInv /\ RehashInv /\ Basics
      /\ pc = "pick" /\ pc' = pc /\ i < nbuckets /\ buckets[i].dib = 0 /\ i' = i + 1
      /\ buckets' = buckets /\ nbuckets' = nbuckets /\ cap' = cap /\ count' = count
      /\ call' = call /\ oom' = oom
      /\ entry' = entry /\ j' = j /\ fresh' = fresh /\ ret' = ret
      /\ loadfactor' = loadfactor /\ growpower' = growpower /\ growat' = growat
      /\ NewCap' = NewCap
  BY BasicsHold DEF MapInv, PickFree, tuning, NewCap
<1>2. i \in Nat /\ nbuckets \in Nat
  BY <1>1 DEF Basics
<1>3. Left' = Left
  BY <1>1, <1>2 DEF Left, Occupied
<1>4. TypeOK'
  BY <1>1, <1>2 DEF TypeOK
<1>5. SizeInv'
  BY <1>1 DEF SizeInv
<1>6. RehashInv'
  BY <1>1, <1>2, <1>3 DEF RehashInv
<1> QED BY <1>1, <1>4, <1>5, <1>6 DEF MapInv, PlainInv, FindInv, InsertInv, ShiftInv

LEMMA PickEntryKeeps == ASSUME MapInv, PickEntry PROVE MapInv'
<1> DEFINE e == [buckets[i] EXCEPT !.dib = 1]
<1>1. /\ TypeOK /\ SizeInv /\ RehashInv /\ Basics
      /\ pc = "pick" /\ pc' = "rehash" /\ i < nbuckets /\ buckets[i].dib # 0
      /\ j' = Home(buckets[i].key, NewCap)
      /\ nbuckets' = nbuckets /\ cap' = cap /\ count' = count
      /\ call' = call /\ oom' = oom /\ ret' = ret
      /\ entry' = entry /\ i' = i /\ fresh' = fresh
      /\ loadfactor' = loadfactor /\ growpower' = growpower /\ growat' = growat
      /\ NewCap' = NewCap
  BY BasicsHold DEF MapInv, PickEntry, tuning, NewCap
<1>2. /\ Array(buckets, nbuckets) /\ i \in 0 .. nbuckets - 1
      /\ Array(fresh, NewCap) /\ NewCap \in Nat /\ NewCap >= 2
  BY <1>1 DEF Basics, Array
<1>3. buckets' = Put(buckets, i, e)
  <2>1. buckets' = [buckets EXCEPT ![i] = [@ EXCEPT !.dib = 1]]
    BY DEF PickEntry
  <2> QED BY <2>1 DEF Put
<1>4. /\ e \in Bucket /\ e.dib = 1 /\ e.key = buckets[i].key /\ e.key \in Key
  <2>1. buckets[i] \in Bucket /\ 1 \in Nat \ {0}
    BY <1>2 DEF Array
  <2> QED BY <1>1, <2>1, BucketIs
<1> HIDE DEF e
<1>5. /\ DOMAIN buckets' = DOMAIN buckets /\ Array(buckets', nbuckets)
      /\ buckets' \in [0 .. Cardinality(DOMAIN buckets') - 1 -> Bucket]
  BY <1>1, <1>2, <1>3, <1>4, PutTypes
<1>6. buckets'[i] = e
  BY <1>2, <1>3, <1>4, PutIs
<1>7. \A l \in 0 .. nbuckets - 1 : l # i => buckets'[l] = buckets[l]
  BY <1>2, <1>3, <1>4, PutIs
<1>8. Occupied(buckets', nbuckets) = Occupied(buckets, nbuckets)
  BY <1>1, <1>4, <1>6, <1>7 DEF Occupied
<1>9. /\ Left' = Left /\ i \in Left
      /\ \A l \in Left : l \in 0 .. nbuckets - 1 /\ buckets'[l].key = buckets[l].key
  <2>1. Left' = Left /\ i \in Left
    BY <1>1, <1>2, <1>8 DEF Left, Occupied
  <2>2. \A l \in Left : l \in 0 .. nbuckets - 1
    BY DEF Left, Occupied
  <2> QED BY <1>4, <1>6, <1>7, <2>1, <2>2
<1>10. Fits(buckets'[i], fresh, j', NewCap)
  BY <1>1, <1>2, <1>4, <1>6, FitsAtHome
<1>11. j' \in 0 .. NewCap - 1
  BY <1>10 DEF Fits
<1>12. TypeOK'
  BY <1>1, <1>2, <1>5, <1>11 DEF TypeOK
<1>13. SizeInv'
  BY <1>1, <1>5 DEF SizeInv
<1>14. Distinct(buckets', Left) /\ \A m \in Left, l \in Occupied(fresh, NewCap) :
                                     buckets'[m].key # fresh[l].key
  BY <1>1, <1>9 DEF RehashInv, Distinct
<1>15. RehashInv'
  BY <1>1, <1>9, <1>10, <1>14 DEF RehashInv
<1> QED BY <1>1, <1>12, <1>13, <1>15 DEF MapInv, PlainInv, FindInv, InsertInv, ShiftInv

LEMMA RehashPlaceKeeps == ASSUME MapInv, RehashPlace PROVE MapInv'
<1> DEFINE n == NewCap
           S == Occupied(fresh, n)
<1>1. /\ TypeOK /\ SizeInv /\ RehashInv /\ Basics
      /\ pc = "rehash" /\ pc' = "pick" /\ i' = i + 1 /\ fresh[j].dib = 0
      /\ fresh' = Put(fresh, j, buckets[i])
      /\ buckets' = buckets /\ nbuckets' = nbuckets /\ cap' = cap /\ count' = count
      /\ call' = call /\ oom' = oom /\ ret' = ret
      /\ entry' = entry /\ j' = j
      /\ loadfactor' = loadfactor /\ growpower' = growpower /\ growat' = growat
  BY BasicsHold DEF MapInv, RehashPlace, tuning, Put
<1>2. /\ Array(fresh, n) /\ InOrder(fresh, n) /\ n \in Nat /\ j \in 0 .. n - 1
      /\ i \in Left /\ Fits(buckets[i], fresh, j, n)
      /\ i \in Nat /\ nbuckets \in Nat /\ i < nbuckets
      /\ DOMAIN fresh = 0 .. n - 1
  BY <1>1 DEF RehashInv, Basics
<1>3. buckets[i] \in Bucket /\ buckets[i].dib # 0 /\ buckets[i].dib \in Nat
  BY <1>2, BucketIs DEF Fits
<1>4. DOMAIN fresh' = DOMAIN fresh /\ fresh'[j] = buckets[i]
  BY <1>1, <1>2, <1>3, PutIs
<1>5. \A l \in 0 .. n - 1 : l # j => fresh'[l] = fresh[l]
  BY <1>1, <1>2, <1>3, PutIs
<1>6. Occupied(fresh', n) = S \cup {j}
  BY <1>1, <1>2, <1>3, PutIs
<1>7. InOrder(fresh', n)
  BY <1>1, <1>2, <1>3, TakesBucket
<1>8. NewCap' = NewCap
  BY <1>4 DEF NewCap
<1>9. fresh' \in [0 .. NewCap' - 1 -> Bucket]
  BY <1>1, <1>2, <1>3, <1>8 DEF Put, Basics
<1>10. Left' = Left \ {i}
  BY <1>1, <1>2 DEF Left, Occupied
<1>11. /\ Distinct(buckets, Left) /\ Distinct(fresh, S)
       /\ \A m \in Left, l \in S : buckets[m].key # fresh[l].key
       /\ Cardinality(Left) + Cardinality(S) = count
  BY <1>1 DEF RehashInv
<1>12. j \notin S /\ \A l \in S : fresh'[l] = fresh[l]
  BY <1>1, <1>5 DEF Occupied
<1> HIDE DEF S
<1>13. /\ Distinct(buckets, Left') /\ Distinct(fresh', S \cup {j})
       /\ \A m \in Left', l \in S \cup {j} : buckets[m].key # fresh'[l].key
  BY <1>2, <1>4, <1>10, <1>11, <1>12 DEF Distinct
<1>14. Cardinality(Left') + Cardinality(S \cup {j}) = count
  <2>1. IsFiniteSet(S) /\ Cardinality(S) \in Nat
    BY <1>2, OccupiedIs DEF S
  <2>2. IsFiniteSet(Left) /\ Cardinality(Left) \in Nat
    <3>1. IsFiniteSet(Occupied(buckets, nbuckets))
      BY <1>1, OccupiedIs DEF Basics
    <3>2. Left \subseteq Occupied(buckets, nbuckets)
      BY DEF Left
    <3> QED BY <3>1, <3>2, FS_Subset, FS_CardinalityType
  <2>3. Cardinality(S \cup {j}) = Cardinality(S) + 1
    BY <1>12, <2>1, FS_AddElement
  <2>4. Cardinality(Left \ {i}) = Cardinality(Left) - 1
    BY <1>2, <2>2, FS_RemoveElement
  <2> QED BY <1>10, <1>11, <2>1, <2>2, <2>3, <2>4
<1> HIDE DEF n
<1>15. TypeOK'
  BY <1>1, <1>2, <1>9 DEF TypeOK
<1>16. SizeInv'
  BY <1>1, <1>8 DEF SizeInv
<1>17. RehashInv'
  <2>1. /\ InOrder(fresh', NewCap')
        /\ Distinct(buckets', Left') /\ Distinct(fresh', Occupied(fresh', NewCap'))
        /\ \A m \in Left', l \in Occupied(fresh', NewCap') : buckets'[m].key # fresh'[l].key
        /\ Cardinality(Left') + Cardinality(Occupied(fresh', NewCap')) = count'
    BY <1>1, <1>6, <1>7, <1>8, <1>13, <1>14 DEF n
  <2>2. i' <= nbuckets'
    BY <1>1, <1>2
  <2>3. /\ call'.op \in {"set", "delete"} /\ NewCap' \in Size /\ cap' <= NewCap'
        /\ count' < NewCap' /\ (call'.op = "set" => count' + 1 < NewCap')
    BY <1>1, <1>8 DEF RehashInv
  <2> QED BY <1>1, <2>1, <2>2, <2>3 DEF RehashInv
<1> QED BY <1>1, <1>15, <1>16, <1>17 DEF MapInv, PlainInv, FindInv, InsertInv, ShiftInv

LEMMA RehashNextKeeps == ASSUME MapInv, RehashNext PROVE MapInv'
<1> DEFINE n == NewCap
           S == Occupied(fresh, n)
           carried == IF Displaces(fresh[j], buckets[i]) THEN fresh[j] ELSE buckets[i]
           e == [carried EXCEPT !.dib = @ + 1]
           C == IF Displaces(fresh[j], buckets[i]) THEN Put(fresh, j, buckets[i]) ELSE fresh
<1>1. /\ TypeOK /\ SizeInv /\ RehashInv /\ Basics
      /\ pc = "rehash" /\ pc' = pc /\ fresh[j].dib # 0
      /\ j' = (j + 1) % n
      /\ nbuckets' = nbuckets /\ cap' = cap /\ count' = count
      /\ call' = call /\ oom' = oom /\ ret' = ret
      /\ entry' = entry /\ i' = i
      /\ loadfactor' = loadfactor /\ growpower' = growpower /\ growat' = growat
  BY BasicsHold DEF MapInv, RehashNext, tuning
<1>2. /\ Array(fresh, n) /\ InOrder(fresh, n) /\ n \in Nat /\ n >= 2 /\ j \in 0 .. n - 1
      /\ i \in Left /\ Fits(buckets[i], fresh, j, n)
      /\ i \in 0 .. nbuckets - 1 /\ Array(buckets, nbuckets)
      /\ DOMAIN fresh = 0 .. n - 1
  BY <1>1 DEF RehashInv, Basics, Array
<1>3. buckets' = Put(buckets, i, e) /\ fresh' = C
  BY DEF RehashNext, Put
<1>4. /\ Distinct(buckets, Left) /\ Distinct(fresh, S)
      /\ \A m \in Left, l \in S : buckets[m].key # fresh[l].key
      /\ Cardinality(Left) + Cardinality(S) = count /\ count < n
  BY <1>1 DEF RehashInv
<1>5. IsFiniteSet(Left) /\ Cardinality(Left) \in Nat /\ Left \subseteq 0 .. nbuckets - 1
  <2>1. IsFiniteSet(Occupied(buckets, nbuckets))
    BY <1>2, OccupiedIs
  <2>2. Left \subseteq Occupied(buckets, nbuckets) /\ Left \subseteq 0 .. nbuckets - 1
    BY DEF Left, Occupied
  <2> QED BY <2>1, <2>2, FS_Subset, FS_CardinalityType
<1>6. \E f \in 0 .. n - 1 : fresh[f].dib = 0
  <2>1. Cardinality(S) \in Nat /\ (Cardinality(S) < n => \E f \in 0 .. n - 1 : fresh[f].dib = 0)
    BY <1>2, OccupiedIs
  <2> QED BY <1>2, <1>4, <1>5, <2>1
<1>7. /\ Array(C, n) /\ DOMAIN C = DOMAIN fresh /\ InOrder(C, n)
      /\ Occupied(C, n) = Occupied(fresh, n)
      /\ Fits(e, C, Ahead(j, n), n)
  BY <1>1, <1>2, <1>6, CarriedOn
<1>8. j' = Ahead(j, n) /\ j' \in 0 .. n - 1
  BY <1>1, <1>2, RingIs
<1>9. NewCap' = NewCap
  BY <1>3, <1>7 DEF NewCap
<1>10. fresh' \in [0 .. NewCap' - 1 -> Bucket]
  <2>1. buckets[i] \in Bucket
    BY <1>2 DEF Fits
  <2>2. Put(fresh, j, buckets[i]) \in [0 .. n - 1 -> Bucket]
    BY <1>1, <1>2, <2>1 DEF Put, Basics
  <2>3. fresh \in [0 .. n - 1 -> Bucket]
    BY <1>1, <1>2 DEF Basics
  <2> QED BY <1>3, <1>9, <2>2, <2>3
<1>11. /\ buckets[i] \in Bucket /\ buckets[i].dib # 0 /\ buckets[i].key \in Key
       /\ fresh[j] \in Bucket /\ fresh[j].key \in Key /\ j \in S
  BY <1>1, <1>2, BucketIs DEF Fits, Array, Occupied
<1>12. e \in Bucket /\ e.dib # 0 /\ e.key = carried.key
  BY <1>7, <1>11 DEF Fits, Bucket
<1> HIDE DEF e
<1>13. /\ DOMAIN buckets' = DOMAIN buckets /\ Array(buckets', nbuckets)
       /\ buckets' \in [0 .. Cardinality(DOMAIN buckets') - 1 -> Bucket]
  BY <1>1, <1>2, <1>3, <1>12, PutTypes
<1>14. buckets'[i] = e
  BY <1>2, <1>3, <1>12, PutIs
<1>15. \A l \in 0 .. nbuckets - 1 : l # i => buckets'[l] = buckets[l]
  BY <1>2, <1>3, <1>12, PutIs
<1>16. Left' = Left
  <2>1. Occupied(buckets', nbuckets) = Occupied(buckets, nbuckets) \cup {i}
    BY <1>2, <1>3, <1>12, PutIs
  <2>2. Occupied(buckets', nbuckets) = Occupied(buckets, nbuckets)
    BY <1>2, <2>1 DEF Left
  <2> QED BY <1>1, <2>2 DEF Left
<1>17. \A l \in Left : l # i => buckets'[l] = buckets[l]
  BY <1>5, <1>15
\* The old and the new array hold the same keys as before, one of which may
\* have changed sides.
<1> DEFINE Still == /\ Distinct(buckets', Left) /\ Distinct(C, S)
                    /\ \A m \in Left, l \in S : buckets'[m].key # C[l].key
<1>18. ASSUME Displaces(fresh[j], buckets[i]) PROVE Still
  <2>1. C[j] = buckets[i]
    BY <1>2, <1>11, <1>18, PutIs
  <2>2. \A l \in 0 .. n - 1 : l # j => C[l] = fresh[l]
    BY <1>2, <1>11, <1>18, PutIs
  <2>3. \A l \in S : l # j => C[l] = fresh[l]
    BY <2>2 DEF Occupied
  <2>4. buckets'[i].key = fresh[j].key
    BY <1>12, <1>14, <1>18
  <2> HIDE DEF C, S
  <2>5. Distinct(buckets', Left)
    BY <1>4, <1>11, <1>17, <2>4 DEF Distinct
  <2>6. Distinct(C, S)
    BY <1>2, <1>4, <1>11, <2>1, <2>3 DEF Distinct
  <2>7. \A m \in Left, l \in S : buckets'[m].key # C[l].key
    <3> SUFFICES ASSUME NEW m \in Left, NEW l \in S PROVE buckets'[m].key # C[l].key
      OBVIOUS
    <3>1. CASE m = i /\ l = j
      BY <1>2, <1>4, <1>11, <2>1, <2>4, <3>1
    <3>2. CASE m = i /\ l # j
      BY <1>4, <1>11, <2>3, <2>4, <3>2 DEF Distinct
    <3>3. CASE m # i /\ l = j
      BY <1>2, <1>4, <1>17, <2>1, <3>3 DEF Distinct
    <3>4. CASE m # i /\ l # j
      BY <1>4, <1>17, <2>3, <3>4
    <3> QED BY <3>1, <3>2, <3>3, <3>4
  <2> QED BY <2>5, <2>6, <2>7
<1>19. ASSUME ~Displaces(fresh[j], buckets[i]) PROVE Still
  <2>1. C = fresh /\ buckets'[i].key = buckets[i].key
    BY <1>12, <1>14, <1>19
  <2> HIDE DEF C, S
  <2> QED BY <1>2, <1>4, <1>17, <2>1 DEF Distinct
<1>20. Still
  BY <1>18, <1>19, Zenon
<1>21. Fits(buckets'[i], C, j', n)
  BY <1>7, <1>8, <1>14
<1> HIDE DEF C, carried, n
<1>22. TypeOK'
  BY <1>1, <1>2, <1>8, <1>9, <1>10, <1>13 DEF TypeOK, n
<1>23. SizeInv'
  BY <1>1, <1>9, <1>13 DEF SizeInv
<1>24. RehashInv'
  BY <1>1, <1>2, <1>3, <1>4, <1>7, <1>9, <1>16, <1>20, <1>21 DEF RehashInv, n
<1> QED BY <1>1, <1>22, <1>23, <1>24 DEF MapInv, PlainInv, FindInv, InsertInv, ShiftInv

\* No old bucket is left, so that the new array holds the map.
LEMMA RehashedKeeps == ASSUME MapInv, Rehashed PROVE MapInv'
<1> DEFINE n == NewCap
<1>1. /\ TypeOK /\ SizeInv /\ RehashInv /\ Basics /\ call \in Call
      /\ pc = "pick" /\ i = nbuckets
      /\ buckets' = fresh /\ nbuckets' = n /\ growat' = GrowAt(n, GROW_AT)
      /\ cap' = cap /\ count' = count /\ call' = call /\ oom' = oom /\ ret' = ret
      /\ loadfactor' = loadfactor /\ growpower' = growpower
  BY BasicsHold DEF MapInv, Rehashed, SizeInv
<1>2. /\ Array(fresh, n) /\ n \in Nat /\ n >= 2 /\ n \in Size /\ cap <= n /\ count < n
      /\ cap \in Nat /\ cap \in Size /\ count \in Nat
      /\ fresh \in [0 .. n - 1 -> Bucket]
      /\ call.op \in {"set", "delete"} /\ (call.op = "set" => count + 1 < n)
  BY <1>1 DEF RehashInv, Basics, Array
<1>3. Left = {}
  BY <1>1 DEF Left, Occupied, Basics
<1>4. OrderedMap(fresh, n, count)
  <2>1. Cardinality(Occupied(fresh, n)) \in Nat /\ Cardinality({}) = 0
    BY <1>2, OccupiedIs, FS_EmptySet
  <2> QED BY <1>1, <1>3, <2>1 DEF RehashInv, OrderedMap
<1>5. growat' \in 1 .. n - 1
  BY <1>1, <1>2, GrowAtIs DEF GROW_AT
<1>6. Cardinality(DOMAIN buckets') = n /\ cap' \in MinCap .. n
  BY <1>1, <1>2, SizesAre, AllocatedIs
<1>7. CASE call.op = "set" /\ BeginInsert(call, n)
  <2>1. /\ pc' = "insert" /\ entry' \in Bucket /\ i' \in 0 .. n - 1 /\ j' = j
        /\ fresh' = fresh /\ PlainInv' /\ InsertInv'
    BY <1>1, <1>2, <1>4, <1>7, InsertBegins
  <2>2. NewCap' = NewCap
    BY <2>1 DEF NewCap
  <2> HIDE DEF n
  <2>3. TypeOK'
    BY <1>1, <1>2, <1>5, <1>6, <2>1, <2>2 DEF TypeOK, Basics
  <2>4. SizeInv'
    BY <1>1, <1>2, <1>6, <2>1, <2>2 DEF SizeInv
  <2> QED BY <2>1, <2>3, <2>4 DEF MapInv, FindInv, ShiftInv, RehashInv
<1>8. CASE pc' = "return" /\ UNCHANGED locals
  <2>1. entry' = entry /\ i' = i /\ j' = j /\ fresh' = fresh /\ NewCap' = NewCap
    BY <1>8 DEF locals, NewCap
  <2> HIDE DEF n
  <2>2. TypeOK'
    BY <1>1, <1>2, <1>5, <1>6, <1>8, <2>1 DEF TypeOK
  <2>3. SizeInv' /\ PlainInv'
    BY <1>1, <1>2, <1>4, <1>6, <1>8, <2>1 DEF SizeInv, PlainInv
  <2> QED BY <1>8, <2>2, <2>3 DEF MapInv, FindInv, InsertInv, ShiftInv, RehashInv
<1> QED BY <1>7, <1>8 DEF Rehashed

-----------------------------------------------------------------------------
(***************************************************************************)
(* The theorems                                                            *)
(***************************************************************************)
LEMMA NextKeepsMap == MapInv /\ [Next]_vars => MapInv'
<1> SUFFICES ASSUME MapInv, [Next]_vars PROVE MapInv'
  OBVIOUS
<1>1. CASE InsertPlace \/ InsertReplace \/ InsertNext
  BY <1>1, InsertPlaceKeeps, InsertReplaceKeeps, InsertNextKeeps, Zenon
<1>2. CASE PickFree \/ PickEntry \/ RehashPlace \/ RehashNext \/ Rehashed
  BY <1>2, PickFreeKeeps, PickEntryKeeps, RehashPlaceKeeps, RehashNextKeeps, RehashedKeeps,
     Zenon
<1>3. CASE Set \/ GetOrDelete \/ Clear \/ SetLoadFactor \/ SetGrowByPower
  BY <1>3, SetKeeps, GetOrDeleteKeeps, ClearKeeps, SetLoadFactorKeeps, SetGrowByPowerKeeps,
     Zenon
<1>4. CASE FindNext \/ NotFound \/ GetFound
  BY <1>4, FindNextKeeps, FoundOrNotKeeps, Zenon
<1>5. CASE DeleteFound \/ ShiftBack \/ ShiftEnd \/ Return
  BY <1>5, DeleteFoundKeeps, ShiftBackKeeps, ShiftEndKeeps, ReturnKeeps, Zenon
<1>6. CASE \E c \in Call : Begin(c)
  BY <1>6, BeginKeeps
<1>7. CASE UNCHANGED vars
  <2>1. /\ buckets' = buckets /\ nbuckets' = nbuckets /\ cap' = cap /\ count' = count
        /\ oom' = oom /\ pc' = pc /\ call' = call /\ ret' = ret
        /\ entry' = entry /\ i' = i /\ j' = j /\ fresh' = fresh
        /\ loadfactor' = loadfactor /\ growpower' = growpower /\ growat' = growat
    BY <1>7 DEF vars, tuning, locals
  <2>2. NewCap' = NewCap /\ Left' = Left /\ (Swapped' <=> Swapped)
    BY <2>1 DEF NewCap, Left, Occupied, Swapped
  <2>3. TypeOK' /\ SizeInv' /\ PlainInv'
    BY <2>1, <2>2 DEF MapInv, TypeOK, SizeInv, PlainInv
  <2>4. FindInv' /\ InsertInv'
    BY <2>1, <2>2 DEF MapInv, FindInv, InsertInv
  <2>5. ShiftInv' /\ RehashInv'
    BY <2>1, <2>2 DEF MapInv, ShiftInv, RehashInv
  <2> QED BY <2>3, <2>4, <2>5 DEF MapInv
<1> QED BY <1>1, <1>2, <1>3, <1>4, <1>5, <1>6, <1>7, Zenon DEF Next, Inside

THEOREM MapInvariant == Spec => []MapInv
<1> QED BY InitMap, NextKeepsMap, PTL DEF Spec

\* Whatever its callers do and whatever allocations fail, the variables of the
\* map have their types: no index leaves the buckets in use, which lie inside
\* the allocation, and growat lets an insertion begin only while a bucket
\* stays free (hashmap_set_with_hash, resize0, hashmap_clear).
THEOREM TypeCorrect == Spec => []TypeOK
<1>1. MapInv => TypeOK
  BY DEF MapInv
<1> QED BY <1>1, MapInvariant, PTL

\* The robin-hood order as the property states it.
LEMMA OrderIs ==
  ASSUME NEW B, NEW n, Array(B, n), InOrder(B, n)
  PROVE  \A m \in 0 .. n - 1 :
           B[m].dib # 0 =>
             /\ (Home(B[m].key, n) + B[m].dib - 1) % n = m
             /\ B[m].dib <= B[(m + n - 1) % n].dib + 1
<1> SUFFICES ASSUME NEW m \in 0 .. n - 1, B[m].dib # 0
             PROVE  /\ (Home(B[m].key, n) + B[m].dib - 1) % n = m
                    /\ B[m].dib <= B[(m + n - 1) % n].dib + 1
  OBVIOUS
<1>1. n \in Nat /\ n >= 2
  BY DEF Array
<1>2. Seated(B[m], m, n) /\ B[m].dib <= B[Behind(m, n)].dib + 1
  BY DEF InOrder, Occupied
<1>3. (m + n - 1) % n = Behind(m, n)
  BY <1>1, RingIs
<1> DEFINE h == Home(B[m].key, n)
<1>4. h \in 0 .. n - 1
  BY <1>1, BucketIs, HomeIs DEF Array
<1>5. B[m].dib = Dist(h, m, n) + 1
  BY <1>2 DEF Seated
<1> HIDE DEF h
<1>6. (h + B[m].dib - 1) % n = m
  <2>1. CASE h <= m
    <3>1. h + B[m].dib - 1 = m
      BY <1>1, <1>4, <1>5, <2>1 DEF Dist
    <3> QED BY <1>1, <3>1
  <2>2. CASE ~ (h <= m)
    <3>1. h + B[m].dib - 1 = m + n
      BY <1>1, <1>4, <1>5, <2>2 DEF Dist
    <3>2. \A l \in 0 .. n - 1 : (l + n) % n = l
      BY <1>1
    <3> QED BY <1>1, <3>1, <3>2
  <2> QED BY <2>1, <2>2
<1> QED BY <1>2, <1>3, <1>6 DEF h

\* Between calls the buckets are in robin-hood order, so that a probe that
\* stops at the first free bucket has not missed its key, and the backward
\* shift of a deletion may stop at the first entry that is at home
\* (hashmap_get_with_hash, hashmap_delete_with_hash).
THEOREM KeepsRobinHood == Spec => []RobinHood
<1>1. MapInv => RobinHood
  <2> SUFFICES ASSUME MapInv, pc = "ready"
               PROVE  \A m \in 0 .. nbuckets - 1 :
                        buckets[m].dib # 0 =>
                          /\ (Home(buckets[m].key, nbuckets) + buckets[m].dib - 1) % nbuckets = m
                          /\ buckets[m].dib <= buckets[(m + nbuckets - 1) % nbuckets].dib + 1
    BY DEF RobinHood
  <2>1. Array(buckets, nbuckets) /\ InOrder(buckets, nbuckets)
    BY BasicsHold DEF Basics, MapInv, PlainInv, OrderedMap
  <2> QED BY <2>1, OrderIs
<1> QED BY <1>1, MapInvariant, PTL

-----------------------------------------------------------------------------
(***************************************************************************)
(* The entries of the map                                                  *)
(***************************************************************************)
\* The buckets and the new buckets that hold an entry.
Kept == {m \in Occupied(buckets, nbuckets) :
           (pc = "shift" => m # i) /\ (pc \in {"pick", "rehash"} => m >= i)}
Moved == {m \in Occupied(fresh, NewCap) : pc \in {"pick", "rehash"}}

LEMMA EntriesAre ==
  ASSUME MapInv
  PROVE  Entries = {<<"buckets", m, buckets[m]>> : m \in Kept}
                   \cup {<<"fresh", m, fresh[m]>> : m \in Moved}
                   \cup {e \in {<<"entry", 0, entry>>} : Swapped}
<1>1. DOMAIN fresh = 0 .. NewCap - 1
  BY BasicsHold DEF Basics
<1>2. {e \in {<<"buckets", m, buckets[m]>> : m \in 0 .. nbuckets - 1} :
         /\ e[3].dib # 0
         /\ pc = "shift" => e[2] # i
         /\ pc \in {"pick", "rehash"} => e[2] >= i}
      = {<<"buckets", m, buckets[m]>> : m \in Kept}
  BY DEF Kept, Occupied
<1>3. {e \in {<<"fresh", m, fresh[m]>> : m \in DOMAIN fresh} :
         pc \in {"pick", "rehash"} /\ e[3].dib # 0}
      = {<<"fresh", m, fresh[m]>> : m \in Moved}
  BY <1>1 DEF Moved, Occupied
<1> QED BY <1>2, <1>3 DEF Entries

\* The keys of the buckets that count differ, from each other and from that of
\* an entry that an insertion has displaced.
LEMMA KeysDiffer ==
  ASSUME MapInv
  PROVE  /\ Distinct(buckets, Kept) /\ Distinct(fresh, Moved)
         /\ \A m \in Kept, l \in Moved : buckets[m].key # fresh[l].key
         /\ Swapped => Moved = {} /\ \A m \in Kept : buckets[m].key # entry.key
         /\ Kept \subseteq Occupied(buckets, nbuckets)
<1>1. TypeOK /\ PlainInv /\ InsertInv /\ ShiftInv /\ RehashInv
  BY DEF MapInv
<1>2. Kept \subseteq Occupied(buckets, nbuckets)
  BY DEF Kept
<1>3. CASE pc \in {"ready", "begin", "return", "insert", "find"}
  <2>1. Moved = {} /\ Distinct(buckets, Kept)
    BY <1>1, <1>2, <1>3 DEF Moved, PlainInv, OrderedMap, Distinct
  <2>2. Swapped => \A m \in Kept : buckets[m].key # entry.key
    BY <1>1, <1>2 DEF InsertInv, Swapped
  <2> QED BY <1>2, <2>1, <2>2 DEF Distinct
<1>4. CASE pc = "shift"
  <2>1. Moved = {} /\ Kept = Occupied(buckets, nbuckets) \ {i} /\ ~Swapped
    BY <1>4 DEF Moved, Kept, Swapped
  <2> QED BY <1>1, <1>2, <1>4, <2>1 DEF ShiftInv, Distinct
<1>5. CASE pc \in {"pick", "rehash"}
  <2>1. Moved = Occupied(fresh, NewCap) /\ Kept = Left /\ ~Swapped
    BY <1>5 DEF Moved, Kept, Left, Swapped
  <2> QED BY <1>1, <1>2, <1>5, <2>1 DEF RehashInv
<1> QED BY <1>1, <1>3, <1>4, <1>5 DEF TypeOK

InBuckets(x) == \E m \in Kept : x = <<"buckets", m, buckets[m]>>
InFresh(x) == \E m \in Moved : x = <<"fresh", m, fresh[m]>>
InEntry(x) == Swapped /\ x = <<"entry", 0, entry>>

LEMMA DifferentKeys ==
  ASSUME MapInv PROVE \A d, e \in Entries : d[3].key = e[3].key => d = e
<1> SUFFICES ASSUME NEW d \in Entries, NEW e \in Entries, d[3].key = e[3].key
             PROVE  d = e
  OBVIOUS
<1>1. /\ InBuckets(d) \/ InFresh(d) \/ InEntry(d)
      /\ InBuckets(e) \/ InFresh(e) \/ InEntry(e)
  BY EntriesAre DEF InBuckets, InFresh, InEntry
<1>2. CASE InBuckets(d) /\ InBuckets(e)
  BY <1>2, KeysDiffer DEF Distinct, InBuckets
<1>3. CASE InFresh(d) /\ InFresh(e)
  BY <1>3, KeysDiffer DEF Distinct, InFresh
<1>4. CASE (InBuckets(d) /\ InFresh(e)) \/ (InFresh(d) /\ InBuckets(e))
  BY <1>4, KeysDiffer DEF InBuckets, InFresh
<1>5. CASE InEntry(d) \/ InEntry(e)
  <2>1. Swapped /\ Moved = {} /\ \A m \in Kept : buckets[m].key # entry.key
    BY <1>5, KeysDiffer DEF InEntry
  <2>2. ~InFresh(d) /\ ~InFresh(e)
    BY <2>1 DEF InFresh
  <2>3. CASE InEntry(d) /\ InEntry(e)
    BY <2>3 DEF InEntry
  <2>4. CASE (InEntry(d) /\ InBuckets(e)) \/ (InBuckets(d) /\ InEntry(e))
    BY <2>1, <2>4 DEF InEntry, InBuckets
  <2> QED BY <1>1, <1>5, <2>2, <2>3, <2>4, Zenon
<1> QED BY <1>1, <1>2, <1>3, <1>4, <1>5, Zenon

LEMMA CountIs == ASSUME MapInv, pc = "ready" PROVE count = Cardinality(Entries)
<1> DEFINE S == Occupied(buckets, nbuckets)
           T == {<<"buckets", m, buckets[m]>> : m \in S}
           f == [m \in S |-> <<"buckets", m, buckets[m]>>]
<1>1. Kept = S /\ Moved = {} /\ ~Swapped
  BY DEF Kept, Moved, Swapped
<1>2. Entries = T
  BY <1>1, EntriesAre
<1>3. IsFiniteSet(S) /\ Cardinality(S) = count
  BY OccupiedIs, BasicsHold DEF MapInv, PlainInv, OrderedMap, Basics
<1>4. ExistsBijection(S, T)
  <2>1. f \in [S -> T]
    OBVIOUS
  <2>2. \A a, b \in S : f[a] = f[b] => a = b
    OBVIOUS
  <2>3. \A t \in T : \E s \in S : f[s] = t
    OBVIOUS
  <2> HIDE DEF f, S, T
  <2>4. f \in Bijection(S, T)
    BY <2>1, <2>2, <2>3 DEF Bijection, Injection, Surjection, IsInjective
  <2> QED BY <2>4 DEF ExistsBijection
<1>5. Cardinality(T) = Cardinality(S)
  BY <1>3, <1>4, FS_Bijection
<1> QED BY <1>2, <1>3, <1>5

\* No swap of an insertion, shift of a deletion or rehash loses an entry or
\* holds one twice, in the middle of a call too, and count is the number of
\* the entries (hashmap_set_with_hash, hashmap_delete_with_hash, resize0).
THEOREM HoldsEachKeyOnce == Spec => []EachKeyOnce
<1>1. MapInv => EachKeyOnce
  BY DifferentKeys, CountIs DEF EachKeyOnce
<1> QED BY <1>1, MapInvariant, PTL

-----------------------------------------------------------------------------
(***************************************************************************)
(* The map implements Dictionary.  What an insertion and the answer of a   *)
(* call need besides MapInv: nothing is returned before a call is          *)
(* answered; a key that has been put down is not met again by the entry    *)
(* that it displaced, as all buckets from it up to that entry are occupied *)
(* and one bucket is free.                                                 *)
(***************************************************************************)
AllOccupied(B, p, m, n) ==
  \A x \in 0 .. n - 1 : Dist(p, x, n) < Dist(p, m, n) => B[x].dib # 0

CarryInv ==
  /\ pc \in {"ready", "begin", "insert", "find"} => ret = Null
  /\ pc \in {"pick", "rehash"} /\ call.op = "set" => ret = Null
  /\ pc = "insert" /\ entry.key = call.key => entry.value = call.value
  /\ Swapped => \E p \in Occupied(buckets, nbuckets) :
                  /\ buckets[p].key = call.key /\ p # i
                  /\ AllOccupied(buckets, p, i, nbuckets)

LEMMA InitCarry == Init => CarryInv
  BY DEF Init, CarryInv, Swapped

\* All actions but those of the insertion loop.
LEMMA OthersKeepCarry ==
  ASSUME MapInv, CarryInv, Next, ~InsertPlace, ~InsertReplace, ~InsertNext
  PROVE  CarryInv'
<1>1. CASE Set
  BY <1>1 DEF Set, CarryInv, Swapped, BeginInsert, BeginResize
<1>2. CASE Rehashed
  BY <1>2 DEF Rehashed, CarryInv, Swapped, BeginInsert, MapInv, RehashInv
<1>3. CASE GetOrDelete \/ FindNext \/ PickFree \/ PickEntry \/ RehashPlace \/ RehashNext
  BY <1>3 DEF GetOrDelete, FindNext, PickFree, PickEntry, RehashPlace, RehashNext,
              CarryInv, Swapped
<1>4. CASE NotFound \/ GetFound \/ DeleteFound \/ ShiftBack
  BY <1>4 DEF NotFound, GetFound, DeleteFound, ShiftBack, Found, CarryInv, Swapped
<1>5. CASE ShiftEnd
  BY <1>5 DEF ShiftEnd, BeginResize, CarryInv, Swapped, MapInv, ShiftInv
<1>6. CASE Clear \/ SetLoadFactor \/ SetGrowByPower \/ Return
  BY <1>6 DEF Clear, SetLoadFactor, SetGrowByPower, Return, CarryInv, Swapped
<1>7. CASE \E c \in Call : Begin(c)
  BY <1>7 DEF Begin, CarryInv, Swapped
<1> QED BY <1>1, <1>2, <1>3, <1>4, <1>5, <1>6, <1>7 DEF Next, Inside

\* A bucket ahead of an occupied one.
LEMMA AllOccupiedOn ==
  ASSUME NEW B, NEW C, NEW n, Array(B, n), Array(C, n), Occupied(C, n) = Occupied(B, n),
         NEW p \in 0 .. n - 1, NEW m \in Occupied(B, n), AllOccupied(B, p, m, n),
         \E f \in 0 .. n - 1 : B[f].dib = 0
  PROVE  Ahead(m, n) # p /\ AllOccupied(C, p, Ahead(m, n), n)
<1>1. n \in Nat /\ n >= 2 /\ m \in 0 .. n - 1 /\ Ahead(m, n) \in 0 .. n - 1
  BY RingIs DEF Array, Occupied
<1>2. \A x \in 0 .. n - 1 : Dist(p, x, n) <= Dist(p, m, n) => B[x].dib # 0
  <2>1. \A x \in 0 .. n - 1 : Dist(p, x, n) = Dist(p, m, n) => x = m
    BY <1>1 DEF Dist
  <2>2. \A x \in 0 .. n - 1 : Dist(p, x, n) \in Nat /\ Dist(p, m, n) \in Nat
    BY <1>1 DEF Dist
  <2>3. B[m].dib # 0
    BY DEF Occupied
  <2> QED BY <2>1, <2>2, <2>3 DEF AllOccupied
<1>3. Ahead(m, n) # p
  <2> SUFFICES ASSUME Ahead(m, n) = p PROVE FALSE
    OBVIOUS
  <2>1. \A x \in 0 .. n - 1 : Dist(p, x, n) <= Dist(p, m, n)
    BY <1>1 DEF Dist, Ahead
  <2> QED BY <1>2, <2>1
<1>4. \A x \in 0 .. n - 1 :
        Dist(p, x, n) < Dist(p, Ahead(m, n), n) => Dist(p, x, n) <= Dist(p, m, n)
  BY <1>1, <1>3 DEF Dist, Ahead
<1>5. \A x \in 0 .. n - 1 : B[x].dib # 0 => C[x].dib # 0
  BY DEF Occupied
<1> QED BY <1>2, <1>3, <1>4, <1>5 DEF AllOccupied

\* The displaced entry is not the one that the insertion has put down, which
\* is behind.
LEMMA DisplacedIsOther ==
  ASSUME MapInv, CarryInv, InsertNext, Displaces(buckets[i], entry)
  PROVE  /\ entry'.key = buckets[i].key /\ entry'.value = buckets[i].value
         /\ entry'.key # call.key
<1>1. /\ pc = "insert" /\ buckets[i].dib # 0 /\ buckets[i].key # entry.key
      /\ entry' = [buckets[i] EXCEPT !.dib = @ + 1]
  BY DEF InsertNext
<1>2. /\ buckets[i] \in Bucket /\ i \in Occupied(buckets, nbuckets)
      /\ Distinct(buckets, Occupied(buckets, nbuckets))
  BY <1>1, BasicsHold DEF MapInv, PlainInv, OrderedMap, Basics, Array, Occupied
<1>3. entry'.key = buckets[i].key /\ entry'.value = buckets[i].value
  BY <1>1, <1>2 DEF Bucket, Free
<1>4. CASE entry.key = call.key
  BY <1>1, <1>3, <1>4
<1>5. CASE entry.key # call.key
  <2>1. PICK p \in Occupied(buckets, nbuckets) : buckets[p].key = call.key /\ p # i
    BY <1>1, <1>5 DEF CarryInv, Swapped
  <2> QED BY <1>2, <1>3, <2>1 DEF Distinct
<1> QED BY <1>3, <1>4, <1>5

LEMMA InsertNextKeepsCarry ==
  ASSUME MapInv, MapInv', CarryInv, InsertNext PROVE CarryInv'
<1> DEFINE B == buckets
           n == nbuckets
<1>1. /\ InsertInv /\ PlainInv /\ Basics /\ Basics' /\ InsertInv' /\ PlainInv'
      /\ pc = "insert" /\ pc' = pc
      /\ B[i].dib # 0 /\ B[i].key # entry.key
      /\ i' = (i + 1) % n /\ n' = n /\ ret' = ret /\ call' = call
  <2>1. MapInv' => Basics'
    BY BasicsHold, PTL
  <2> QED BY <2>1, BasicsHold DEF MapInv, InsertNext
<1>2. /\ Array(B, n) /\ Array(B', n) /\ OrderedMap(B, n, count)
      /\ i \in 0 .. n - 1 /\ i \in Occupied(B, n) /\ Fits(entry, B, i, n)
      /\ n \in Nat /\ n >= 2 /\ count < n
  BY <1>1 DEF Basics, PlainInv, InsertInv, Occupied
<1>3. i' = Ahead(i, n)
  BY <1>1, <1>2, RingIs
<1>4. entry \in Bucket /\ entry.dib # 0 /\ entry.dib \in Nat /\ B[i] \in Bucket
  BY <1>2, BucketIs DEF Fits, Array
<1>5. \E f \in 0 .. n - 1 : B[f].dib = 0
  BY <1>2, OccupiedIs DEF OrderedMap
<1>6. ret' = Null
  BY <1>1 DEF CarryInv
<1>7. ASSUME ~Displaces(B[i], entry)
      PROVE  /\ entry'.key = call.key => entry'.value = call.value
             /\ entry'.key # call.key =>
                  \E p \in Occupied(B', n) :
                    B'[p].key = call.key /\ p # i' /\ AllOccupied(B', p, i', n)
  <2>1. B' = B /\ entry' = [entry EXCEPT !.dib = @ + 1]
    BY <1>7 DEF InsertNext
  <2>2. entry'.key = entry.key /\ entry'.value = entry.value
    BY <1>4, <2>1 DEF Bucket
  <2>3. ASSUME entry.key # call.key
        PROVE  \E p \in Occupied(B', n) :
                 B'[p].key = call.key /\ p # i' /\ AllOccupied(B', p, i', n)
    <3>1. PICK p \in Occupied(B, n) : B[p].key = call.key /\ p # i /\ AllOccupied(B, p, i, n)
      BY <1>1, <2>3 DEF CarryInv, Swapped
    <3>2. p \in 0 .. n - 1
      BY DEF Occupied
    <3>3. i' # p /\ AllOccupied(B', p, i', n)
      BY <1>2, <1>3, <1>5, <2>1, <3>1, <3>2, AllOccupiedOn
    <3> QED BY <2>1, <3>1, <3>3
  <2> QED BY <1>1, <2>2, <2>3 DEF CarryInv
<1>8. ASSUME Displaces(B[i], entry)
      PROVE  \E p \in Occupied(B', n) :
               B'[p].key = call.key /\ p # i' /\ AllOccupied(B', p, i', n)
  <2>1. B' = Put(B, i, entry)
    BY <1>8 DEF InsertNext, Put
  <2>2. B'[i] = entry
    BY <1>2, <1>4, <2>1, PutIs
  <2>3. Occupied(B', n) = Occupied(B, n)
    <3>1. Occupied(B', n) = Occupied(B, n) \cup {i}
      BY <1>2, <1>4, <2>1, PutIs
    <3> QED BY <1>2, <3>1
  <2>4. \A l \in 0 .. n - 1 : l # i => B'[l] = B[l]
    BY <1>2, <1>4, <2>1, PutIs
  <2>5. CASE entry.key = call.key
    <3>1. AllOccupied(B, i, i, n)
      BY <1>2 DEF AllOccupied, Dist
    <3>2. i' # i /\ AllOccupied(B', i, i', n)
      BY <1>2, <1>3, <1>5, <2>3, <3>1, AllOccupiedOn
    <3> QED BY <1>2, <2>2, <2>3, <2>5, <3>2
  <2>6. CASE entry.key # call.key
    <3>1. PICK p \in Occupied(B, n) : B[p].key = call.key /\ p # i /\ AllOccupied(B, p, i, n)
      BY <1>1, <2>6 DEF CarryInv, Swapped
    <3>2. p \in 0 .. n - 1
      BY DEF Occupied
    <3>3. i' # p /\ AllOccupied(B', p, i', n)
      BY <1>2, <1>3, <1>5, <2>3, <3>1, <3>2, AllOccupiedOn
    <3> QED BY <2>3, <2>4, <3>1, <3>2, <3>3
  <2> QED BY <2>5, <2>6
<1>9. ASSUME Displaces(B[i], entry) PROVE entry'.key # call.key
  BY <1>9, DisplacedIsOther
<1> HIDE DEF B, n
<1>10. CASE Displaces(B[i], entry)
  BY <1>1, <1>6, <1>8, <1>9, <1>10 DEF CarryInv, Swapped, B, n
<1>11. CASE ~Displaces(B[i], entry)
  BY <1>1, <1>6, <1>7, <1>11 DEF CarryInv, Swapped, B, n
<1> QED BY <1>10, <1>11

LEMMA NextKeepsCarry == MapInv /\ MapInv' /\ CarryInv /\ [Next]_vars => CarryInv'
<1> SUFFICES ASSUME MapInv, MapInv', CarryInv, [Next]_vars PROVE CarryInv'
  OBVIOUS
<1>1. CASE InsertPlace \/ InsertReplace
  BY <1>1 DEF InsertPlace, InsertReplace, CarryInv, Swapped
<1>2. CASE InsertNext
  BY <1>2, InsertNextKeepsCarry
<1>3. CASE Next /\ ~InsertPlace /\ ~InsertReplace /\ ~InsertNext
  BY <1>3, OthersKeepCarry
<1>4. CASE UNCHANGED vars
  BY <1>4 DEF vars, locals, CarryInv, Swapped
<1> QED BY <1>1, <1>2, <1>3, <1>4

THEOREM CarryInvariant == Spec => []CarryInv
<1> QED BY InitCarry, NextKeepsCarry, MapInvariant, PTL DEF Spec

-----------------------------------------------------------------------------
(***************************************************************************)
(* What is in the map, as a set of keys with their values                  *)
(***************************************************************************)
Pair(b) == <<b.key, b.value>>
Pairs(B, S) == {Pair(B[m]) : m \in S}

Content ==
  Pairs(buckets, Kept) \cup Pairs(fresh, Moved) \cup {c \in {Pair(entry)} : Swapped}

\* The dictionary f has the content R.
Represents(f, R) ==
  /\ f = [k \in DOMAIN f |-> f[k]]
  /\ \A k \in DOMAIN f : <<k, f[k]>> \in R
  /\ \A k, v : <<k, v>> \in R => k \in DOMAIN f /\ f[k] = v

DictHasContent == Represents(Dict, Content)

LEMMA DictRepresents == MapInv => DictHasContent
<1> SUFFICES ASSUME MapInv PROVE Represents(Dict, Content)
  BY DEF DictHasContent
<1> DEFINE K == {e[3].key : e \in Entries}
           At(k) == CHOOSE e \in Entries : e[3].key = k
<1>1. \A e, d \in Entries : d[3].key = e[3].key => d = e
  BY DifferentKeys
<1>2. \A k \in K : At(k) \in Entries /\ At(k)[3].key = k
  OBVIOUS
<1>3. \A e \in Entries : At(e[3].key) = e
  BY <1>1, <1>2
<1>4. Dict = [k \in K |-> At(k)[3].value]
  BY DEF Dict
<1>5. \A e \in Entries : Pair(e[3]) \in Content
  BY EntriesAre DEF Content, Pairs
<1>6. \A c \in Content : \E e \in Entries : c = Pair(e[3])
  <2>1. \A m \in Kept : <<"buckets", m, buckets[m]>> \in Entries
    BY EntriesAre
  <2>2. \A m \in Moved : <<"fresh", m, fresh[m]>> \in Entries
    BY EntriesAre
  <2>3. Swapped => <<"entry", 0, entry>> \in Entries
    BY EntriesAre
  <2> QED BY <2>1, <2>2, <2>3 DEF Content, Pairs
<1> HIDE DEF At
<1>7. \A k \in K : <<k, At(k)[3].value>> \in Content
  BY <1>2, <1>5 DEF Pair
<1>8. \A k, v : <<k, v>> \in Content => k \in K /\ At(k)[3].value = v
  BY <1>3, <1>6 DEF Pair
<1> HIDE DEF K
<1> QED BY <1>4, <1>7, <1>8 DEF Represents

\* Dictionaries with the same content are equal, and what sets and deletes do
\* to them.
LEMMA SameDictionary ==
  ASSUME NEW R, NEW f, NEW g, Represents(f, R), Represents(g, R)
  PROVE  f = g
<1>1. DOMAIN f = DOMAIN g /\ \A k \in DOMAIN f : f[k] = g[k]
  BY DEF Represents
<1> QED BY <1>1 DEF Represents

SetTo(R, x, v) == {c \in R : c[1] # x} \cup {<<x, v>>}

LEMMA SetDictionary ==
  ASSUME NEW f, NEW g, NEW R, NEW x, NEW v, Represents(f, R), Represents(g, SetTo(R, x, v))
  PROVE  DOMAIN g = DOMAIN f \cup {x}
  BY DEF Represents, SetTo

LEMMA SetValues ==
  ASSUME NEW f, NEW g, NEW R, NEW x, NEW v, Represents(f, R), Represents(g, SetTo(R, x, v)),
         NEW k \in DOMAIN f \cup {x}
  PROVE  g[k] = IF k = x THEN v ELSE f[k]
  BY DEF Represents, SetTo

LEMMA WithoutDictionary ==
  ASSUME NEW R, NEW f, NEW g, NEW x, Represents(f, R), Represents(g, {c \in R : c[1] # x})
  PROVE  g = [k \in DOMAIN f \ {x} |-> f[k]]
<1>1. DOMAIN g = DOMAIN f \ {x} /\ \A k \in DOMAIN g : g[k] = f[k]
  BY DEF Represents
<1> QED BY <1>1 DEF Represents

LEMMA LookupIs ==
  ASSUME NEW R, NEW f, Represents(f, R), NEW k
  PROVE  /\ \A v : <<k, v>> \in R => k \in DOMAIN f /\ f[k] = v
         /\ (\A c \in R : c[1] # k) => k \notin DOMAIN f
  BY DEF Represents

\* The content by the loop that a call is in.
ContentByLoop ==
  /\ pc \in {"ready", "begin", "return", "find"} =>
       Content = Pairs(buckets, Occupied(buckets, nbuckets))
  /\ pc = "insert" /\ entry.key = call.key =>
       Content = Pairs(buckets, Occupied(buckets, nbuckets))
  /\ pc = "insert" /\ entry.key # call.key =>
       Content = Pairs(buckets, Occupied(buckets, nbuckets)) \cup {Pair(entry)}
  /\ pc = "shift" => Content = Pairs(buckets, Occupied(buckets, nbuckets) \ {i})
  /\ pc \in {"pick", "rehash"} =>
       Content = Pairs(buckets, Left) \cup Pairs(fresh, Occupied(fresh, NewCap))

LEMMA ContentIs == ContentByLoop
<1>1. /\ pc = "shift" => Kept = Occupied(buckets, nbuckets) \ {i}
      /\ pc \in {"pick", "rehash"} => Kept = Left /\ Moved = Occupied(fresh, NewCap)
      /\ pc \notin {"shift", "pick", "rehash"} => Kept = Occupied(buckets, nbuckets)
      /\ pc \notin {"pick", "rehash"} => Moved = {}
  BY DEF Kept, Moved, Left
<1>2. /\ pc = "insert" /\ entry.key # call.key => Swapped
      /\ pc # "insert" \/ entry.key = call.key => ~Swapped
  BY DEF Swapped
<1>3. Pairs(fresh, {}) = {}
  BY DEF Pairs
<1>4. Content = IF Swapped THEN Pairs(buckets, Kept) \cup Pairs(fresh, Moved) \cup {Pair(entry)}
                ELSE Pairs(buckets, Kept) \cup Pairs(fresh, Moved)
  BY DEF Content
<1> HIDE DEF Content
<1> QED BY <1>1, <1>2, <1>3, <1>4 DEF ContentByLoop

\* What changing one bucket does to the content of a set of buckets.
LEMMA PairsSame ==
  ASSUME NEW B, NEW C, NEW S, \A m \in S : C[m].key = B[m].key /\ C[m].value = B[m].value
  PROVE  Pairs(C, S) = Pairs(B, S)
  BY DEF Pairs, Pair

LEMMA PairsBut ==
  ASSUME NEW B, NEW C, NEW S, NEW m \in S, \A l \in S : l # m => C[l] = B[l]
  PROVE  Pairs(C, S) = Pairs(B, S \ {m}) \cup {Pair(C[m])}
  BY DEF Pairs, Pair

LEMMA PairsSplit ==
  ASSUME NEW B, NEW S, NEW m \in S
  PROVE  Pairs(B, S) = Pairs(B, S \ {m}) \cup {Pair(B[m])}
  BY DEF Pairs, Pair

\* Without the entry of bucket m, the only one with its key.
LEMMA PairsWithout ==
  ASSUME NEW B, NEW S, NEW m \in S, Distinct(B, S)
  PROVE  Pairs(B, S \ {m}) = {c \in Pairs(B, S) : c[1] # B[m].key}
  BY DEF Pairs, Pair, Distinct

-----------------------------------------------------------------------------
(***************************************************************************)
(* Every step is one of Dictionary or none                                 *)
(***************************************************************************)
StageByLoop ==
  /\ pc = "ready" => Stage = "idle"
  /\ pc \in {"begin", "find"} => Stage = "asked"
  /\ pc = "insert" /\ entry.key = call.key => Stage = "asked"
  /\ pc = "insert" /\ entry.key # call.key => Stage = "answered"
  /\ pc \in {"pick", "rehash"} /\ call.op # "delete" => Stage = "asked"
  /\ pc \in {"pick", "rehash"} /\ call.op = "delete" => Stage = "answered"
  /\ pc \in {"return", "shift"} => Stage = "answered"

LEMMA StageIs == StageByLoop
  BY DEF StageByLoop, Stage, Swapped

LEMMA BothSides ==
  ASSUME MapInv, MapInv'
  PROVE  /\ Represents(Dict, Content) /\ Represents(Dict', Content')
         /\ ContentByLoop /\ ContentByLoop' /\ StageByLoop /\ StageByLoop'
         /\ Basics /\ Basics'
<1>1. (MapInv => DictHasContent) /\ (MapInv' => DictHasContent')
  BY DictRepresents, PTL
<1>2. ContentByLoop /\ ContentByLoop' /\ StageByLoop /\ StageByLoop'
  BY ContentIs, StageIs, PTL
<1>3. (MapInv => Basics) /\ (MapInv' => Basics')
  BY BasicsHold, PTL
<1> QED BY <1>1, <1>2, <1>3 DEF DictHasContent

\* A step that changes neither the content nor what the caller sees.
LEMMA NothingHappens ==
  ASSUME MapInv, MapInv', Content' = Content, Stage' = Stage,
         call' = call, ret' = ret, oom' = oom
  PROVE  UNCHANGED DICT!vars
<1>1. Dict' = Dict
  BY BothSides, SameDictionary
<1> QED BY <1>1 DEF DICT!vars

\* A step that answers the call.
LEMMA Answers ==
  ASSUME Stage = "asked", Stage' = "answered", call' = call,
         DICT!Get \/ DICT!Set \/ DICT!Refuse \/ DICT!Delete \/ DICT!Clear \/ DICT!Other
  PROVE  DICT!Next
  BY DEF DICT!Next, DICT!Answer

LEMMA BeginIsAsk ==
  ASSUME MapInv, MapInv', NEW c \in Call, Begin(c) PROVE DICT!Next
<1>1. /\ pc = "ready" /\ pc' = "begin" /\ call' = c /\ buckets' = buckets
      /\ nbuckets' = nbuckets /\ ret' = ret
  BY DEF Begin
<1>2. Stage = "idle" /\ Stage' = "asked"
  BY <1>1, BothSides DEF StageByLoop
<1>3. Content' = Content
  BY <1>1, BothSides DEF ContentByLoop
<1>4. Dict' = Dict
  BY <1>3, BothSides, SameDictionary
<1>5. c \in DICT!Call
  BY DEF Call, DICT!Call
<1>6. oom' = (oom /\ c.op \notin {"set", "delete"})
  BY Zenon DEF Begin
<1>8. oom \in BOOLEAN
  BY DEF MapInv, TypeOK
<1>7. oom' \in CASE c.op = "set"    -> {FALSE}
                 [] c.op = "delete" -> {oom, FALSE}
                 [] OTHER           -> {oom}
  <2>1. CASE c.op = "set"
    BY <1>6, <2>1, Zenon
  <2>2. CASE c.op = "delete"
    <3>1. oom' = FALSE /\ "delete" # "set"
      BY <1>6, <2>2
    <3> QED BY <2>2, <3>1
  <2>3. CASE c.op # "set" /\ c.op # "delete"
    <3>1. oom' = oom
      BY <1>6, <1>8, <2>3
    <3> QED BY <2>3, <3>1
  <2> QED BY <2>1, <2>2, <2>3
<1>9. DICT!Ask(c)
  BY <1>1, <1>2, <1>4, <1>7, Zenon DEF DICT!Ask
<1> QED BY <1>5, <1>9 DEF DICT!Next

LEMMA ReturnIsReturn == ASSUME MapInv, MapInv', Return PROVE DICT!Next
<1>1. /\ pc = "return" /\ pc' = "ready" /\ call' = NoCall /\ ret' = Null
      /\ buckets' = buckets /\ nbuckets' = nbuckets /\ oom' = oom
  BY DEF Return
<1>2. Stage = "answered" /\ Stage' = "idle"
  BY <1>1, BothSides DEF StageByLoop
<1>3. Content' = Content
  BY <1>1, BothSides DEF ContentByLoop
<1>4. Dict' = Dict
  BY <1>3, BothSides, SameDictionary
<1>5. DICT!Return
  BY <1>1, <1>2, <1>4 DEF DICT!Return, DICT!NoCall, NoCall
<1> QED BY <1>5 DEF DICT!Next

\* What is done before and beside the loops.
LEMMA SetBeginsSet ==
  ASSUME MapInv, MapInv', CarryInv, Set PROVE DICT!Next \/ UNCHANGED DICT!vars
<1>1. /\ pc = "begin" /\ call.op = "set" /\ call' = call /\ ret' = ret
      /\ buckets' = buckets /\ nbuckets' = nbuckets
  BY DEF Set
<1>2. /\ Stage = "asked" /\ Content = Pairs(buckets, Occupied(buckets, nbuckets))
  BY <1>1, BothSides DEF StageByLoop, ContentByLoop
<1>3. CASE BeginInsert(call, nbuckets) /\ oom' = oom
  <2>1. pc' = "insert" /\ entry'.key = call'.key
    BY <1>1, <1>3 DEF BeginInsert
  <2>2. Stage' = Stage /\ Content' = Content
    BY <1>1, <1>2, <2>1, BothSides DEF StageByLoop, ContentByLoop
  <2> QED BY <1>1, <1>3, <2>2, NothingHappens
<1>4. CASE BeginResize(nbuckets * 2 ^ growpower) /\ oom' = oom
  <2> DEFINE n == nbuckets * 2 ^ growpower
  <2>1. pc' = "pick" /\ i' = 0 /\ fresh' = Empty(RoundUp(n))
    BY <1>4 DEF BeginResize
  <2>2. n \in Nat
    <3>1. growpower \in 1 .. 16 /\ nbuckets \in Nat
      BY BothSides DEF MapInv, TypeOK, Basics
    <3>2. 2 ^ growpower \in Nat
      BY <3>1, PowersAre
    <3> DEFINE p == 2 ^ growpower
    <3> HIDE DEF p
    <3>3. nbuckets * p \in Nat
      BY <3>1, <3>2 DEF p
    <3> QED BY <3>3 DEF p
  <2> HIDE DEF n
  <2>3. Occupied(fresh', NewCap') = {}
    <3>1. RoundUp(n) \in Nat /\ RoundUp(n) >= 2
      BY <2>2, RoundUpIs, SizesAre
    <3> QED BY <2>1, <3>1, EmptyIs DEF NewCap
  <2>4. Left' = Occupied(buckets, nbuckets)
    BY <1>1, <2>1, BothSides DEF Left, Occupied, Basics
  <2>5. Stage' = "asked"
    BY <1>1, <2>1, BothSides DEF StageByLoop
  <2>6. Content' = Pairs(buckets, Occupied(buckets, nbuckets)) \cup Pairs(fresh', {})
    BY <1>1, <2>1, <2>3, <2>4, BothSides DEF ContentByLoop
  <2>7. Pairs(fresh', {}) = {}
    BY DEF Pairs
  <2>8. Content' = Content
    BY <1>2, <2>6, <2>7
  <2> QED BY <1>1, <1>2, <1>4, <2>5, <2>8, NothingHappens
<1>5. CASE oom' = TRUE /\ pc' = "return"
  <2>1. Stage' = "answered" /\ Content' = Content
    BY <1>1, <1>2, <1>5, BothSides DEF StageByLoop, ContentByLoop
  <2>2. Dict' = Dict
    BY <2>1, BothSides, SameDictionary
  <2>3. DICT!Refuse
    BY <1>1, <1>5, <2>2 DEF DICT!Refuse
  <2> QED BY <1>1, <1>2, <2>1, <2>3, Answers
<1> QED BY <1>3, <1>4, <1>5 DEF Set

LEMMA TuneAnswers ==
  ASSUME MapInv, MapInv', SetLoadFactor \/ SetGrowByPower PROVE DICT!Next
<1>1. /\ pc = "begin" /\ pc' = "return" /\ call' = call /\ ret' = ret /\ oom' = oom
      /\ buckets' = buckets /\ nbuckets' = nbuckets
      /\ call.op \in {"load_factor", "grow_by_power"} /\ call \in Call
  BY DEF SetLoadFactor, SetGrowByPower, MapInv, SizeInv
<1>2. Stage = "asked" /\ Stage' = "answered" /\ Content' = Content
  BY <1>1, BothSides DEF StageByLoop, ContentByLoop
<1>3. Dict' = Dict
  BY <1>2, BothSides, SameDictionary
<1>4. call \in Tuning
  BY <1>1 DEF Call
<1>5. DICT!Other
  BY <1>1, <1>3, <1>4 DEF DICT!Other
<1> QED BY <1>1, <1>2, <1>5, Answers

LEMMA ClearAnswers == ASSUME MapInv, MapInv', Clear PROVE DICT!Next
<1>1. /\ pc = "begin" /\ pc' = "return" /\ call' = call /\ ret' = ret /\ oom' = oom
      /\ call.op = "clear" /\ count' = 0
  BY DEF Clear, locals
<1>2. Stage = "asked" /\ Stage' = "answered"
      /\ Content' = Pairs(buckets', Occupied(buckets', nbuckets'))
  BY <1>1, BothSides DEF StageByLoop, ContentByLoop
<1>3. Occupied(buckets', nbuckets') = {}
  <2>1. Array(buckets', nbuckets') /\ Cardinality(Occupied(buckets', nbuckets')) = 0
    BY <1>1, BothSides DEF MapInv, PlainInv, OrderedMap, Basics
  <2> QED BY <2>1, OccupiedIs, FS_EmptySet
<1>4. Content' = {}
  BY <1>2, <1>3 DEF Pairs
<1>5. Dict' = <<>>
  <2>1. Represents(Dict', {})
    BY <1>4, BothSides
  <2>2. DOMAIN Dict' = {} /\ Dict' = [k \in DOMAIN Dict' |-> Dict'[k]]
    BY <2>1 DEF Represents
  <2> QED BY <2>2
<1>6. DICT!Clear
  BY <1>1, <1>5 DEF DICT!Clear
<1> QED BY <1>1, <1>2, <1>6, Answers

\* The loop of a get or a delete.
LEMMA SearchingIsNothing ==
  ASSUME MapInv, MapInv', GetOrDelete \/ FindNext PROVE UNCHANGED DICT!vars
<1>1. /\ pc \in {"begin", "find"} /\ pc' = "find" /\ call' = call /\ ret' = ret /\ oom' = oom
      /\ buckets' = buckets /\ nbuckets' = nbuckets
  BY DEF GetOrDelete, FindNext
<1>2. Stage' = Stage /\ Content' = Content
  BY <1>1, BothSides DEF StageByLoop, ContentByLoop
<1> QED BY <1>1, <1>2, NothingHappens

LEMMA NotFoundAnswers == ASSUME MapInv, MapInv', CarryInv, NotFound PROVE DICT!Next
<1>1. /\ pc = "find" /\ pc' = "return" /\ buckets[i].dib = 0
      /\ call' = call /\ ret' = ret /\ oom' = oom /\ ret = Null
      /\ buckets' = buckets /\ nbuckets' = nbuckets
      /\ call.op \in {"get", "delete"} /\ call \in Call
      /\ NotBefore(call.key, buckets, i, nbuckets)
  BY DEF NotFound, CarryInv, MapInv, FindInv, SizeInv
<1>2. /\ Array(buckets, nbuckets) /\ OrderedMap(buckets, nbuckets, count)
      /\ i \in 0 .. nbuckets - 1 /\ call.key \in Key
  BY <1>1, BothSides, CallIs DEF MapInv, PlainInv, Basics
<1>3. Stage = "asked" /\ Stage' = "answered" /\ Content' = Content
  BY <1>1, BothSides DEF StageByLoop, ContentByLoop
<1>4. Dict' = Dict
  BY <1>3, BothSides, SameDictionary
<1>5. call.key \notin DOMAIN Dict
  <2>1. buckets[i].dib < Dist(Home(call.key, nbuckets), i, nbuckets) + 1
    BY <1>1, <1>2, HomeIs DEF Dist, Array
  <2>2. \A l \in Occupied(buckets, nbuckets) : buckets[l].key # call.key
    BY <1>1, <1>2, <2>1, NotThere DEF OrderedMap
  <2>3. \A c \in Content : c[1] # call.key
    BY <1>1, <2>2, BothSides DEF ContentByLoop, Pairs, Pair
  <2> QED BY <2>3, BothSides, LookupIs
<1>6. CASE call.op = "get"
  <2>1. DICT!Get
    BY <1>1, <1>4, <1>5, <1>6 DEF DICT!Get, DICT!Lookup
  <2> QED BY <1>1, <1>3, <2>1, Answers
<1>7. CASE call.op = "delete"
  <2>1. Dict = [k \in DOMAIN Dict \ {call.key} |-> Dict[k]]
    <3>1. DOMAIN Dict \ {call.key} = DOMAIN Dict /\ Dict = [k \in DOMAIN Dict |-> Dict[k]]
      BY <1>5, BothSides DEF Represents
    <3> QED BY <3>1
  <2>2. DICT!Delete
    BY <1>1, <1>4, <1>5, <1>7, <2>1 DEF DICT!Delete, DICT!Lookup, DICT!Without
  <2> QED BY <1>1, <1>3, <2>2, Answers
<1> QED BY <1>1, <1>6, <1>7

LEMMA FoundAnswers == ASSUME MapInv, MapInv', GetFound \/ DeleteFound PROVE DICT!Next
<1>1. /\ pc = "find" /\ buckets[i].dib # 0 /\ buckets[i].key = call.key
      /\ call' = call /\ ret' = buckets[i].value /\ oom' = oom /\ nbuckets' = nbuckets
  BY DEF GetFound, DeleteFound, Found
<1>2. /\ Array(buckets, nbuckets) /\ Distinct(buckets, Occupied(buckets, nbuckets))
      /\ i \in Occupied(buckets, nbuckets) /\ i \in 0 .. nbuckets - 1
  BY <1>1, BothSides DEF MapInv, PlainInv, OrderedMap, Basics, Occupied
<1>3. Stage = "asked" /\ Content = Pairs(buckets, Occupied(buckets, nbuckets))
  BY <1>1, BothSides DEF StageByLoop, ContentByLoop
<1>4. call.key \in DOMAIN Dict /\ Dict[call.key] = ret'
  <2>1. <<call.key, ret'>> \in Content
    BY <1>1, <1>2, <1>3 DEF Pairs, Pair
  <2> QED BY <2>1, BothSides, LookupIs
<1>5. CASE GetFound
  <2>1. pc' = "return" /\ buckets' = buckets /\ call.op = "get"
    BY <1>5 DEF GetFound
  <2>2. Stage' = "answered" /\ Content' = Content
    BY <1>1, <1>3, <2>1, BothSides DEF StageByLoop, ContentByLoop
  <2>3. Dict' = Dict
    BY <2>2, BothSides, SameDictionary
  <2>4. DICT!Get
    BY <1>1, <1>4, <2>1, <2>3 DEF DICT!Get, DICT!Lookup
  <2> QED BY <1>1, <1>3, <2>2, <2>4, Answers
<1>6. CASE DeleteFound
  <2> DEFINE S == Occupied(buckets, nbuckets)
  <2>1. pc' = "shift" /\ buckets' = Put(buckets, i, Free) /\ call.op = "delete" /\ i' = i
    BY <1>6 DEF DeleteFound, Put, locals
  <2>2. Occupied(buckets', nbuckets) = S \ {i}
    BY <1>2, <2>1, FreeIs, PutIs
  <2>3. \A l \in 0 .. nbuckets - 1 : l # i => buckets'[l] = buckets[l]
    BY <1>2, <2>1, FreeIs, PutIs
  <2>4. \A l \in S \ {i} : buckets'[l] = buckets[l]
    BY <2>3 DEF Occupied
  <2>5. Stage' = "answered" /\ Content' = Pairs(buckets', S \ {i})
    BY <1>1, <2>1, <2>2, BothSides DEF StageByLoop, ContentByLoop
  <2> HIDE DEF S
  <2>6. Pairs(buckets', S \ {i}) = Pairs(buckets, S \ {i})
    BY <2>4, PairsSame
  <2>7. Pairs(buckets, S \ {i}) = {c \in Pairs(buckets, S) : c[1] # call.key}
    BY <1>1, <1>2, PairsWithout DEF S
  <2>8. Content' = {c \in Content : c[1] # call.key}
    BY <1>3, <2>5, <2>6, <2>7 DEF S
  <2>9. Dict' = [k \in DOMAIN Dict \ {call.key} |-> Dict[k]]
    BY <2>8, BothSides, WithoutDictionary
  <2>10. DICT!Delete
    BY <1>1, <1>4, <2>1, <2>9 DEF DICT!Delete, DICT!Lookup, DICT!Without
  <2> QED BY <1>1, <1>3, <2>5, <2>10, Answers
<1> QED BY <1>5, <1>6

\* A shift that goes on moves an entry and changes no content.
LEMMA ShiftBackIsNothing == ASSUME MapInv, MapInv', ShiftBack PROVE UNCHANGED DICT!vars
<1> DEFINE a == Ahead(i, nbuckets)
           e == [buckets[a] EXCEPT !.dib = @ - 1]
           S == Occupied(buckets, nbuckets)
           R == (S \ {i}) \ {a}
<1>1. /\ pc = "shift" /\ pc' = pc /\ call' = call /\ ret' = ret /\ oom' = oom
      /\ nbuckets' = nbuckets
  BY DEF ShiftBack
<1>2. /\ Array(buckets, nbuckets) /\ i \in 0 .. nbuckets - 1
      /\ nbuckets \in Nat /\ nbuckets >= 2
  BY <1>1, BothSides DEF Basics
<1>3. (i + 1) % nbuckets = a /\ a \in 0 .. nbuckets - 1 /\ a # i
  <2>1. (i + 1) % nbuckets = a /\ a \in 0 .. nbuckets - 1
    BY <1>2, RingIs
  <2>2. a # i
    BY <1>2 DEF Ahead
  <2> QED BY <2>1, <2>2
<1>4. buckets' = Put(buckets, i, e) /\ i' = a /\ buckets[a].dib > 1
  BY <1>3 DEF ShiftBack, Shifts, Put
<1> HIDE DEF a
<1>5. buckets[a] \in Bucket /\ buckets[a].dib - 1 \in Nat \ {0} /\ a \in S
  BY <1>2, <1>3, <1>4, BucketIs DEF Array, Occupied
<1>6. e \in Bucket /\ e.dib # 0 /\ Pair(e) = Pair(buckets[a])
  <2>1. e = [buckets[a] EXCEPT !.dib = buckets[a].dib - 1]
    OBVIOUS
  <2> QED BY <1>4, <1>5, <2>1, BucketIs DEF Pair
<1> HIDE DEF e
<1>7. Occupied(buckets', nbuckets) = S \cup {i}
  BY <1>2, <1>4, <1>6, PutIs
<1>8. buckets'[i] = e
  BY <1>2, <1>4, <1>6, PutIs
<1>9. \A l \in 0 .. nbuckets - 1 : l # i => buckets'[l] = buckets[l]
  BY <1>2, <1>4, <1>6, PutIs
<1>10. \A l \in R : l # i => buckets'[l] = buckets[l]
  BY <1>9 DEF Occupied
<1>11. Content = Pairs(buckets, S \ {i}) /\ Content' = Pairs(buckets', (S \cup {i}) \ {a})
       /\ Stage' = Stage
  BY <1>1, <1>4, <1>7, BothSides DEF ContentByLoop, StageByLoop
<1> HIDE DEF S
<1> DEFINE T == (S \cup {i}) \ {a}
<1>12. T \ {i} = R /\ a \in S \ {i} /\ i \in T /\ \A l \in T : l # i => l \in R
  BY <1>3, <1>5
<1> HIDE DEF T
<1>13. Pairs(buckets', T) = Pairs(buckets, T \ {i}) \cup {Pair(buckets'[i])}
  BY <1>10, <1>12, PairsBut
<1>14. Pairs(buckets, S \ {i}) = Pairs(buckets, R) \cup {Pair(buckets[a])}
  BY <1>12, PairsSplit
<1>15. Content' = Content
  BY <1>6, <1>8, <1>11, <1>12, <1>13, <1>14 DEF T
<1> QED BY <1>1, <1>11, <1>15, NothingHappens

LEMMA ShiftEndIsNothing == ASSUME MapInv, MapInv', ShiftEnd PROVE UNCHANGED DICT!vars
<1> DEFINE S == Occupied(buckets, nbuckets)
<1>1. /\ pc = "shift" /\ call' = call /\ ret' = ret /\ oom' = oom
      /\ nbuckets' = nbuckets /\ buckets' = Put(buckets, i, Free) /\ call.op = "delete"
  BY DEF ShiftEnd, Put, MapInv, ShiftInv
<1>2. Array(buckets, nbuckets) /\ i \in 0 .. nbuckets - 1 /\ nbuckets \in Nat
  BY <1>1, BothSides DEF Basics
<1>3. Occupied(buckets', nbuckets) = S \ {i}
  BY <1>1, <1>2, FreeIs, PutIs
<1>4. \A l \in 0 .. nbuckets - 1 : l # i => buckets'[l] = buckets[l]
  BY <1>1, <1>2, FreeIs, PutIs
<1>5. \A l \in S \ {i} : buckets'[l] = buckets[l]
  BY <1>4 DEF Occupied
<1>6. Stage = "answered" /\ Content = Pairs(buckets, S \ {i})
  BY <1>1, BothSides DEF StageByLoop, ContentByLoop
<1>7. Pairs(buckets', S \ {i}) = Pairs(buckets, S \ {i})
  BY <1>5, PairsSame
<1>8. CASE pc' = "return"
  <2>1. Stage' = "answered" /\ Content' = Pairs(buckets', S \ {i})
    BY <1>1, <1>3, <1>8, BothSides DEF StageByLoop, ContentByLoop
  <2> QED BY <1>1, <1>6, <1>7, <2>1, NothingHappens
<1>9. CASE BeginResize(nbuckets \div 2)
  <2>1. pc' = "pick" /\ i' = 0 /\ fresh' = Empty(RoundUp(nbuckets \div 2))
    BY <1>9 DEF BeginResize
  <2>2. Occupied(fresh', NewCap') = {}
    <3>1. nbuckets \div 2 \in Nat
      BY <1>2
    <3>2. RoundUp(nbuckets \div 2) \in Nat /\ RoundUp(nbuckets \div 2) >= 2
      BY <3>1, RoundUpIs, SizesAre
    <3> QED BY <2>1, <3>2, EmptyIs DEF NewCap
  <2>3. Left' = S \ {i}
    BY <1>1, <1>2, <1>3, <2>1 DEF Left, Occupied
  <2>4. Stage' = "answered"
    BY <1>1, <2>1, BothSides DEF StageByLoop
  <2>5. Content' = Pairs(buckets', S \ {i}) \cup Pairs(fresh', {})
    BY <2>1, <2>2, <2>3, BothSides DEF ContentByLoop
  <2>6. Pairs(fresh', {}) = {}
    BY DEF Pairs
  <2> QED BY <1>1, <1>6, <1>7, <2>4, <2>5, <2>6, NothingHappens
<1> QED BY <1>8, <1>9 DEF ShiftEnd

\* A rehash moves the entries and changes no content.
LEMMA PickIsNothing ==
  ASSUME MapInv, MapInv', PickFree \/ PickEntry PROVE UNCHANGED DICT!vars
<1>1. /\ pc = "pick" /\ call' = call /\ ret' = ret /\ oom' = oom
      /\ nbuckets' = nbuckets /\ fresh' = fresh /\ i < nbuckets
  BY DEF PickFree, PickEntry
<1>2. /\ Content = Pairs(buckets, Left) \cup Pairs(fresh, Occupied(fresh, NewCap))
      /\ NewCap' = NewCap
  BY <1>1, BothSides DEF ContentByLoop, NewCap
<1>3. Array(buckets, nbuckets) /\ i \in 0 .. nbuckets - 1 /\ nbuckets \in Nat
  BY <1>1, BothSides DEF Basics
<1>4. CASE PickFree
  <2>1. pc' = "pick" /\ buckets' = buckets /\ i' = i + 1 /\ buckets[i].dib = 0
    BY <1>4 DEF PickFree
  <2>2. Left' = Left
    BY <1>1, <1>3, <2>1 DEF Left, Occupied
  <2>3. Stage' = Stage /\ Content' = Content
    BY <1>1, <1>2, <2>1, <2>2, BothSides DEF StageByLoop, ContentByLoop
  <2> QED BY <1>1, <2>3, NothingHappens
<1>5. CASE PickEntry
  <2> DEFINE e == [buckets[i] EXCEPT !.dib = 1]
  <2>1. /\ pc' = "rehash" /\ i' = i /\ buckets[i].dib # 0
        /\ buckets' = [buckets EXCEPT ![i] = [@ EXCEPT !.dib = 1]]
    BY <1>5 DEF PickEntry
  <2>2. buckets' = Put(buckets, i, e)
    BY <2>1 DEF Put
  <2>3. e \in Bucket /\ e.dib = 1 /\ e.key = buckets[i].key /\ e.value = buckets[i].value
    <3>1. buckets[i] \in Bucket /\ 1 \in Nat \ {0}
      BY <1>3 DEF Array
    <3> QED BY <2>1, <3>1, BucketIs
  <2> HIDE DEF e
  <2>4. buckets'[i] = e
    BY <1>3, <2>2, <2>3, PutIs
  <2>5. \A l \in 0 .. nbuckets - 1 : l # i => buckets'[l] = buckets[l]
    BY <1>3, <2>2, <2>3, PutIs
  <2>6. Left' = Left
    BY <1>1, <2>1, <2>3, <2>4, <2>5 DEF Left, Occupied
  <2>7. \A l \in Left : buckets'[l].key = buckets[l].key /\ buckets'[l].value = buckets[l].value
    BY <2>3, <2>4, <2>5 DEF Left, Occupied
  <2>8. Pairs(buckets', Left) = Pairs(buckets, Left)
    BY <2>7, PairsSame
  <2>9. Stage' = Stage /\ Content' = Content
    BY <1>1, <1>2, <2>1, <2>6, <2>8, BothSides DEF StageByLoop, ContentByLoop
  <2> QED BY <1>1, <2>9, NothingHappens
<1> QED BY <1>4, <1>5

LEMMA RehashPlaceIsNothing ==
  ASSUME MapInv, MapInv', RehashPlace PROVE UNCHANGED DICT!vars
<1> DEFINE n == NewCap
           S == Occupied(fresh, n)
<1>1. /\ pc = "rehash" /\ pc' = "pick" /\ call' = call /\ ret' = ret /\ oom' = oom
      /\ nbuckets' = nbuckets /\ buckets' = buckets /\ i' = i + 1
      /\ fresh' = Put(fresh, j, buckets[i]) /\ fresh[j].dib = 0
  BY DEF RehashPlace, Put
<1>2. /\ Array(fresh, n) /\ j \in 0 .. n - 1 /\ i \in Left /\ i \in Nat /\ nbuckets \in Nat
      /\ Fits(buckets[i], fresh, j, n)
  BY <1>1, BothSides DEF Basics, MapInv, RehashInv
<1>3. buckets[i] \in Bucket /\ buckets[i].dib # 0
  BY <1>2 DEF Fits
<1>4. fresh'[j] = buckets[i] /\ DOMAIN fresh' = DOMAIN fresh
  BY <1>1, <1>2, <1>3, PutIs
<1>5. Occupied(fresh', n) = S \cup {j}
  BY <1>1, <1>2, <1>3, PutIs
<1>6. \A l \in 0 .. n - 1 : l # j => fresh'[l] = fresh[l]
  BY <1>1, <1>2, <1>3, PutIs
<1>7. NewCap' = n /\ Left' = Left \ {i}
  BY <1>1, <1>2, <1>4 DEF NewCap, Left, Occupied
<1>8. j \notin S /\ \A l \in S : l # j => fresh'[l] = fresh[l]
  BY <1>1, <1>6 DEF Occupied
<1>9. /\ Stage' = Stage
      /\ Content = Pairs(buckets, Left) \cup Pairs(fresh, S)
      /\ Content' = Pairs(buckets, Left \ {i}) \cup Pairs(fresh', S \cup {j})
  <2>1. Stage' = Stage
    BY <1>1, BothSides DEF StageByLoop
  <2>2. Content = Pairs(buckets, Left) \cup Pairs(fresh, S)
    BY <1>1, BothSides DEF ContentByLoop
  <2>3. Content' = Pairs(buckets', Left') \cup Pairs(fresh', Occupied(fresh', NewCap'))
    BY <1>1, BothSides DEF ContentByLoop
  <2> QED BY <1>1, <1>5, <1>7, <2>1, <2>2, <2>3
<1> HIDE DEF S
<1> DEFINE T == S \cup {j}
<1>10. T \ {j} = S /\ j \in T /\ \A l \in T : l # j => fresh'[l] = fresh[l]
  BY <1>8
<1> HIDE DEF T
<1>11. Pairs(buckets, Left) = Pairs(buckets, Left \ {i}) \cup {Pair(buckets[i])}
  BY <1>2, PairsSplit
<1>12. Pairs(fresh', T) = Pairs(fresh, T \ {j}) \cup {Pair(fresh'[j])}
  BY <1>10, PairsBut
<1>13. Content' = Content
  BY <1>4, <1>9, <1>10, <1>11, <1>12 DEF T
<1> QED BY <1>1, <1>9, <1>13, NothingHappens

LEMMA RehashNextIsNothing ==
  ASSUME MapInv, MapInv', RehashNext PROVE UNCHANGED DICT!vars
<1> DEFINE n == NewCap
           S == Occupied(fresh, n)
           carried == IF Displaces(fresh[j], buckets[i]) THEN fresh[j] ELSE buckets[i]
           e == [carried EXCEPT !.dib = @ + 1]
<1>1. /\ pc = "rehash" /\ pc' = pc /\ call' = call /\ ret' = ret /\ oom' = oom
      /\ nbuckets' = nbuckets /\ i' = i /\ fresh[j].dib # 0
      /\ buckets' = Put(buckets, i, e)
      /\ fresh' = IF Displaces(fresh[j], buckets[i]) THEN Put(fresh, j, buckets[i]) ELSE fresh
  BY DEF RehashNext, Put
<1>2. /\ Array(fresh, n) /\ j \in 0 .. n - 1 /\ j \in S
      /\ i \in Left /\ i \in 0 .. nbuckets - 1 /\ Array(buckets, nbuckets)
      /\ buckets[i] \in Bucket /\ buckets[i].dib # 0 /\ fresh[j] \in Bucket
  BY <1>1, BothSides DEF Basics, MapInv, RehashInv, Fits, Occupied, Array
<1>3. e \in Bucket /\ e.dib # 0 /\ Pair(e) = Pair(carried)
  <2>1. carried \in Bucket /\ carried.dib # 0
    BY <1>1, <1>2
  <2> HIDE DEF carried
  <2>2. carried.dib + 1 \in Nat \ {0} /\ e = [carried EXCEPT !.dib = carried.dib + 1]
    BY <2>1, BucketIs
  <2> HIDE DEF e
  <2> QED BY <2>1, <2>2, BucketIs DEF Pair
<1> HIDE DEF e
<1>4. buckets'[i] = e
  BY <1>1, <1>2, <1>3, PutIs
<1>5. \A l \in 0 .. nbuckets - 1 : l # i => buckets'[l] = buckets[l]
  BY <1>1, <1>2 DEF Put, Array
<1>6. Left' = Left
  <2>1. Occupied(buckets', nbuckets) = Occupied(buckets, nbuckets) \cup {i}
    BY <1>1, <1>2, <1>3, PutIs
  <2>2. Occupied(buckets', nbuckets) = Occupied(buckets, nbuckets)
    BY <1>2, <2>1 DEF Left
  <2> QED BY <1>1, <2>2 DEF Left
<1>7. \A l \in Left : l # i => buckets'[l] = buckets[l]
  BY <1>5 DEF Left, Occupied
<1>8. /\ Pairs(buckets', Left) = Pairs(buckets, Left \ {i}) \cup {Pair(carried)}
      /\ Pairs(buckets, Left) = Pairs(buckets, Left \ {i}) \cup {Pair(buckets[i])}
  <2>1. Pairs(buckets', Left) = Pairs(buckets, Left \ {i}) \cup {Pair(buckets'[i])}
    <3>1. i \in Left
      BY <1>2
    <3> QED BY <1>7, <3>1, PairsBut
  <2>2. Pairs(buckets, Left) = Pairs(buckets, Left \ {i}) \cup {Pair(buckets[i])}
    BY <1>2, PairsSplit
  <2> QED BY <1>3, <1>4, <2>1, <2>2
<1>9. Stage' = Stage /\ Content = Pairs(buckets, Left) \cup Pairs(fresh, S)
  BY <1>1, BothSides DEF StageByLoop, ContentByLoop
<1>10. ASSUME ~Displaces(fresh[j], buckets[i])
       PROVE  Content' = Content
  <2>1. fresh' = fresh /\ carried = buckets[i] /\ NewCap' = n
    BY <1>1, <1>10 DEF NewCap
  <2>2. Content' = Pairs(buckets', Left) \cup Pairs(fresh, S)
    BY <1>1, <1>6, <2>1, BothSides DEF ContentByLoop
  <2> QED BY <1>8, <1>9, <2>1, <2>2
<1>11. ASSUME Displaces(fresh[j], buckets[i])
       PROVE  Content' = Content
  <2>1. fresh' = Put(fresh, j, buckets[i]) /\ carried = fresh[j]
    BY <1>1, <1>11
  <2>2. fresh'[j] = buckets[i] /\ DOMAIN fresh' = DOMAIN fresh
    BY <1>2, <2>1, PutIs
  <2>3. Occupied(fresh', n) = S \cup {j}
    BY <1>2, <2>1, PutIs
  <2>4. \A l \in 0 .. n - 1 : l # j => fresh'[l] = fresh[l]
    BY <1>2, <2>1, PutIs
  <2>5. NewCap' = n /\ S \cup {j} = S
    BY <1>2, <2>2 DEF NewCap
  <2>6. \A l \in S : l # j => fresh'[l] = fresh[l]
    BY <2>4 DEF Occupied
  <2>7. Content' = Pairs(buckets', Left) \cup Pairs(fresh', S)
    BY <1>1, <1>6, <2>3, <2>5, BothSides DEF ContentByLoop
  <2> HIDE DEF S
  <2>8. /\ Pairs(fresh', S) = Pairs(fresh, S \ {j}) \cup {Pair(buckets[i])}
        /\ Pairs(fresh, S) = Pairs(fresh, S \ {j}) \cup {Pair(fresh[j])}
    <3>1. Pairs(fresh', S) = Pairs(fresh, S \ {j}) \cup {Pair(fresh'[j])}
      <4>1. j \in S
        BY <1>2
      <4> QED BY <2>6, <4>1, PairsBut
    <3>2. Pairs(fresh, S) = Pairs(fresh, S \ {j}) \cup {Pair(fresh[j])}
      BY <1>2, PairsSplit
    <3> QED BY <2>2, <3>1, <3>2
  <2> HIDE DEF carried
  <2> QED BY <1>8, <1>9, <2>1, <2>7, <2>8 DEF S
<1>12. Content' = Content
  BY <1>10, <1>11
<1> QED BY <1>1, <1>9, <1>12, NothingHappens

LEMMA RehashedIsNothing == ASSUME MapInv, MapInv', Rehashed PROVE UNCHANGED DICT!vars
<1>1. /\ pc = "pick" /\ i = nbuckets /\ call' = call /\ ret' = ret /\ oom' = oom
      /\ buckets' = fresh /\ nbuckets' = NewCap /\ call.op \in {"set", "delete"}
  BY DEF Rehashed, MapInv, RehashInv
<1>2. Left = {} /\ Pairs(buckets, {}) = {}
  BY <1>1, BothSides DEF Left, Occupied, Basics, Pairs
<1>3. Content = Pairs(fresh, Occupied(fresh, NewCap))
  BY <1>1, <1>2, BothSides DEF ContentByLoop
<1>4. CASE call.op = "set"
  <2>1. pc' = "insert" /\ entry'.key = call'.key
    BY <1>1, <1>4 DEF Rehashed, BeginInsert
  <2>2. Stage' = Stage /\ Content' = Content
    BY <1>1, <1>3, <1>4, <2>1, BothSides DEF StageByLoop, ContentByLoop
  <2> QED BY <1>1, <2>2, NothingHappens
<1>5. CASE call.op = "delete"
  <2>1. pc' = "return"
    BY <1>5 DEF Rehashed
  <2>2. Stage' = Stage /\ Content' = Content
    BY <1>1, <1>3, <1>5, <2>1, BothSides DEF StageByLoop, ContentByLoop
  <2> QED BY <1>1, <2>2, NothingHappens
<1> QED BY <1>1, <1>4, <1>5

\* An insertion takes effect when its entry is put down.
LEMMA SetTakesEffect ==
  ASSUME MapInv, MapInv', call.op = "set", Stage = "asked", Stage' = "answered",
         call' = call, oom' = oom, ret' = DICT!Lookup(call.key),
         Content' = {c \in Content : c[1] # call.key} \cup {<<call.key, call.value>>}
  PROVE  DICT!Next
<1>1. Content' = SetTo(Content, call.key, call.value)
  BY DEF SetTo
<1>2. Represents(Dict, Content)
  BY BothSides
<1>3. Represents(Dict', SetTo(Content, call.key, call.value))
  BY <1>1, BothSides
<1>4. DOMAIN Dict' = DOMAIN Dict \cup {call.key}
  BY <1>2, <1>3, SetDictionary
<1>5. \A k \in DOMAIN Dict' : Dict'[k] = IF k = call.key THEN call.value ELSE Dict[k]
  BY <1>2, <1>3, <1>4, SetValues
<1>6. Dict' = [k \in DOMAIN Dict' |-> Dict'[k]]
  BY <1>3 DEF Represents
<1>7. Dict' = DICT!With(call.key, call.value)
  BY <1>4, <1>5, <1>6 DEF DICT!With
<1>8. DICT!Set
  BY <1>7 DEF DICT!Set
<1> QED BY <1>8, Answers

LEMMA NewKey ==
  ASSUME MapInv, MapInv', CarryInv, pc = "insert", entry.key = call.key,
         buckets[i].dib < entry.dib
  PROVE  /\ {c \in Content : c[1] # call.key} = Content
         /\ DICT!Lookup(call.key) = ret
<1>1. Content = Pairs(buckets, Occupied(buckets, nbuckets))
  BY BothSides DEF ContentByLoop
<1>2. \A m \in Occupied(buckets, nbuckets) : buckets[m].key # call.key
  BY CarriedIsNew
<1>3. \A c \in Content : c[1] # call.key
  BY <1>1, <1>2 DEF Pairs, Pair
<1>4. call.key \notin DOMAIN Dict /\ ret = Null
  BY <1>3, BothSides, LookupIs DEF CarryInv
<1> QED BY <1>3, <1>4 DEF DICT!Lookup

LEMMA InsertPlaceIsSet ==
  ASSUME MapInv, MapInv', CarryInv, InsertPlace PROVE DICT!Next \/ UNCHANGED DICT!vars
<1> DEFINE S == Occupied(buckets, nbuckets)
<1>1. /\ pc = "insert" /\ pc' = "return" /\ buckets[i].dib = 0
      /\ buckets' = Put(buckets, i, entry) /\ nbuckets' = nbuckets
      /\ call' = call /\ ret' = ret /\ oom' = oom
  BY DEF InsertPlace, locals, Put
<1>2. /\ Array(buckets, nbuckets) /\ i \in 0 .. nbuckets - 1 /\ call.op = "set"
      /\ entry \in Bucket /\ entry.dib # 0 /\ entry.dib \in Nat
  BY <1>1, BothSides, BucketIs DEF MapInv, InsertInv, Fits, Basics
<1>3. buckets'[i] = entry
  BY <1>1, <1>2, PutIs
<1>4. Occupied(buckets', nbuckets) = S \cup {i}
  BY <1>1, <1>2, PutIs
<1>5. \A l \in 0 .. nbuckets - 1 : l # i => buckets'[l] = buckets[l]
  BY <1>1, <1>2, PutIs
<1> DEFINE T == S \cup {i}
<1>6. i \in T /\ T \ {i} = S /\ \A l \in T : l # i => buckets'[l] = buckets[l]
  BY <1>1, <1>5 DEF Occupied
<1>7. Stage' = "answered" /\ Content' = Pairs(buckets', T)
  BY <1>1, <1>4, BothSides DEF StageByLoop, ContentByLoop
<1> HIDE DEF T
<1>8. Pairs(buckets', T) = Pairs(buckets, T \ {i}) \cup {Pair(buckets'[i])}
  BY <1>6, PairsBut
<1>9. Content' = Pairs(buckets, S) \cup {Pair(entry)}
  BY <1>3, <1>6, <1>7, <1>8
<1>10. CASE entry.key # call.key
  <2>1. Stage = "answered" /\ Content = Pairs(buckets, S) \cup {Pair(entry)}
    BY <1>1, <1>10, BothSides DEF StageByLoop, ContentByLoop
  <2> QED BY <1>1, <1>7, <1>9, <2>1, NothingHappens
<1>11. CASE entry.key = call.key
  <2>1. Stage = "asked" /\ Content = Pairs(buckets, S)
    BY <1>1, <1>11, BothSides DEF StageByLoop, ContentByLoop
  <2>2. Pair(entry) = <<call.key, call.value>>
    BY <1>1, <1>11 DEF CarryInv, Pair
  <2>3. /\ {c \in Content : c[1] # call.key} = Content
        /\ DICT!Lookup(call.key) = ret
    BY <1>1, <1>2, <1>11, NewKey
  <2> QED BY <1>1, <1>2, <1>7, <1>9, <2>1, <2>2, <2>3, SetTakesEffect
<1> QED BY <1>10, <1>11

LEMMA InsertReplaceIsSet == ASSUME MapInv, MapInv', CarryInv, InsertReplace PROVE DICT!Next
<1> DEFINE S == Occupied(buckets, nbuckets)
           e == [buckets[i] EXCEPT !.value = entry.value]
<1>1. /\ pc = "insert" /\ pc' = "return" /\ buckets[i].dib # 0 /\ buckets[i].key = entry.key
      /\ buckets' = [buckets EXCEPT ![i] = [@ EXCEPT !.value = entry.value]]
      /\ nbuckets' = nbuckets /\ call' = call /\ ret' = buckets[i].value /\ oom' = oom
  BY DEF InsertReplace, locals
<1>2. /\ Array(buckets, nbuckets) /\ i \in 0 .. nbuckets - 1 /\ call.op = "set"
      /\ Distinct(buckets, S) /\ i \in S
  BY <1>1, BothSides DEF MapInv, InsertInv, PlainInv, OrderedMap, Basics, Occupied
\* An entry that was displaced is not met again.
<1>3. entry.key = call.key
  BY <1>1, <1>2 DEF MapInv, InsertInv, Swapped
<1>4. /\ entry.value \in Value /\ buckets[i] \in Bucket /\ entry.value = call.value
  BY <1>1, <1>2, <1>3, BucketIs DEF MapInv, InsertInv, Fits, Array, CarryInv
<1>5. e \in Bucket /\ e.dib = buckets[i].dib /\ e.key = call.key /\ e.value = call.value
  BY <1>1, <1>3, <1>4, BucketIs
<1>6. buckets' = Put(buckets, i, e)
  BY <1>1 DEF Put
<1> HIDE DEF e
<1>7. buckets'[i] = e
  BY <1>2, <1>5, <1>6, PutIs
<1>8. Occupied(buckets', nbuckets) = S
  <2>1. e.dib # 0 /\ e \in Bucket
    BY <1>1, <1>5
  <2>2. Occupied(buckets', nbuckets) = S \cup {i}
    BY <1>2, <1>6, <2>1, PutIs
  <2> QED BY <1>2, <2>2
<1>9. \A l \in 0 .. nbuckets - 1 : l # i => buckets'[l] = buckets[l]
  BY <1>2, <1>5, <1>6, PutIs
<1>10. i \in S /\ \A l \in S : l # i => buckets'[l] = buckets[l]
  BY <1>2, <1>9 DEF Occupied
<1>11. /\ Stage = "asked" /\ Stage' = "answered" /\ Content = Pairs(buckets, S)
       /\ Content' = Pairs(buckets', S)
  BY <1>1, <1>3, <1>8, BothSides DEF StageByLoop, ContentByLoop
<1>12. ret' = DICT!Lookup(call.key)
  <2>1. <<call.key, ret'>> \in Content
    BY <1>1, <1>3, <1>10, <1>11 DEF Pairs, Pair
  <2>2. call.key \in DOMAIN Dict /\ Dict[call.key] = ret'
    BY <2>1, BothSides, LookupIs
  <2> QED BY <2>2 DEF DICT!Lookup
<1> HIDE DEF S
<1>13. Pairs(buckets', S) = Pairs(buckets, S \ {i}) \cup {Pair(buckets'[i])}
  BY <1>10, PairsBut
<1>14. Pairs(buckets, S \ {i}) = {c \in Pairs(buckets, S) : c[1] # call.key}
  BY <1>1, <1>2, <1>3, PairsWithout
<1>15. Content' = {c \in Content : c[1] # call.key} \cup {<<call.key, call.value>>}
  BY <1>5, <1>7, <1>11, <1>13, <1>14 DEF Pair
<1> QED BY <1>1, <1>2, <1>11, <1>12, <1>15, SetTakesEffect

LEMMA InsertNextIsSet ==
  ASSUME MapInv, MapInv', CarryInv, InsertNext PROVE DICT!Next \/ UNCHANGED DICT!vars
<1> DEFINE S == Occupied(buckets, nbuckets)
<1>1. /\ pc = "insert" /\ pc' = "insert" /\ buckets[i].dib # 0 /\ nbuckets' = nbuckets
      /\ call' = call /\ ret' = ret /\ oom' = oom
  BY DEF InsertNext
<1>2. /\ Array(buckets, nbuckets) /\ i \in 0 .. nbuckets - 1 /\ call.op = "set" /\ i \in S
      /\ entry \in Bucket /\ entry.dib # 0
  BY <1>1, BothSides DEF MapInv, InsertInv, Fits, Basics, Occupied
<1>3. CASE ~Displaces(buckets[i], entry)
  <2>1. buckets' = buckets /\ entry' = [entry EXCEPT !.dib = @ + 1]
    BY <1>3 DEF InsertNext
  <2>2. entry'.key = entry.key /\ Pair(entry') = Pair(entry)
    BY <1>2, <2>1 DEF Bucket, Pair
  <2>3. Stage' = Stage /\ Content' = Content
    <3>1. CASE entry.key = call.key
      BY <1>1, <2>1, <2>2, <3>1, BothSides DEF StageByLoop, ContentByLoop
    <3>2. CASE entry.key # call.key
      BY <1>1, <2>1, <2>2, <3>2, BothSides DEF StageByLoop, ContentByLoop
    <3> QED BY <3>1, <3>2
  <2> QED BY <1>1, <2>3, NothingHappens
<1>4. CASE Displaces(buckets[i], entry)
  <2>1. buckets' = Put(buckets, i, entry)
    BY <1>4 DEF InsertNext, Put
  <2>2. entry'.key # call.key /\ Pair(entry') = Pair(buckets[i])
    BY <1>4, DisplacedIsOther DEF Pair
  <2>3. buckets'[i] = entry
    BY <1>2, <2>1, PutIs
  <2>4. Occupied(buckets', nbuckets) = S
    <3>1. Occupied(buckets', nbuckets) = S \cup {i}
      BY <1>2, <2>1, PutIs
    <3> QED BY <1>2, <3>1
  <2>5. \A l \in 0 .. nbuckets - 1 : l # i => buckets'[l] = buckets[l]
    BY <1>2, <2>1, PutIs
  <2>6. i \in S /\ \A l \in S : l # i => buckets'[l] = buckets[l]
    BY <1>2, <2>5 DEF Occupied
  <2>7. Stage' = "answered" /\ Content' = Pairs(buckets', S) \cup {Pair(entry')}
    BY <1>1, <2>2, <2>4, BothSides DEF StageByLoop, ContentByLoop
  <2> HIDE DEF S
  <2>8. Pairs(buckets', S) = Pairs(buckets, S \ {i}) \cup {Pair(buckets'[i])}
    BY <2>6, PairsBut
  <2>9. Pairs(buckets, S) = Pairs(buckets, S \ {i}) \cup {Pair(buckets[i])}
    BY <2>6, PairsSplit
  <2>10. Content' = Pairs(buckets, S) \cup {Pair(entry)}
    BY <2>2, <2>3, <2>7, <2>8, <2>9
  <2>11. CASE entry.key # call.key
    <3>1. Stage = "answered" /\ Content = Pairs(buckets, S) \cup {Pair(entry)}
      BY <1>1, <2>11, BothSides DEF StageByLoop, ContentByLoop, S
    <3> QED BY <1>1, <2>7, <2>10, <3>1, NothingHappens
  <2>12. CASE entry.key = call.key
    <3>1. Stage = "asked" /\ Content = Pairs(buckets, S)
      BY <1>1, <2>12, BothSides DEF StageByLoop, ContentByLoop, S
    <3>2. Pair(entry) = <<call.key, call.value>>
      BY <1>1, <2>12 DEF CarryInv, Pair
    <3>3. /\ {c \in Content : c[1] # call.key} = Content
          /\ DICT!Lookup(call.key) = ret
      BY <1>1, <1>4, <2>12, NewKey DEF Displaces
    <3> QED BY <1>1, <1>2, <2>7, <2>10, <3>1, <3>2, <3>3, SetTakesEffect
  <2> QED BY <2>11, <2>12
<1> QED BY <1>3, <1>4


LEMMA InitIsInit == Init => DICT!Init
<1> SUFFICES ASSUME Init PROVE DICT!Init
  OBVIOUS
<1>1. /\ buckets = Empty(RoundUp(BaseCap)) /\ nbuckets = RoundUp(BaseCap)
      /\ pc = "ready" /\ call = NoCall /\ ret = Null /\ oom = FALSE
  BY DEF Init
<1>2. Represents(Dict, Content) /\ Stage = "idle"
  BY <1>1, InitMap, DictRepresents, StageIs DEF DictHasContent, StageByLoop
<1>3. Content = {}
  <2>1. Occupied(buckets, nbuckets) = {}
    BY <1>1, BaseCapAssumption, RoundUpIs, SizesAre, EmptyIs
  <2>2. Content = Pairs(buckets, {})
    BY <1>1, <2>1, ContentIs DEF ContentByLoop
  <2> QED BY <2>2 DEF Pairs
<1>4. Dict = <<>>
  <2>1. DOMAIN Dict = {} /\ Dict = [k \in DOMAIN Dict |-> Dict[k]]
    BY <1>2, <1>3 DEF Represents
  <2> QED BY <2>1
<1> QED BY <1>1, <1>2, <1>4 DEF DICT!Init, DICT!NoCall, NoCall

LEMMA StepIsDictStep == MapInv /\ MapInv' /\ CarryInv /\ [Next]_vars => [DICT!Next]_DICT!vars
<1> SUFFICES ASSUME MapInv, MapInv', CarryInv, [Next]_vars
             PROVE  DICT!Next \/ UNCHANGED DICT!vars
  OBVIOUS
<1>1. CASE InsertPlace \/ InsertReplace \/ InsertNext
  BY <1>1, InsertPlaceIsSet, InsertReplaceIsSet, InsertNextIsSet, Zenon
<1>2. CASE PickFree \/ PickEntry \/ RehashPlace \/ RehashNext \/ Rehashed
  BY <1>2, PickIsNothing, RehashPlaceIsNothing, RehashNextIsNothing, RehashedIsNothing, Zenon
<1>3. CASE Set \/ GetOrDelete \/ Clear \/ SetLoadFactor \/ SetGrowByPower
  BY <1>3, SetBeginsSet, SearchingIsNothing, ClearAnswers, TuneAnswers, Zenon
<1>4. CASE FindNext \/ NotFound \/ GetFound \/ DeleteFound
  BY <1>4, SearchingIsNothing, NotFoundAnswers, FoundAnswers, Zenon
<1>5. CASE ShiftBack \/ ShiftEnd \/ Return
  BY <1>5, ShiftBackIsNothing, ShiftEndIsNothing, ReturnIsReturn, Zenon
<1>6. CASE \E c \in Call : Begin(c)
  BY <1>6, BeginIsAsk
<1>7. CASE UNCHANGED vars
  <2>1. /\ buckets' = buckets /\ nbuckets' = nbuckets /\ oom' = oom /\ pc' = pc
        /\ call' = call /\ ret' = ret /\ entry' = entry /\ i' = i /\ fresh' = fresh
    BY <1>7 DEF vars, locals
  <2>2. NewCap' = NewCap /\ (Swapped' <=> Swapped)
    BY <2>1 DEF NewCap, Swapped
  <2>3. Kept' = Kept /\ Moved' = Moved
    BY <2>1, <2>2 DEF Kept, Moved, Left, Occupied
  <2>4. Content' = Content
    BY <2>1, <2>2, <2>3 DEF Content
  <2>5. Stage' = Stage
    BY <2>1, <2>2 DEF Stage
  <2> QED BY <2>1, <2>4, <2>5, NothingHappens
<1> QED BY <1>1, <1>2, <1>3, <1>4, <1>5, <1>6, <1>7, Zenon DEF Next, Inside

\* The map implements Dictionary: whatever is displaced, shifted or rehashed on
\* the way, a call looks up, sets or deletes the value of its key in one step
\* and returns what was there, and a set that finds no memory changes nothing
\* (hashmap_get_with_hash, hashmap_set_with_hash, hashmap_delete_with_hash,
\* hashmap_clear, resize0).
THEOREM MapIsDictionary == Spec => ImplementsDictionary
<1> QED BY InitIsInit, StepIsDictStep, MapInvariant, CarryInvariant, PTL
        DEF Spec, ImplementsDictionary, DICT!Spec

-----------------------------------------------------------------------------
(***************************************************************************)
(* Every call comes to an end: what is left of it decreases                *)
(***************************************************************************)
\* The free buckets, and the way from bucket m to the nearest one of S.
Vacant(B, n) == (0 .. n - 1) \ Occupied(B, n)
Ways(S, m, n) == {Dist(m, f, n) : f \in S}
Nearest(S, m, n) == CHOOSE w \in Ways(S, m, n) : \A v \in Ways(S, m, n) : w <= v

LEMMA NearestIs ==
  ASSUME NEW n \in Nat, n >= 2, NEW m \in 0 .. n - 1, NEW S \in SUBSET (0 .. n - 1), S # {}
  PROVE  /\ Nearest(S, m, n) \in 0 .. n - 1
         /\ \A f \in S : Nearest(S, m, n) <= Dist(m, f, n)
         /\ \E f \in S : Nearest(S, m, n) = Dist(m, f, n)
<1>1. \A f \in S : Dist(m, f, n) \in 0 .. n - 1
  BY DEF Dist
<1>2. Ways(S, m, n) \in SUBSET Nat /\ Ways(S, m, n) # {}
  <2>1. \A w \in Ways(S, m, n) : \E f \in S : w = Dist(m, f, n)
    BY DEF Ways
  <2>2. \A w \in Ways(S, m, n) : w \in Nat
    BY <1>1, <2>1
  <2>3. PICK f : f \in S
    OBVIOUS
  <2>4. Dist(m, f, n) \in Ways(S, m, n)
    BY <2>3 DEF Ways
  <2> QED BY <2>2, <2>4
<1>3. \E w \in Ways(S, m, n) : \A v \in Ways(S, m, n) : w <= v
  BY <1>2, SmallestNumber
<1>4. /\ Nearest(S, m, n) \in Ways(S, m, n)
      /\ \A v \in Ways(S, m, n) : Nearest(S, m, n) <= v
  BY <1>3 DEF Nearest
<1> HIDE DEF Nearest
<1> QED BY <1>1, <1>4 DEF Ways

\* A step over a bucket that is not in S comes nearer to it.
LEMMA NearestIsNearer ==
  ASSUME NEW n \in Nat, n >= 2, NEW m \in 0 .. n - 1, NEW S \in SUBSET (0 .. n - 1), S # {},
         m \notin S
  PROVE  Nearest(S, Ahead(m, n), n) < Nearest(S, m, n)
<1>1. PICK f \in S : Nearest(S, m, n) = Dist(m, f, n)
  BY NearestIs
<1>2. Ahead(m, n) \in 0 .. n - 1 /\ f \in 0 .. n - 1 /\ f # m
  BY DEF Ahead
<1>3. Dist(Ahead(m, n), f, n) = Dist(m, f, n) - 1
  BY <1>2 DEF Ahead, Dist
<1>4. /\ Nearest(S, Ahead(m, n), n) <= Dist(Ahead(m, n), f, n)
      /\ Nearest(S, Ahead(m, n), n) \in 0 .. n - 1
  BY <1>2, NearestIs
<1>5. Dist(m, f, n) \in Nat
  BY <1>2 DEF Dist
<1> QED BY <1>1, <1>3, <1>4, <1>5

\* The phases of a call, in the order in which it goes through some of them.
Phase ==
  CASE pc = "begin" -> 6
    [] pc = "find" -> 5
    [] pc = "shift" -> 4
    [] pc \in {"pick", "rehash"} -> 3
    [] pc = "insert" -> 2
    [] pc = "return" -> 1
    [] OTHER -> 0

\* The old buckets that a rehash still has to visit.
Turns == IF pc \in {"pick", "rehash"} THEN nbuckets - i ELSE 0

\* The way to the free bucket at which a loop ends at the latest.
Probes ==
  CASE pc \in {"insert", "find"} -> Nearest(Vacant(buckets, nbuckets), i, nbuckets)
    [] pc = "shift" ->
         Nearest(Vacant(buckets, nbuckets) \ {i}, Ahead(i, nbuckets), nbuckets)
    [] pc = "pick" -> NewCap
    [] pc = "rehash" -> Nearest(Vacant(fresh, NewCap), j, NewCap)
    [] OTHER -> 0

LeftByLoop ==
  /\ pc = "ready" => Phase = 0 /\ Turns = 0 /\ Probes = 0
  /\ pc = "return" => Phase = 1 /\ Turns = 0 /\ Probes = 0
  /\ pc = "begin" => Phase = 6 /\ Turns = 0 /\ Probes = 0
  /\ pc = "insert" => /\ Phase = 2 /\ Turns = 0
                      /\ Probes = Nearest(Vacant(buckets, nbuckets), i, nbuckets)
  /\ pc = "find" => /\ Phase = 5 /\ Turns = 0
                    /\ Probes = Nearest(Vacant(buckets, nbuckets), i, nbuckets)
  /\ pc = "shift" =>
       /\ Phase = 4 /\ Turns = 0
       /\ Probes = Nearest(Vacant(buckets, nbuckets) \ {i}, Ahead(i, nbuckets), nbuckets)
  /\ pc = "pick" => Phase = 3 /\ Turns = nbuckets - i /\ Probes = NewCap
  /\ pc = "rehash" => /\ Phase = 3 /\ Turns = nbuckets - i
                      /\ Probes = Nearest(Vacant(fresh, NewCap), j, NewCap)

LEMMA LeftIs == LeftByLoop
  BY DEF LeftByLoop, Phase, Turns, Probes

LEMMA VacantIs ==
  ASSUME NEW B, NEW n, Array(B, n)
  PROVE  /\ Vacant(B, n) \in SUBSET (0 .. n - 1)
         /\ \A m \in Occupied(B, n) : m \notin Vacant(B, n)
         /\ Cardinality(Occupied(B, n)) < n => Vacant(B, n) # {}
<1>1. Cardinality(Occupied(B, n)) < n => \E f \in 0 .. n - 1 : B[f].dib = 0
  BY OccupiedIs
<1> QED BY <1>1 DEF Vacant, Occupied

\* Each loop has a free bucket to reach.
LEMMA EndsAhead ==
  ASSUME MapInv
  PROVE  /\ pc \in {"insert", "find"} => Vacant(buckets, nbuckets) # {}
         /\ pc = "shift" => Vacant(buckets, nbuckets) \ {i} # {}
         /\ pc \in {"pick", "rehash"} => Vacant(fresh, NewCap) # {}
<1>1. Basics /\ PlainInv /\ ShiftInv /\ RehashInv
  BY BasicsHold DEF MapInv
<1>2. Array(buckets, nbuckets) /\ count \in Nat /\ count < nbuckets /\ nbuckets \in Nat
  BY <1>1 DEF Basics
<1>3. ASSUME pc \in {"insert", "find"} PROVE Vacant(buckets, nbuckets) # {}
  <2>1. Cardinality(Occupied(buckets, nbuckets)) = count
    BY <1>1, <1>3 DEF PlainInv, OrderedMap
  <2> QED BY <1>2, <2>1, VacantIs
<1>4. ASSUME pc = "shift" PROVE Vacant(buckets, nbuckets) \ {i} # {}
  <2> DEFINE S == Occupied(buckets, nbuckets)
             T == 0 .. nbuckets - 1
  <2>1. Cardinality(S \ {i}) = count - 1 /\ i \in T
    BY <1>1, <1>4 DEF ShiftInv, Basics
  <2>2. IsFiniteSet(T) /\ Cardinality(T) = nbuckets
    BY <1>2, FS_Interval
  <2>3. S \subseteq T /\ Vacant(buckets, nbuckets) = T \ S
    BY DEF Vacant, Occupied
  <2> HIDE DEF S, T
  <2>4. Cardinality(T \ {i}) = nbuckets - 1
    BY <2>1, <2>2, FS_RemoveElement
  <2>5. S \ {i} # T \ {i}
    <3> SUFFICES ASSUME S \ {i} = T \ {i} PROVE FALSE
      OBVIOUS
    <3>1. count - 1 = nbuckets - 1
      BY <2>1, <2>4
    <3> QED BY <1>2, <3>1
  <2> QED BY <2>3, <2>5
<1>5. ASSUME pc \in {"pick", "rehash"} PROVE Vacant(fresh, NewCap) # {}
  <2>1. Array(fresh, NewCap) /\ NewCap \in Nat
    BY <1>1, <1>5 DEF Basics
  <2>2. /\ Cardinality(Left) + Cardinality(Occupied(fresh, NewCap)) = count
        /\ count < NewCap
    BY <1>1, <1>5 DEF RehashInv
  <2>3. Cardinality(Occupied(fresh, NewCap)) \in Nat
    BY <2>1, OccupiedIs
  <2>4. Cardinality(Left) \in Nat
    <3>1. IsFiniteSet(Occupied(buckets, nbuckets)) /\ Left \in SUBSET Occupied(buckets, nbuckets)
      BY <1>2, OccupiedIs DEF Left
    <3> QED BY <3>1, FS_Subset, FS_CardinalityType
  <2> QED BY <1>2, <2>1, <2>2, <2>3, <2>4, VacantIs
<1> QED BY <1>3, <1>4, <1>5

LeftIsNat == Phase \in Nat /\ Turns \in Nat /\ Probes \in Nat

LEMMA LeftTypes == ASSUME MapInv PROVE LeftIsNat
<1>1. LeftByLoop /\ Basics /\ RehashInv
  BY LeftIs, BasicsHold DEF MapInv
<1>2. pc \in {"ready", "begin", "return", "insert", "pick", "rehash", "find", "shift"}
  BY DEF MapInv, TypeOK
<1>3. /\ nbuckets \in Nat /\ nbuckets >= 2 /\ i \in Nat /\ NewCap \in Nat
      /\ Array(buckets, nbuckets)
  BY <1>1 DEF Basics
<1>4. Phase \in Nat
  BY <1>1, <1>2 DEF LeftByLoop
<1>5. Turns \in Nat
  <2>1. pc \in {"pick", "rehash"} => i <= nbuckets
    BY <1>1 DEF RehashInv
  <2> QED BY <1>1, <1>2, <1>3, <2>1 DEF LeftByLoop
<1>6. ASSUME pc \in {"insert", "find"} PROVE Probes \in Nat
  <2>1. i \in 0 .. nbuckets - 1 /\ Vacant(buckets, nbuckets) # {}
    BY <1>1, <1>6, EndsAhead DEF Basics
  <2>2. Nearest(Vacant(buckets, nbuckets), i, nbuckets) \in 0 .. nbuckets - 1
    BY <1>3, <2>1, VacantIs, NearestIs
  <2> QED BY <1>1, <1>6, <2>2 DEF LeftByLoop
<1>7. ASSUME pc = "shift" PROVE Probes \in Nat
  <2> DEFINE S == Vacant(buckets, nbuckets) \ {i}
  <2>1. i \in 0 .. nbuckets - 1 /\ S # {}
    BY <1>1, <1>7, EndsAhead DEF Basics
  <2>2. Ahead(i, nbuckets) \in 0 .. nbuckets - 1 /\ S \in SUBSET (0 .. nbuckets - 1)
    BY <1>3, <2>1, VacantIs DEF Ahead
  <2>3. Nearest(S, Ahead(i, nbuckets), nbuckets) \in 0 .. nbuckets - 1
    BY <1>3, <2>1, <2>2, NearestIs
  <2> QED BY <1>1, <1>7, <2>3 DEF LeftByLoop
<1>8. ASSUME pc = "rehash" PROVE Probes \in Nat
  <2>1. Array(fresh, NewCap) /\ j \in 0 .. NewCap - 1 /\ Vacant(fresh, NewCap) # {}
    BY <1>1, <1>8, EndsAhead DEF Basics
  <2>2. NewCap \in Nat /\ NewCap >= 2
    BY <2>1 DEF Array
  <2>3. Nearest(Vacant(fresh, NewCap), j, NewCap) \in 0 .. NewCap - 1
    BY <2>1, <2>2, VacantIs, NearestIs
  <2> QED BY <1>1, <1>8, <2>3 DEF LeftByLoop
<1>9. pc \in {"ready", "begin", "return", "pick"} => Probes \in Nat
  BY <1>1, <1>3 DEF LeftByLoop
<1> QED BY <1>2, <1>4, <1>5, <1>6, <1>7, <1>8, <1>9 DEF LeftIsNat

\* A later phase, or the same with fewer buckets to visit, or with as many
\* and a shorter way to go: the lexicographic order of three numbers.
Closer ==
  \/ Phase' < Phase
  \/ Phase' = Phase /\ Turns' < Turns
  \/ Phase' = Phase /\ Turns' = Turns /\ Probes' < Probes

LEMMA LaterPhase ==
  ASSUME \/ pc = "begin" /\ pc' \in {"find", "insert", "pick", "return"}
         \/ pc = "find" /\ pc' \in {"shift", "return"}
         \/ pc = "shift" /\ pc' \in {"pick", "return"}
         \/ pc = "pick" /\ pc' \in {"insert", "return"}
         \/ pc = "insert" /\ pc' = "return"
         \/ pc = "return" /\ pc' = "ready"
  PROVE  Closer
<1>1. LeftByLoop /\ LeftByLoop'
  BY LeftIs, PTL
<1>2. Phase' < Phase
  BY <1>1 DEF LeftByLoop
<1> QED BY <1>2 DEF Closer

\* The loops that probe go on over an occupied bucket.
LEMMA ProbingIsCloser ==
  ASSUME MapInv, MapInv', InsertNext \/ FindNext
  PROVE  Closer
<1>1. /\ Basics /\ pc \in {"insert", "find"} /\ pc' = pc
      /\ buckets[i].dib # 0 /\ i' = (i + 1) % nbuckets /\ nbuckets' = nbuckets
  BY BasicsHold DEF InsertNext, FindNext
<1>2. /\ Array(buckets, nbuckets) /\ nbuckets \in Nat /\ nbuckets >= 2
      /\ i \in 0 .. nbuckets - 1 /\ i \in Occupied(buckets, nbuckets) /\ entry \in Bucket
  BY <1>1 DEF Basics, Occupied
<1>3. i' = Ahead(i, nbuckets)
  BY <1>1, <1>2, RingIs
<1>4. Occupied(buckets', nbuckets) = Occupied(buckets, nbuckets)
  <2>1. CASE buckets' = buckets
    BY <2>1
  <2>2. CASE InsertNext /\ buckets' = Put(buckets, i, entry)
    <3>1. entry.dib # 0
      BY <2>2 DEF InsertNext, MapInv, InsertInv, Fits
    <3>2. Occupied(buckets', nbuckets) = Occupied(buckets, nbuckets) \cup {i}
      BY <1>2, <2>2, <3>1, PutIs
    <3> QED BY <1>2, <3>2
  <2> QED BY <2>1, <2>2 DEF InsertNext, FindNext, Put
<1> DEFINE S == Vacant(buckets, nbuckets)
<1>5. S # {} /\ S \in SUBSET (0 .. nbuckets - 1) /\ i \notin S
  BY <1>1, <1>2, EndsAhead, VacantIs
<1>6. Vacant(buckets', nbuckets') = S
  BY <1>1, <1>4 DEF Vacant
<1> HIDE DEF S
<1>7. Nearest(S, i', nbuckets) < Nearest(S, i, nbuckets)
  BY <1>2, <1>3, <1>5, NearestIsNearer
<1>8. LeftByLoop /\ LeftByLoop'
  BY LeftIs, PTL
<1>9. Phase' = Phase /\ Turns' = Turns
  BY <1>1, <1>8 DEF LeftByLoop
<1>10. Probes = Nearest(S, i, nbuckets) /\ Probes' = Nearest(S, i', nbuckets)
  BY <1>1, <1>6, <1>8 DEF LeftByLoop, S
<1> QED BY <1>7, <1>9, <1>10 DEF Closer

\* The shift goes on while an entry follows the hole.
LEMMA ShiftingIsCloser ==
  ASSUME MapInv, MapInv', ShiftBack
  PROVE  Closer
<1> DEFINE a == Ahead(i, nbuckets)
           e == [buckets[a] EXCEPT !.dib = @ - 1]
           S == Vacant(buckets, nbuckets) \ {i}
<1>1. Basics /\ pc = "shift" /\ pc' = pc /\ nbuckets' = nbuckets
  BY BasicsHold DEF ShiftBack
<1>2. /\ Array(buckets, nbuckets) /\ nbuckets \in Nat /\ nbuckets >= 2
      /\ i \in 0 .. nbuckets - 1
  BY <1>1 DEF Basics
<1>3. a = (i + 1) % nbuckets /\ a \in 0 .. nbuckets - 1
  BY <1>2, RingIs
<1>4. buckets[a].dib > 1 /\ buckets' = Put(buckets, i, e) /\ i' = a
  BY <1>3, Zenon DEF ShiftBack, Shifts, Put
<1>5. buckets[a] \in Bucket
  BY <1>2, <1>3 DEF Array
<1>6. e \in Bucket /\ e.dib # 0 /\ buckets[a].dib # 0
  BY <1>4, <1>5, BucketIs
<1> HIDE DEF e
<1>7. Occupied(buckets', nbuckets) = Occupied(buckets, nbuckets) \cup {i}
  BY <1>2, <1>4, <1>6, PutIs
<1>8. a \in Occupied(buckets, nbuckets)
  BY <1>3, <1>6 DEF Occupied
<1>9. Vacant(buckets', nbuckets') \ {i'} = S /\ a \notin S
  BY <1>1, <1>2, <1>4, <1>7, <1>8 DEF Vacant
<1>10. S # {} /\ S \in SUBSET (0 .. nbuckets - 1)
  BY <1>1, <1>2, EndsAhead, VacantIs
<1> HIDE DEF S, a
<1>11. Nearest(S, Ahead(a, nbuckets), nbuckets) < Nearest(S, a, nbuckets)
  BY <1>2, <1>3, <1>9, <1>10, NearestIsNearer
<1>12. LeftByLoop /\ LeftByLoop'
  BY LeftIs, PTL
<1>13. Phase' = Phase /\ Turns' = Turns
  BY <1>1, <1>12 DEF LeftByLoop
<1>14. Probes = Nearest(S, a, nbuckets)
  BY <1>1, <1>12 DEF LeftByLoop, S, a
<1>15. Probes' = Nearest(S, Ahead(a, nbuckets), nbuckets)
  BY <1>1, <1>4, <1>9, <1>12 DEF LeftByLoop
<1> QED BY <1>11, <1>13, <1>14, <1>15 DEF Closer

\* A rehash begins to carry an entry, carries it on, or has one bucket less.
LEMMA RehashingIsCloser ==
  ASSUME MapInv, MapInv', PickFree \/ PickEntry \/ RehashPlace \/ RehashNext
  PROVE  Closer
<1>1. Basics /\ Basics' /\ LeftByLoop /\ LeftByLoop'
  <2>1. (MapInv => Basics) /\ (MapInv' => Basics')
    BY BasicsHold, PTL
  <2> QED BY <2>1, LeftIs, PTL
<1>2. nbuckets \in Nat /\ i \in Nat /\ nbuckets' = nbuckets
  BY <1>1 DEF Basics, PickFree, PickEntry, RehashPlace, RehashNext
<1>3. CASE PickFree \/ RehashPlace
  <2>1. pc \in {"pick", "rehash"} /\ pc' = "pick" /\ i' = i + 1
    BY <1>3 DEF PickFree, RehashPlace
  <2>2. Phase' = Phase /\ Turns' < Turns
    BY <1>1, <1>2, <2>1 DEF LeftByLoop
  <2> QED BY <2>2 DEF Closer
<1>4. CASE PickEntry
  <2>1. pc = "pick" /\ pc' = "rehash" /\ i' = i /\ fresh' = fresh /\ NewCap' = NewCap
    BY <1>4 DEF PickEntry, NewCap
  <2>2. Phase' = Phase /\ Turns' = Turns /\ Probes = NewCap
    BY <1>1, <1>2, <2>1 DEF LeftByLoop
  <2>3. Array(fresh, NewCap) /\ j' \in 0 .. NewCap - 1
    BY <1>1, <2>1 DEF Basics
  <2>4. Vacant(fresh, NewCap) # {} /\ NewCap \in Nat /\ NewCap >= 2
    BY <2>1, <2>3, EndsAhead DEF Array
  <2>5. Nearest(Vacant(fresh, NewCap), j', NewCap) \in 0 .. NewCap - 1
    BY <2>3, <2>4, VacantIs, NearestIs
  <2>6. Probes' = Nearest(Vacant(fresh, NewCap), j', NewCap)
    BY <1>1, <2>1 DEF LeftByLoop
  <2> QED BY <2>2, <2>4, <2>5, <2>6 DEF Closer
<1>5. CASE RehashNext
  <2> DEFINE n == NewCap
             S == Vacant(fresh, n)
  <2>1. /\ pc = "rehash" /\ pc' = pc /\ i' = i /\ fresh[j].dib # 0
        /\ j' = (j + 1) % n
        /\ fresh' = fresh \/ fresh' = Put(fresh, j, buckets[i])
    BY <1>5 DEF RehashNext, Put
  <2>2. /\ Array(fresh, n) /\ n \in Nat /\ n >= 2 /\ j \in 0 .. n - 1
        /\ j \in Occupied(fresh, n)
    BY <1>1, <2>1 DEF Basics, Array, Occupied
  <2>3. buckets[i] \in Bucket /\ buckets[i].dib # 0
    BY <1>1, <2>1 DEF Basics, Array, MapInv, RehashInv, Left, Occupied
  <2>4. DOMAIN fresh' = DOMAIN fresh /\ Occupied(fresh', n) = Occupied(fresh, n)
    <3>1. CASE fresh' = fresh
      BY <3>1
    <3>2. CASE fresh' = Put(fresh, j, buckets[i])
      <4>1. /\ DOMAIN fresh' = DOMAIN fresh
            /\ Occupied(fresh', n) = Occupied(fresh, n) \cup {j}
        BY <2>2, <2>3, <3>2, PutIs
      <4> QED BY <2>2, <4>1
    <3> QED BY <2>1, <3>1, <3>2
  <2>5. NewCap' = n /\ Vacant(fresh', NewCap') = S
    <3>1. NewCap' = n
      BY <2>4 DEF NewCap
    <3> QED BY <2>4, <3>1 DEF Vacant
  <2>6. j' = Ahead(j, n)
    BY <2>1, <2>2, RingIs
  <2>7. S # {} /\ S \in SUBSET (0 .. n - 1) /\ j \notin S
    BY <2>1, <2>2, EndsAhead, VacantIs
  <2>8. Phase' = Phase /\ Turns' = Turns
    BY <1>1, <1>2, <2>1 DEF LeftByLoop
  <2>9. Probes = Nearest(S, j, n) /\ Probes' = Nearest(S, j', n)
    BY <1>1, <2>1, <2>5 DEF LeftByLoop
  <2> HIDE DEF S, n
  <2>10. Nearest(S, j', n) < Nearest(S, j, n)
    BY <2>2, <2>6, <2>7, NearestIsNearer
  <2> QED BY <2>8, <2>9, <2>10 DEF Closer
<1> QED BY <1>3, <1>4, <1>5

LEMMA StepIsCloser ==
  MapInv /\ MapInv' /\ [Next]_vars => [pc # "ready" => Closer]_vars
<1> SUFFICES ASSUME MapInv, MapInv', Next, pc # "ready" PROVE Closer
  BY Zenon
<1>1. CASE InsertNext \/ FindNext
  BY <1>1, ProbingIsCloser
<1>2. CASE ShiftBack
  BY <1>2, ShiftingIsCloser
<1>3. CASE PickFree \/ PickEntry \/ RehashPlace \/ RehashNext
  BY <1>3, RehashingIsCloser
<1>4. CASE Set \/ GetOrDelete \/ Clear \/ SetLoadFactor \/ SetGrowByPower
  <2>1. pc = "begin" /\ pc' \in {"find", "insert", "pick", "return"}
    BY <1>4 DEF Set, BeginInsert, BeginResize, GetOrDelete, Clear, SetLoadFactor,
                SetGrowByPower
  <2> QED BY <2>1, LaterPhase
<1>5. CASE NotFound \/ GetFound \/ DeleteFound
  <2>1. pc = "find" /\ pc' \in {"shift", "return"}
    BY <1>5 DEF NotFound, GetFound, DeleteFound, Found
  <2> QED BY <2>1, LaterPhase
<1>6. CASE ShiftEnd
  <2>1. pc = "shift" /\ pc' \in {"pick", "return"}
    BY <1>6 DEF ShiftEnd, BeginResize
  <2> QED BY <2>1, LaterPhase
<1>7. CASE Rehashed
  <2>1. pc = "pick" /\ pc' \in {"insert", "return"}
    BY <1>7 DEF Rehashed, BeginInsert
  <2> QED BY <2>1, LaterPhase
<1>8. CASE InsertPlace \/ InsertReplace
  <2>1. pc = "insert" /\ pc' = "return"
    BY <1>8 DEF InsertPlace, InsertReplace
  <2> QED BY <2>1, LaterPhase
<1>9. CASE Return
  <2>1. pc = "return" /\ pc' = "ready"
    BY <1>9 DEF Return
  <2> QED BY <2>1, LaterPhase
<1>10. ~ \E c \in Call : Begin(c)
  BY DEF Begin
<1> QED BY <1>1, <1>2, <1>3, <1>4, <1>5, <1>6, <1>7, <1>8, <1>9, <1>10, Zenon
        DEF Next, Inside

\* No loop of a call goes around for ever, for any keys, hashes, capacities,
\* load factors and growth powers: every step within a call brings it nearer
\* to its end, along a well-founded order.  The probing loops have no other
\* exit than a free bucket or their key (hashmap.c:340, 387, 436), and the back-
\* ward shift none but a bucket that is free or at home (hashmap.c:454).
THEOREM CallsAreFinite == Spec => []LeftIsNat /\ [][pc # "ready" => Closer]_vars
<1>1. MapInv => LeftIsNat
  BY LeftTypes
<1> QED BY <1>1, StepIsCloser, MapInvariant, PTL DEF Spec

=============================================================================
