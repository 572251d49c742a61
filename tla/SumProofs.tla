------------------------------ MODULE SumProofs -----------------------------
(***************************************************************************)
(* What the folds of the community modules add up to, for the proofs about *)
(* sums that a program keeps as running totals.                            *)
(***************************************************************************)
EXTENDS Integers, FiniteSets, Functions, FiniteSetTheorems, WellFoundedInduction, TLAPS

-----------------------------------------------------------------------------
(***************************************************************************)
(* Sums over finite sets.  The recursion of SumFunctionOnSet picks one     *)
(* element after the other in an order nobody knows; these lemmas give the *)
(* sum of a finite set by any element, and how it changes with the set and *)
(* the function.  Induction over a finite set is an argument about a       *)
(* smallest counterexample, which the provers can be led through.          *)
(***************************************************************************)
\* A set of subsets of a finite set has a smallest member.
LEMMA SmallestSubset ==
  ASSUME NEW S, IsFiniteSet(S), NEW W \in SUBSET SUBSET S, W # {}
  PROVE  \E T \in W : \A U \in W : U \subseteq T => U = T
<1>1. FiniteSubsetsOf(S) = SUBSET S
  BY FS_FiniteSubsetsOfFinite
<1>2. IsWellFoundedOn(StrictSubsetOrdering(S), SUBSET S)
  BY <1>1, FS_StrictSubsetOrderingWellFounded
<1>3. \E T \in W : \A U \in W : ~ (<<U, T>> \in StrictSubsetOrdering(S))
  BY <1>2, WFMin
<1>4. \A T, U \in W :
        U \subseteq T /\ U # T => <<U, T>> \in StrictSubsetOrdering(S)
  BY DEF StrictSubsetOrdering
<1> QED BY <1>3, <1>4

-----------------------------------------------------------------------------
(***************************************************************************)
(* The recursion is well defined                                           *)
(***************************************************************************)
\* The element whose value is added first, and the rest.
Pick(T) == CHOOSE x \in T : TRUE
Rest(T) == T \ {Pick(T)}

\* One round of the recursion that defines the sum of f over S.
SumStep(g, f, S) ==
  [T \in SUBSET S |-> IF T = {} THEN 0 ELSE f[Pick(T)] + g[Rest(T)]]
IsSum(g, f, S) == g = SumStep(g, f, S)
SumOf(f, S) == CHOOSE g : IsSum(g, f, S)

LEMMA SumIsSumOf == ASSUME NEW f, NEW S PROVE SumFunctionOnSet(f, S) = SumOf(f, S)[S]
  BY DEF SumFunctionOnSet, FoldFunctionOnSet, MapThenFoldSet,
         SumOf, IsSum, SumStep, Pick, Rest

LEMMA RestIsLess == ASSUME NEW T, T # {} PROVE Pick(T) \in T /\ Rest(T) \subseteq T /\ Rest(T) # T
  BY DEF Pick, Rest

LEMMA SumRound ==
  ASSUME NEW f, NEW S, NEW g, IsSum(g, f, S), NEW T \in SUBSET S
  PROVE  g[T] = IF T = {} THEN 0 ELSE f[Pick(T)] + g[Rest(T)]
<1>1. g = [U \in SUBSET S |-> IF U = {} THEN 0 ELSE f[Pick(U)] + g[Rest(U)]]
  BY Zenon DEF IsSum, SumStep
<1> QED BY <1>1

\* Sums over different sets agree on what is in both.
LEMMA SumsAgree ==
  ASSUME NEW f, NEW S, IsFiniteSet(S), NEW R,
         NEW g, IsSum(g, f, S), NEW h, IsSum(h, f, R)
  PROVE  \A T \in SUBSET S : T \in SUBSET R => g[T] = h[T]
<1> DEFINE W == {T \in SUBSET S : T \in SUBSET R /\ g[T] # h[T]}
<1> SUFFICES ASSUME W # {} PROVE FALSE
  OBVIOUS
<1>1. PICK T \in W : \A U \in W : U \subseteq T => U = T
  <2>1. W \in SUBSET SUBSET S /\ W # {}
    OBVIOUS
  <2> HIDE DEF W
  <2> QED BY <2>1, SmallestSubset
<1>2. /\ g[T] = IF T = {} THEN 0 ELSE f[Pick(T)] + g[Rest(T)]
      /\ h[T] = IF T = {} THEN 0 ELSE f[Pick(T)] + h[Rest(T)]
  BY SumRound
<1>3. T # {} => g[Rest(T)] = h[Rest(T)]
  BY <1>1, RestIsLess
<1> QED BY <1>2, <1>3

LEMMA SumExists == ASSUME NEW f, NEW S, IsFiniteSet(S) PROVE \E g : IsSum(g, f, S)
<1> DEFINE W == {T \in SUBSET S : ~ \E g : IsSum(g, f, T)}
<1> SUFFICES ASSUME W # {} PROVE FALSE
  BY Zenon
<1>1. PICK T \in W : \A U \in W : U \subseteq T => U = T
  <2>1. W \in SUBSET SUBSET S /\ W # {}
    OBVIOUS
  <2> HIDE DEF W
  <2> QED BY <2>1, SmallestSubset
<1>2. \A U \in SUBSET T : U # T => IsSum(SumOf(f, U), f, U)
  BY <1>1, Zenon DEF SumOf
<1>3. \A U \in SUBSET T : IsFiniteSet(U)
  BY FS_Subset
<1> DEFINE g == [U \in SUBSET T |->
                   IF U = {} THEN 0 ELSE f[Pick(U)] + SumOf(f, Rest(U))[Rest(U)]]
<1>4. ASSUME NEW U \in SUBSET T, U # {}
      PROVE  SumOf(f, Rest(U))[Rest(U)] = g[Rest(U)]
  <2> DEFINE V == Rest(U)
  <2>1. V \in SUBSET T /\ V # T
    BY <1>4, RestIsLess
  <2>2. IsSum(SumOf(f, V), f, V)
    BY <1>2, <2>1
  <2>3. SumOf(f, V)[V] = IF V = {} THEN 0 ELSE f[Pick(V)] + SumOf(f, V)[Rest(V)]
    BY <2>2, SumRound
  <2>4. ASSUME V # {} PROVE SumOf(f, V)[Rest(V)] = SumOf(f, Rest(V))[Rest(V)]
    <3>1. Rest(V) \in SUBSET V /\ Rest(V) \in SUBSET T /\ Rest(V) # T
      BY <2>1, <2>4, RestIsLess
    <3>2. IsSum(SumOf(f, Rest(V)), f, Rest(V))
      BY <1>2, <3>1
    <3> QED BY <1>3, <2>1, <2>2, <3>1, <3>2, SumsAgree
  <2>5. g[V] = IF V = {} THEN 0 ELSE f[Pick(V)] + SumOf(f, Rest(V))[Rest(V)]
    BY <2>1
  <2> QED BY <2>3, <2>4, <2>5
<1>5. g = SumStep(g, f, T)
  <2> DEFINE h == SumStep(g, f, T)
  <2>1. h = [U \in SUBSET T |-> IF U = {} THEN 0 ELSE f[Pick(U)] + g[Rest(U)]]
    BY Zenon DEF SumStep
  <2>2. \A U \in SUBSET T : g[U] = h[U]
    BY <1>4, <2>1
  <2> QED BY <2>1, <2>2
<1> QED BY <1>1, <1>5, Zenon DEF IsSum

-----------------------------------------------------------------------------
(***************************************************************************)
(* What a sum is                                                           *)
(***************************************************************************)
LEMMA SumOfIsSum == ASSUME NEW f, NEW S, IsFiniteSet(S) PROVE IsSum(SumOf(f, S), f, S)
  BY SumExists, Zenon DEF SumOf

\* The sum of nothing.
LEMMA SumEmpty == ASSUME NEW f PROVE SumFunctionOnSet(f, {}) = 0
<1>1. IsSum(SumOf(f, {}), f, {})
  BY SumOfIsSum, FS_EmptySet
<1> QED BY <1>1, SumRound, SumIsSumOf

\* The sum of a set by the element that is picked.
LEMMA SumPick ==
  ASSUME NEW f, NEW S, IsFiniteSet(S), S # {}
  PROVE  SumFunctionOnSet(f, S) = f[Pick(S)] + SumFunctionOnSet(f, Rest(S))
<1>1. Rest(S) \in SUBSET S /\ IsFiniteSet(Rest(S))
  BY RestIsLess, FS_Subset
<1>2. IsSum(SumOf(f, S), f, S) /\ IsSum(SumOf(f, Rest(S)), f, Rest(S))
  BY <1>1, SumOfIsSum
<1>3. SumOf(f, S)[S] = f[Pick(S)] + SumOf(f, S)[Rest(S)]
  BY <1>2, SumRound
<1>4. SumOf(f, S)[Rest(S)] = SumOf(f, Rest(S))[Rest(S)]
  BY <1>1, <1>2, SumsAgree
<1> QED BY <1>3, <1>4, SumIsSumOf

LEMMA SumIsInt ==
  ASSUME NEW S, IsFiniteSet(S), NEW f, \A x \in S : f[x] \in Int
  PROVE  SumFunctionOnSet(f, S) \in Int
<1> DEFINE W == {T \in SUBSET S : SumFunctionOnSet(f, T) \notin Int}
<1> SUFFICES ASSUME W # {} PROVE FALSE
  BY Zenon
<1>1. PICK T \in W : \A U \in W : U \subseteq T => U = T
  <2>1. W \in SUBSET SUBSET S /\ W # {}
    OBVIOUS
  <2> HIDE DEF W
  <2> QED BY <2>1, SmallestSubset
<1>2. CASE T = {}
  BY <1>1, <1>2, SumEmpty
<1>3. CASE T # {}
  <2>1. Pick(T) \in S /\ Rest(T) \in SUBSET S /\ Rest(T) \subseteq T /\ Rest(T) # T
    BY <1>3, RestIsLess
  <2>2. SumFunctionOnSet(f, Rest(T)) \in Int
    BY <1>1, <2>1
  <2>3. SumFunctionOnSet(f, T) = f[Pick(T)] + SumFunctionOnSet(f, Rest(T))
    BY <1>3, SumPick, FS_Subset
  <2>4. f[Pick(T)] \in Int
    BY <2>1
  <2> QED BY <1>1, <2>2, <2>3, <2>4
<1> QED BY <1>2, <1>3

\* The sum of a set by any of its elements.
LEMMA SumByAny ==
  ASSUME NEW S, IsFiniteSet(S), NEW f, \A x \in S : f[x] \in Int
  PROVE  \A T \in SUBSET S : \A x \in T :
           SumFunctionOnSet(f, T) = f[x] + SumFunctionOnSet(f, T \ {x})
<1> DEFINE Sum(T) == SumFunctionOnSet(f, T)
           W == {T \in SUBSET S : \E x \in T : Sum(T) # f[x] + Sum(T \ {x})}
<1> SUFFICES ASSUME W # {} PROVE FALSE
  OBVIOUS
<1>1. \A T \in SUBSET S : IsFiniteSet(T) /\ Sum(T) \in Int
  <2> SUFFICES ASSUME NEW T \in SUBSET S PROVE IsFiniteSet(T) /\ Sum(T) \in Int
    OBVIOUS
  <2>1. IsFiniteSet(T)
    BY FS_Subset
  <2> QED BY <2>1, SumIsInt
<1>2. PICK T \in W : \A U \in W : U \subseteq T => U = T
  <2>1. W \in SUBSET SUBSET S /\ W # {}
    OBVIOUS
  <2> HIDE DEF W
  <2> QED BY <2>1, SmallestSubset
<1>3. PICK x \in T : Sum(T) # f[x] + Sum(T \ {x})
  BY <1>2
<1> DEFINE y == Pick(T)
           V == T \ {x, y}
<1>4. y \in T /\ Sum(T) = f[y] + Sum(T \ {y})
  BY <1>1, SumPick, RestIsLess DEF Rest
<1>5. x # y
  BY <1>3, <1>4
<1>6. Sum(T \ {y}) = f[x] + Sum(V)
  <2>1. T \ {y} \in SUBSET S /\ T \ {y} \subseteq T /\ T \ {y} # T /\ x \in T \ {y}
    BY <1>4, <1>5
  <2>2. (T \ {y}) \ {x} = V
    OBVIOUS
  <2>3. T \ {y} \notin W
    BY <1>2, <2>1
  <2> QED BY <2>1, <2>2, <2>3
<1>7. Sum(T \ {x}) = f[y] + Sum(V)
  <2>1. T \ {x} \in SUBSET S /\ T \ {x} \subseteq T /\ T \ {x} # T /\ y \in T \ {x}
    BY <1>4, <1>5
  <2>2. (T \ {x}) \ {y} = V
    OBVIOUS
  <2>3. T \ {x} \notin W
    BY <1>2, <2>1
  <2> QED BY <2>1, <2>2, <2>3
<1>8. f[x] \in Int /\ f[y] \in Int /\ Sum(V) \in Int
  BY <1>1, <1>4
<1> HIDE DEF Sum, y, V
<1> QED BY <1>3, <1>4, <1>6, <1>7, <1>8

\* What is not in the set yet is added.
LEMMA SumInsert ==
  ASSUME NEW T, IsFiniteSet(T), NEW x, x \notin T,
         NEW f, \A y \in T \cup {x} : f[y] \in Int
  PROVE  SumFunctionOnSet(f, T \cup {x}) = f[x] + SumFunctionOnSet(f, T)
<1>1. IsFiniteSet(T \cup {x})
  BY FS_AddElement
<1>2. T \cup {x} \in SUBSET (T \cup {x}) /\ x \in T \cup {x} /\ (T \cup {x}) \ {x} = T
  OBVIOUS
<1> QED BY <1>1, <1>2, SumByAny

\* Nothing adds up to nothing.
LEMMA SumOfZeros ==
  ASSUME NEW S, IsFiniteSet(S), NEW f, \A x \in S : f[x] = 0
  PROVE  SumFunctionOnSet(f, S) = 0
<1> DEFINE W == {T \in SUBSET S : SumFunctionOnSet(f, T) # 0}
<1> SUFFICES ASSUME W # {} PROVE FALSE
  OBVIOUS
<1>1. PICK T \in W : \A U \in W : U \subseteq T => U = T
  <2>1. W \in SUBSET SUBSET S /\ W # {}
    OBVIOUS
  <2> HIDE DEF W
  <2> QED BY <2>1, SmallestSubset
<1>2. CASE T = {}
  BY <1>1, <1>2, SumEmpty
<1>3. CASE T # {}
  <2>1. Pick(T) \in S /\ Rest(T) \in SUBSET S /\ Rest(T) \subseteq T /\ Rest(T) # T
    BY <1>3, RestIsLess
  <2>2. SumFunctionOnSet(f, Rest(T)) = 0
    BY <1>1, <2>1
  <2>3. SumFunctionOnSet(f, T) = f[Pick(T)] + SumFunctionOnSet(f, Rest(T))
    BY <1>3, SumPick, FS_Subset
  <2> QED BY <1>1, <2>1, <2>2, <2>3
<1> QED BY <1>2, <1>3

\* Functions that agree on a set have the same sum over it.
LEMMA SumSame ==
  ASSUME NEW S, IsFiniteSet(S), NEW f, NEW g, \A x \in S : f[x] = g[x]
  PROVE  SumFunctionOnSet(f, S) = SumFunctionOnSet(g, S)
<1> DEFINE W == {T \in SUBSET S : SumFunctionOnSet(f, T) # SumFunctionOnSet(g, T)}
<1> SUFFICES ASSUME W # {} PROVE FALSE
  OBVIOUS
<1>1. PICK T \in W : \A U \in W : U \subseteq T => U = T
  <2>1. W \in SUBSET SUBSET S /\ W # {}
    OBVIOUS
  <2> HIDE DEF W
  <2> QED BY <2>1, SmallestSubset
<1>2. IsFiniteSet(T)
  BY FS_Subset
<1>3. CASE T = {}
  BY <1>1, <1>3, SumEmpty
<1>4. CASE T # {}
  <2>1. Pick(T) \in S /\ Rest(T) \in SUBSET S /\ Rest(T) \subseteq T /\ Rest(T) # T
    BY <1>4, RestIsLess
  <2>2. SumFunctionOnSet(f, Rest(T)) = SumFunctionOnSet(g, Rest(T))
    BY <1>1, <2>1
  <2>3. /\ SumFunctionOnSet(f, T) = f[Pick(T)] + SumFunctionOnSet(f, Rest(T))
        /\ SumFunctionOnSet(g, T) = g[Pick(T)] + SumFunctionOnSet(g, Rest(T))
    BY <1>2, <1>4, SumPick
  <2> QED BY <1>1, <2>1, <2>2, <2>3
<1> QED BY <1>3, <1>4


\* One step of an account that is kept for the clients of f: those in Q have
\* one more than before, the others have as much as before, and those that
\* are new have nothing.
Grows(f, g, Q) ==
  /\ IsFiniteSet(DOMAIN g) /\ DOMAIN f \subseteq DOMAIN g
  /\ \A x \in DOMAIN f :
       f[x] \in Int /\ g[x] = f[x] + IF x \in Q THEN 1 ELSE 0
  /\ \A x \in DOMAIN g \ DOMAIN f : g[x] = 0

\* The sum grows by the number of those in Q.
LEMMA SumGrows ==
  ASSUME NEW f, NEW g, NEW Q, Grows(f, g, Q)
  PROVE  SumFunction(g) = SumFunction(f) + Cardinality(DOMAIN f \cap Q)
<1> DEFINE S == DOMAIN f
           T == DOMAIN g
<1>0. /\ IsFiniteSet(T) /\ S \subseteq T
      /\ \A x \in S : f[x] \in Int /\ g[x] = f[x] + IF x \in Q THEN 1 ELSE 0
      /\ \A x \in T \ S : g[x] = 0
  BY DEF Grows
<1>a. /\ SumFunction(f) = SumFunctionOnSet(f, S)
      /\ SumFunction(g) = SumFunctionOnSet(g, T)
  BY Zenon DEF SumFunction
<1> HIDE DEF S, T
<1> SUFFICES SumFunction(g) = SumFunction(f) + Cardinality(S \cap Q)
  BY DEF S
<1> USE <1>0
<1> DEFINE Grown(U) == SumFunctionOnSet(g, U) =
             SumFunctionOnSet(f, S \cap U) + Cardinality(S \cap Q \cap U)
           W == {U \in SUBSET T : ~Grown(U)}
<1>1. Grown(T) => SumFunction(g) = SumFunction(f) + Cardinality(S \cap Q)
  <2>1. S \cap T = S /\ S \cap Q \cap T = S \cap Q
    OBVIOUS
  <2> QED BY <1>a, <2>1
<1> SUFFICES ASSUME W # {} PROVE FALSE
  BY <1>1
<1>2. PICK U \in W : \A V \in W : V \subseteq U => V = U
  <2>1. W \in SUBSET SUBSET T /\ W # {}
    OBVIOUS
  <2> HIDE DEF W
  <2> QED BY <2>1, SmallestSubset
<1>3. \A V \in SUBSET T : IsFiniteSet(V)
  BY FS_Subset
<1>4. CASE U = {}
  <2>1. S \cap U = {} /\ S \cap Q \cap U = {}
    BY <1>4
  <2>2. SumFunctionOnSet(g, {}) = 0 /\ SumFunctionOnSet(f, {}) = 0 /\ Cardinality({}) = 0
    BY SumEmpty, FS_EmptySet
  <2> QED BY <1>2, <1>4, <2>1, <2>2
<1>5. CASE U # {}
  <2>1. PICK x \in U : TRUE
    BY <1>5
  <2> DEFINE V == U \ {x}
             a == SumFunctionOnSet(g, V)
             b == SumFunctionOnSet(f, S \cap V)
             n == Cardinality(S \cap Q \cap V)
  <2>2. V \in SUBSET T /\ V \subseteq U /\ V # U /\ x \in T /\ U \in SUBSET T
    BY <1>2, <2>1
  <2>3. a = b + n
    BY <1>2, <2>2
  <2>4. \A y \in T : g[y] \in Int
    OBVIOUS
  <2>5. SumFunctionOnSet(g, U) = g[x] + a
    BY <2>1, <2>2, <2>4, SumByAny
  <2>6. IsFiniteSet(S) /\ IsFiniteSet(S \cap V) /\ S \cap V \in SUBSET S /\ b \in Int
    BY <1>3, <2>2, SumIsInt
  <2>7. IsFiniteSet(S \cap Q \cap V) /\ n \in Nat
    BY <1>3, <2>2, FS_CardinalityType
  <2>8. CASE x \in S
    <3>1. SumFunctionOnSet(f, S \cap U) = f[x] + b
      <4>1. S \cap U \in SUBSET S /\ x \in S \cap U /\ S \cap V = (S \cap U) \ {x}
        BY <2>1, <2>8
      <4> QED BY <2>6, <4>1, SumByAny
    <3>2. Cardinality(S \cap Q \cap U) = n + IF x \in Q THEN 1 ELSE 0
      <4>1. CASE x \in Q
        <5>1. S \cap Q \cap U = (S \cap Q \cap V) \cup {x} /\ x \notin S \cap Q \cap V
          BY <2>1, <2>8, <4>1
        <5>2. Cardinality((S \cap Q \cap V) \cup {x}) = n + 1
          BY <2>7, <5>1, FS_AddElement
        <5> QED BY <4>1, <5>1, <5>2, Zenon
      <4>2. CASE x \notin Q
        <5>1. S \cap Q \cap U = S \cap Q \cap V
          BY <4>2
        <5>2. n + 0 = n
          BY <2>7
        <5> QED BY <4>2, <5>1, <5>2, Zenon
      <4> QED BY <4>1, <4>2
    <3>3. g[x] = f[x] + (IF x \in Q THEN 1 ELSE 0) /\ f[x] \in Int
      BY <2>8
    <3> HIDE DEF a, b, n
    <3>4. Grown(U)
      BY <2>3, <2>5, <2>6, <2>7, <3>1, <3>2, <3>3
    <3> QED BY <1>2, <3>4
  <2>9. CASE x \notin S
    <3>1. S \cap U = S \cap V /\ S \cap Q \cap U = S \cap Q \cap V /\ g[x] = 0
      BY <2>2, <2>9
    <3>2. Grown(U)
      <4>1. /\ SumFunctionOnSet(f, S \cap U) = b
            /\ Cardinality(S \cap Q \cap U) = n
        BY <3>1
      <4> HIDE DEF a, b, n
      <4> QED BY <2>3, <2>5, <2>6, <2>7, <3>1, <4>1
    <3> QED BY <1>2, <3>2
  <2> QED BY <2>8, <2>9
<1> QED BY <1>4, <1>5

=============================================================================
