---------------------------- MODULE QueueProofs -----------------------------
(***************************************************************************)
(* Proofs about queue.c for every set of pointers, initial capacity and    *)
(* number of elements: the loop of queue_push stays inside the array,      *)
(* queue_push and queue_pop implement the first-in first-out list of Fifo, *)
(* and what they return tells whether they have changed it.                *)
(***************************************************************************)
EXTENDS Queue, SequenceTheorems, TLAPS

(***************************************************************************)
(* The inductive invariant.  Outside the loop the first `size' cells hold  *)
(* pointers; inside it there is room for one more element, the cells       *)
(* already passed and those still ahead hold pointers, and the pointer     *)
(* taken out of the array is in `last'.                                    *)
(***************************************************************************)
LiveCells == Live \in [0 .. size - 1 -> Item]

LoopInv ==
  pc = "shift" => /\ 0 < size /\ size < capacity
                  /\ i \in 1 .. size + 1
                  /\ item \in Item

IInv == TypeOK /\ LoopInv /\ LiveCells

USE CapacityAssumption, BoundAssumption, CellAssumption

(***************************************************************************)
(* Two sequences given by their elements.                                  *)
(***************************************************************************)
LEMMA AppendByIndex ==
  ASSUME NEW S, NEW s \in Seq(S), NEW t \in Seq(S), NEW x \in S,
         Len(t) = Len(s) + 1,
         \A k \in 1 .. Len(s) : t[k] = s[k],
         t[Len(s) + 1] = x
  PROVE  t = Append(s, x)
<1>1. /\ Append(s, x) \in Seq(S)
      /\ Len(Append(s, x)) = Len(s) + 1
      /\ \A k \in 1 .. Len(s) : Append(s, x)[k] = s[k]
      /\ Append(s, x)[Len(s) + 1] = x
  BY AppendProperties
<1>2. Len(s) \in Nat
  BY LenProperties
<1>3. \A k \in 1 .. Len(t) : t[k] = Append(s, x)[k]
  BY <1>1, <1>2
<1> QED BY <1>1, <1>3, SeqEqual

\* A sequence that holds the elements of s from the second on is its tail.
LEMMA TailByIndex ==
  ASSUME NEW S, NEW s \in Seq(S), NEW t \in Seq(S), s # <<>>,
         Len(t) = Len(s) - 1,
         \A k \in 1 .. Len(t) : t[k] = s[k + 1]
  PROVE  t = Tail(s)
  BY HeadTailProperties, SeqEqual

\* Turning a function on 0 .. n - 1 around yields a sequence of its values.
LEMMA ReverseByIndex ==
  ASSUME NEW S, NEW n \in Nat, NEW f \in [0 .. n - 1 -> S],
         NEW s, s = [k \in 1 .. n |-> f[n - k]]
  PROVE  /\ s \in Seq(S)
         /\ Len(s) = n
         /\ \A k \in 1 .. n : s[k] = f[n - k]
  OBVIOUS

\* The list the array stands for, element by element.
ByIndex ==
  /\ Contents \in Seq(Item)
  /\ Len(Contents) = size
  /\ \A k \in 1 .. size : Contents[k] = Live[size - k]

\* The list of Fifo, element by element, in terms of the array.
LEMMA ContentsByIndex == IInv => ByIndex
<1> SUFFICES ASSUME IInv PROVE ByIndex
  OBVIOUS
<1>1. size \in Nat /\ Live \in [0 .. size - 1 -> Item]
  BY DEF IInv, TypeOK, LiveCells
<1> QED BY <1>1, ReverseByIndex DEF Contents, ByIndex

\* The same of the list after a step.
LEMMA ContentsByIndexPrime == IInv' => ByIndex'
  BY ContentsByIndex, PTL

\* queue_init establishes the invariant.
LEMMA InitIInv == Init => IInv
  BY DEF Init, IInv, TypeOK, LoopInv, LiveCells, Cell

(***************************************************************************)
(* One lemma per action: the invariant is preserved, and the list of       *)
(* elements changes as the promised operation says, or not at all.         *)
(***************************************************************************)
LEMMA PushIntoEmptyStep ==
  ASSUME IInv, NEW x \in Item, PushIntoEmpty(x)
  PROVE  IInv' /\ Contents' = Append(Contents, x)
  BY DEF IInv, TypeOK, LoopInv, LiveCells, Live, Contents, Cell, locals, PushIntoEmpty, IsFull

\* A push that finds no memory leaves queue and list as they were.
LEMMA PushRefusedStep ==
  ASSUME IInv, NEW x \in Item, PushRefused(x)
  PROVE  IInv' /\ Contents' = Contents
  BY DEF IInv, TypeOK, LoopInv, LiveCells, Live, Contents, Cell, locals, PushRefused

\* Growing the array and entering the loop leaves the list as it was.
LEMMA PushBeginStep ==
  ASSUME IInv, NEW x \in Item, PushBegin(x)
  PROVE  IInv' /\ Contents' = Contents
<1>1. CASE IsFull /\ Resize(items, size, capacity * 2)
  BY <1>1 DEF IInv, TypeOK, LoopInv, LiveCells, Live, Contents, Cell, PushBegin, IsFull, Resize, Smaller
<1>2. CASE ~IsFull /\ size > 0 /\ UNCHANGED <<items, size, capacity>>
  BY <1>2 DEF IInv, TypeOK, LoopInv, LiveCells, Live, Contents, Cell, PushBegin, IsFull
<1> QED BY <1>1, <1>2 DEF PushBegin

\* Moving one cell of the array leaves the list as it was.
LEMMA PushShiftStep ==
  ASSUME IInv, PushShift
  PROVE  IInv' /\ Contents' = Contents
  BY DEF IInv, TypeOK, LoopInv, LiveCells, Live, Contents, Cell, PushShift, MoreToShift

\* Writing the front cell appends the item to the list.
LEMMA PushEndStep ==
  ASSUME IInv, PushEnd
  PROVE  IInv' /\ item \in Item /\ Contents' = Append(Contents, item)
<1>a. /\ size \in Nat /\ capacity \in Nat /\ 0 < size /\ size < capacity
      /\ i = size + 1 /\ item \in Item /\ items \in [0 .. capacity - 1 -> Cell]
  BY DEF IInv, TypeOK, LoopInv, PushEnd, MoreToShift
<1>b. \A j \in 0 .. size - 1 : items[j + 1] \in Item /\ Live[j] = items[j + 1]
  <2>1. Live = [j \in 0 .. size - 1 |-> items[j + 1]]
    BY <1>a DEF PushEnd, Live
  <2>2. Live \in [0 .. size - 1 -> Item]
    BY DEF IInv, LiveCells
  <2> QED BY <1>a, <2>1, <2>2
<1>c. /\ size' = size + 1 /\ items' \in [0 .. capacity - 1 -> Cell]
      /\ items'[0] = item
      /\ \A j \in 1 .. capacity - 1 : items'[j] = items[j]
  BY <1>a DEF PushEnd, Cell
<1>d. pc' = "ready" /\ ret' = 1 /\ UNCHANGED <<capacity, i, last, item>>
  BY DEF PushEnd, locals
<1>e. \A j \in 0 .. size : Live'[j] = items'[j]
  BY <1>a, <1>c, <1>d DEF Live
<1>1. IInv' /\ item \in Item
  <2>1. TypeOK'
    BY <1>a, <1>c, <1>d DEF IInv, TypeOK, Cell
  <2>2. \A j \in 0 .. size : items'[j] \in Item
    <3> SUFFICES ASSUME NEW j \in 0 .. size, j # 0 PROVE items'[j] \in Item
      BY <1>a, <1>c
    <3>1. items'[j] = items[(j - 1) + 1] /\ j - 1 \in 0 .. size - 1
      BY <1>a, <1>c
    <3> QED BY <1>b, <3>1
  <2>3. LiveCells'
    <3>1. Live' = [j \in 0 .. size |-> items'[j]]
      BY <1>a, <1>c, <1>d DEF Live
    <3> QED BY <1>a, <1>c, <2>2, <3>1 DEF LiveCells
  <2> QED BY <1>a, <1>d, <2>1, <2>3 DEF IInv, LoopInv
<1>2. /\ size \in Nat /\ size' = size + 1
      /\ \A k \in 1 .. size : Live'[size' - k] = Live[size - k]
      /\ Live'[size' - (size + 1)] = item
  BY <1>a, <1>b, <1>c, <1>e
<1>3. /\ Len(Contents') = Len(Contents) + 1
      /\ \A k \in 1 .. Len(Contents) : Contents'[k] = Contents[k]
      /\ Contents'[Len(Contents) + 1] = item
  <2>1. /\ Len(Contents) = size
        /\ \A k \in 1 .. size : Contents[k] = Live[size - k]
    BY ContentsByIndex DEF ByIndex
  <2>2. /\ Len(Contents') = size'
        /\ \A k \in 1 .. size' : Contents'[k] = Live'[size' - k]
    BY <1>1, ContentsByIndexPrime DEF ByIndex
  <2>3. Contents'[size + 1] = item
    BY <1>2, <2>2
  <2>4. \A k \in 1 .. size : Contents'[k] = Contents[k]
    BY <1>2, <2>1, <2>2
  <2> QED BY <1>2, <2>1, <2>2, <2>3, <2>4
<1> QED BY <1>1, <1>3, ContentsByIndex, ContentsByIndexPrime, AppendByIndex DEF ByIndex

\* A pop takes the oldest element off the list.
LEMMA PopKeepingCapacityStep ==
  ASSUME IInv, PopKeepingCapacity
  PROVE  IInv' /\ Contents # <<>> /\ Contents' = Tail(Contents)
<1>1. IInv'
  BY DEF IInv, TypeOK, LoopInv, LiveCells, Live, Cell, locals, PopKeepingCapacity
<1>2. /\ size \in Nat \ {0} /\ size' = size - 1
      /\ \A k \in 1 .. size - 1 : Live'[size' - k] = Live[size - (k + 1)]
  BY DEF IInv, TypeOK, LoopInv, Live, Cell, locals, PopKeepingCapacity
<1>3. /\ Contents # <<>>
      /\ Len(Contents') = Len(Contents) - 1
      /\ \A k \in 1 .. Len(Contents') : Contents'[k] = Contents[k + 1]
  <2>1. /\ Len(Contents) = size
        /\ \A k \in 1 .. size : Contents[k] = Live[size - k]
    BY ContentsByIndex DEF ByIndex
  <2>2. /\ Len(Contents') = size'
        /\ \A k \in 1 .. size' : Contents'[k] = Live'[size' - k]
    BY <1>1, ContentsByIndexPrime DEF ByIndex
  <2>3. ASSUME NEW k \in 1 .. size - 1
        PROVE  Contents'[k] = Contents[k + 1]
    <3>1. Contents'[k] = Live'[size' - k]
      BY <1>2, <2>2
    <3>2. Contents[k + 1] = Live[size - (k + 1)]
      BY <1>2, <2>1
    <3> QED BY <1>2, <3>1, <3>2
  <2> QED BY <1>2, <2>1, <2>2, <2>3
<1> QED BY <1>1, <1>3, ContentsByIndex, ContentsByIndexPrime, TailByIndex DEF ByIndex

\* A pop that halves the array takes off the oldest element and no other.
LEMMA PopAndShrinkStep ==
  ASSUME IInv, PopAndShrink
  PROVE  IInv' /\ Contents # <<>> /\ Contents' = Tail(Contents)
<1>1. IInv'
  BY DEF IInv, TypeOK, LoopInv, LiveCells, Live, Cell, locals, PopAndShrink, Shrinks, Resize, Smaller
<1>2. /\ size \in Nat \ {0} /\ size' = size - 1
      /\ \A k \in 1 .. size - 1 : Live'[size' - k] = Live[size - (k + 1)]
  BY DEF IInv, TypeOK, LoopInv, Live, Cell, locals, PopAndShrink, Shrinks, Resize, Smaller
<1>3. /\ Contents # <<>>
      /\ Len(Contents') = Len(Contents) - 1
      /\ \A k \in 1 .. Len(Contents') : Contents'[k] = Contents[k + 1]
  <2>1. /\ Len(Contents) = size
        /\ \A k \in 1 .. size : Contents[k] = Live[size - k]
    BY ContentsByIndex DEF ByIndex
  <2>2. /\ Len(Contents') = size'
        /\ \A k \in 1 .. size' : Contents'[k] = Live'[size' - k]
    BY <1>1, ContentsByIndexPrime DEF ByIndex
  <2>3. ASSUME NEW k \in 1 .. size - 1
        PROVE  Contents'[k] = Contents[k + 1]
    <3>1. Contents'[k] = Live'[size' - k]
      BY <1>2, <2>2
    <3>2. Contents[k + 1] = Live[size - (k + 1)]
      BY <1>2, <2>1
    <3> QED BY <1>2, <3>1, <3>2
  <2> QED BY <1>2, <2>1, <2>2, <2>3
<1> QED BY <1>1, <1>3, ContentsByIndex, ContentsByIndexPrime, TailByIndex DEF ByIndex

\* A pop of an empty queue changes nothing.
LEMMA PopEmptyStep ==
  ASSUME IInv, PopEmpty
  PROVE  IInv' /\ Contents' = Contents
  BY DEF IInv, TypeOK, LoopInv, LiveCells, Live, Contents, Cell, locals, PopEmpty

\* A step that changes no variable changes no list.
LEMMA StutterStep ==
  ASSUME IInv, UNCHANGED vars
  PROVE  IInv' /\ Contents' = Contents
  BY DEF IInv, TypeOK, LoopInv, LiveCells, Live, Contents, Cell, locals, vars

(***************************************************************************)
(* Every step keeps the invariant and is a step of the list or a stutter.  *)
(***************************************************************************)
LEMMA StepRefines ==
  ASSUME IInv, [Next]_vars
  PROVE  IInv' /\ [FIFO!Next]_Contents
<1>1. CASE \E x \in Item : Push(x)
  <2>1. PICK x \in Item : Push(x)
    BY <1>1
  <2>2. CASE PushIntoEmpty(x)
    BY <2>2, PushIntoEmptyStep DEF FIFO!Next, FIFO!Enqueue
  <2>3. CASE PushRefused(x)
    BY <2>3, PushRefusedStep
  <2>4. CASE PushBegin(x)
    BY <2>4, PushBeginStep
  <2> QED BY <2>1, <2>2, <2>3, <2>4 DEF Push
<1>2. CASE PushShift
  BY <1>2, PushShiftStep
<1>3. CASE PushEnd
  BY <1>3, PushEndStep DEF FIFO!Next, FIFO!Enqueue
<1>4. CASE PopEmpty
  BY <1>4, PopEmptyStep
<1>5. CASE PopKeepingCapacity
  BY <1>5, PopKeepingCapacityStep DEF FIFO!Next, FIFO!Dequeue
<1>6. CASE PopAndShrink
  BY <1>6, PopAndShrinkStep DEF FIFO!Next, FIFO!Dequeue
<1>7. CASE UNCHANGED vars
  BY <1>7, StutterStep
<1> QED BY <1>1, <1>2, <1>3, <1>4, <1>5, <1>6, <1>7 DEF Next, InLoop, Pop

\* A new queue is the empty list.
LEMMA InitRefines == Init => FIFO!Init
  BY DEF Init, FIFO!Init, Contents

-----------------------------------------------------------------------------
(***************************************************************************)
(* Whatever the pointers, the initial capacity and the calls made, the     *)
(* variables of queue.c keep their types and size never exceeds capacity.  *)
(***************************************************************************)
THEOREM TypeCorrect == Spec => []TypeOK
<1>1. IInv => TypeOK
  BY DEF IInv
<1>2. IInv /\ [Next]_vars => IInv'
  BY StepRefines
<1> QED BY InitIInv, <1>1, <1>2, PTL DEF Spec

(***************************************************************************)
(* The loop of queue_push (queue.c:59-65) never leaves the allocated       *)
(* array, although it runs up to and including index `size'.               *)
(***************************************************************************)
THEOREM LoopInBounds == Spec => []InBounds
<1>1. IInv => InBounds
  BY DEF IInv, TypeOK, LoopInv, InBounds, MoreToShift
<1>2. IInv /\ [Next]_vars => IInv'
  BY StepRefines
<1> QED BY InitIInv, <1>1, <1>2, PTL DEF Spec

(***************************************************************************)
(* The array with its shifting, doubling, halving and failing allocations  *)
(* implements the first-in first-out list that queue.h documents.          *)
(***************************************************************************)
THEOREM QueueIsFifo == Spec => ImplementsFifo
<1>1. IInv /\ [Next]_vars => IInv' /\ [FIFO!Next]_Contents
  BY StepRefines
<1> QED BY InitIInv, InitRefines, <1>1, PTL DEF Spec, ImplementsFifo, FIFO!Spec

\* A list is neither what it is with one more element nor its own tail.
LEMMA ListsDiffer ==
  ASSUME NEW q \in Seq(Item)
  PROVE  /\ \A x \in Item : Append(q, x) # q
         /\ q # <<>> => Tail(q) # q
<1>1. Len(q) \in Nat /\ \A x \in Item : Len(Append(q, x)) = Len(q) + 1
  BY AppendProperties, LenProperties
<1>2. q # <<>> => Len(Tail(q)) = Len(q) - 1
  BY HeadTailProperties
<1>3. \A n \in Nat : n + 1 # n /\ n - 1 # n
  OBVIOUS
<1> QED BY <1>1, <1>2, <1>3

(***************************************************************************)
(* What a call returns tells whether it has changed the queue              *)
(* (queue.h:50, queue.h:56): 1 when it has, 0 when a push found no memory  *)
(* or a pop no element, whatever the capacity and wherever realloc fails.  *)
(***************************************************************************)
THEOREM ReturnsReport == Spec => ReturnReportsEffect
<1>1. IInv /\ [Next]_vars => [pc' = "ready" => (ret' = 1 <=> Contents' # Contents)]_vars
  <2> SUFFICES ASSUME IInv, Next, pc' = "ready" PROVE ret' = 1 <=> Contents' # Contents
    OBVIOUS
  <2>1. Contents \in Seq(Item)
    BY ContentsByIndex DEF ByIndex
  <2>2. ASSUME NEW x \in Item, PushIntoEmpty(x) PROVE ret' = 1 /\ Contents' # Contents
    BY <2>1, <2>2, PushIntoEmptyStep, ListsDiffer DEF PushIntoEmpty
  <2>3. ASSUME NEW x \in Item, PushRefused(x) PROVE ret' = 0 /\ Contents' = Contents
    BY <2>3, PushRefusedStep DEF PushRefused
  <2>4. PushEnd => ret' = 1 /\ Contents' # Contents
    BY <2>1, PushEndStep, ListsDiffer DEF PushEnd
  <2>5. PopEmpty => ret' = 0 /\ Contents' = Contents
    BY PopEmptyStep DEF PopEmpty
  <2>6. PopKeepingCapacity => ret' = 1 /\ Contents' # Contents
    BY <2>1, PopKeepingCapacityStep, ListsDiffer DEF PopKeepingCapacity
  <2>7. PopAndShrink => ret' = 1 /\ Contents' # Contents
    BY <2>1, PopAndShrinkStep, ListsDiffer DEF PopAndShrink
  <2>8. ~PushShift /\ \A x \in Item : ~PushBegin(x)
    BY DEF PushShift, PushBegin
  <2>9. \/ \E x \in Item : PushIntoEmpty(x) \/ PushRefused(x)
        \/ PushEnd \/ PopEmpty \/ PopKeepingCapacity \/ PopAndShrink
    BY <2>8, Zenon DEF Next, InLoop, Pop, Push
  <2> QED BY <2>2, <2>3, <2>4, <2>5, <2>6, <2>7, <2>9
<1>2. IInv /\ [Next]_vars => IInv'
  BY StepRefines
<1> QED BY InitIInv, <1>1, <1>2, PTL DEF Spec, ReturnReportsEffect

\* The iterations that the loop of queue_push still has to make, and its end.
LoopLeft == IF pc = "shift" THEN size + 2 - i ELSE 0
LoopInBudget == LoopLeft \in 0 .. size + 1

\* A queue_push does not loop for ever: every step after its begin leaves
\* less to do, at most one step more than there are elements, for every
\* capacity and fill level (queue.c:59-65).
THEOREM PushIsFinite ==
  Spec => []LoopInBudget /\ [][pc = "shift" => LoopLeft' < LoopLeft]_vars
<1>1. IInv => LoopInBudget
  BY DEF IInv, TypeOK, LoopInv, LoopInBudget, LoopLeft
<1>2. IInv /\ [Next]_vars => [pc = "shift" => LoopLeft' < LoopLeft]_vars
  <2> SUFFICES ASSUME IInv, Next, pc = "shift" PROVE LoopLeft' < LoopLeft
    BY Zenon
  <2>1. CASE PushShift
    BY <2>1 DEF PushShift, MoreToShift, LoopLeft, IInv, TypeOK
  <2>2. CASE PushEnd
    BY <2>2 DEF PushEnd, MoreToShift, LoopLeft, IInv, TypeOK, LoopInv
  <2>3. ~ Pop /\ ~ \E x \in Item : Push(x)
    BY DEF Pop, Push, PopEmpty, PopKeepingCapacity, PopAndShrink, PushIntoEmpty,
           PushRefused, PushBegin
  <2> QED BY <2>1, <2>2, <2>3 DEF Next, InLoop
<1>3. IInv /\ [Next]_vars => IInv'
  BY StepRefines
<1> QED BY InitIInv, <1>1, <1>2, <1>3, PTL DEF Spec

=============================================================================
