------------------------------- MODULE Queue --------------------------------
(***************************************************************************)
(* The dynamic array behind every queue of the simulator (src/src/queue.c).*)
(* The newest element is at index 0 and the oldest, which queue_top and    *)
(* queue_pop take, at index size - 1, so queue_push shifts the whole array *)
(* by one cell; the loop that does so is modelled iteration by iteration.  *)
(* The array doubles when a push finds it full and halves when a pop       *)
(* leaves less than half of it in use; either realloc may fail.            *)
(*                                                                         *)
(* The capacity is not given a width: a queue never holds more than the    *)
(* clients of one run, fewer than INT_MAX, so capacity * 2 stays in the    *)
(* range of unsigned.                                                      *)
(***************************************************************************)
EXTENDS Integers, Sequences

CONSTANTS
  Item,           \* the non-NULL pointers that are pushed
  BaseCapacity,   \* argument of queue_init (QUEUE_BASE_SIZE)
  MaxSize,        \* bound: no push once this many elements are held
  Null,           \* the value a popped cell is overwritten with
  Junk            \* what a cell holds before it is first written

ASSUME CapacityAssumption == BaseCapacity \in Nat \ {0}
ASSUME BoundAssumption == MaxSize \in Nat
ASSUME CellAssumption == Null \notin Item /\ Junk \notin Item

VARIABLES
  items,          \* the allocated cells, [0 .. capacity - 1 -> Cell]
  size,
  capacity,
  pc,             \* "ready" between calls, "shift" in the loop of queue_push
  i, last, item,  \* locals of queue_push
  ret             \* value the last call returned

locals == <<i, last, item>>
vars == <<items, size, capacity, pc, i, last, item, ret>>

Cell == Item \cup {Null, Junk}

Smaller(m, n) == IF m <= n THEN m ELSE n

(***************************************************************************)
(* queue_init: malloc leaves the cells undefined.                          *)
(***************************************************************************)
Init ==
  /\ items = [j \in 0 .. BaseCapacity - 1 |-> Junk]
  /\ size = 0
  /\ capacity = BaseCapacity
  /\ pc = "ready"
  /\ i = 1 /\ last = Junk /\ item = Junk
  /\ ret = 1

(***************************************************************************)
(* A successful queue_resize of an array `cells' holding n elements:       *)
(* realloc keeps the common prefix, the size is cut down to the capacity.  *)
(***************************************************************************)
Resize(cells, n, newCapacity) ==
  /\ items' = [j \in 0 .. newCapacity - 1 |->
                 IF j \in DOMAIN cells THEN cells[j] ELSE Junk]
  /\ capacity' = newCapacity
  /\ size' = Smaller(n, newCapacity)

-----------------------------------------------------------------------------
(***************************************************************************)
(* queue_push                                                              *)
(***************************************************************************)
IsFullTooLate == size > capacity

IsFull == size >= capacity

\* The early return of a push into an empty queue.
PushIntoEmpty(x) ==
  /\ pc = "ready" /\ size < MaxSize
  /\ ~IsFull /\ size = 0
  /\ size' = 1
  /\ items' = [items EXCEPT ![0] = x]
  /\ ret' = 1
  /\ UNCHANGED <<capacity, pc, locals>>

\* The array is full and realloc fails: the push is refused.
PushRefused(x) ==
  /\ pc = "ready" /\ size < MaxSize
  /\ IsFull
  /\ ret' = 0
  /\ UNCHANGED <<items, size, capacity, pc, locals>>

\* The way into the loop, through queue_resize when the array is full.
PushBegin(x) ==
  /\ pc = "ready" /\ size < MaxSize
  /\ \/ IsFull /\ Resize(items, size, capacity * 2)
     \/ ~IsFull /\ size > 0 /\ UNCHANGED <<items, size, capacity>>
  /\ pc' = "shift"
  /\ item' = x
  /\ last' = items'[0]
  /\ i' = 1
  /\ UNCHANGED ret

MoreToShiftButLast == i < size

MoreToShift == i <= size

PushShiftInPlace ==
  /\ pc = "shift" /\ MoreToShift
  /\ last' = items[i]
  /\ items' = [items EXCEPT ![i] = last]
  /\ UNCHANGED <<i, size, capacity, pc, item, ret>>

PushShift ==
  /\ pc = "shift" /\ MoreToShift
  /\ last' = items[i]
  /\ items' = [items EXCEPT ![i] = last]
  /\ i' = i + 1
  /\ UNCHANGED <<size, capacity, pc, item, ret>>

PushEndUnreported ==
  /\ pc = "shift" /\ ~MoreToShift
  /\ items' = [items EXCEPT ![0] = item]
  /\ size' = size + 1
  /\ pc' = "ready"
  /\ ret' = 0
  /\ UNCHANGED <<capacity, locals>>

PushEnd ==
  /\ pc = "shift" /\ ~MoreToShift
  /\ items' = [items EXCEPT ![0] = item]
  /\ size' = size + 1
  /\ pc' = "ready"
  /\ ret' = 1
  /\ UNCHANGED <<capacity, locals>>

(***************************************************************************)
(* queue_pop                                                               *)
(***************************************************************************)
PopEmpty ==
  /\ pc = "ready" /\ size = 0
  /\ ret' = 0
  /\ UNCHANGED <<items, size, capacity, pc, locals>>

ShrinksTooEagerly(n) == n <= capacity \div 2

Shrinks(n) == n < capacity \div 2

\* Nothing to shrink, or the realloc of the shrink fails, which is ignored.
PopKeepingCapacity ==
  /\ pc = "ready" /\ size > 0
  /\ size' = size - 1
  /\ items' = [items EXCEPT ![size - 1] = Null]
  /\ ret' = 1
  /\ UNCHANGED <<capacity, pc, locals>>

PopAndShrink ==
  /\ pc = "ready" /\ size > 0
  /\ Shrinks(size - 1)
  /\ Resize([items EXCEPT ![size - 1] = Null], size - 1, capacity \div 2)
  /\ ret' = 1
  /\ UNCHANGED <<pc, locals>>

Push(x) == PushIntoEmpty(x) \/ PushRefused(x) \/ PushBegin(x)

Pop == PopEmpty \/ PopKeepingCapacity \/ PopAndShrink

InLoop == PushShift \/ PushEnd

Next == InLoop \/ Pop \/ \E x \in Item : Push(x)

\* A call of queue_push that entered the loop is run to its end; nothing
\* obliges the simulator to make another call.
Spec == Init /\ [][Next]_vars /\ WF_vars(InLoop)

-----------------------------------------------------------------------------
(***************************************************************************)
(* Properties                                                              *)
(***************************************************************************)

\* Every variable has its type, the allocation is never empty and never
\* smaller than the number of elements it is said to hold.
TypeOK ==
  /\ capacity \in Nat \ {0}
  /\ size \in 0 .. capacity
  /\ items \in [0 .. capacity - 1 -> Cell]
  /\ pc \in {"ready", "shift"}
  /\ i \in Nat \ {0} /\ last \in Cell /\ item \in Item \cup {Junk}
  /\ ret \in {0, 1}

\* Memory safety of the shifting loop of queue_push: the cell it is about
\* to read and write is one of the allocated ones, also when the array was
\* full on entry or had just been halved by pops (queue.c:46-65).
InBounds == pc = "shift" /\ MoreToShift => i \in 0 .. capacity - 1

\* The elements by age, newest first.  Inside the loop the cells below i - 1
\* have moved up by one and the element between the two halves is in `last'.
Live ==
  [j \in 0 .. size - 1 |->
     IF pc = "ready" \/ j > i - 1 THEN items[j]
     ELSE IF j = i - 1 THEN last ELSE items[j + 1]]

Contents == [k \in 1 .. size |-> Live[size - k]]

FIFO == INSTANCE Fifo WITH q <- Contents

\* queue_push and queue_pop implement a first-in first-out list: no element
\* is lost, duplicated or overtaken by growing, shrinking or shifting the
\* array, and no unwritten cell is ever handed out (queue.h:48-58).
ImplementsFifo == FIFO!Spec

\* A call that ends returns 1 exactly when it changed the queue: a push that
\* found no memory and a pop of an empty queue return 0 and nothing else
\* does (queue.h:50, queue.h:56).
ReturnReportsEffect ==
  [][pc' = "ready" => (ret' = 1 <=> Contents' # Contents)]_vars

\* A queue_push that entered the shifting loop leaves it.
PushCompletes == pc = "shift" ~> pc = "ready"

=============================================================================
