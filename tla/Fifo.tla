-------------------------------- MODULE Fifo --------------------------------
(***************************************************************************)
(* What queue.h promises of a queue_t: an unbounded first-in first-out     *)
(* list.  The element at the head is the one queue_top returns and         *)
(* queue_pop removes; queue_push adds at the other end.  A push that       *)
(* returns 0 for want of memory, or a pop of an empty queue, changes       *)
(* nothing and is a stuttering step here.                                  *)
(***************************************************************************)
EXTENDS Sequences

CONSTANT Item       \* the pointers a queue can hold

VARIABLE q          \* the elements, oldest first

Init == q = <<>>

Enqueue(x) == q' = Append(q, x)

Dequeue == q # <<>> /\ q' = Tail(q)

Next == Dequeue \/ \E x \in Item : Enqueue(x)

Spec == Init /\ [][Next]_q

=============================================================================
