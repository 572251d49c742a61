------------------------------ MODULE MCTests -------------------------------
(***************************************************************************)
(* Two tests, each of which leaves no, one or two finished clients of two  *)
(* types with each of two servers.  An int of five and a size_t of seven   *)
(* bits, so that sums wrap within a test and in the totals, also to a      *)
(* negative total queue length, and means are rounded.                     *)
(***************************************************************************)
EXTENDS Tests

MCKind == {0, 2}

Client(type, waited, total) ==
  [disability_type |-> type, wait_time |-> waited, total_time |-> total]
Finished ==
  {<<>>, <<Client(0, 1, 4)>>, <<Client(2, 4, 1), Client(0, 2, 6)>>,
   <<Client(2, 3, 1), Client(2, 0, 4)>>, <<Client(0, 0, 9)>>,
   <<Client(2, 9, 9), Client(0, 5, 7)>>}
MCResults ==
  {[clients |-> q[1], finished |-> f, queue_len |-> <<q[2], q[3]>>] :
     f \in [1 .. 2 -> Finished], q \in {<<4, 0, 1>>, <<5, 4, 9>>, <<12, 9, 9>>}}

=============================================================================
