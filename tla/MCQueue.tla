------------------------------ MODULE MCQueue -------------------------------
(***************************************************************************)
(* A queue of up to five of three pointers that starts with two cells, so  *)
(* that it doubles up to eight cells and halves down to a single one.      *)
(***************************************************************************)
EXTENDS Queue

MCBaseCapacity == 2
MCMaxSize == 5

=============================================================================
