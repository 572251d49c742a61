---------------------------- MODULE MCClientInit ----------------------------
(***************************************************************************)
(* RAND_MAX is 6 and half the clients have a disability, so that all types *)
(* and destinations occur, and clients come one to four ticks apart.       *)
(***************************************************************************)
EXTENDS ClientInit

MCRandMax == 6
MCRand == 0 .. 5
MCAnyRand == 0 .. 6
MCLog == [r \in 0 .. 5 |-> CASE r < 3 -> 0 [] r = 3 -> 1 [] r = 4 -> 2 [] r = 5 -> 3]
MCFullSizes == {2}

=============================================================================
