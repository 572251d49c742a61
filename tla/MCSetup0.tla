------------------------------ MODULE MCSetup0 ------------------------------
(***************************************************************************)
(* setup0 of main.c, the one main runs: two standard servers, with the     *)
(* service times of init_table and clients of every kind.                  *)
(***************************************************************************)
EXTENDS Simulation

MCDisabilityType == {NO_DISABILITY, TYPE_1, TYPE_2, TYPE_3}
MCDestination == {DEST_1, DEST_2}
MCArrivalTimes == {1, 2, 4}
MCFullSizes == {}
MCJunk == -7

=============================================================================
