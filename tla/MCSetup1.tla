------------------------------ MODULE MCSetup1 ------------------------------
(***************************************************************************)
(* setup1 of main.c: one standard and one robotic server.  The fourth      *)
(* client can find the robotic server busy and wait there, and a disabled  *)
(* fifth one overtake it; the boost cuts the five ticks of the disabled.   *)
(***************************************************************************)
EXTENDS Simulation

MCDisabilityType == {NO_DISABILITY, TYPE_1}
MCDestination == {DEST_1}
MCServiceTime ==
  [k \in MCDisabilityType \X MCDestination |->
     IF k[1] = NO_DISABILITY THEN 4 ELSE 5]
MCArrivalTimes == 1 .. 6
MCFullSizes == {}
MCJunk == -7

=============================================================================
