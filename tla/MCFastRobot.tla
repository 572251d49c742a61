---------------------------- MODULE MCFastRobot -----------------------------
(***************************************************************************)
(* A robotic server so fast that a service of less than three ticks is cut *)
(* to no time at all.                                                      *)
(***************************************************************************)
EXTENDS Simulation

MCDisabilityType == {NO_DISABILITY, TYPE_1}
MCDestination == {DEST_1}
MCServiceTime ==
  [k \in MCDisabilityType \X MCDestination |->
     IF k[1] = NO_DISABILITY THEN 2 ELSE 4]
MCArrivalTimes == 1 .. 6
MCFullSizes == {}
MCJunk == -7

=============================================================================
