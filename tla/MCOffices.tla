----------------------------- MODULE MCOffices ------------------------------
(***************************************************************************)
(* Two standard and two robotic servers, the largest system of the README  *)
(* ("each server may have multiple standard or robotic servers"): every    *)
(* choice of assign_client between and within the two kinds is made.  The  *)
(* robotic servers take half the time, which is none for clients of the    *)
(* last type: they fail an assertion when they call one.                   *)
(***************************************************************************)
EXTENDS Simulation

MCDisabilityType == {NO_DISABILITY, TYPE_1, TYPE_2}
MCDestination == {DEST_1}
MCServiceTime ==
  [k \in MCDisabilityType \X MCDestination |->
     CASE k[1] = NO_DISABILITY -> 6
       [] k[1] = TYPE_1 -> 4
       [] k[1] = TYPE_2 -> 1]
MCArrivalTimes == 1 .. 6
MCFullSizes == {}
MCJunk == -7

=============================================================================
