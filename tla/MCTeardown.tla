----------------------------- MODULE MCTeardown -----------------------------
(***************************************************************************)
(* A standard and a robotic server and clients of both kinds, who may be   *)
(* waiting, being served, or finished at the end, with queues that may     *)
(* find no memory for a second client.  The robotic server cuts the three  *)
(* ticks of the disabled to one and the two of the others to none, so that *)
(* it fails an assertion when it calls one of those.                       *)
(***************************************************************************)
EXTENDS Teardown

MCDisabilityType == {NO_DISABILITY, TYPE_1}
MCDestination == {DEST_1}
MCServiceTime ==
  [k \in MCDisabilityType \X MCDestination |->
     IF k[1] = NO_DISABILITY THEN 2 ELSE 3]
MCArrivalTimes == 1 .. 6
MCFullSizes == {1}
MCJunk == -7

=============================================================================
