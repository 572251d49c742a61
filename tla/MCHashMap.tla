----------------------------- MODULE MCHashMap ------------------------------
(***************************************************************************)
(* A map that starts with two buckets instead of 16, so that four keys     *)
(* make it grow to 4, 8 and 16, by factors of two and four, and shrink     *)
(* back.  Of four buckets, three keys have the last one for their home and *)
(* the other the first, so that probes wrap around the end of the array;   *)
(* of eight, two have the last and one the first.  The load factors asked  *)
(* for are out of range, and cut to one that leaves one bucket in four     *)
(* free, or not a number, which leaves the one in force.                   *)
(***************************************************************************)
EXTENDS HashMap, TLC

CONSTANTS a, b, c, d

MCHash == a :> 3 @@ b :> 7 @@ c :> 15 @@ d :> 8
MCMinCap == 2
MCBaseCap == 1
MCFactors == {100, NaN}
MCPowers == {2}

=============================================================================
