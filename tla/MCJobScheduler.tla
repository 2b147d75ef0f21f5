--------------------------- MODULE MCJobScheduler ---------------------------
(* Three jobs of two renderers, so that one runs, one waits and one more is  *)
(* queued, refused or cancelled; the numbers are those utility.ts reports.   *)
EXTENDS JobScheduler, TLC

CONSTANTS j1, j2, j3, main, other

MCJobs == {j1, j2, j3}
MCOwners == {main, other}
MCOwnerOf == (j1 :> main) @@ (j2 :> main) @@ (j3 :> other)
MCUtilitySequences == {1}
MCUtilityUnits == {15, 35}
=============================================================================
