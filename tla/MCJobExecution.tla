--------------------------- MODULE MCJobExecution ---------------------------
(* A scheduled job and a direct call of executeUtility: two calls that may   *)
(* meet in one Utility or in two, which is what the composition adds.  How   *)
(* several jobs queue, whatever the Utility answers, is JobScheduler's run.  *)
EXTENDS JobExecution, TLC

CONSTANTS j1, d1, main

MCJobs == {j1}
MCOwners == {main}
MCOwnerOf == (j1 :> main)
MCDirect == {d1}
MCNone == {}
=============================================================================
