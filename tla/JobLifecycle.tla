---------------------------- MODULE JobLifecycle ----------------------------
(***************************************************************************)
(* What the Workbench promises about proof jobs, independently of how the  *)
(* scheduler keeps its queue: the life of a job as the host contract shows *)
(* it (jobStates in host-contracts, the transition diagram of ADR 0002),   *)
(* at most one job handed to the Utility at a time, a queued job cancelled *)
(* before it is ever dispatched, and a terminal state that is final.       *)
(* JobScheduler is shown to implement this specification.                  *)
(***************************************************************************)
CONSTANT Jobs

VARIABLE phase   \* what a client that holds the task reference sees

JobStates == {"queued", "running", "cancel_requested",
              "succeeded", "failed", "cancelled"}
Active    == {"running", "cancel_requested"}

Init == phase = [j \in Jobs |-> "absent"]

\* A client submits a job.
Submit(j) ==
    /\ phase[j] = "absent"
    /\ phase' = [phase EXCEPT ![j] = "queued"]

\* The one running slot is free and takes a queued job.
Start(j) ==
    /\ phase[j] = "queued"
    /\ \A k \in Jobs : phase[k] \notin Active
    /\ phase' = [phase EXCEPT ![j] = "running"]

\* Jobs that were not dispatched are cancelled at once: one of them on
\* request, all of them when the application quits.
CancelQueued(S) ==
    /\ \A j \in S : phase[j] = "queued"
    /\ phase' = [j \in Jobs |-> IF j \in S THEN "cancelled" ELSE phase[j]]

\* A running job only records the request; the Rust operation is atomic.
RequestCancel(j) ==
    /\ phase[j] = "running"
    /\ phase' = [phase EXCEPT ![j] = "cancel_requested"]

\* The Utility answered, and the result was published or the job failed.
Finish(j, s) ==
    /\ phase[j] \in Active
    /\ s \in {"succeeded", "failed"}
    /\ phase' = [phase EXCEPT ![j] = s]

Next ==
    \/ \E j \in Jobs : \/ Submit(j)
                       \/ Start(j)
                       \/ RequestCancel(j)
                       \/ \E s \in {"succeeded", "failed"} : Finish(j, s)
    \/ \E S \in SUBSET Jobs : CancelQueued(S)

\* The safety part; the fair specification adds that a waiting job is not
\* left behind a free slot and that an active one ends.
SafeSpec == Init /\ [][Next]_phase

Spec == /\ SafeSpec
        /\ WF_phase(\E j \in Jobs : Start(j))
        /\ \A j \in Jobs : WF_phase(\E s \in {"succeeded", "failed"} : Finish(j, s))
=============================================================================
