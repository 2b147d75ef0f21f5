---------------------------- MODULE JobExecution ----------------------------
(***************************************************************************)
(* The scheduler and the supervisor together, with the callers that go     *)
(* past the scheduler: registerIpc (ipc.ts) hands one                      *)
(* UtilitySupervisor to the JobScheduler and also calls it directly        *)
(* (executeUtility), for trust profiles, C2PA inspection, official         *)
(* identity and timestamps.                                                *)
(*                                                                         *)
(* What JobScheduler leaves open, when and how utility.execute answers, is *)
(* here what UtilitySupervisor does.  Progress messages, which change no   *)
(* control, are left out.                                                  *)
(***************************************************************************)
EXTENDS JobScheduler, FiniteSets

CONSTANTS
    DirectCalls,  \* calls of executeUtility
    MaxForks,     \* bound: how many Utility processes one run may fork
    MaxFaults,    \* bound: how often Utilities crash or misbehave by themselves
    MayShutdown   \* whether the application may quit in this instance

\* A direct call has a job id of its own (randomUUID).
ASSUME ExecutionAssumption ==
    /\ DirectCalls \intersect Jobs = {} /\ NoJob \notin DirectCalls
    /\ MaxForks \in Nat \ {0} /\ MaxFaults \in Nat /\ MayShutdown \in BOOLEAN

VARIABLES
    child, forks, health, generation, discovered, starting, pending, closing,
    stopping, call, outcome, utility, begun, done, quit, faults

supervisor == <<child, forks, health, generation, discovered, starting,
                pending, closing, stopping, call, outcome, utility, begun,
                done, quit, faults>>

allvars == <<vars, supervisor>>

U == INSTANCE UtilitySupervisor
        WITH Calls <- Jobs \union DirectCalls, NoCall <- NoJob

ExecutionInit == Init /\ U!Init

\* The pump takes the next job and calls utility.execute, which runs as far as
\* its first await.
Dispatch == PumpStarts /\ U!Execute(Head(queue))

\* Mutants of Answer.  The pump has a timer of its own; an error envelope is
\* taken for data; a rejection is not caught.
AnswerByOwnTimer ==
    /\ stage = "executing"
    /\ \/ ExecuteFails
       \/ call[running] = "settled" /\ outcome[running] = "data" /\ ExecuteSucceeds
    /\ UNCHANGED supervisor

AnswerWithAnything ==
    /\ stage = "executing"
    /\ call[running] = "settled"
    /\ ExecuteFails \/ ExecuteSucceeds
    /\ UNCHANGED supervisor

AnswerOfDataOnly ==
    /\ stage = "executing"
    /\ call[running] = "settled"
    /\ outcome[running] = "data"
    /\ ExecuteFails \/ ExecuteSucceeds
    /\ UNCHANGED supervisor

\* The promise of utility.execute is settled.  Data may still be an envelope
\* in which the Rust engine reports an error.
Answer ==
    /\ stage = "executing"
    /\ call[running] = "settled"
    /\ \/ ExecuteFails
       \/ outcome[running] = "data" /\ ExecuteSucceeds
    /\ UNCHANGED supervisor

\* executeUtility: no queue, no slot.
Direct(c) == U!Execute(c) /\ UNCHANGED vars

\* scheduler.shutdown: the queue is cancelled, then the supervisor shut down.
Quit ==
    /\ Shutdown \/ (queue = <<>> /\ UNCHANGED vars)
    /\ U!Shutdown

\* Clients of the scheduler, its other steps, and those of the supervisor.
Submit(j)    == Enqueue(j) /\ UNCHANGED supervisor
CancelJob(j) == /\ \E o \in Owners : CancelQueued(o, j) \/ RequestCancel(o, j)
                /\ UNCHANGED supervisor
Idle         == PumpReturns /\ UNCHANGED supervisor
Publish      == PublishReturns /\ UNCHANGED supervisor
Supervise    == U!Internal /\ UNCHANGED vars

ExecutionNext ==
    \/ \E j \in Jobs : Submit(j) \/ CancelJob(j)
    \/ \E c \in DirectCalls : Direct(c)
    \/ Dispatch \/ Answer \/ Publish \/ Idle \/ Quit \/ Supervise

ExecutionSpec == ExecutionInit /\ [][ExecutionNext]_allvars

\* Microtasks run, publish settles, and the supervisor is fair as far as its
\* timers and continuations go; nothing is assumed of the Utility.
FairExecution ==
    /\ ExecutionSpec
    /\ WF_allvars(Dispatch \/ Idle)
    /\ WF_allvars(Answer)
    /\ WF_allvars(Publish)
    /\ \A c \in Jobs \union DirectCalls :
          /\ WF_allvars(U!Resume(c) /\ UNCHANGED vars)
          /\ WF_allvars(U!OperationTimeout(c) /\ UNCHANGED vars)
          /\ WF_allvars(U!CleanupEnds(c) /\ UNCHANGED vars)
    /\ WF_allvars(U!HandshakeTimeout /\ UNCHANGED vars)

-----------------------------------------------------------------------------
(* Properties.                                                              *)

\* A native operation begins at most once, whatever is lost, killed or
\* restarted, for jobs of the queue and direct calls alike.
NoReplay == U!NoReplay

\* Data is given only for an operation the Utility has finished, and a call
\* that was refused never began; a job shown as succeeded is one of the
\* former, and one cancelled in the queue never began either.
AnswersAreTrue ==
    /\ U!AnswersAreTrue
    /\ \A j \in Jobs :
          /\ job[j].state = "succeeded" => j \in done /\ outcome[j] = "data"
          /\ job[j].state = "cancelled" => begun[j] = 0

\* No two Utilities execute at the same time, whether the scheduler's job or a
\* direct call is in either of them (see SingleWriter in UtilitySupervisor).
SingleWriter == U!SingleWriter

\* Once a job has ended, its native operation does not begin any more, except
\* in a Utility that has been told to die.  As long as the application is not
\* quitting, as in SingleWriter.
EndedStaysEnded ==
    [][\A j \in Jobs :
          job[j].state \in Terminal /\ begun'[j] # begun[j] /\ ~quit =>
              \E k \in U!Children : utility'[k].work = j /\ utility[k].killed]_allvars

\* Every job that was accepted ends and every direct call is answered, with
\* nothing assumed of the Utility.
JobsEndAnyhow ==
    /\ \A j \in Jobs : job[j].state = "queued" ~> job[j].completion # "pending"
    /\ \A c \in DirectCalls : call[c] # "idle" ~> call[c] = "settled"

\* A job is given to a Utility that was not told to die: "Later work starts a
\* fresh compatible Utility" (ADR 0002).
LaterWorkOnFreshUtility ==
    [][\A c \in pending' \ pending : ~utility[child].killed]_allvars
=============================================================================
