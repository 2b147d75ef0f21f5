---------------------------- MODULE JobScheduler ----------------------------
(***************************************************************************)
(* The bounded job scheduler of Electron Main                              *)
(* (apps/desktop/src/main/job-scheduler.ts).                               *)
(*                                                                         *)
(* Main is single threaded, so each synchronous stretch of the class is    *)
(* one action: enqueue, cancel and shutdown run to their end, and #pump is *)
(* cut at its two awaits (utility.execute and publish).  The pump itself   *)
(* is a microtask that enqueue and the end of the previous pump schedule;  *)
(* `pumps' counts the scheduled ones.  Other calls may come before a       *)
(* scheduled pump: that is more than the event loop allows, never less.    *)
(*                                                                         *)
(* utility.execute is the environment here (UtilitySupervisor models it):  *)
(* it may report progress, return an envelope with data or with an error,  *)
(* or throw.  publish is the callback ipc.ts passes: it returns or throws. *)
(***************************************************************************)
EXTENDS Naturals, Sequences

CONSTANTS
    Jobs,              \* task references handed out in one application run
    Owners,            \* renderer sessions (webContents ids)
    OwnerOf,           \* the renderer that enqueued the job
    MaxQueuedJobs,     \* RUNTIME_LIMITS.maxQueuedJobs
    UtilitySequences,  \* sequence numbers a Utility progress message may carry
    UtilityUnits,      \* completedUnits such a message may carry
    NoJob

ASSUME SchedulerAssumption ==
    /\ NoJob \notin Jobs
    /\ OwnerOf \in [Jobs -> Owners]
    /\ MaxQueuedJobs \in Nat \ {0}
    /\ UtilitySequences \subseteq Nat \ {0}
    /\ UtilityUnits \subseteq 0..100

VARIABLES
    job,         \* #jobs: the JobRecord of every task ("absent" before enqueue)
    queue,       \* #queue
    running,     \* #running
    stage,       \* where the running pump waits: utility.execute or publish
    pumps,       \* scheduled #pump microtasks
    results,     \* #results: jobs whose result reference resolves
    lastEvent,   \* the last snapshot the subscribers were sent, per job
    accepted,    \* history: how many jobs enqueue has accepted
    ticket,      \* history: the place of a job in that order
    dispatched   \* history: jobs in the order they were sent to the Utility

vars == <<job, queue, running, stage, pumps, results, lastEvent,
          accepted, ticket, dispatched>>

JobStates  == {"absent", "queued", "running", "cancel_requested",
               "succeeded", "failed", "cancelled"}
Terminal   == {"succeeded", "failed", "cancelled"}
Active     == {"running", "cancel_requested"}
Phases     == {"authorized", "queued", "utility-startup", "native-execution",
               "result-publication", "complete"}

Transitions ==
    [absent           |-> {"queued"},
     queued           |-> {"running", "cancelled"},
     running          |-> {"cancel_requested", "succeeded", "failed"},
     cancel_requested |-> {"cancelled", "succeeded", "failed"},
     succeeded        |-> {},
     failed           |-> {},
     cancelled        |-> {}]

ProgressType == [sequence : Nat, phase : Phases, units : 0..100]

\* finished, result and error are whether the optional field is present;
\* completion is what the completion promise was resolved with.
RecordType ==
    [state : JobStates, progress : ProgressType, lastUtilitySequence : Nat,
     finished : BOOLEAN, result : BOOLEAN, error : BOOLEAN,
     completion : {"pending"} \union Terminal]

NoRecord ==
    [state |-> "absent",
     progress |-> [sequence |-> 0, phase |-> "authorized", units |-> 0],
     lastUtilitySequence |-> 0, finished |-> FALSE, result |-> FALSE,
     error |-> FALSE, completion |-> "pending"]

\* #snapshot: the fields of a record the renderer sees.
Snapshot(r) ==
    [state |-> r.state, progress |-> r.progress, finished |-> r.finished,
     result |-> r.result, error |-> r.error]

-----------------------------------------------------------------------------
(* Updates of one record.                                                   *)

\* #transition throws unless the table allows the step.
MayMove(r, next) == next \in Transitions[r.state]

\* Mutant of Progressed: the units are taken as reported, without Math.max.
ProgressedUnclamped(r, phase, units) ==
    [r EXCEPT !.progress =
        [sequence |-> @.sequence + 1, phase |-> phase, units |-> units]]

\* #progress: a new sequence number, and units that never go back.
Progressed(r, phase, units) ==
    [r EXCEPT !.progress =
        [sequence |-> @.sequence + 1,
         phase    |-> phase,
         units    |-> IF units > @.units THEN units ELSE @.units]]

\* Mutant of Failed: the error is not stored in the record.
FailedWithoutError(r) ==
    Progressed([r EXCEPT !.state = "failed", !.finished = TRUE], "complete", 100)

\* #fail
Failed(r) ==
    Progressed([r EXCEPT !.state = "failed", !.error = TRUE, !.finished = TRUE],
               "complete", 100)

Cancelled(r) ==
    Progressed([r EXCEPT !.state = "cancelled", !.finished = TRUE],
               "complete", 100)

Succeeded(r) ==
    Progressed([r EXCEPT !.state = "succeeded", !.result = TRUE,
                         !.finished = TRUE],
               "complete", 100)

\* record.complete(snapshot): the promise keeps the state it saw.
Completed(r) == [r EXCEPT !.completion = r.state]

\* The record changes and #emit sends its snapshot to the subscribers.
SetAndEmit(j, r) ==
    /\ job' = [job EXCEPT ![j] = r]
    /\ lastEvent' = [lastEvent EXCEPT ![j] = Snapshot(r)]

Elements(s) == {s[i] : i \in DOMAIN s}

\* indexOf and splice: s without its (only) occurrence of j.
Without(s, j) ==
    IF j \in Elements(s)
    THEN LET i == CHOOSE n \in DOMAIN s : s[n] = j
         IN  [n \in 1 .. Len(s) - 1 |-> IF n < i THEN s[n] ELSE s[n + 1]]
    ELSE s
-----------------------------------------------------------------------------
Init ==
    /\ job = [j \in Jobs |-> NoRecord]
    /\ queue = <<>>
    /\ running = NoJob
    /\ stage = "idle"
    /\ pumps = 0
    /\ results = {}
    /\ lastEvent = [j \in Jobs |-> Snapshot(NoRecord)]
    /\ accepted = 0
    /\ ticket = [j \in Jobs |-> 0]
    /\ dispatched = <<>>

\* enqueue; with a full queue it only returns JOB_QUEUE_FULL.
Enqueue(j) ==
    /\ job[j].state = "absent"
    /\ Len(queue) < MaxQueuedJobs
    /\ SetAndEmit(j, [NoRecord EXCEPT
            !.state = "queued",
            !.progress = [sequence |-> 1, phase |-> "queued", units |-> 10]])
    /\ queue' = Append(queue, j)
    /\ pumps' = pumps + 1
    /\ accepted' = accepted + 1
    /\ ticket' = [ticket EXCEPT ![j] = accepted + 1]
    /\ UNCHANGED <<running, stage, results, dispatched>>

\* #resolveTask: a known task, asked for by the renderer it belongs to.
Resolves(o, j) == job[j].state # "absent" /\ OwnerOf[j] = o

\* cancel of a job that is still queued: it leaves the queue for good.
CancelQueued(o, j) ==
    /\ Resolves(o, j)
    /\ job[j].state = "queued"
    /\ SetAndEmit(j, Completed(Cancelled(job[j])))
    /\ queue' = Without(queue, j)
    /\ UNCHANGED <<running, stage, pumps, results, accepted, ticket, dispatched>>

\* cancel of the running job: only recorded.  In any other state cancel
\* returns the snapshot and changes nothing.
RequestCancel(o, j) ==
    /\ Resolves(o, j)
    /\ job[j].state = "running"
    /\ SetAndEmit(j, Progressed([job[j] EXCEPT !.state = "cancel_requested"],
                                "native-execution", job[j].progress.units))
    /\ UNCHANGED <<queue, running, stage, pumps, results, accepted, ticket,
                   dispatched>>

\* wait: what its caller is told once the completion promise is resolved (the
\* caller is suspended until then): a success hands out the published result,
\* every other end an error.
WaitAnswer(j) ==
    IF job[j].completion = "succeeded" /\ j \in results THEN "result" ELSE "error"

\* Mutant of Shutdown: every job that has not ended is marked cancelled.
ShutdownCancelsAll ==
    /\ queue # <<>>
    /\ LET r(j) == Completed(Cancelled(job[j]))
           gone == {j \in Jobs : job[j].state \in {"queued", "running"}}
       IN /\ job' = [j \in Jobs |-> IF j \in gone THEN r(j) ELSE job[j]]
          /\ lastEvent' = [j \in Jobs |-> IF j \in gone THEN Snapshot(r(j))
                                                       ELSE lastEvent[j]]
    /\ queue' = <<>>
    /\ UNCHANGED <<running, stage, pumps, results, accepted, ticket, dispatched>>

\* shutdown: the queue is emptied and every job in it cancelled, then the
\* Utility is asked to stop (the environment).  The running job is left to
\* the answer of utility.execute, and nothing refuses a later enqueue.
Shutdown ==
    /\ queue # <<>>
    /\ LET gone == Elements(queue)
           r(j) == Completed(Cancelled(job[j]))
       IN /\ job' = [j \in Jobs |-> IF j \in gone THEN r(j) ELSE job[j]]
          /\ lastEvent' = [j \in Jobs |-> IF j \in gone THEN Snapshot(r(j))
                                                       ELSE lastEvent[j]]
    /\ queue' = <<>>
    /\ UNCHANGED <<running, stage, pumps, results, accepted, ticket, dispatched>>

-----------------------------------------------------------------------------
(* #pump, cut at its awaits.                                                *)

\* A pump that finds a running job, or nothing queued, returns.
PumpReturns ==
    /\ pumps > 0
    /\ running # NoJob \/ queue = <<>>
    /\ pumps' = pumps - 1
    /\ UNCHANGED <<job, queue, running, stage, results, lastEvent,
                   accepted, ticket, dispatched>>

\* Mutant of PumpStarts: the slot is not looked at.
PumpStartsAnyway ==
    /\ pumps > 0
    /\ queue # <<>>
    /\ LET j == Head(queue) IN
          /\ MayMove(job[j], "running")
          /\ running' = j
          /\ SetAndEmit(j, Progressed([job[j] EXCEPT !.state = "running"],
                                      "utility-startup", 20))
          /\ dispatched' = Append(dispatched, j)
    /\ queue' = Tail(queue)
    /\ stage' = "executing"
    /\ pumps' = pumps - 1
    /\ UNCHANGED <<results, accepted, ticket>>

\* Mutant of PumpStarts: pop in place of shift.
PumpStartsNewest ==
    /\ pumps > 0
    /\ running = NoJob
    /\ queue # <<>>
    /\ LET j == queue[Len(queue)] IN
          /\ MayMove(job[j], "running")
          /\ running' = j
          /\ SetAndEmit(j, Progressed([job[j] EXCEPT !.state = "running"],
                                      "utility-startup", 20))
          /\ dispatched' = Append(dispatched, j)
    /\ queue' = SubSeq(queue, 1, Len(queue) - 1)
    /\ stage' = "executing"
    /\ pumps' = pumps - 1
    /\ UNCHANGED <<results, accepted, ticket>>

\* The oldest queued job becomes the running one and is sent to the Utility.
\* A record that may not become running would make #transition throw and the
\* pump die with #running set.
PumpStarts ==
    /\ pumps > 0
    /\ running = NoJob
    /\ queue # <<>>
    /\ LET j == Head(queue) IN
          /\ MayMove(job[j], "running")
          /\ running' = j
          /\ SetAndEmit(j, Progressed([job[j] EXCEPT !.state = "running"],
                                      "utility-startup", 20))
          /\ dispatched' = Append(dispatched, j)
    /\ queue' = Tail(queue)
    /\ stage' = "executing"
    /\ pumps' = pumps - 1
    /\ UNCHANGED <<results, accepted, ticket>>

\* The onProgress callback: a sequence number seen before is dropped.
UtilityProgress(seq, units) ==
    /\ stage = "executing"
    /\ seq > job[running].lastUtilitySequence
    /\ SetAndEmit(running,
            Progressed([job[running] EXCEPT !.lastUtilitySequence = seq],
                       "native-execution", units))
    /\ UNCHANGED <<queue, running, stage, pumps, results, accepted, ticket,
                   dispatched>>

\* Mutant of PumpEnds: the next pump is not scheduled.
PumpEndsQuietly(r) ==
    /\ SetAndEmit(running, Completed(r))
    /\ running' = NoJob
    /\ stage' = "idle"
    /\ UNCHANGED <<queue, pumps, accepted, ticket, dispatched>>

\* The end of a pump: the promise is resolved, the slot freed, and the next
\* pump scheduled.
PumpEnds(r) ==
    /\ SetAndEmit(running, Completed(r))
    /\ running' = NoJob
    /\ stage' = "idle"
    /\ pumps' = pumps + 1
    /\ UNCHANGED <<queue, accepted, ticket, dispatched>>

\* utility.execute threw or returned an error envelope.
ExecuteFails ==
    /\ stage = "executing"
    /\ MayMove(job[running], "failed")
    /\ PumpEnds(Failed(job[running]))
    /\ UNCHANGED results

\* utility.execute returned data: Main validates and publishes the result.
ExecuteSucceeds ==
    /\ stage = "executing"
    /\ stage' = "publishing"
    /\ SetAndEmit(running, Progressed(job[running], "result-publication", 90))
    /\ UNCHANGED <<queue, running, pumps, results, accepted, ticket, dispatched>>

\* publish resolved: the result reference exists before the job is shown as
\* succeeded.
PublishSucceeds ==
    /\ stage = "publishing"
    /\ MayMove(job[running], "succeeded")
    /\ results' = results \union {running}
    /\ PumpEnds(Succeeded(job[running]))

PublishFails ==
    /\ stage = "publishing"
    /\ MayMove(job[running], "failed")
    /\ PumpEnds(Failed(job[running]))
    /\ UNCHANGED results

ExecuteReturns == ExecuteFails \/ ExecuteSucceeds
PublishReturns == PublishSucceeds \/ PublishFails

Client ==
    \/ \E j \in Jobs : Enqueue(j)
    \/ \E o \in Owners, j \in Jobs : \/ CancelQueued(o, j)
                                     \/ RequestCancel(o, j)
    \/ Shutdown

Progress == \E seq \in UtilitySequences, units \in UtilityUnits :
                UtilityProgress(seq, units)

Next ==
    \/ Client
    \/ Progress
    \/ PumpReturns
    \/ PumpStarts
    \/ ExecuteReturns
    \/ PublishReturns

Spec == Init /\ [][Next]_vars

\* Microtasks run; utility.execute always settles (each call has a timer, see
\* UtilitySupervisor) and so does publish.  Clients are under no obligation.
FairSpec ==
    /\ Spec
    /\ WF_vars(PumpReturns \/ PumpStarts)
    /\ WF_vars(ExecuteReturns)
    /\ WF_vars(PublishReturns)

-----------------------------------------------------------------------------
(* Properties.                                                              *)

\* Every variable keeps its shape.
TypeOK ==
    /\ job \in [Jobs -> RecordType]
    /\ queue \in Seq(Jobs)
    /\ Len(queue) <= MaxQueuedJobs
    /\ running \in Jobs \union {NoJob}
    /\ stage \in {"idle", "executing", "publishing"}
    /\ pumps \in Nat
    /\ results \subseteq Jobs
    /\ lastEvent \in [Jobs -> [state : JobStates, progress : ProgressType,
                               finished : BOOLEAN, result : BOOLEAN,
                               error : BOOLEAN]]
    /\ accepted \in Nat
    /\ ticket \in [Jobs -> Nat]
    /\ dispatched \in Seq(Jobs)

\* No wake-up of the pump is lost: whenever jobs wait while the slot is free,
\* a #pump microtask is scheduled.  Enqueue, the end of a pump, cancel and
\* shutdown each have to keep this.
NoLostWakeup == queue # <<>> /\ running = NoJob => pumps > 0

\* The slot and the states agree: the job in #running is the only one that is
\* running or cancel_requested, and a pump waits on an await exactly then
\* (maxConcurrentJobs is 1).
SingleRunning ==
    /\ \A j \in Jobs : job[j].state \in Active <=> running = j
    /\ stage = "idle" <=> running = NoJob

\* Jobs reach the Utility in the order they were accepted, each at most once,
\* and a job that was cancelled while queued never does ("Queued jobs are
\* cancelled immediately and never dispatched"; nothing is replayed).
DispatchOrder ==
    /\ \A m, n \in DOMAIN dispatched :
          m < n => ticket[dispatched[m]] < ticket[dispatched[n]]
    /\ \A m \in DOMAIN dispatched, n \in DOMAIN queue :
          ticket[dispatched[m]] < ticket[queue[n]]
    /\ \A j \in Jobs : j \in Elements(dispatched) <=>
          job[j].state \in Active \union {"succeeded", "failed"}

\* A snapshot jobSnapshotSchema accepts: finishedAt exactly in a terminal
\* state, a result exactly on success, an error exactly on failure.
ValidSnapshot(s) ==
    /\ s.finished <=> s.state \in Terminal
    /\ s.result <=> s.state = "succeeded"
    /\ s.error <=> s.state = "failed"

\* What the subscribers were last sent about a job is its record as it is now,
\* in a form the preload validation accepts, and a result reference they were
\* sent resolves.
SubscribersSeeTheJob ==
    \A j \in Jobs :
        /\ lastEvent[j] = Snapshot(job[j])
        /\ ValidSnapshot(lastEvent[j])
        /\ lastEvent[j].result <=> j \in results

\* The completion promise is resolved exactly when the job has ended, with the
\* state it ended in, and wait() hands out a result only for a success.
CompletionIsTheEnd ==
    \A j \in Jobs :
        /\ job[j].completion = IF job[j].state \in Terminal
                               THEN job[j].state ELSE "pending"
        /\ job[j].completion # "pending" =>
              (WaitAnswer(j) = "result" <=> job[j].state = "succeeded")

\* Events of a job come with growing sequence numbers and units that never go
\* back, whatever numbers the Utility reports and whenever it is cancelled.
ProgressMonotone ==
    [][\A j \in Jobs :
          lastEvent'[j] # lastEvent[j] =>
              /\ lastEvent'[j].progress.sequence > lastEvent[j].progress.sequence
              /\ lastEvent'[j].progress.units >= lastEvent[j].progress.units]_vars

\* The scheduler implements the promise of JobLifecycle.
Lifecycle == INSTANCE JobLifecycle WITH phase <- [j \in Jobs |-> job[j].state]
ImplementsLifecycle == Lifecycle!Spec
=============================================================================
