-------------------------- MODULE CreationSessions --------------------------
(***************************************************************************)
(* Creation sessions: the handlers of Electron Main that freeze, run,      *)
(* cancel and complete a creation (apps/desktop/src/main/ipc.ts), the      *)
(* stored sessions they write (app-state.ts), the scope that decides       *)
(* whose references are good (creation-scope.ts), the life cycle table     *)
(* (packages/creation-core) and the provider adapter as its run() shows    *)
(* itself to the caller (packages/creation-core/src/provider/comfyui.ts).  *)
(*                                                                         *)
(* A handler is cut at its awaits; between two of them it runs alone.      *)
(* Several handlers may work on one session: nothing but the stored state  *)
(* keeps them apart, and they read it before they await.                   *)
(*                                                                         *)
(* A restart loses the handlers, the abort controllers and the prompts     *)
(* kept in memory; what the Utility wrote to the workspace stays.          *)
(***************************************************************************)
EXTENDS Naturals

CONSTANTS
    Sessions,
    DigestOnly,    \* sessions whose snapshot holds no prompt text
    Runs,          \* requests to run a session
    Seals,         \* requests to complete a proof
    EvidenceCount, \* how many events mapCreationEvidence yields
    MaxFaults,     \* bound: restarts and changes of the workspace
    None

ASSUME CreationAssumption ==
    /\ DigestOnly \subseteq Sessions
    /\ EvidenceCount \in Nat \ {0}
    /\ MaxFaults \in Nat
    /\ None \notin Runs \union Seals \union Sessions

VARIABLES
    stored,      \* creation_sessions: state, whether there is a snapshot, the
                 \* run of output_json, the request of package_path
    prompts,     \* keys of executionPrompts
    controller,  \* creationAbortControllers: the run whose controller it is
    active,      \* whether the sessions' workspace is the active scope
    run,         \* the runCreationSession handlers
    seal,        \* the completeCreationProof handlers
    stopped,     \* history: runs that waited for the provider when a
                 \* cancellation of their session was answered ok
    faults       \* how many restarts and changes of the workspace there were

vars == <<stored, prompts, controller, active, run, seal, stopped, faults>>

States == {"absent", "draft", "frozen", "running", "succeeded", "failed",
           "cancelled", "proof_ready", "complete"}

\* Where a run is: in an await, closing at the end of its catch block, ended,
\* or lost in a restart.
Places == {"idle", "inspecting", "announcing", "provider", "staging",
           "ingesting", "ingested", "recording", "recorded", "publishing",
           "closing", "ended", "lost"}

\* asset and events are what the run has added to the workspace; aborted says
\* that its signal was aborted when something still looked at it.
NoRun  == [session |-> None, at |-> "idle", aborted |-> FALSE,
           asset |-> FALSE, events |-> 0]
NoSeal == [session |-> None, at |-> "idle", sealed |-> FALSE,
           verified |-> FALSE]

Live(h) == h.at \notin {"idle", "ended", "lost"}

Init ==
    /\ stored = [s \in Sessions |-> [state |-> "absent", snapshot |-> FALSE,
                                     output |-> None, package |-> None]]
    /\ prompts = {}
    /\ controller = [s \in Sessions |-> None]
    /\ active = TRUE
    /\ run = [r \in Runs |-> NoRun]
    /\ seal = [c \in Seals |-> NoSeal]
    /\ stopped = {}
    /\ faults = 0

\* updateSession of the state only: it is written, whatever it was.
Written(s, state) == [stored EXCEPT ![s].state = state]

-----------------------------------------------------------------------------
(* Making and freezing a session.                                           *)

\* createSession of the store: a row without snapshot, output and package.
NewSession ==
    [state |-> "draft", snapshot |-> FALSE, output |-> None, package |-> None]

\* createCreationSession.
Create(s) ==
    /\ active /\ stored[s].state = "absent"
    /\ stored' = [stored EXCEPT ![s] = NewSession]
    /\ UNCHANGED <<prompts, controller, active, run, seal, stopped, faults>>

\* freezeCreationSession; it refuses any state but draft.
Freeze(s) ==
    /\ active /\ stored[s].state = "draft"
    /\ stored' = [stored EXCEPT ![s].state = "frozen", ![s].snapshot = TRUE]
    /\ prompts' = prompts \union {s}
    /\ UNCHANGED <<controller, active, run, seal, stopped, faults>>

-----------------------------------------------------------------------------
(* runCreationSession.                                                      *)

\* The first checks: a snapshot, no output, and prompts to send.
Runnable(s) ==
    /\ stored[s].state \in {"frozen", "failed", "cancelled"}
    /\ stored[s].snapshot /\ stored[s].output = None
    /\ s \in DigestOnly => s \in prompts

Goes(r, place) == run' = [run EXCEPT ![r].at = place]

\* Mutant of Fails: the catch block only reports the error.
FailsUnrecorded(r, state) == Goes(r, "closing") /\ UNCHANGED stored

\* The catch block: the state is written, whatever the session is by now.
Fails(r, state) ==
    /\ stored' = Written(run[r].session, state)
    /\ Goes(r, "closing")

\* Any await in the try block may throw.
Throws(r) == Fails(r, "failed") /\ UNCHANGED controller

Unmoved == UNCHANGED <<prompts, active, seal, stopped, faults>>

\* A request for an existing session.  The refusal of one that may not run
\* goes through the catch block too.
RunRequested(r, s) ==
    /\ active /\ run[r].at = "idle" /\ stored[s].state # "absent"
    /\ run' = [run EXCEPT ![r].session = s,
                          ![r].at = IF Runnable(s) THEN "inspecting" ELSE "closing"]
    /\ stored' = IF Runnable(s) THEN stored ELSE Written(s, "failed")
    /\ UNCHANGED controller /\ Unmoved

\* The provider was inspected; the state the transition is made from is the
\* one read before.  publishCreationEvent throws without the active scope.
InspectReturns(r) ==
    LET s == run[r].session
    IN /\ run[r].at = "inspecting"
       /\ \/ Throws(r)
          \/ /\ controller' = [controller EXCEPT ![s] = r]
             /\ IF active
                THEN stored' = Written(s, "running") /\ Goes(r, "announcing")
                ELSE Fails(r, "failed")
       /\ Unmoved

AnnounceReturns(r) ==
    /\ run[r].at = "announcing"
    /\ \/ Throws(r)
       \/ Goes(r, "provider") /\ UNCHANGED <<stored, controller>>
    /\ Unmoved

\* observe(): accepted, running, progress and completed all write running.
Observe(r) ==
    /\ run[r].at = "provider"
    /\ stored' = Written(run[r].session, "running")
    /\ UNCHANGED <<controller, run>> /\ Unmoved

\* The adapter throws: the error is PROVIDER_CANCELLED only if the signal was
\* aborted, and may be another one even then.
ProviderFails(r) ==
    /\ run[r].at = "provider"
    /\ \/ Fails(r, "failed")
       \/ run[r].aborted /\ Fails(r, "cancelled")
    /\ UNCHANGED controller /\ Unmoved

\* Mutant of ProviderReturns: the signal is left to the adapter.
ProviderReturnsUnchecked(r) ==
    /\ run[r].at = "provider"
    /\ IF ~active THEN Fails(r, "failed")
       ELSE stored' = Written(run[r].session, "succeeded") /\ Goes(r, "staging")
    /\ UNCHANGED controller /\ Unmoved

\* The adapter returns an output.
ProviderReturns(r) ==
    /\ run[r].at = "provider"
    /\ IF run[r].aborted THEN Fails(r, "cancelled")
       ELSE IF ~active THEN Fails(r, "failed")
       ELSE stored' = Written(run[r].session, "succeeded") /\ Goes(r, "staging")
    /\ UNCHANGED controller /\ Unmoved

\* The event is sent and the staging file written.
StagingReturns(r) ==
    /\ run[r].at = "staging"
    /\ \/ Throws(r)
       \/ Goes(r, "ingesting") /\ UNCHANGED <<stored, controller>>
    /\ Unmoved

\* The Utility adds the asset, or appends the event, and answers later: an
\* answer may be an error although the work is done.
UtilityWorks(r) ==
    /\ \/ /\ run[r].at = "ingesting"
          /\ run' = [run EXCEPT ![r].asset = TRUE, ![r].at = "ingested"]
       \/ /\ run[r].at = "recording"
          /\ run' = [run EXCEPT ![r].events = @ + 1, ![r].at = "recorded"]
    /\ UNCHANGED <<stored, controller>> /\ Unmoved

UtilityFails(r) ==
    /\ run[r].at \in {"ingesting", "ingested", "recording", "recorded"}
    /\ Throws(r) /\ Unmoved

\* Mutant of EvidenceComplete: the last event is not waited for.
EvidenceAlmostComplete(r) == run[r].events + 1 >= EvidenceCount

EvidenceComplete(r) == run[r].events = EvidenceCount

\* addAsset or recordEvent was answered ok and there are events to come.
NextEvent(r) ==
    /\ run[r].at \in {"ingested", "recorded"} /\ ~EvidenceComplete(r)
    /\ Goes(r, "recording")
    /\ UNCHANGED <<stored, controller>> /\ Unmoved

\* The last was: the output is stored, whatever the session is by now, and
\* stays if the event cannot be published.
Publish(r) ==
    /\ run[r].at \in {"ingested", "recorded"} /\ EvidenceComplete(r)
    /\ stored' = [stored EXCEPT
           ![run[r].session].output = r,
           ![run[r].session].state = IF active THEN "proof_ready" ELSE "failed"]
    /\ Goes(r, IF active THEN "publishing" ELSE "closing")
    /\ UNCHANGED controller /\ Unmoved

\* The finally block deletes the controller of the session, whose ever it is.
Closes(r) ==
    /\ Goes(r, "ended")
    /\ controller' = [controller EXCEPT ![run[r].session] = None]
    /\ UNCHANGED stored

PublishReturns(r) ==
    /\ run[r].at = "publishing"
    /\ Throws(r) \/ Closes(r)
    /\ Unmoved

RunEnds(r) == run[r].at = "closing" /\ Closes(r) /\ Unmoved

-----------------------------------------------------------------------------
(* cancelCreationSession and completeCreationProof.                         *)

LooksAtSignal == {"announcing", "provider"}

\* Only a running session can be cancelled.  The controller may be missing, or
\* be another run's.
Cancel(s) ==
    /\ active /\ stored[s].state = "running"
    /\ run' = [r \in Runs |->
           [run[r] EXCEPT !.aborted = @ \/ (controller[s] = r
                                            /\ run[r].at \in LooksAtSignal)]]
    /\ stored' = Written(s, "cancelled")
    /\ stopped' = stopped \union
           {r \in Runs : run[r].session = s /\ run[r].at \in LooksAtSignal}
    /\ UNCHANGED <<prompts, controller, active, seal, faults>>

SealGoes(c, place) == seal' = [seal EXCEPT ![c].at = place]

SealUnmoved == UNCHANGED <<prompts, controller, active, run, stopped, faults>>

SealRequested(c, s) ==
    /\ active /\ seal[c].at = "idle"
    /\ stored[s].state = "proof_ready" /\ stored[s].output # None
    /\ seal' = [seal EXCEPT ![c].session = s, ![c].at = "checking"]
    /\ UNCHANGED stored /\ SealUnmoved

\* The report's target is free; sealPackage is queued.
SealChecked(c) ==
    /\ seal[c].at = "checking" /\ SealGoes(c, "sealing")
    /\ UNCHANGED stored /\ SealUnmoved

SealPackage(c) ==
    /\ seal[c].at = "sealing"
    /\ seal' = [seal EXCEPT ![c].sealed = TRUE, ![c].at = "verifying"]
    /\ UNCHANGED stored /\ SealUnmoved

VerifyPackage(c) ==
    /\ seal[c].at = "verifying"
    /\ seal' = [seal EXCEPT ![c].verified = TRUE, ![c].at = "saving"]
    /\ UNCHANGED stored /\ SealUnmoved

\* Any of these steps may fail; nothing is written to the session then.
SealFails(c) ==
    /\ Live(seal[c]) /\ SealGoes(c, "ended")
    /\ UNCHANGED stored /\ SealUnmoved

\* The report is saved and the session complete, whatever it is by now; a
\* failure to publish the event changes nothing any more.
SaveReport(c) ==
    /\ seal[c].at = "saving" /\ SealGoes(c, "ended")
    /\ stored' = [stored EXCEPT ![seal[c].session].state = "complete",
                                ![seal[c].session].package = c]
    /\ SealUnmoved

-----------------------------------------------------------------------------
(* The environment.                                                         *)

\* The user opens another workspace, or this one again.
Switch ==
    /\ faults < MaxFaults /\ faults' = faults + 1
    /\ active' = ~active
    /\ UNCHANGED <<stored, prompts, controller, run, seal, stopped>>

Lost(h) == IF Live(h) THEN [h EXCEPT !.at = "lost"] ELSE h

\* Mutant of Recovered: only sessions shown as running are recovered.
RecoveredRunning(state) == IF state = "running" THEN "failed" ELSE state

\* recoverInterruptedCreationSessions.
Recovered(state) == IF state \in {"running", "succeeded"} THEN "failed" ELSE state

\* The application ends at any point and starts again.
Restart ==
    /\ faults < MaxFaults /\ faults' = faults + 1
    /\ stored' = [s \in Sessions |->
           [stored[s] EXCEPT !.state = Recovered(stored[s].state)]]
    /\ prompts' = {}
    /\ controller' = [s \in Sessions |-> None]
    /\ active' = TRUE
    /\ run' = [r \in Runs |-> Lost(run[r])]
    /\ seal' = [c \in Seals |-> Lost(seal[c])]
    /\ UNCHANGED stopped

ProviderAnswers(r) == ProviderFails(r) \/ ProviderReturns(r)

Proceeds(r) ==
    \/ InspectReturns(r) \/ AnnounceReturns(r) \/ ProviderAnswers(r)
    \/ StagingReturns(r) \/ UtilityWorks(r) \/ UtilityFails(r)
    \/ NextEvent(r) \/ Publish(r) \/ PublishReturns(r) \/ RunEnds(r)

Completes(c) ==
    \/ SealChecked(c) \/ SealPackage(c) \/ VerifyPackage(c)
    \/ SealFails(c) \/ SaveReport(c)

Next ==
    \/ \E s \in Sessions : Create(s) \/ Freeze(s) \/ Cancel(s)
    \/ \E r \in Runs, s \in Sessions : RunRequested(r, s)
    \/ \E r \in Runs : Observe(r) \/ Proceeds(r)
    \/ \E c \in Seals, s \in Sessions : SealRequested(c, s)
    \/ \E c \in Seals : Completes(c)
    \/ Switch \/ Restart

Spec == Init /\ [][Next]_vars

\* The provider has a deadline, the jobs of the Utility have their timers.
FairSpec == Spec /\ \A r \in Runs : WF_vars(Proceeds(r))

-----------------------------------------------------------------------------
(* Properties.                                                              *)

TypeOK ==
    /\ stored \in [Sessions -> [state : States, snapshot : BOOLEAN,
                                output : Runs \union {None},
                                package : Seals \union {None}]]
    /\ prompts \subseteq Sessions
    /\ controller \in [Sessions -> Runs \union {None}]
    /\ active \in BOOLEAN
    /\ run \in [Runs -> [session : Sessions \union {None}, at : Places,
                         aborted : BOOLEAN, asset : BOOLEAN,
                         events : 0 .. EvidenceCount]]
    /\ seal \in [Seals -> [session : Sessions \union {None},
                           at : {"idle", "checking", "sealing", "verifying",
                                 "saving", "ended", "lost"},
                           sealed : BOOLEAN, verified : BOOLEAN]]
    /\ stopped \subseteq Runs
    /\ faults \in 0 .. MaxFaults

\* A session that shows an output shows one whose asset and whose whole chain
\* of events are in its workspace; without one it is neither ready for a proof
\* nor complete; its package was sealed and verified.
EvidenceBehindProof ==
    \A s \in Sessions :
        LET o == stored[s].output
            p == stored[s].package
        IN /\ o # None => run[o].session = s /\ run[o].asset
                             /\ run[o].events = EvidenceCount
           /\ stored[s].state \in {"proof_ready", "complete"} => o # None
           /\ stored[s].state = "complete" => p # None
           /\ p # None => seal[p].session = s /\ seal[p].sealed /\ seal[p].verified

\* A session that is shown under way has a run that works on it: neither a
\* restart nor the races of two runs leave it running for ever.
NoOrphan ==
    \A s \in Sessions : stored[s].state \in {"running", "succeeded"} =>
        \E r \in Runs : run[r].session = s /\ Live(run[r])

\* A run whose signal was aborted in time never publishes an output, nor adds
\* anything to the workspace.
AbortedAddsNothing ==
    \A r \in Runs : run[r].aborted =>
        ~run[r].asset /\ \A s \in Sessions : stored[s].output # r

\* No session is under way for ever.
SessionsSettle ==
    \A s \in Sessions :
        []<>(stored[s].state \notin {"running", "succeeded"})

\* "Cancellation never publishes a successful output proof": a run that
\* waited for the provider when the user was told the session is cancelled does
\* not.
StoppedNeverPublishes ==
    \A s \in Sessions : stored[s].output \notin stopped

\* The table of creation-core: what a state may turn into.
Lifecycle ==
    [absent      |-> {"draft"},
     draft       |-> {"frozen"},
     frozen      |-> {"running", "failed"},
     running     |-> {"succeeded", "failed", "cancelled"},
     succeeded   |-> {"proof_ready", "failed"},
     failed      |-> {"running"},
     cancelled   |-> {"running"},
     proof_ready |-> {"complete"},
     complete    |-> {}]

\* A stored session moves along the table only.
FollowsTable ==
    [][\A s \in Sessions : stored'[s].state # stored[s].state =>
           stored'[s].state \in Lifecycle[stored[s].state]]_vars
=============================================================================
