# AIGC-Proof in TLA+

A TLA+ model of AIGC-Proof: the desktop workbench's main process (job queue,
supervised native Utility, file references, creation sessions, ComfyUI, trusted
timestamps), the state of its page, and the part of the Rust core that keeps a
proof workspace, seals and verifies packages, keeps the creator key and decides
about official identities. Paths below are relative to the repository; `main/`
stands for `apps/desktop/src/main/`, `core/` for `crates/proof-core/src/`.

    cd tla
    tlc -config JobScheduler.cfg MCJobScheduler.tla     # any run of the table below
    tlapm JobExecution_proofs.tla                       # and the other *_proofs modules

## 1. The system

### Components

| Component | Source | State | Operations |
| --- | --- | --- | --- |
| Job scheduler | `main/job-scheduler.ts` | job records, queue, `#running`, results, completion promises | `enqueue`, `cancel`, `wait`, `#pump`, `shutdown` |
| Utility supervisor | `main/utility-supervisor.ts` | `#child`, `#state`, `#startPromise`, `#pending` and its timers | `start`, `execute`, message and exit handlers, three timers, `shutdown` |
| Utility process | `apps/desktop/src/utility/` | `busy`, at most one native operation | message loop, exit |
| Host references | `main/authority.ts` | records with owner, permissions, expiry, consumed flag | `issue`, `resolve`, `consume` |
| IPC handlers | `main/ipc.ts` | profiles and abort controllers per renderer or session | some fifty handlers; `startAuthorizedJob`, `executeUtility` |
| Creation sessions | `main/ipc.ts`, `main/app-state.ts`, `main/creation-scope.ts` | `creation_sessions` in SQLite, prompts in memory, abort controllers, active scope | create, freeze, run, cancel, complete, recovery at start-up |
| Creation core | `apps/desktop/packages/creation-core` | none | life cycle table, snapshots, evidence mapping |
| ComfyUI supervisor and adapter | `main/comfyui-supervisor.ts`, `.../provider/comfyui.ts` | the managed child; a prompt on a local server, a socket | inspect, start, run, interrupt, close |
| Trusted timestamp requests | `main/ipc.ts`, `main/tsa-transport.ts` | imported trust snapshot and controller per window, a staged response | import, request, cancel, close |
| Workbench page | `apps/desktop/src/renderer/App.tsx` | some eighty React states | clicks; answers and events in any order |
| Proof workspace | `core/workspace.rs`, `core/event_chain.rs` | `proof-workspace.json`, `events/events.json`, `assets/` | `init_workspace`, `add_asset`, `record_event`, `export_workspace_output` |
| C2PA bridge | `core/c2pa_bridge.rs` | none | inspect, `create_c2pa_observation` |
| Package sealing | `core/package.rs`, `core/timestamp_package.rs` | the package file | `seal_workspace*`, `attach_timestamp_response` |
| Package verification | `core/verify.rs`, `core/timestamp.rs` | none | a report from a package, a state per layer of assurance |
| Local signer | `core/signing.rs` | one record in the credential store of the operating system | create, rotate, disable, sign, local trust |
| Official identity | `core/official_attestation.rs` | none; floors kept by callers | a decision over an attestation and two snapshots of its issuer |
| Schema, Node binding, CLI | `crates/proof-schema`, `proof-napi`, `proof-cli` | none | types and validation; one core call per command |
| Preload, mock host, window, QA | `preload`, `mock-host.ts`, `main/main.ts`, `qa/` | none | pass calls on, static configuration, tests |

### How they interact

The page calls a handler of Main over IPC, with references that Main issued to
it. A handler resolves references to paths, and gives a native operation to the
**scheduler** (most jobs) or straight to the **supervisor** (`executeUtility`:
trust profiles, C2PA inspection, official identity, timestamps, and the steps of
creation sessions). The supervisor posts one operation at a time to the
**Utility**, which calls proof-core on a **workspace** on disk, on a package, or on
the key record. Answers come back as messages, or as the exit of the process, or
as a timer. The scheduler emits snapshots of its jobs, the creation handlers
events of sessions, and the page puts both beside the answers it awaits. A creation session runs a
workflow on a **ComfyUI** server that is the user's or a child of Main's. The CLI
works on the same workspaces and the same key record from processes of its own.

### Where it is hard

- *Interleaving at awaits.* Main is one thread, but every handler is cut at its
  awaits. `runCreationSession` has more than a dozen; it reads the stored
  session before the first and writes it after the last.
- *Two owners of one resource.* Scheduler and direct calls share one Utility;
  two runs share one abort controller; two processes share one workspace, and one key
  record, without a lock.
- *Processes that die slowly.* `kill()` is a request. Until the exit event the
  supervisor's fields still speak of the old child; its messages may still come.
- *Crashes.* A Utility may die before, in or after a native operation, Main at
  any await, a core operation between two file system calls.
- *Timers that race answers:* handshake (10 s), operation (5 min), shutdown
  (5 s), provider deadline, the timeouts of a timestamp request.
- *Others on the same port, store or dialog.* A user's own ComfyUI may take the port of
  Main's child; two processes read and replace one key record; another
  trust snapshot may be imported while a request waits.
- *Answers on a page that moved on.* The page keeps working while operations are under way;
  their answers and the events of sessions find another workspace or session.
- *Old evidence.* Snapshots of an issuer come late, in any order and again.


### What makes each part correct

- Scheduler: no lost wake-up, one job at a time, order of acceptance, truthful
  snapshots, completion exactly at the end, every job ends.
- Supervisor: every call is answered, nothing is replayed, an answer is true, no
  two native operations at once.
- References: one answer per one-use reference, spent only for work, and whatever
  the page legally passes on is granted.
- Sessions: a proof has its evidence, cancellation publishes nothing, no session
  stays under way.
- ComfyUI: no child is left behind, the end of a run is observed once and last,
  every call ends, and only a child of Main's is interrupted.
- Timestamps: a cancellation reaches the request and stops it, what is attached was
  confirmed, no response file is left.
- Page: what is shown belongs together, and to the workspace Main works on.
- Workspace and packages: the chain always verifies, what was answered is kept,
  a package is complete and is never replaced.
- Key record: what was replaced or disabled is never used again.
- Verification: a report meets the schema of its version and no layer of assurance
  speaks for another.
- Official identity: staleness hides a revocation for a bounded time only.

`PROJECT.json` lists every component with its status, and each hazard at its
line with the properties that would catch it.

## 2. The modules

| Module | Models | Instance |
| --- | --- | --- |
| `JobLifecycle` | what a submitter may rely on: the states of jobs, one active, each ends | (abstract) |
| `JobScheduler` | `JobScheduler` with any answer of the Utility | `MCJobScheduler` |
| `UtilitySupervisor` | `UtilitySupervisor`, its Utilities and their channels | (in `JobExecution`) |
| `JobExecution` | both composed, with direct calls | `MCJobExecution` |
| `HostOperations` | what each place that issues references grants, and what each operation asks for | (in `HostReferences`) |
| `HostReferences` | `AuthorityRegistry` and the two ways handlers use it | `MCHostReferences` |
| `CreationSessions` | creation handlers, stored sessions, provider, restart | `MCCreationSessions` |
| `ComfyUi` | `ComfyUiSupervisor`, the adapter, server and children | `MCComfyUi` |
| `TrustedTimestamp` | timestamp requests of a window and their transport | `MCTimestamp` |
| `Workbench` | the page, and the scope of creation sessions in Main | `MCWorkbench` |
| `ProofArchive` | what callers of a workspace may rely on: answers that stay, packages that are whole and final | (abstract) |
| `ProofWorkspace` | workspace operations, observation, sealing | `MCProofWorkspace` |
| `LocalSigner` | the creator key and its users | `MCLocalSigner` |
| `Verification` | the report of a package, attachment of a response | `MCVerification` |
| `OfficialIdentity` | the decision about an attestation, its issuer and its callers | `MCOfficialIdentity` |
| `*_proofs` | theorems about the module they are named after; `JobExecution_proofs` also about `JobScheduler` and `UtilitySupervisor`, `Verification_proofs` also about `LocalSigner` and `OfficialIdentity` | |

`JobScheduler` implements `JobLifecycle` by the mapping
`phase <- [j |-> job[j].state]`. `JobExecution` EXTENDS `JobScheduler` and
INSTANCEs `UtilitySupervisor`, identifying a scheduled job with its call of
`execute`; what the scheduler leaves open (when and how the Utility answers) is
there what the supervisor does.

Definitions whose comment begins *Mutant of X* or *Fault* are not part of a
specification: each is an operator of it with a plausible bug, and breaks the property it is listed with in
`PROJECT.json`. They show that the property depends on that piece of code.

### JobScheduler

`job`, `queue`, `running`, `results` are the private fields of the class;
`stage` says at which await the pump is suspended, `pumps` counts the scheduled
microtasks, `lastEvent` is what subscribers were last sent. `accepted`, `ticket`
and `dispatched` are history for the order. Between two awaits the code runs
alone, so an action is a method or a piece of `#pump` between awaits:
`PumpStarts` (take a job, call execute), `UtilityProgress`, `ExecuteFails`,
`ExecuteSucceeds`, `PublishSucceeds`, `PublishFails`. The microtask scheduled at
the end of a pump is part of `PumpEnds`. `publish` may fail, as its callers'
functions may throw.

### UtilitySupervisor

Main's fields (`child`, `health`, `starting`, `pending`, ...), and per process
its life, whether it was told to die, the operation it works on, and its two
channels. `execute` is cut at `await this.start()` and at its promise; a
settled start is a step of its own for each waiting caller (`Resume`). A process
may do its work and lose the message, die at any time, ignore a kill for as long
as it likes, and (bounded by `MaxFaults`) send a malformed, oversized or
untimely message. The three timers are actions enabled while they are set.

### JobExecution

`Dispatch` is the pump's step together with the first step of `execute`;
`Answer` the pump's step once its call settles; `Supervise` any internal step of
the supervisor; `Direct` a call of `executeUtility`; `Quit` is
`scheduler.shutdown`, which ends with the supervisor's. Progress messages are left out: they change no control.

### HostReferences

A behaviour is one operation of `HostOperations` with one of the sources that each
of its references may have: a dialog, the list of recents, the result of another
operation. `Receive` checks the first reference as far as `await canonicalize`, `ResolveNext`
goes on with the next, and then `Enqueue` (queue the job, then consume) or
`Execute` and `ExecuteReturns` (direct call, consume at its end). `Expire` and `Move`
are time and other programs. `step` is the position in the list of references; two
requests are of the references' owner, one of another renderer. `HostOperations`
translates both ends of a contract that the code writes down in many places: the
permissions where a reference is issued, and kind and permission where a handler
resolves it.

### CreationSessions

`stored` is the row of the table, `run` and `seal` are the suspended handlers
with their place and what they have done in the workspace. Each await
that returns is a step; one that throws runs the catch block (`Fails`) up to its
own await, after which `RunEnds` is the `finally` block that deletes the controller. `Switch`
opens or leaves the workspace (the scope makes `activeScope` throw), `Restart`
kills the application and does what `recoverInterruptedCreationSessions` does.

### ComfyUi

A call is one `inspect`, or one run, which inspects and then follows a prompt. Its
record holds the await it is at, what it knows of the server and its socket. `managedChild` is the
supervisor's field, `process` and `killed` what became of the children, `server`
who listens on the port: nobody, a child, or a server of the user (`UserServer`).
A server has a queue and a history, and loses both when it exits. `Step` is any
await of a call that settles, `Abort` the cancellation of its signal. `raced` is
history: the starts during whose `mkdir` another one, or close, was under way;
`interrupted` lists the servers a global interrupt was posted to.

### TrustedTimestamp

Each request goes from await to await: `preparing` and `confirming` (native core, dialog),
`resolving`, `waiting` and `receiving` (the transport), `storing`, `attaching`, `issuing`, and
`removing` in its `finally` block. `controller` is the window's entry of the map of
controllers; the requests that set, replace and delete it need not be the same.
The authority is the environment. `overlapped` is history, of one request: since it was
confirmed, another request of the window was at work.

### Workbench

`view` is what the page shows, with everything on it modelled by where it comes from: an
image, a report or a package was picked by the user, or belongs to a session or
workspace. An operation under way has a slot; it remembers what it closed over when it
was clicked. Main handles it (`Handled`, `Worked`), its answer changes the page
(`Answer`, `RunAnswer`, `Loaded`, `Listed`), events arrive by themselves. Clicks are
allowed where the page enables their buttons. `crossed` and `late` are history: the list request
that Main took up last was of an opening that had been overtaken; since the last opening, an
answer or event found the page in another context.

### ProofWorkspace

One operation is one process. The steps are its accesses to the file system:
reading the record or the chain, putting a file in place, replacing record or
chain by rename, hashing, writing, checking, publishing. `Stops` is an error or a
kill between two of them; `Changes` another program that alters (and perhaps
restores) an asset. An event's id stands for its hash, since an event is made
once; the bytes of an asset are the right ones or others. `before` and
`overlapped` are history: what had been answered ok when a seal began, and
the writers that were between their read and their write of one file together.

`ProofWorkspace` implements `ProofArchive` by the mapping

    answered  <- the writers at "ok"         sealing   <- the seals that are not idle
    contents  <- record and ids of events    published <- of each package its seal, and assets and ids of events

with `owed <- before` and `raced <- overlapped`. A write and its answer are one step; what fails or is
killed before it shows nowhere.

### LocalSigner

A call is one use of the service by some process: it loads the record, decides, and
stores another or signs later. Loads and stores of the credential store are atomic and may be
refused; a refused store may have been written. A key is named by the call that
generated it. History: `retired` holds the keys that were active and were replaced
or disabled, `barred` those retired before a call began, and `alone` the writers
whose load and store no other writer has met or followed.

### Verification

A package is what each stage finds in it; the report is an operator, `ReportOf`, of the
package, of the local key record, of the trust snapshot that is given and of whether the snapshot's
validity has ended. Those three change around a package, and `Attach` adds a
response to it, with the checks before and after. What a response is found to be
under the right snapshot is part of the package; that the snapshot is another one, or none, or
late, is not.

### OfficialIdentity

The issuer is external and publishes what it holds at the moment: status snapshots
with their time, signed like the attestation itself, and trust snapshots of its key, numbered in
order; it does not take a revocation back. A trust snapshot is plain JSON that the caller chooses to rely
on. The issuer has one key with one interval of validity: a new key beside it is not modelled. `Decision` is the verifier, in the order of its checks. It is asked
by the page, which passes floors of 1, and by a caller of the command line that raises
its floors to the sequences of the decisions it relied on, as
`docs/THREAT-MODEL.md` expects of callers. The inputs are any published snapshots,
old ones included.

`Verification_proofs` extends `Verification`, `LocalSigner` and `OfficialIdentity` together; the
last two name their specifications `SignerSpec` and `IdentitySpec` for that.

## 3. The runs

Every run takes less than two and a half minutes with two workers.

| Run | Configuration | States | Question |
| --- | --- | --- | --- |
| `scheduler` | 3 jobs of 2 renderers, queue of 2 | 70,570 | the scheduler alone, and as an implementation of `JobLifecycle` |
| `execution` | 1 job, 1 direct call, 2 processes, 1 fault, shutdown | 355,407 | do jobs end, and end for good, whatever a Utility does |
| `references` | every operation and source, 3 requests of 2 renderers, 2 expiries or moves | 54,484 | can awaits make a reference count twice, and does what is issued suffice |
| `sessions` | 2 sessions, 2 runs, 1 completion, 1 restart or change of workspace | 317,810 | what stored sessions say against what happened |
| `comfyui` | 2 calls, one of them a run, 2 children, a user's server | 257,516 | what is left of children and prompts, whoever starts, exits and cancels |
| `timestamp` | 2 requests, 2 trust snapshots | 52,678 | what cancellation, silence and another snapshot do to a request |
| `workbench` | 2 workspaces, 2 sessions, 2 operations at a time, 3 clicks | 2,225,490 | does the page show what belongs together |
| `workspace` | any 5 of 3 assets, 3 events, 2 seals for one path; 1 fault | 573,657 | what races and crashes leave of a workspace and its packages |
| `signer` | 4 calls of any kind over any first record | 559,909 | what processes without a lock leave of the key record |
| `verification` | all packages with up to 2 faults | 54,234 | do the parts of a report contradict each other |
| `official` | 2 status and 2 trust snapshots, 4 instants | 41,120 | what late and old snapshots can hide |
| `user_interrupted` | 1 run, 1 child, a user's server | violation | may the application interrupt a job of the user's own server |

The last run checks a statement that the repository makes and the code does not
keep; TLC shows how (section 6, which has the configurations of five more).

A property is listed for a run when a run is needed for it. The type invariants
of `JobScheduler` and `ProofWorkspace`, and `CompletionIsTheEnd`, `PackageIsComplete`,
`PublishedVerifies`, `NeverClobbered`, `AnswerHolds` and `AttachAddsTime`, are theorems (section 4), and no
run repeats them; each may be added to its configuration.

### What they show

**scheduler.** `NoLostWakeup`: the pump is woken only by `enqueue` and by its own
end, and that suffices on every path, also after cancellations of queued jobs,
`shutdown` and failures. `SingleRunning`: several microtasks may be pending, and
two pumps never hold a job; this also shows that a cancellation at any await
leaves the pump a legal transition, so that `#fail` never throws in it.
`DispatchOrder`, `SubscribersSeeTheJob` and
`ProgressMonotone` (as the units are clamped and the sequence is counted in Main,
whatever the Utility reports) relate what callers see to the record.
`ImplementsLifecycle` checks the refinement with its fairness.

**execution.** `NoReplay`, `AnswersAreTrue`: no operation begins twice, and data is only
handed out for one that was finished. `SingleWriter`: although killed processes
live on, two native operations do not overlap, because `#child` stays set until
the exit event: nothing forks before it. This holds until `shutdown`.
`JobsEndAnyhow` assumes nothing of the Utility: each way to lose a process
(exit, failed handshake, timeout, invalid message) ends the job that waits for
it. `EndedStaysEnded`: a job that was shown as failed by a
timeout does not begin later, except in a process already told to die.

**references.** `SpentOnce`: one request at most is answered ok for a one-use
reference; `SpentForWork` and `LateDoesNoWork`: a refusal spends nothing, a late
request does nothing. `GrantsSuffice`: wherever the page has a reference from, no
operation it may pass it to is refused for kind or permission.

**sessions.** `EvidenceBehindProof`: however two runs, a completion, a cancel, a
restart and a change of workspace interleave, an output that is shown has its
asset and its complete chain of events, and a package was sealed and verified.
`NoOrphan` and `SessionsSettle`: no session stays running. `AbortedAddsNothing`: what
a provider delivers after the abort of its run is dropped.

**comfyui.** `NoStray`: a child that runs is the managed one or was killed, through
overlapping inspections, exits during the start, and the quit. The children of starts that raced each other
are excepted, and there the code does leave one that it does not know; every start that raced no other keeps the
promise, whatever happened before. `EndObserved`: the
session is told the end of its run once, last, and as the caller is, although the
socket, the history and the cancellation race. `CallsEnd`: no wait is without an end.

**timestamp.** `AbortStops`: a cancellation on the network wins over a response that
arrives in the same turn. `CancelReaches`: from its confirmation to its answer the window's entry is the
request's, unless another one of the window was at work since then; and an entry never outlives its
request, whatever overlapped, so that a window is not locked out by one that is over.
`SentAsConfirmed`: importing another snapshot changes nothing of a request that is
under way. `NothingStaged`, `RequestsEnd`.

**workbench.** `LastEnterWins`: of two openings the last one's sessions are offered,
whatever the order of the answers. `ScopeAgrees`: the page offers to create only in
Main's active scope, but for one order: Main takes up the list request of an overtaken opening after the latest
one's, and the next opening mends it. `ScopedView`: from an opening on, while every answer finds the page as its
operation left it, nothing that is shown belongs to a session or workspace that is
left: no state is forgotten by the handwritten clean-ups, and nothing that late answers mixed up
outlives the next opening.

**workspace.** `ChainStaysValid` holds without a lock, because the file is replaced
as a whole by what was read plus one event: races lose events but do not break
the chain. `AnswersKept`: what an addition or a recording was answered stays in the record or the chain, unless
that very operation was between its read and its write of the file while another was. A writer that overlapped
nobody keeps its answer, also against writers that overlap later, and against failures and kills. `RecordedHasFile`: the order file, then record, and
the removal after a failed write, leave no asset without a file.
`ImplementsArchive`: a caller sees the workspace that `ProofArchive` promises. A package
holds all that had been answered when its sealing began, but for writers that had overlapped, although assets and events are read
at different times and assets twice, it holds nothing that was not answered, and it stays.

**signer.** `RetiredStaysRetired`: `disable` stores what it read, `create` and `rotate`
only new keys, so that no race brings an old key back. `RetiredNotUsed`: seals and
verifications that begin later do not use it.

**verification.** `MeetsSchema`: wherever a verification stops and whatever version is
claimed, the report meets the conditions of its schema that relate its parts (status,
integrity, signature, time, evidence). `LayersIndependent`: the response, the
snapshot and the time change only the time layer; the local key record only which
valid signature it is.

**official.** `RevocationBounded`: what was found valid for a time was not listed as
revoked more than `MaxAge` before, also when the verifier keeps nothing.
`NeverTrustedAgain`: a caller that keeps the sequences never finds valid what it was told is revoked.

### Bounds

Every bound is a CONSTANT or the size of a set.

- *Jobs, calls, requests, sessions, runs, operations* are given once each and
  never reused; two of a kind are enough for each race of two, three jobs for an
  order within a queue. `MaxQueuedJobs` is 2 or 1 in place of 16: full and
  not full both occur.
- `MaxForks` equals the number of calls: each call forks at most once, so no
  behaviour is cut. `MaxStarts` likewise.
- `EvidenceCount` is 2 in place of 6: none, some and all events are told apart.
- `MaxPolls` is 1: a wait that ends at its first poll, and one that ends by its
  deadline.
- `MaxFaults`, `MaxChanges`: misbehaviours, restarts, kills, expiries or changes in a run,
  at any step; of a package, the parts that differ from a good one. A crash of a Utility by itself is one;
  the death of a killed one, and answers that never come, are not bounded.
- `MaxEnters` 3 and `MaxClicks` 3: one operation under way, one that leaves its context,
  and one in the new context; or two openings that cross each other and a third.
- `MaxBegun` 5, a CONSTRAINT of `workspace`: at most five of the eight operations begin. Two writers that
  overlap, a later one of the same file, one of the other, and a seal fit; which of the operations that are alike
  begin is left to symmetry.
- `MaxStarts` 2: two starts race, or follow each other. A third one after a race takes a third call, which
  multiplies the run; `NoneStray` is proved for any number of starts.
- Four signer calls: a race of two writers, a third that follows, and a reader.
- Four instants and two snapshots of each kind: one before and one after a
  revocation, fresh, stale and future-dated.
- The proofs of section 4 have none of these bounds: they hold for any value of them.

Deadlock is not checked: each instance may stop when its requests are used up.
Each module has a type invariant. Where the module has proofs it is proved; those of
the others were checked on the runs' instances and are not listed, since the
properties break first.

### Fairness

Weak fairness only, and only of what the code's scheduling gives:

- *scheduler*: microtasks run; `utility.execute` and `publish` settle. The first
  is a promise of the supervisor, checked of it in the run `execution`; `publish` is
  a function of Main over in-memory state and the file system.
- *execution*: continuations of settled promises run, and a timer
  that stays set fires (`setTimeout` in `execute`, `start` and the clean-up). Nothing is
  assumed of native operations, of messages, or of the exit of a killed
  process.
- *sessions*: every await of a run ends: the provider has a deadline, the Utility
  its timer. Nothing is assumed of the user or of completions.
- *comfyui*: each await of a call ends: file system, an answer, or a timer (5 s for
  the socket, 1 s and 0.5 s between polls, the limits of `fetch`). Nothing of children, servers or the user.
- *timestamp*: the native core and the file system answer, an abort is seen and timers
  fire. Nothing of the authority, the name service or the user.
- *references, workspace, workbench, signer, verification, official*: none; their properties are safety.

### Histories

Some variables are not in the code and guard nothing: `accepted`, `ticket`,
`dispatched`, `before`, `overlapped`, `raced`, `interrupted`, `crossed`, `late`,
`retired`, `barred`, `alone`, `told`, `valid`. `overlapped`, `raced`, `crossed` and `late` except a case from a property: a race that the code really loses,
listed in section 6. They except as little as makes the property true: the operation, start or request that raced
itself, or the page until it is opened again. So these properties are not about the race, which the code does
not win, but about all that surrounds it.

## 4. What is proved

TLAPS proves the following for all values of the constants that satisfy the
modules' assumptions (`SchedulerAssumption` and its like: types, distinct names, limits
that are natural numbers).

**`JobExecution_proofs`, the scheduler.** `TypeCorrect`, `WakeupNeverLost`, `OneRunning`, `InOrderDispatch`,
`Truthful`, `CompletionCorrect`, `EventsGrow`, and `Implementation` (the safety part of `JobLifecycle`).
`NoLostWakeup` is not inductive: a pump that ends must know that it leaves the slot
free and a microtask scheduled, which needs `SingleRunning`; that needs to know
which states a record can be in, and `DispatchOrder` needs the tickets of the queue.
The invariant is therefore

    IInv == TypeOK /\ RecordsOK /\ SingleRunning /\ QueueOK /\ DispatchOrder /\ NoLostWakeup

where `RecordsOK` says that each record is one of the shapes its state allows (with
its last event and its result), and `QueueOK` that the queue holds exactly the
queued jobs in the order of their tickets. First come lemmas about the updates
of a record (`ProgressedRecord`, `FailedRecord`, ...) and about sequences, then a
lemma per conjunct or action, then the theorems.

**`JobExecution_proofs`, the execution.** `NeverReplayed`, `TrueAnswers`, `OneWriter`, `EndIsFinal`: every
safety property of the run `execution`, for any number of jobs, direct calls, processes and faults; and
`ExecutionImplements`: with its supervisor the scheduler is still the scheduler above, so that all that is proved of
that one holds. The invariant is

    EInv == IInv /\ SInv /\ JobsAndCalls
    SInv == Shape /\ OrdersOK /\ BegunOK /\ CallsOK /\ ResultsOK /\ ForksOK /\ LoneChild

- `OrdersOK`: an execute message that was not read is the only one for its call, in all inboxes together, and
  the call was posted and has not begun. This is why nothing is replayed: what begins leaves its inbox, and a call
  is posted only from a state to which nothing returns it (`CallsGoOn`, of every step).
- `BegunOK`, `ResultsOK`: what has begun was posted; results are under way, and data given, only for what is done.
- `LoneChild`: until a shutdown only the current process, once healthy, has anything to do, and an order that
  nobody waits for any more (its call timed out) is in the inbox of a process that was told to die. Since
  `#child` is forgotten only with the exit event, a fork finds nothing left to do anywhere, which is `SingleWriter`;
  the second half is `EndedStaysEnded`.
- `JobsAndCalls`: at which place the call of a job is, by the state of the job; it ties the two modules together.

`KillFacts`, `PostFacts`, ... say what an operation on the processes leaves alone, `MainKeeps` and
`ProcessKeeps` what every step of Main's or of a process has in common, and there is a lemma per step.

**`HostReferences_proofs`.** `UsedOnce`, `WorkSpends`, `LateIsRefused`, `GrantsAreEnough`: every property of the
run `references`, for any owners, requests, expiries and moves. The invariant adds to
the properties that a request that has done its work is answered (`WorkAnswered`), that a late one still resolving
has a consumed reference ahead of it (`LateIsStopped`), which is why it cannot get through, and that each
reference came from a place the operation takes it from (`Provided`). `GrantsAreEnough` rests on lemmas about
the tables of `HostOperations` (`InputsMatch` and the ones before it): wherever a page may have a reference from, kind and permissions meet what
the handler asks, whichever operation it is passed to.

**`CreationSessions_proofs`.** `TypeCorrect`, `EvidenceThere`, `NoneOrphaned`, `AbortsHold`: every safety property of the
run `sessions`, for any number of sessions, runs, seals and faults. What a handler wrote last is read back only by
others, so the invariant relates `stored` to the runs and seals by their place: a row that says running has its run
alive and not past its last write (`Attended`), a row with an output has a run past its last event (`RowOK`), and
`RunOK` and `SealOK` say what a handler at each place has done.

**`ComfyUi_proofs`.** `NoneStray` and `EndIsObserved`: every safety property of the run `comfyui`,
for any calls, starts and polls, a server of the user's own, and a quit at any time. The invariant is

    ProviderInv == ProviderTypes /\ (\A c \in Calls : CallOK(call[c])) /\ OneStart /\ NoStray

`NoStray` alone is not inductive: a spawn replaces `managedChild`, so one must know that no child is managed while a
call is about to spawn, and that only one call is, unless their starts are in `raced` (`OneStart`): two starts that
pass the check together, each of which the history has marked. `CallOK` says at which places of the adapter the prompt's identity is known and a terminal
event was observed: once, at the end. `CallFrame` is the step of one call that starts nothing, which most are.

**`Workbench_proofs`.** `LatestEnterWins`, `ScopesAgree` and `ViewIsScoped`: every property of the run
`workbench`, for any workspaces and sessions, any number of operations at a time, answered in any order. The invariant is

    PageInv == PageTypes /\ OperationsOK /\ ExistIn(view) /\ (events exist)
                 /\ (~crossed => ScopeOK)
                 /\ (~late => /\ view.workspace = entered /\ ShownOK(view)
                              /\ \A o \in Slots : Pending(o) => RemembersOK(operation[o]))

None of the three holds by itself, since what an answer shows was remembered by its operation long before:

- `RemembersOK`: what an operation remembers belongs together, and is of the workspace entered last unless another was
  entered meanwhile. An answer that finds generation and session unchanged shows what it remembers (`AppliedShown`), any
  other sets `late`. A new generation makes all earlier operations old, so that what they remember of a mixed-up page
  is of no account once `late` is reset (`LoadedKeeps`, `SlotStep`).
- `OperationsOK`: what an operation works on whatever the page shows by now, and that no two creations are of one
  session, so that the home a creation gives (`WorkedKeeps`) is nobody else's.
- `ScopeOK`: when the page may create, or the list of the workspace entered last was answered, that workspace is
  the active scope. A list request of the latest opening establishes it whatever was before (`HandledKeeps`);
  one of an overtaken opening sets `crossed`.

`PageStep` and `SlotStep` carry everything else over a step of the page and of one operation.

**`ProofWorkspace_proofs`.** `TypeCorrect`, `ChainValid`, `RecordHasFiles`, `NothingLost`,
`PackagesSound` (`PackageIsComplete` and `PublishedVerifies`), `PackagesStay`, `ArchiveImplemented`: every property
of the module. The argument:

- `Chains`: an event that has not been answered for is in no chain anybody has
  read, so extending any of them gives unique ids; `AppendValid` does the rest.
- `Filed`: an asset anybody has read of in the record has been answered ok, so its
  `add_asset` is past the point where it takes the file back.
- `OneWriter`: two writers between read and write of one file have overlapped, and each has read all that was
  answered to writers that have not.
- `Sealing`: what each seal under way already holds of what had been answered.
- `Sealed`: a package names a seal that ended, so its history stands still.

`Lasting` (answers, histories and packages persist) carries these over to the
properties of packages; `PackagesStay` follows from it and `PersistFrame`.

`ArchiveImplemented` is `Spec => ImplementsArchive` for any operations, overlaps and faults, from the same
invariant: `OnlyAnswered` (from `Chains` and `Filed`) bounds contents and packages by what was answered,
`OneWriter` makes what a writer leaves of the older content all of it, `Sealing` gives a package what is owed
to it. `WriterBegins`, `WriterAnswers`, `SealBegins`, `SealGoesOn` and `SealPublishes` say of each kind of
step which step of `ProofArchive` it is.

**`TrustedTimestamp_proofs`.** `TypeCorrect`, `CancellationStops`, `CancellationReaches`,
`ConfirmationHolds`, `StagingCleared`: every safety property of the run `timestamp`, for any
number of requests. The invariant is

    IInv == TypeOK /\ (\A r \in Requests : RequestOK(r)) /\ Overlaps /\ Held

`RequestOK` says at each place what an aborted request may have reached, what was
confirmed, and whether a response file may exist; `Overlaps` that a confirmed request knows of each other
one at work; `Held` that the request of an entry is confirmed and not answered. Most
actions change one request and keep the others, which one lemma says for all.

**`Verification_proofs`, the local signer.** `RetirementIsFinal`, `RetiredKeysUnused`, `AnswersHold`: what a key that is retired,
and an answer, are worth, for any number of calls. Besides the properties the invariant needs `Fresh` (a key
that no call has stored is in no record that anybody has read, nor retired), `Accepted` (what a call that goes
on has loaded), `SealUnderWay` and `Alone`.

**`Verification_proofs`, the report.** `LayersStayApart` and `ReportsMeetSchema` for every package (the run has those with two
faults), and `AttachmentAddsTime`. `ReportParts` computes each part of a report from the
stages; `StampOnlyInTime` and `TrustOnlyInSignature` say on which arguments it depends.

**`Verification_proofs`, the official identity.** `StalenessBounded` and `RevocationIsRemembered`, for any times, policies
and numbers of snapshots. `DecisionRestsOn` says what a decision implies of the
snapshots it was made from. The invariant has the issuer's promises (`Ordered`, `EntryFinal`, `KeyFinal`), `FoundFresh`
(what was found valid has a fresh snapshot behind it) and `ToldKept` (what was told is within
the floors); the bound follows since that snapshot was published before any that lists the revocation.

**Only model-checked:** liveness under fairness (the fair part of `ImplementsLifecycle`,
`JobsEndAnyhow`, `SessionsSettle`, `CallsEnd`, `RequestsEnd`), which is out of
the prover's reach. Every invariant and action property of the passing runs is a theorem. What the runs add to them is
that the models move: they reach the states the properties are about, and each property fails under a mutation of the code.

## 5. What is not modelled

- Contents: bytes of images, hashes, CBOR, COSE, CMS, X.509, ZIP. A hash is taken
  to be injective, a signature to verify what was signed. What parsers find is a
  choice (the parts of a package in `Verification`, `fault` in `OfficialIdentity`).
- `export_workspace_output` (a copy out of the workspace), `inspect_package`, `asset_match.rs` and
  C2PA inspection: they read and answer.
- `recentItems`, provider installations and preferences: single SQL statements.
- The schemas of messages, selection dialogs, forms and rendering, the identity and
  C2PA panels' own results; the mock host; window, security policy and test harness:
  data, presentation or static configuration.
- The limit of 16 MiB that `load_events` puts on the file of events, and `persist_events` does not: a chain
  that grows past it can be neither extended nor sealed.
- Listeners of the scheduler that throw: the one listener sends through
  `webContents.fromId(owner)?.send`, which is skipped when the renderer is gone.
- Addresses and certificates of a timestamp authority, the runtime directory of a ComfyUI child.
- A `kill` between the two halves of one file system call, and a file system that
  loses what was synced.

## 6. Findings

| Configuration | What the repository says | What happens |
| --- | --- | --- |
| `LaterWork.cfg` (`MCJobExecution`) | ADR 0002: "Later work starts a fresh compatible Utility." | After an operation timeout `kill()` was only asked for: `#child` and `#state` still say healthy, a call that comes before the exit event is posted to the dying process and fails with `UTILITY_PROCESS_LOST`. |
| `CancelPublishes.cfg` (`MCCreationSessions`) | Cancellation never publishes a successful output proof. | Two runs of one session share one controller slot. The cancellation aborts the controller of one of them; the other goes on and writes its output over `cancelled`. Without concurrent requests too: run, cancel, run again while the first unwinds (its `finally` deletes the second's controller), cancel again. |
| `SessionTable.cfg` (`MCCreationSessions`) | The life cycle allows only the transitions of its table. | A run request that is refused writes `failed` without looking at the table: a draft, a proof_ready or a complete session becomes failed. |
| `UserInterrupted.cfg` (`MCComfyUi`) | Global interrupts only for a child started and owned by the application. | The adapter remembers for the whole run that a child was managed; when the child has exited and the user's server has the port, a cancellation interrupts the user's job. |
| `CreateReplaces.cfg` (`MCLocalSigner`) | Create refuses an existing record; only a confirmed rotation replaces a key. | Two creations load an empty store together and both are answered created; the second key replaces the first. |
| `AbsentWarning.cfg` (`MCVerification`) | "Creator signature is valid, but no RFC 3161 response is attached." | The stage of the timestamp runs whatever the signature was found to be, so the warning is also given for an invalid or missing one. |

TLC finds each of them violated by its configuration, which checks that one
property. The run `user_interrupted` stands for them in `PROJECT.json`. The
statements are in `docs/adr/0002-supervised-utility-jobs.md:56`, `docs/DESKTOP-WORKBENCH.md:112`
and `:114`, `apps/desktop/packages/creation-core/src/index.test.ts:179`, `docs/CLI.md:45` with
`docs/SIGNATURE-PROFILE.md:26`, and the warning itself (`core/verify.rs:817`).

Met while modelling and without a configuration, since no document says otherwise or the case
is the same in kind:

- Direct calls and the queue share the Utility: a queued job whose turn comes meanwhile is
  refused as busy and shown as failed. Two requests may resolve a one-use
  reference before either consumes it; both jobs are queued and one is told that it was reused.
  A second C2PA observation of an asset makes every later signed seal fail.
- A timestamp request that is refused because another is under way frees the other's
  controller in its `finally` block, and two requests can pass the check: of two that are confirmed together
  a cancellation reaches the last (`overlapped` in `TrustedTimestamp`).
  A cancellation after the response has ended is answered as done although the package
  is attached.
- Two overlapping starts of ComfyUI leave a child nobody knows (`raced`). A foreign server that
  answers incompatibly does not keep a child from being started.
- Two writers that overlap on the record or the chain lose one of their answers (`overlapped` in `ProofWorkspace`):
  both are told ok, and the second replaces what the first has written.
- A late answer of a run puts the previous workspace's session on the page until the next opening (`late`); of two
  overlapping lists the one handled last decides Main's active scope (`crossed`). A change of workspace during a run
  makes the publishing of its event throw, so that a finished run is stored as failed with its output.
  A recent package does not clear the report of the one before.
- After a failure behind proof_ready a session keeps its output and can neither run nor be completed;
  `completeCreationProof` stores complete whatever the status of the report is.
- A page that keeps the reference of a failed job passes it on again and is told that it was reused.
- One session whose package is gone blocks the whole list of its workspace. A state file of a newer version
  is set aside as corrupt. `saveReportNoClobber` leaves a part of its file when a write fails.
- A seal that loaded the key before it was disabled still signs after; of `disable` and `rotate`
  at the same time, the new key may be replaced by the disabled old one.
- The page passes floors of 1 for official identities, so that only the freshness of seven
  days stands against old snapshots there.

## 7. Plan

Done: `JobScheduler` with `JobLifecycle`, `UtilitySupervisor` and `JobExecution`, `HostReferences` with
`HostOperations`, `CreationSessions`, `ComfyUi`, `TrustedTimestamp`, `Workbench`, `ProofWorkspace`
with `ProofArchive`, `LocalSigner`, `Verification`, `OfficialIdentity`; the proofs of section 4.

Models that remain: `export_workspace_output` and the recents' validation, which are small;
`ComfyUi` composed with `CreationSessions`, where the second sees the first as one await that ends.
