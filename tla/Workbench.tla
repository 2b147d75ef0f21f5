----------------------------- MODULE Workbench -----------------------------
(***************************************************************************)
(* The page of the workbench (renderer/App.tsx) and the part of Main that   *)
(* decides which workspace its creation sessions belong to                  *)
(* (creation-scope.ts, getCreationSessions in ipc.ts).                      *)
(*                                                                         *)
(* A click starts an operation, which remembers what the page showed, sends *)
(* its request and changes the page when the answer arrives, while the user *)
(* goes on working.  Main handles requests in any order, and so do their    *)
(* answers arrive.  What is on the page is modelled by where it comes from: *)
(* a package, a report or an image is one the user picked, or belongs to a  *)
(* session or a workspace.                                                  *)
(***************************************************************************)
EXTENDS Naturals

CONSTANTS
    Workspaces,
    Sessions,
    None,
    Picked,      \* chosen in a file dialog or in the list of recents
    Slots,       \* operations under way at a time
    MaxEnters,   \* bound on workspaces entered
    MaxClicks    \* bound on operations started

ASSUME WorkbenchAssumption ==
    /\ MaxEnters \in Nat /\ MaxClicks \in Nat
    /\ Workspaces \intersect Sessions = {}
    /\ {None, Picked} \intersect (Workspaces \union Sessions) = {}

VARIABLES
    view,        \* what the page shows
    generation,  \* workspaceScopeGeneration
    entered,     \* the workspace of the latest enterWorkspaceScope
    operation,   \* slot -> the operation under way, or Idle
    clicks,
    scope,       \* Main: the active scope of the window
    home,        \* Main: session -> its workspace, None before it is created
    events,      \* creation events on their way to the page
    crossed,     \* Main took up an overtaken opening's list request last
    late         \* since the last opening, an answer or event found another
                 \* context than it belongs to

vars == <<view, generation, entered, operation, clicks, scope, home, events,
          crossed, late>>

Origins == {None, Picked} \union Workspaces \union Sessions

EmptyView ==
    [workspace |-> None,   \* the workspace summary's reference
     document |-> None,    \* the workspace whose document the summary shows
     ready |-> FALSE,      \* workspaceScopeReady
     listed |-> {},        \* creationSessions
     session |-> None,     \* creationSession
     prefill |-> None,     \* imagePrefillSessionId
     image |-> None,       \* imageReference
     match |-> None,       \* imageMatch
     package |-> None,     \* packageReference
     report |-> None]      \* report

Idle == [kind |-> "none"]

Init ==
    /\ view = EmptyView
    /\ generation = 0 /\ entered = None
    /\ operation = [o \in Slots |-> Idle] /\ clicks = 0
    /\ scope = None
    /\ home \in [Sessions -> Workspaces \union {None}]   \* the history so far
    /\ events = {}
    /\ crossed = FALSE /\ late = FALSE

mainVars == <<scope, home>>

-----------------------------------------------------------------------------
(* What the page clears.                                                    *)

\* Mutant of ImageCleared: the prefilled image stays when the context changes.
ImageKept(v) == [v EXCEPT !.match = None]

ImageCleared(v) ==
    [v EXCEPT !.image = None, !.match = None, !.prefill = None]

PackageCleared(v) == [v EXCEPT !.package = None, !.report = None]

\* clearCreationDependentState.
CreationCleared(v) ==
    PackageCleared(ImageCleared([v EXCEPT !.session = None]))

\* enterWorkspaceScope, before it asks for the sessions.
Entered(v, w) ==
    [CreationCleared(v) EXCEPT !.ready = FALSE, !.listed = {},
                               !.workspace = w, !.document = w]

-----------------------------------------------------------------------------
(* Operations.                                                              *)

Under(kind) == {o \in Slots : operation[o].kind = kind}

\* What an operation remembers: the generation and the session tell whether the
\* page moved on while it waited.
Clicked(o, kind, target, v) ==
    /\ operation[o] = Idle /\ clicks < MaxClicks
    /\ clicks' = clicks + 1
    /\ view' = v
    /\ operation' = [operation EXCEPT ![o] =
           [kind |-> kind, at |-> "sent", target |-> target,
            workspace |-> v.workspace, session |-> v.session,
            package |-> v.package, sessions |-> {},
            generation |-> generation]]
    /\ UNCHANGED <<generation, entered, mainVars, events, crossed, late>>

\* openWorkspace, of a workspace picked, recent or created a moment ago.
Open(o) == \E w \in Workspaces : Clicked(o, "load", w, view)

\* addAsset, createC2paObservation and sealPackage.
WorkspaceOperation(o) ==
    /\ view.workspace # None
    /\ \E kind \in {"addAsset", "observe", "seal"} :
          Clicked(o, kind, view.workspace, view)

\* createSession clears first.
Create(o) ==
    /\ view.ready /\ view.workspace # None
    /\ \E s \in Sessions :
          /\ home[s] = None
          /\ \A p \in Under("create") : operation[p].target # s
          /\ Clicked(o, "create", s, CreationCleared(view))

\* freezeSession or cancelSession, runSession, completeCreationProof and
\* exportCreationOutput, whose file dialog is part of its waiting.
SessionOperation(o) ==
    /\ view.session # None
    /\ \E kind \in {"freeze", "run", "complete", "export"} :
          Clicked(o, kind, view.session, view)

\* verifyPackage and requestTrustedTimestamp.
PackageOperation(o) ==
    /\ view.package # None
    /\ \E kind \in {"verify", "timestamp"} :
          Clicked(o, kind, view.package, view)

\* verifyImageAgainstPackage.
Match(o) ==
    /\ view.image # None /\ view.package # None
    /\ Clicked(o, "match", view.package, view)

Shows(v) ==
    /\ view' = v
    /\ UNCHANGED <<generation, entered, operation, clicks, mainVars, events,
                   crossed, late>>

\* restoreCreationSession, of a listed session that may have been completed.
Restore ==
    \E s \in view.listed :
        \E completed \in {None, s} :
            Shows([CreationCleared(view) EXCEPT !.session = s,
                       !.package = completed, !.report = completed])

\* chooseImageForVerification.
PickImage ==
    Shows([view EXCEPT !.image = Picked, !.match = None, !.prefill = None])

\* choosePackageForVerification.
PickPackage ==
    Shows([PackageCleared(view) EXCEPT !.package = Picked, !.match = None])

\* A recent package replaces the reference and nothing else.
RecentPackage == Shows([view EXCEPT !.package = Picked])

-----------------------------------------------------------------------------
(* Main.                                                                    *)

Scoped == {"freeze", "run", "complete", "export"}

\* sessionsForWorkspace: all a workspace ever had.
SessionsOf(w) == {s \in Sessions : home[s] = w}

\* assertActive and issue: a session gets a reference, the same again while it is
\* good, only when its workspace is the active scope.
MayIssue(w) == scope = w

Refused(o) ==
    /\ operation' = [operation EXCEPT ![o].at = "refused"]
    /\ UNCHANGED <<scope, home, events, crossed>>

\* Mutant of Activated: the first scope of a window stays.
ActivatedOnce(w) == IF scope = None THEN w ELSE scope

Activated(w) == w

\* A request is taken up, or refused for a reason of its own: bad input, or a
\* reference that expired or was issued before the scope was last left.  The
\* sessions of a workspace make it the active scope; a session's operation needs
\* its scope.
Handled(o) ==
    /\ operation[o].kind # "none" /\ operation[o].at = "sent"
    /\ LET op == operation[o] IN
       \/ /\ op.kind = "list"
          /\ scope' = Activated(op.target)
          /\ crossed' = (op.generation # generation)
          /\ operation' = [operation EXCEPT ![o].at = "answered",
                 ![o].sessions = SessionsOf(op.target)]
          /\ UNCHANGED <<home, events>>
       \/ /\ op.kind \in Scoped => scope = home[op.target]
          /\ op.kind = "create" => MayIssue(op.workspace)
          /\ op.kind # "list"
          /\ operation' = [operation EXCEPT ![o].at = "working"]
          /\ UNCHANGED <<scope, home, events, crossed>>
       \/ Refused(o)
    /\ UNCHANGED <<view, generation, entered, clicks, late>>

\* The work is done.  A session is published, to the caller and as an event, only
\* while its scope is active; publishing fails the request otherwise.
Worked(o) ==
    /\ operation[o].kind # "none" /\ operation[o].at = "working"
    /\ LET op == operation[o]
           homes == IF op.kind = "create"
                    THEN [home EXCEPT ![op.target] = op.workspace] ELSE home
       IN  \/ /\ op.kind \in {"create", "freeze", "run", "complete"}
              /\ home' = homes
              /\ IF MayIssue(homes[op.target])
                 THEN /\ operation' = [operation EXCEPT ![o].at = "answered"]
                      /\ events' = events \union {op.target}
                 ELSE /\ operation' = [operation EXCEPT ![o].at = "refused"]
                      /\ UNCHANGED events
              /\ UNCHANGED <<scope, crossed>>
           \/ /\ op.kind \notin {"create", "freeze", "run", "complete"}
              /\ operation' = [operation EXCEPT ![o].at = "answered"]
              /\ UNCHANGED <<scope, home, events, crossed>>
           \/ Refused(o)
    /\ UNCHANGED <<view, generation, entered, clicks, late>>

-----------------------------------------------------------------------------
(* Answers.                                                                 *)

\* The page changes as the answer tells, whatever it shows by now: answers about
\* a workspace,
WorkspaceAnswer(op, v) ==
    CASE op.kind = "addAsset" ->
             IF v.workspace = None THEN v ELSE [v EXCEPT !.document = op.target]
      [] op.kind \in {"observe", "refresh"} ->
             [v EXCEPT !.workspace = op.target, !.document = op.target]

\* about a session,
SessionAnswer(op, v) ==
    CASE op.kind \in {"create", "freeze", "run"} ->
             [v EXCEPT !.session = op.target]
      [] op.kind = "complete" ->
             [v EXCEPT !.session = op.target, !.package = op.target,
                       !.report = op.target]

\* and about a package or an image.
PackageAnswer(op, v) ==
    CASE op.kind = "seal" -> [v EXCEPT !.package = op.target]
      [] op.kind = "export" ->
             [v EXCEPT !.image = op.target, !.match = None,
                       !.prefill = op.target]
      [] op.kind = "verify" -> [v EXCEPT !.report = op.package]
      [] op.kind = "timestamp" ->
             [v EXCEPT !.package = op.package, !.report = op.package]
      [] op.kind = "match" ->
             [v EXCEPT !.match = op.package, !.report = op.package,
                       !.image = None, !.prefill = None]

Applied(op, v) ==
    CASE op.kind \in {"addAsset", "observe", "refresh"} -> WorkspaceAnswer(op, v)
      [] op.kind \in {"create", "freeze", "run", "complete"} ->
             SessionAnswer(op, v)
      [] OTHER -> PackageAnswer(op, v)

\* Did the page move on while the operation waited?
MovedOn(op) ==
    op.generation # generation \/ op.session # view.session

\* An answer that ends its operation; a refusal changes nothing, except that a
\* failed timestamp request verifies the package again.
Answer(o) ==
    /\ operation[o].kind \notin {"none", "load", "list", "run"}
    /\ operation[o].at \in {"answered", "refused"}
    /\ LET op == operation[o]
           ok == op.at = "answered"
       IN  /\ view' = IF ok THEN Applied(op, view)
                      ELSE IF op.kind = "timestamp"
                           THEN [view EXCEPT !.report = op.package] ELSE view
           /\ late' = (late \/ (view' # view /\ MovedOn(op)))
    /\ operation' = [operation EXCEPT ![o] = Idle]
    /\ UNCHANGED <<generation, entered, clicks, mainVars, events, crossed>>

\* runSession shows the session and loads its workspace again.
RunAnswer(o) ==
    /\ operation[o].kind = "run" /\ operation[o].at \in {"answered", "refused"}
    /\ LET op == operation[o] IN
       IF op.at = "refused"
       THEN /\ operation' = [operation EXCEPT ![o] = Idle]
            /\ UNCHANGED <<view, late>>
       ELSE /\ view' = Applied(op, view)
            /\ late' = (late \/ MovedOn(op))
            /\ operation' = [operation EXCEPT
                   ![o].kind = "refresh", ![o].at = "sent",
                   ![o].target = home[op.target],
                   ![o].session = op.target, ![o].generation = generation]
    /\ UNCHANGED <<generation, entered, clicks, mainVars, events, crossed>>

\* The workspace is loaded: enterWorkspaceScope as far as its await.
Loaded(o) ==
    /\ operation[o].kind = "load" /\ operation[o].at \in {"answered", "refused"}
    /\ IF operation[o].at = "refused"
       THEN /\ operation' = [operation EXCEPT ![o] = Idle]
            /\ UNCHANGED <<view, generation, entered, late>>
       ELSE /\ generation < MaxEnters /\ generation' = generation + 1
            /\ entered' = operation[o].target
            /\ view' = Entered(view, operation[o].target)
            /\ late' = FALSE
            /\ operation' = [operation EXCEPT
                   ![o].kind = "list", ![o].at = "sent",
                   ![o].generation = generation + 1]
    /\ UNCHANGED <<clicks, mainVars, events, crossed>>

\* Mutant of Latest: the answer of any enter is used.
LatestOrNot(op) == TRUE

\* Only the latest enter may show sessions.
Latest(op) == op.generation = generation

\* The sessions of the workspace arrive.
Listed(o) ==
    /\ operation[o].kind = "list" /\ operation[o].at \in {"answered", "refused"}
    /\ LET op == operation[o] IN
       view' = IF op.at = "answered" /\ Latest(op)
               THEN [view EXCEPT !.ready = TRUE, !.listed = op.sessions]
               ELSE view
    /\ operation' = [operation EXCEPT ![o] = Idle]
    /\ UNCHANGED <<generation, entered, clicks, mainVars, events, crossed, late>>

\* A creation event puts its session into the list, whatever is listed.
EventArrives ==
    \E s \in events :
        /\ events' = events \ {s}
        /\ view' = [view EXCEPT !.listed = @ \union {s}]
        /\ late' = (late \/ home[s] # view.workspace)
        /\ UNCHANGED <<generation, entered, operation, clicks, mainVars, crossed>>

-----------------------------------------------------------------------------
Next ==
    \/ \E o \in Slots :
          \/ Open(o) \/ WorkspaceOperation(o) \/ Create(o)
          \/ SessionOperation(o) \/ PackageOperation(o) \/ Match(o)
          \/ Handled(o) \/ Worked(o)
          \/ Answer(o) \/ RunAnswer(o) \/ Loaded(o) \/ Listed(o)
    \/ Restore \/ PickImage \/ PickPackage \/ RecentPackage
    \/ EventArrives

Spec == Init /\ [][Next]_vars

-----------------------------------------------------------------------------
\* Type invariant.
TypeOK ==
    /\ view \in [workspace : Workspaces \union {None},
                 document : Workspaces \union {None}, ready : BOOLEAN,
                 listed : SUBSET Sessions, session : Sessions \union {None},
                 prefill : Sessions \union {None}, image : Origins,
                 match : Origins, package : Origins, report : Origins]
    /\ generation \in 0..MaxEnters
    /\ scope \in Workspaces \union {None}
    /\ home \in [Sessions -> Workspaces \union {None}]

\* Whatever order the answers of several openings come in, the page offers to
\* create and restore sessions only when those of the workspace entered last have
\* arrived, and none of what an earlier workspace left behind stays among them.
LastEnterWins ==
    view.ready /\ ~late => \A s \in view.listed : home[s] = entered

\* The page offers to create sessions only in the workspace Main has made the
\* active scope.  One order of requests parts them: Main takes up the list request
\* of an opening that was overtaken after that of the latest one.  The next
\* opening brings them together again.
ScopeAgrees == view.ready /\ ~crossed => scope = entered

\* From an opening on, as long as every answer finds the page as its operation
\* left it, all that is shown belongs together: the session to the workspace, the
\* list to the workspace, and image, package, report and match to the session or
\* workspace, unless the user picked them.  What late answers mixed up before does
\* not outlive the next opening, nor what the operations under way remember of it.
Own(origin) ==
    /\ origin \in Sessions => origin = view.session
    /\ origin \in Workspaces => origin = view.workspace

ScopedView ==
    ~late =>
        /\ view.document = view.workspace
        /\ \A s \in view.listed \union ({view.session} \ {None}) :
               home[s] = view.workspace
        /\ view.prefill # None => view.prefill = view.session
        /\ Own(view.image) /\ Own(view.match)
        /\ Own(view.package) /\ Own(view.report)
=============================================================================
