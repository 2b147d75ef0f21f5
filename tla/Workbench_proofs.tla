-------------------------- MODULE Workbench_proofs --------------------------
(***************************************************************************)
(* Proofs about the page, for any workspaces, sessions and operations at a  *)
(* time: the sessions it offers are those of the workspace entered last,    *)
(* and what it shows together belongs together.                             *)
(***************************************************************************)
EXTENDS Workbench, TLAPS

ViewType ==
    [workspace : Workspaces \union {None}, document : Workspaces \union {None},
     ready : BOOLEAN, listed : SUBSET Sessions, session : Sessions \union {None},
     prefill : Sessions \union {None}, image : Origins, match : Origins,
     package : Origins, report : Origins]

OfWorkspace == {"addAsset", "observe", "seal"}
OfSession == {"freeze", "run", "complete", "export"}
OfPackage == {"verify", "timestamp", "match"}
Kinds == {"load", "list", "refresh", "create"}
             \union OfWorkspace \union OfSession \union OfPackage

OperationType ==
    [kind : Kinds, at : {"sent", "working", "answered", "refused"},
     target : Origins, workspace : Workspaces \union {None}, session : Sessions \union {None},
     package : Origins, sessions : SUBSET Sessions, generation : 0 .. MaxEnters]

PageTypes ==
    /\ view \in ViewType
    /\ generation \in 0 .. MaxEnters
    /\ entered \in Workspaces \union {None}
    /\ scope \in Workspaces \union {None}
    /\ home \in [Sessions -> Workspaces \union {None}]
    /\ operation \in [Slots -> OperationType \union {Idle}]
    /\ crossed \in BOOLEAN /\ late \in BOOLEAN

Pending(o) == operation[o] # Idle
Lists(o) == Pending(o) /\ operation[o].kind = "list"
Creates(o) == /\ Pending(o) /\ operation[o].kind = "create"
              /\ operation[o].at \in {"sent", "working"}

\* What an operation works on, whatever the page shows by now.
TargetOK(op) ==
    /\ op.generation <= generation
    /\ op.kind \in {"load", "list"} => op.target \in Workspaces
    /\ op.kind \in OfWorkspace => op.target = op.workspace
    /\ op.kind \in OfSession => op.target = op.session
    /\ op.kind \in OfSession \union {"create"} => op.target \in Sessions
    /\ op.session # None => home[op.session] # None
    /\ op.kind = "refresh" => op.session # None /\ home[op.session] = op.target

\* A session is created in the workspace that was shown at the click, and a list is
\* of the workspace that was entered.
AnswerOK(op) ==
    /\ op.kind = "create" =>
           /\ op.workspace \in Workspaces /\ op.session = None
           /\ op.at \in {"sent", "working"} => home[op.target] = None
           /\ op.at = "answered" => home[op.target] = op.workspace
    /\ op.kind = "list" =>
           /\ op.at # "working"
           /\ op.generation = generation => op.target = entered
           /\ op.at = "answered" => \A s \in op.sessions : home[s] = op.target

\* What an operation remembers belongs together, and is of the workspace entered
\* last, unless another was entered meanwhile.
RemembersOK(op) ==
    op.generation = generation =>
        IF op.kind = "refresh" THEN op.target = entered
        ELSE op.kind # "list" =>
               /\ op.workspace = entered
               /\ op.session # None => home[op.session] = op.workspace
               /\ op.package \in Sessions => op.package = op.session
               /\ op.package \in Workspaces => op.package = op.workspace

\* What ScopedView says of a page.
Belongs(v, origin) ==
    /\ origin \in Sessions => origin = v.session
    /\ origin \in Workspaces => origin = v.workspace

ShownOK(v) ==
    /\ v.document = v.workspace
    /\ \A s \in v.listed \union ({v.session} \ {None}) : home[s] = v.workspace
    /\ v.prefill # None => v.prefill = v.session
    /\ Belongs(v, v.image) /\ Belongs(v, v.match)
    /\ Belongs(v, v.package) /\ Belongs(v, v.report)

\* Sessions the page can name exist.
ExistIn(v) == \A s \in v.listed \union ({v.session} \ {None}) : home[s] # None

\* Unless Main took up the list request of an overtaken opening last, the answer
\* the page shows or waits for is of the active scope.
ScopeOK ==
    /\ view.ready => scope = entered
    /\ \A o \in Slots :
          /\ Lists(o)
          /\ operation[o].at = "answered" /\ operation[o].generation = generation
          => scope = operation[o].target

OperationsOK ==
    /\ \A o \in Slots : Pending(o) => TargetOK(operation[o]) /\ AnswerOK(operation[o])
    /\ \A o, p \in Slots :
          Creates(o) /\ Creates(p) /\ operation[o].target = operation[p].target => o = p

PageInv ==
    /\ PageTypes
    /\ OperationsOK
    /\ ExistIn(view)
    /\ \A s \in events : s \in Sessions /\ home[s] # None
    /\ ~crossed => ScopeOK
    /\ ~late => /\ view.workspace = entered /\ ShownOK(view)
                /\ \A o \in Slots : Pending(o) => RemembersOK(operation[o])

\* What the page remembers is of one of its kinds, and there are finitely many.
LEMMA PendingTyped ==
    ASSUME PageTypes, NEW o \in Slots, operation[o].kind # "none"
    PROVE  Pending(o) /\ operation[o] \in OperationType
  <1>1. operation[o] # Idle
    BY DEF Idle
  <1> QED
    BY <1>1 DEF PageTypes, Pending

\* An operation under way is of its type.
LEMMA TypedPending ==
    ASSUME PageTypes, NEW o \in Slots, Pending(o)
    PROVE  operation[o] \in OperationType
  BY DEF PageTypes, Pending

\* One slot changes.
LEMMA SlotChanges ==
    ASSUME PageTypes, NEW o \in Slots, NEW r \in OperationType \union {Idle},
           operation' = [operation EXCEPT ![o] = r]
    PROVE  /\ operation' \in [Slots -> OperationType \union {Idle}]
           /\ operation'[o] = r /\ \A p \in Slots \ {o} : operation'[p] = operation[p]
  BY DEF PageTypes

\* Only what the page shows changes, or an operation ends.
LEMMA PageStep ==
    ASSUME PageInv,
           UNCHANGED <<generation, entered, scope, home, crossed>>,
           operation' \in [Slots -> OperationType \union {Idle}],
           \A p \in Slots : operation'[p] \in {operation[p], Idle},
           events' \subseteq events, late' \in BOOLEAN, late => late',
           view' \in ViewType,
           ~crossed /\ view'.ready => scope = entered,
           ExistIn(view'),
           ~late' => view'.workspace = entered /\ ShownOK(view')
    PROVE  PageInv'
  <1>1. \A p \in Slots : /\ Pending(p)' => Pending(p) /\ operation'[p] = operation[p]
                         /\ Lists(p)' => Lists(p)
                         /\ Creates(p)' => Creates(p)
    BY DEF Pending, Lists, Creates
  <1>2. PageTypes'
    BY DEF PageInv, PageTypes
  <1>3. \A p \in Slots : Pending(p)' => TargetOK(operation[p])' /\ AnswerOK(operation[p])'
    BY <1>1 DEF PageInv, OperationsOK, TargetOK, AnswerOK
  <1>4. OperationsOK'
    <2>1. ASSUME NEW p \in Slots, NEW q \in Slots, Creates(p)', Creates(q)',
                 operation'[p].target = operation'[q].target
          PROVE  p = q
      <3>1. /\ Creates(p) /\ Creates(q)
            /\ operation'[p] = operation[p] /\ operation'[q] = operation[q]
        BY <1>1, <2>1 DEF Creates
      <3> QED
        BY <2>1, <3>1 DEF PageInv, OperationsOK
    <2> QED
      BY <1>3, <2>1 DEF OperationsOK
  <1>5. ~crossed' => ScopeOK'
    <2> SUFFICES ASSUME ~crossed PROVE ScopeOK'
      OBVIOUS
    <2>1. view'.ready => scope' = entered'
      OBVIOUS
    <2>2. ASSUME NEW p \in Slots, Lists(p)', operation'[p].at = "answered",
                 operation'[p].generation = generation'
          PROVE  scope' = operation'[p].target
      <3>1. Lists(p) /\ operation'[p] = operation[p]
        BY <1>1, <2>2 DEF Lists
      <3> QED
        BY <2>2, <3>1 DEF PageInv, ScopeOK
    <2> QED
      BY <2>1, <2>2 DEF ScopeOK
  <1>6. ExistIn(view)'
    BY DEF ExistIn
  <1>7. ASSUME ~late' PROVE ShownOK(view)'
    BY <1>7 DEF ShownOK, Belongs
  <1>8. ASSUME ~late', NEW p \in Slots, Pending(p)' PROVE RemembersOK(operation[p])'
    BY <1>1, <1>8 DEF PageInv, RemembersOK
  <1> QED
    BY <1>2, <1>4, <1>5, <1>6, <1>7, <1>8 DEF PageInv

\* What a context's end leaves on the page.
LEMMA ClearedMakes ==
    ASSUME NEW v \in ViewType
    PROVE  /\ CreationCleared(v) \in ViewType
           /\ CreationCleared(v).workspace = v.workspace
           /\ CreationCleared(v).document = v.document
           /\ CreationCleared(v).ready = v.ready /\ CreationCleared(v).listed = v.listed
           /\ CreationCleared(v).session = None /\ CreationCleared(v).prefill = None
           /\ CreationCleared(v).image = None /\ CreationCleared(v).match = None
           /\ CreationCleared(v).package = None /\ CreationCleared(v).report = None
  <1>1. PICK a : a = [v EXCEPT !.session = None]
    OBVIOUS
  <1>2. /\ a \in ViewType /\ a.workspace = v.workspace /\ a.document = v.document
        /\ a.ready = v.ready /\ a.listed = v.listed /\ a.session = None
    BY <1>1 DEF ViewType
  <1>3. PICK b : b = [a EXCEPT !.image = None, !.match = None, !.prefill = None]
    OBVIOUS
  <1>4. None \in Origins
    BY DEF Origins
  <1>5. /\ b \in ViewType /\ b.workspace = v.workspace /\ b.document = v.document
        /\ b.ready = v.ready /\ b.listed = v.listed /\ b.session = None /\ b.prefill = None
        /\ b.image = None /\ b.match = None
    <2>1. None \in Sessions \union {None}
      OBVIOUS
    <2>2. a \in ViewType
      BY <1>2
    <2>3. b \in ViewType
      BY ONLY <1>3, <1>4, <2>1, <2>2 DEF ViewType
    <2>4. /\ b.workspace = a.workspace /\ b.document = a.document /\ b.ready = a.ready
          /\ b.listed = a.listed /\ b.session = a.session /\ b.prefill = None
          /\ b.image = None /\ b.match = None
      BY ONLY <1>3, <2>2 DEF ViewType
    <2> QED
      BY <1>2, <2>3, <2>4
  <1>6. PICK c : c = [b EXCEPT !.package = None, !.report = None]
    OBVIOUS
  <1>7. /\ c \in ViewType /\ c.workspace = v.workspace /\ c.document = v.document
        /\ c.ready = v.ready /\ c.listed = v.listed /\ c.session = None /\ c.prefill = None
        /\ c.image = None /\ c.match = None /\ c.package = None /\ c.report = None
    BY <1>4, <1>5, <1>6 DEF ViewType
  <1>8. CreationCleared(v) = c
    BY <1>1, <1>3, <1>6 DEF CreationCleared, PackageCleared, ImageCleared
  <1> QED
    BY <1>7, <1>8

\* Clearing takes nothing from what belongs together.
LEMMA ClearedShown ==
    ASSUME NEW v \in ViewType
    PROVE  /\ ExistIn(v) => ExistIn(CreationCleared(v))
           /\ ShownOK(v) => ShownOK(CreationCleared(v))
  <1>1. None \notin Workspaces /\ None \notin Sessions
    BY WorkbenchAssumption
  <1>2. PICK c : c = CreationCleared(v)
    OBVIOUS
  <1>3. /\ c.workspace = v.workspace /\ c.document = v.document
        /\ c.listed = v.listed /\ c.session = None /\ c.prefill = None
        /\ c.image = None /\ c.match = None /\ c.package = None /\ c.report = None
    BY <1>2, ClearedMakes
  <1>4. ExistIn(v) => ExistIn(c)
    BY <1>3 DEF ExistIn
  <1>5. ShownOK(v) => ShownOK(c)
    BY <1>1, <1>3 DEF ShownOK, Belongs
  <1> QED
    BY <1>2, <1>4, <1>5

\* The user changes what is shown.
LEMMA ShowsKeeps ==
    ASSUME PageInv, NEW v \in ViewType, Shows(v),
           v.ready = view.ready, v.listed = view.listed, ExistIn(v),
           ~late => v.workspace = entered /\ ShownOK(v)
    PROVE  PageInv'
  <1>1. /\ view' = v
        /\ UNCHANGED <<generation, entered, operation, scope, home, events, crossed, late>>
    BY DEF Shows, mainVars
  <1>2. /\ operation' \in [Slots -> OperationType \union {Idle}]
        /\ late' \in BOOLEAN
        /\ \A p \in Slots : operation'[p] \in {operation[p], Idle}
    BY <1>1 DEF PageInv, PageTypes
  <1>3. ~crossed /\ view'.ready => scope = entered
    BY <1>1 DEF PageInv, ScopeOK
  <1>4. ExistIn(view') /\ (~late' => view'.workspace = entered /\ ShownOK(view'))
    BY <1>1
  <1> QED
    BY <1>1, <1>2, <1>3, <1>4, PageStep

\* A listed session is restored.
LEMMA RestoreKeeps == ASSUME PageInv, Restore PROVE PageInv'
  <1>0. PICK s \in view.listed : \E completed \in {None, s} :
           Shows([CreationCleared(view) EXCEPT !.session = s, !.package = completed,
                                               !.report = completed])
    BY DEF Restore
  <1>1. PICK completed \in {None, s} :
           Shows([CreationCleared(view) EXCEPT !.session = s, !.package = completed,
                                               !.report = completed])
    BY <1>0
  <1>2. PICK c : c = CreationCleared(view)
    OBVIOUS
  <1>3. /\ c \in ViewType /\ c.workspace = view.workspace /\ c.document = view.document
        /\ c.ready = view.ready /\ c.listed = view.listed /\ c.prefill = None
        /\ c.image = None /\ c.match = None
    BY <1>2, ClearedMakes DEF PageInv, PageTypes
  <1>4. PICK v : v = [c EXCEPT !.session = s, !.package = completed, !.report = completed]
    OBVIOUS
  <1>5. s \in Sessions /\ completed \in Origins
    BY DEF PageInv, PageTypes, ViewType, Origins
  <1>6. v \in ViewType
    BY ONLY <1>3, <1>4, <1>5 DEF ViewType
  <1>7. /\ v.workspace = c.workspace /\ v.document = c.document /\ v.ready = c.ready
        /\ v.listed = c.listed /\ v.prefill = c.prefill /\ v.image = c.image
        /\ v.match = c.match
        /\ v.session = s /\ v.package = completed /\ v.report = completed
    BY ONLY <1>3, <1>4 DEF ViewType
  <1>8. ExistIn(v)
    BY <1>3, <1>7 DEF PageInv, ExistIn
  <1>9. ASSUME ~late PROVE v.workspace = entered /\ ShownOK(v)
    <2>1. None \notin Sessions /\ None \notin Workspaces /\ s \notin Workspaces
      BY WorkbenchAssumption, <1>5
    <2>2. /\ view.workspace = entered /\ view.document = view.workspace
          /\ \A x \in view.listed : home[x] = view.workspace
      BY <1>9 DEF PageInv, ShownOK
    <2>3. \A origin \in {None, s} : Belongs(v, origin)
      BY <1>7, <2>1 DEF Belongs
    <2> QED
      BY <1>3, <1>7, <2>2, <2>3 DEF ShownOK
  <1>10. Shows(v)
    BY <1>1, <1>2, <1>4
  <1> QED
    BY <1>3, <1>6, <1>7, <1>8, <1>9, <1>10, ShowsKeeps

\* The user picks an image or a package.
LEMMA PicksKeep ==
    ASSUME PageInv, PickImage \/ PickPackage \/ RecentPackage
    PROVE  PageInv'
  <1>1. PICK v : Shows(v) /\ \/ v = [view EXCEPT !.image = Picked, !.match = None, !.prefill = None]
                             \/ v = [PackageCleared(view) EXCEPT !.package = Picked, !.match = None]
                             \/ v = [view EXCEPT !.package = Picked]
    BY DEF PickImage, PickPackage, RecentPackage
  <1>2. /\ view \in ViewType /\ None \in Origins /\ Picked \in Origins
        /\ None \in Sessions \union {None}
    BY DEF PageInv, PageTypes, Origins
  <1>3. PICK c : c = [view EXCEPT !.package = None, !.report = None]
    OBVIOUS
  <1>4. /\ c \in ViewType
        /\ c.workspace = view.workspace /\ c.document = view.document
        /\ c.ready = view.ready
        /\ c.listed = view.listed /\ c.session = view.session /\ c.prefill = view.prefill
        /\ c.image = view.image /\ c.match = view.match /\ c.report = None
    BY ONLY <1>2, <1>3 DEF ViewType
  <1>5. \/ v = [view EXCEPT !.image = Picked, !.match = None, !.prefill = None]
        \/ v = [c EXCEPT !.package = Picked, !.match = None]
        \/ v = [view EXCEPT !.package = Picked]
    BY <1>1, <1>3 DEF PackageCleared
  <1>6. v \in ViewType
    BY ONLY ZenonT(60), <1>2, <1>4, <1>5 DEF ViewType
  <1>7. /\ v.workspace = view.workspace /\ v.document = view.document
        /\ v.ready = view.ready
        /\ v.listed = view.listed /\ v.session = view.session
        /\ v.prefill \in {view.prefill, None} /\ v.image \in {view.image, Picked}
        /\ v.match \in {view.match, None} /\ v.package \in {view.package, Picked}
        /\ v.report \in {view.report, None}
    BY ONLY <1>2, <1>4, <1>5 DEF ViewType
  <1>8. ExistIn(v)
    BY <1>7 DEF PageInv, ExistIn
  <1>9. ASSUME ~late PROVE v.workspace = entered /\ ShownOK(v)
    <2>1. view.workspace = entered /\ ShownOK(view)
      BY <1>9 DEF PageInv
    <2>2. /\ None \notin Sessions /\ None \notin Workspaces
          /\ Picked \notin Sessions /\ Picked \notin Workspaces
      BY WorkbenchAssumption
    <2>3. \A origin : Belongs(view, origin) => Belongs(v, origin)
      BY <1>7 DEF Belongs
    <2>4. Belongs(v, None) /\ Belongs(v, Picked)
      BY <2>2 DEF Belongs
    <2>5. Belongs(v, v.image) /\ Belongs(v, v.match) /\ Belongs(v, v.package) /\ Belongs(v, v.report)
      BY <1>7, <2>1, <2>3, <2>4 DEF ShownOK
    <2> QED
      BY <1>7, <2>1, <2>5 DEF ShownOK
  <1> QED
    BY <1>1, <1>6, <1>7, <1>8, <1>9, ShowsKeeps

\* An event of a session of another workspace is late.
LEMMA EventKeeps == ASSUME PageInv, EventArrives PROVE PageInv'
  <1>1. PICK s \in events :
           /\ events' = events \ {s}
           /\ view' = [view EXCEPT !.listed = @ \union {s}]
           /\ late' = (late \/ home[s] # view.workspace)
           /\ UNCHANGED <<generation, entered, operation, scope, home, crossed>>
    BY DEF EventArrives, mainVars
  <1>2. view \in ViewType /\ s \in Sessions /\ home[s] # None
    BY DEF PageInv, PageTypes
  <1>3. PICK v : v = [view EXCEPT !.listed = @ \union {s}]
    OBVIOUS
  <1>4. /\ v \in ViewType /\ view' = v
        /\ v.workspace = view.workspace /\ v.document = view.document
        /\ v.ready = view.ready
        /\ v.listed = view.listed \union {s} /\ v.session = view.session
        /\ v.prefill = view.prefill /\ v.image = view.image /\ v.match = view.match
        /\ v.package = view.package /\ v.report = view.report
    BY <1>1, <1>2, <1>3 DEF ViewType
  <1>5. ExistIn(v)
    BY <1>2, <1>4 DEF PageInv, ExistIn
  <1>6. ASSUME ~late' PROVE v.workspace = entered /\ ShownOK(v)
    <2>1. ~late /\ home[s] = view.workspace
      BY <1>1, <1>6
    <2> QED
      BY <1>4, <2>1 DEF PageInv, ShownOK, Belongs
  <1>7. /\ operation' \in [Slots -> OperationType \union {Idle}]
        /\ late' \in BOOLEAN
        /\ \A p \in Slots : operation'[p] \in {operation[p], Idle}
    BY <1>1 DEF PageInv, PageTypes
  <1>8. ~crossed /\ view'.ready => scope = entered
    BY <1>4 DEF PageInv, ScopeOK
  <1>9. /\ UNCHANGED <<generation, entered, scope, home, crossed>>
        /\ events' \subseteq events /\ (late => late')
    BY <1>1
  <1> QED
    BY <1>4, <1>5, <1>6, <1>7, <1>8, <1>9, PageStep

\* An operation that is over.
LEMMA SlotEnds ==
    ASSUME PageInv, NEW o \in Slots, operation' = [operation EXCEPT ![o] = Idle]
    PROVE  /\ operation' \in [Slots -> OperationType \union {Idle}]
           /\ \A p \in Slots : operation'[p] \in {operation[p], Idle}
  BY SlotChanges DEF PageInv

\* The sessions arrive that the page waits for: of the workspace entered last, and
\* of the active scope unless lists overlapped.
LEMMA ListedKeeps ==
    ASSUME PageInv, NEW o \in Slots, Listed(o) PROVE PageInv'
  <1>1. PICK op : op = operation[o]
    OBVIOUS
  <1>2. /\ op.kind = "list" /\ op.at \in {"answered", "refused"}
        /\ view' = IF op.at = "answered" /\ op.generation = generation
                   THEN [view EXCEPT !.ready = TRUE, !.listed = op.sessions] ELSE view
        /\ operation' = [operation EXCEPT ![o] = Idle]
        /\ UNCHANGED <<generation, entered, scope, home, events, crossed, late>>
    BY <1>1 DEF Listed, Latest, mainVars
  <1>3. Pending(o) /\ op \in OperationType /\ Lists(o)
    <2>1. operation[o].kind # "none"
      BY <1>1, <1>2
    <2> QED
      BY <1>1, <1>2, <2>1, PendingTyped DEF PageInv, Lists
  <1>4. TargetOK(op) /\ AnswerOK(op)
    BY <1>1, <1>3 DEF PageInv, OperationsOK
  <1>5. /\ operation' \in [Slots -> OperationType \union {Idle}]
        /\ \A p \in Slots : operation'[p] \in {operation[p], Idle}
    BY <1>2, SlotEnds
  <1>6. view \in ViewType /\ late \in BOOLEAN
    BY DEF PageInv, PageTypes
  <1>7. CASE op.at = "answered" /\ op.generation = generation
    <2>1. PICK v : v = [view EXCEPT !.ready = TRUE, !.listed = op.sessions]
      OBVIOUS
    <2>2. op.sessions \subseteq Sessions
      BY <1>3 DEF OperationType
    <2>3. v \in ViewType
      BY ONLY <1>6, <2>1, <2>2 DEF ViewType
    <2>4. /\ v.workspace = view.workspace /\ v.document = view.document
          /\ v.listed = op.sessions
          /\ v.session = view.session /\ v.prefill = view.prefill /\ v.image = view.image
          /\ v.match = view.match /\ v.package = view.package /\ v.report = view.report
      BY ONLY <1>6, <2>1 DEF ViewType
    <2>5. view' = v
      BY <1>2, <1>7, <2>1
    <2>6. /\ op.target \in Workspaces /\ op.target = entered
          /\ \A s \in op.sessions : home[s] = op.target
      BY <1>2, <1>4, <1>7 DEF TargetOK, AnswerOK
    <2>7. ExistIn(v)
      BY WorkbenchAssumption, <2>4, <2>6 DEF PageInv, ExistIn
    <2>8. ASSUME ~late PROVE v.workspace = entered /\ ShownOK(v)
      <3>1. view.workspace = entered /\ ShownOK(view)
        BY <2>8 DEF PageInv
      <3> QED
        BY <2>4, <2>6, <3>1 DEF ShownOK, Belongs
    <2>9. ~crossed => scope = entered
      BY <1>1, <1>3, <1>7, <2>6 DEF PageInv, ScopeOK
    <2> QED
      BY <1>2, <1>5, <1>6, <2>3, <2>5, <2>7, <2>8, <2>9, PageStep
  <1>8. CASE ~(op.at = "answered" /\ op.generation = generation)
    <2>1. view' = view
      BY <1>2, <1>8
    <2>2. ~crossed /\ view.ready => scope = entered
      BY DEF PageInv, ScopeOK
    <2>3. ExistIn(view) /\ (~late => view.workspace = entered /\ ShownOK(view))
      BY DEF PageInv
    <2> QED
      BY <1>2, <1>5, <1>6, <2>1, <2>2, <2>3, PageStep
  <1> QED
    BY <1>7, <1>8

\* What an answer makes of a page: its type, and the sessions it names.
LEMMA AppliedMakes ==
    ASSUME PageTypes, NEW op \in OperationType,
           op.kind \notin {"load", "list", "run"}, op.at = "answered", TargetOK(op), AnswerOK(op),
           ExistIn(view)
    PROVE  /\ Applied(op, view) \in ViewType
           /\ Applied(op, view).ready = view.ready
           /\ Applied(op, view).listed = view.listed
           /\ ExistIn(Applied(op, view))
  <1> DEFINE Good(v) == v \in ViewType /\ v.ready = view.ready /\ v.listed = view.listed
                        /\ ExistIn(v)
  <1>1. PICK x : x = view /\ x \in ViewType
    BY DEF PageTypes
  <1>2. /\ op.package \in Origins /\ op.target \in Origins /\ None \in Origins
        /\ None \in Sessions \union {None}
    BY DEF OperationType, Origins
  <1>3. ASSUME NEW v \in ViewType, v.ready = x.ready, v.listed = x.listed,
               v.session = x.session
        PROVE  Good(v)
    BY <1>1, <1>3 DEF ExistIn
  <1>4. ASSUME NEW v \in ViewType, v.ready = x.ready, v.listed = x.listed,
               v.session = op.target,
               op.target \in Sessions, home[op.target] # None
        PROVE  Good(v)
    BY <1>1, <1>4 DEF ExistIn
  <1> HIDE DEF Good
  <1>5. CASE op.kind = "addAsset"
    <2>1. PICK v : v = [x EXCEPT !.document = op.target]
      OBVIOUS
    <2>2. op.target \in Workspaces \union {None}
      BY <1>5 DEF TargetOK, OfWorkspace, OperationType
    <2>3. v \in ViewType /\ v.ready = x.ready /\ v.listed = x.listed /\ v.session = x.session
      BY ONLY <1>1, <2>1, <2>2 DEF ViewType
    <2>4. Applied(op, x) \in {x, v}
      BY <1>5, <2>1 DEF Applied, WorkspaceAnswer
    <2>5. Good(x) /\ Good(v)
      BY <1>1, <1>3, <2>3
    <2> QED
      BY <1>1, <2>4, <2>5 DEF Good
  <1>6. CASE op.kind \in {"observe", "refresh"}
    <2>1. PICK v : v = [x EXCEPT !.workspace = op.target, !.document = op.target]
      OBVIOUS
    <2>2. op.target \in Workspaces \union {None}
      <3>1. CASE op.kind = "observe"
        BY <3>1 DEF TargetOK, OfWorkspace, OperationType
      <3>2. CASE op.kind = "refresh"
        BY <3>2 DEF TargetOK, PageTypes, OperationType
      <3> QED
        BY <1>6, <3>1, <3>2
    <2>3. v \in ViewType /\ v.ready = x.ready /\ v.listed = x.listed /\ v.session = x.session
      BY ONLY <1>1, <2>1, <2>2 DEF ViewType
    <2>4. Applied(op, x) = v
      BY <1>6, <2>1 DEF Applied, WorkspaceAnswer
    <2> QED
      BY <1>1, <1>3, <2>3, <2>4 DEF Good
  <1>7. CASE op.kind \in {"create", "freeze"}
    <2>1. PICK v : v = [x EXCEPT !.session = op.target]
      OBVIOUS
    <2>2. op.target \in Sessions /\ home[op.target] # None
      BY WorkbenchAssumption, <1>7 DEF TargetOK, AnswerOK, OfSession
    <2>3. v \in ViewType /\ v.ready = x.ready /\ v.listed = x.listed /\ v.session = op.target
      BY ONLY <1>1, <2>1, <2>2 DEF ViewType
    <2>4. Applied(op, x) = v
      BY <1>7, <2>1 DEF Applied, SessionAnswer
    <2> QED
      BY <1>1, <1>4, <2>2, <2>3, <2>4 DEF Good
  <1>8. CASE op.kind = "complete"
    <2>1. PICK v : v = [x EXCEPT !.session = op.target, !.package = op.target, !.report = op.target]
      OBVIOUS
    <2>2. op.target \in Sessions /\ home[op.target] # None
      BY WorkbenchAssumption, <1>8 DEF TargetOK, OfSession
    <2>3. v \in ViewType /\ v.ready = x.ready /\ v.listed = x.listed /\ v.session = op.target
      BY ONLY <1>1, <1>2, <2>1, <2>2 DEF ViewType
    <2>4. Applied(op, x) = v
      BY <1>8, <2>1 DEF Applied, SessionAnswer
    <2> QED
      BY <1>1, <1>4, <2>2, <2>3, <2>4 DEF Good
  <1>9. CASE op.kind = "export"
    <2>1. PICK v : v = [x EXCEPT !.image = op.target, !.match = None, !.prefill = op.target]
      OBVIOUS
    <2>2. op.target \in Sessions \union {None}
      BY <1>9 DEF TargetOK, OfSession
    <2>3. v \in ViewType /\ v.ready = x.ready /\ v.listed = x.listed /\ v.session = x.session
      BY ONLY <1>1, <1>2, <2>1, <2>2 DEF ViewType
    <2>4. Applied(op, x) = v
      BY <1>9, <2>1 DEF Applied, PackageAnswer
    <2> QED
      BY <1>1, <1>3, <2>3, <2>4 DEF Good
  <1>10. CASE op.kind \in {"seal", "verify", "timestamp", "match"}
    <2>1. PICK v : \/ op.kind = "seal" /\ v = [x EXCEPT !.package = op.target]
                   \/ op.kind = "verify" /\ v = [x EXCEPT !.report = op.package]
                   \/ op.kind = "timestamp" /\ v = [x EXCEPT !.package = op.package, !.report = op.package]
                   \/ op.kind = "match" /\ v = [x EXCEPT !.match = op.package, !.report = op.package,
                                                          !.image = None, !.prefill = None]
      BY <1>10
    <2>2. v \in ViewType /\ v.ready = x.ready /\ v.listed = x.listed /\ v.session = x.session
      BY ONLY <1>1, <1>2, <2>1 DEF ViewType
    <2>3. Applied(op, x) = v
      BY <1>10, <2>1 DEF Applied, PackageAnswer
    <2> QED
      BY <1>1, <1>3, <2>2, <2>3 DEF Good
  <1>11. op.kind \in {"addAsset", "observe", "refresh", "create", "freeze", "complete", "export",
                      "seal", "verify", "timestamp", "match"}
    BY DEF OperationType, Kinds, OfWorkspace, OfSession, OfPackage
  <1> QED
    BY <1>5, <1>6, <1>7, <1>8, <1>9, <1>10, <1>11 DEF Good

\* An answer that finds the page as its operation left it: what it shows belongs
\* to the session and the workspace that are there.
LEMMA AppliedShown ==
    ASSUME PageTypes, NEW op \in OperationType,
           op.kind \notin {"load", "list", "run"}, op.at = "answered", TargetOK(op), AnswerOK(op),
           RemembersOK(op), view.workspace = entered, ShownOK(view),
           op.generation = generation, op.session = view.session
    PROVE  Applied(op, view).workspace = entered /\ ShownOK(Applied(op, view))
  <1> DEFINE Good(v) == v.workspace = entered /\ ShownOK(v)
  <1>1. PICK x : x = view /\ x \in ViewType /\ x.workspace = entered /\ ShownOK(x)
    BY DEF PageTypes
  <1>2. /\ None \notin Sessions /\ None \notin Workspaces
        /\ \A s \in Sessions : s \notin Workspaces
    BY WorkbenchAssumption
  <1>3. /\ x.document = entered
        /\ \A s \in x.listed \union ({x.session} \ {None}) : home[s] = entered
        /\ x.prefill # None => x.prefill = x.session
        /\ Belongs(x, x.image) /\ Belongs(x, x.match) /\ Belongs(x, x.package)
        /\ Belongs(x, x.report)
    BY <1>1 DEF ShownOK
  <1>4. ASSUME NEW v, v.session = x.session, v.workspace = entered
        PROVE  \A r : Belongs(x, r) => Belongs(v, r)
    BY <1>1, <1>4 DEF Belongs
  <1>5. ASSUME op.kind # "refresh"
        PROVE  /\ op.workspace = entered
               /\ op.package \in Sessions => op.package = x.session
               /\ op.package \in Workspaces => op.package = entered
    <2>1. op.kind # "list"
      OBVIOUS
    <2>2. /\ op.generation = generation => op.workspace = entered
          /\ op.package \in Sessions => op.package = op.session
          /\ op.package \in Workspaces => op.package = op.workspace
      BY <1>5, <2>1 DEF RemembersOK
    <2> QED
      BY <1>1, <2>2
  <1>6. \A v : v.session = x.session /\ v.workspace = entered =>
                   (op.kind # "refresh" => Belongs(v, op.package)) /\ Belongs(v, None)
    BY <1>2, <1>5 DEF Belongs
  <1>7. op.kind \in OfSession => op.target = x.session /\ op.target \in Sessions
    BY <1>1 DEF TargetOK
  <1>8. ASSUME op.kind \in OfWorkspace PROVE op.target = entered
    <2>1. op.kind # "refresh"
      BY <1>8 DEF OfWorkspace
    <2> QED
      BY <1>5, <1>8, <2>1 DEF TargetOK
  <1>9. CASE op.kind = "addAsset"
    <2>1. PICK v : v = [x EXCEPT !.document = op.target]
      OBVIOUS
    <2>2. /\ v.document = op.target /\ v.workspace = x.workspace /\ v.listed = x.listed
          /\ v.session = x.session /\ v.prefill = x.prefill /\ v.image = x.image
          /\ v.match = x.match /\ v.package = x.package /\ v.report = x.report
      BY ONLY <1>1, <2>1 DEF ViewType
    <2>3. Applied(op, x) \in {x, v}
      BY <1>9, <2>1 DEF Applied, WorkspaceAnswer
    <2>4. op.target = entered
      BY <1>8, <1>9 DEF OfWorkspace
    <2>5. Good(v)
      BY <1>1, <1>3, <2>2, <2>4 DEF ShownOK, Belongs
    <2> QED
      BY <1>1, <2>3, <2>5
  <1>10. CASE op.kind \in {"observe", "refresh"}
    <2>1. PICK v : v = [x EXCEPT !.workspace = op.target, !.document = op.target]
      OBVIOUS
    <2>2. /\ v.document = op.target /\ v.workspace = op.target /\ v.listed = x.listed
          /\ v.session = x.session /\ v.prefill = x.prefill /\ v.image = x.image
          /\ v.match = x.match /\ v.package = x.package /\ v.report = x.report
      BY ONLY <1>1, <2>1 DEF ViewType
    <2>3. Applied(op, x) = v
      BY <1>10, <2>1 DEF Applied, WorkspaceAnswer
    <2>4. op.target = entered
      BY <1>8, <1>10 DEF OfWorkspace, RemembersOK
    <2>5. Good(v)
      BY <1>1, <1>3, <2>2, <2>4 DEF ShownOK, Belongs
    <2> QED
      BY <1>1, <2>3, <2>5
  <1>11. CASE op.kind = "create"
    <2>1. PICK v : v = [x EXCEPT !.session = op.target]
      OBVIOUS
    <2>2. /\ v.document = x.document /\ v.workspace = x.workspace /\ v.listed = x.listed
          /\ v.session = op.target /\ v.prefill = x.prefill /\ v.image = x.image
          /\ v.match = x.match /\ v.package = x.package /\ v.report = x.report
      BY ONLY <1>1, <2>1 DEF ViewType
    <2>3. Applied(op, x) = v
      BY <1>11, <2>1 DEF Applied, SessionAnswer
    <2>4. op.target \in Sessions /\ home[op.target] = entered
      BY <1>5, <1>11 DEF TargetOK, AnswerOK
    <2>5. x.session = None
      BY <1>1, <1>11 DEF AnswerOK
    <2>6. x.prefill = None
      BY <1>3, <2>5
    <2>7. \A r : Belongs(x, r) => Belongs(v, r)
      BY <1>2, <2>2, <2>5 DEF Belongs
    <2>8. Belongs(v, v.image) /\ Belongs(v, v.match) /\ Belongs(v, v.package) /\ Belongs(v, v.report)
      BY <1>3, <2>2, <2>7
    <2>9. Good(v)
      BY <1>1, <1>3, <2>2, <2>4, <2>6, <2>8 DEF ShownOK
    <2> QED
      BY <1>1, <2>3, <2>9
  <1>12. CASE op.kind \in {"freeze", "complete"}
    <2>1. PICK v : \/ op.kind = "freeze" /\ v = [x EXCEPT !.session = op.target]
                   \/ /\ op.kind = "complete"
                      /\ v = [x EXCEPT !.session = op.target, !.package = op.target, !.report = op.target]
      BY <1>12
    <2>2. /\ v.document = x.document /\ v.workspace = x.workspace /\ v.listed = x.listed
          /\ v.session = op.target /\ v.prefill = x.prefill /\ v.image = x.image
          /\ v.match = x.match /\ v.package \in {x.package, op.target}
          /\ v.report \in {x.report, op.target}
      BY ONLY <1>1, <2>1 DEF ViewType
    <2>3. Applied(op, x) = v
      BY <1>12, <2>1 DEF Applied, SessionAnswer
    <2>4. op.target = x.session /\ op.target \in Sessions
      BY <1>7, <1>12 DEF OfSession
    <2>5. Belongs(v, op.target) /\ \A r : Belongs(x, r) => Belongs(v, r)
      BY <1>1, <1>2, <1>4, <2>2, <2>4 DEF Belongs
    <2> QED
      BY <1>1, <1>3, <2>2, <2>3, <2>4, <2>5 DEF ShownOK
  <1>13. CASE op.kind \in {"seal", "export", "verify", "timestamp", "match"}
    <2>1. PICK v : \/ op.kind = "seal" /\ v = [x EXCEPT !.package = op.target]
                   \/ /\ op.kind = "export"
                      /\ v = [x EXCEPT !.image = op.target, !.match = None, !.prefill = op.target]
                   \/ op.kind = "verify" /\ v = [x EXCEPT !.report = op.package]
                   \/ op.kind = "timestamp" /\ v = [x EXCEPT !.package = op.package, !.report = op.package]
                   \/ op.kind = "match" /\ v = [x EXCEPT !.match = op.package, !.report = op.package,
                                                          !.image = None, !.prefill = None]
      BY <1>13
    <2>2. /\ v.document = x.document /\ v.workspace = x.workspace /\ v.listed = x.listed
          /\ v.session = x.session
          /\ v.prefill \in {x.prefill, None} \/ (op.kind = "export" /\ v.prefill = op.target)
          /\ v.image \in {x.image, None} \/ (op.kind = "export" /\ v.image = op.target)
          /\ v.match \in {x.match, None, op.package}
          /\ v.package \in {x.package, op.package} \/ (op.kind = "seal" /\ v.package = op.target)
          /\ v.report \in {x.report, op.package}
      BY ONLY <1>1, <2>1 DEF ViewType
    <2>3. Applied(op, x) = v
      BY <1>13, <2>1 DEF Applied, PackageAnswer
    <2>4. Belongs(v, op.package) /\ Belongs(v, None)
      BY <1>1, <1>6, <1>13, <2>2
    <2>5. \A r : Belongs(x, r) => Belongs(v, r)
      BY <1>1, <1>4, <2>2
    <2>6. op.kind \in {"export", "seal"} => Belongs(v, op.target)
      <3>1. ASSUME op.kind = "export" PROVE Belongs(v, op.target)
        BY <1>2, <1>7, <2>2, <3>1 DEF Belongs, OfSession
      <3>2. ASSUME op.kind = "seal" PROVE Belongs(v, op.target)
        <4>1. op.target = entered /\ op.target = op.workspace
          BY <1>8, <3>2 DEF OfWorkspace, TargetOK
        <4>2. op.target \notin Sessions
          BY <1>2, <4>1 DEF OperationType
        <4> QED
          BY <1>1, <2>2, <4>1, <4>2 DEF Belongs
      <3> QED
        BY <3>1, <3>2
    <2>7. Belongs(v, v.image) /\ Belongs(v, v.match) /\ Belongs(v, v.package) /\ Belongs(v, v.report)
      BY <1>3, <2>2, <2>4, <2>5, <2>6
    <2>8. v.prefill # None => v.prefill = v.session
      BY <1>3, <1>7, <2>2 DEF OfSession
    <2> QED
      BY <1>1, <1>3, <2>2, <2>3, <2>7, <2>8 DEF ShownOK
  <1>14. op.kind \in {"addAsset", "observe", "refresh", "create", "freeze", "complete", "export",
                      "seal", "verify", "timestamp", "match"}
    BY DEF OperationType, Kinds, OfWorkspace, OfSession, OfPackage
  <1> QED
    BY <1>1, <1>9, <1>10, <1>11, <1>12, <1>13, <1>14

\* An answer ends its operation.
LEMMA AnswerKeeps ==
    ASSUME PageInv, NEW o \in Slots, Answer(o)
    PROVE  PageInv'
  <1>1. PICK op : op = operation[o]
    OBVIOUS
  <1>2. /\ op.kind \notin {"none", "load", "list", "run"}
        /\ op.at \in {"answered", "refused"}
        /\ view' = IF op.at = "answered" THEN Applied(op, view)
                   ELSE IF op.kind = "timestamp" THEN [view EXCEPT !.report = op.package]
                   ELSE view
        /\ late' = (late \/ (view' # view /\ MovedOn(op)))
        /\ operation' = [operation EXCEPT ![o] = Idle]
        /\ UNCHANGED <<generation, entered, scope, home, events, crossed>>
    BY <1>1 DEF Answer, mainVars
  <1>3. Pending(o) /\ op \in OperationType
    BY <1>1, <1>2, PendingTyped DEF PageInv
  <1>4. TargetOK(op) /\ AnswerOK(op) /\ (~late => RemembersOK(op))
    BY <1>1, <1>3 DEF PageInv, OperationsOK
  <1>5. /\ operation' \in [Slots -> OperationType \union {Idle}]
        /\ \A p \in Slots : operation'[p] \in {operation[p], Idle}
    BY <1>2, SlotEnds DEF PageInv
  <1>6. late \in BOOLEAN /\ view \in ViewType
    BY DEF PageInv, PageTypes
  <1>7. late' \in BOOLEAN /\ (late => late')
    BY <1>2, <1>6
  <1>8. ~crossed /\ view.ready => scope = entered
    BY DEF PageInv, ScopeOK
  <1>9. ExistIn(view) /\ (~late => view.workspace = entered /\ ShownOK(view))
    BY DEF PageInv
  <1>10. ASSUME ~late', view' # view
         PROVE  op.generation = generation /\ op.session = view.session
    BY <1>2, <1>10 DEF MovedOn
  <1>11. PICK x : x = view'
    OBVIOUS
  <1>12. /\ x \in ViewType /\ x.ready = view.ready /\ ExistIn(x)
         /\ ~late' => x.workspace = entered /\ ShownOK(x)
    <2>1. CASE x = view
      BY <1>6, <1>7, <1>9, <2>1
    <2>2. CASE op.at = "answered" /\ x # view
      <3>1. x = Applied(op, view)
        BY <1>2, <1>11, <2>2
      <3>2. x \in ViewType /\ x.ready = view.ready /\ ExistIn(x)
        BY <1>2, <1>3, <1>4, <1>9, <2>2, <3>1, AppliedMakes DEF PageInv
      <3>3. ASSUME ~late' PROVE x.workspace = entered /\ ShownOK(x)
        <4>1. op.generation = generation /\ op.session = view.session /\ ~late
          BY <1>7, <1>10, <1>11, <2>2, <3>3
        <4> QED
          BY <1>2, <1>3, <1>4, <1>9, <2>2, <3>1, <4>1, AppliedShown DEF PageInv
      <3> QED
        BY <3>2, <3>3
    <2>3. CASE op.at # "answered" /\ x # view
      <3>1. op.kind = "timestamp" /\ x = [view EXCEPT !.report = op.package]
        BY <1>2, <1>11, <2>3
      <3>2. op.package \in Origins
        BY <1>3 DEF OperationType
      <3>3. x \in ViewType
        BY ONLY <1>6, <3>1, <3>2 DEF ViewType
      <3>4. /\ x.workspace = view.workspace /\ x.document = view.document
            /\ x.ready = view.ready
            /\ x.listed = view.listed /\ x.session = view.session
            /\ x.prefill = view.prefill
            /\ x.image = view.image /\ x.match = view.match /\ x.package = view.package
            /\ x.report = op.package
        BY ONLY <1>6, <3>1 DEF ViewType
      <3>5. ExistIn(x)
        BY <1>9, <3>4 DEF ExistIn
      <3>6. ASSUME ~late' PROVE x.workspace = entered /\ ShownOK(x)
        <4>1. op.generation = generation /\ op.session = view.session /\ ~late
          BY <1>7, <1>10, <1>11, <2>3, <3>6
        <4>2. /\ op.workspace = entered
              /\ op.package \in Sessions => op.package = op.session
              /\ op.package \in Workspaces => op.package = op.workspace
          BY <1>4, <3>1, <4>1 DEF RemembersOK
        <4> QED
          BY <1>9, <3>4, <4>1, <4>2 DEF ShownOK, Belongs
      <3> QED
        BY <3>3, <3>4, <3>5, <3>6
    <2> QED
      BY <2>1, <2>2, <2>3
  <1>13. ~crossed /\ x.ready => scope = entered
    BY <1>8, <1>12
  <1>14. events' \subseteq events
    BY <1>2
  <1> QED
    BY <1>2, <1>5, <1>7, <1>11, <1>12, <1>13, <1>14, PageStep

\* What another operation works on and remembers holds on, while the page enters
\* another workspace or a session gets its home.
LEMMA OthersKeep ==
    ASSUME PageInv, NEW op \in OperationType, TargetOK(op),
           AnswerOK(op),
           generation' \in 0 .. MaxEnters,
           (generation' = generation /\ entered' = entered) \/ generation' = generation + 1,
           \A s \in Sessions : home[s] # None => home'[s] = home[s],
           op.kind = "create" /\ op.at \in {"sent", "working"} => home'[op.target] = home[op.target]
    PROVE  TargetOK(op)' /\ AnswerOK(op)' /\ (RemembersOK(op) => RemembersOK(op)')
  <1>1. /\ op.session \in Sessions \union {None} /\ op.sessions \subseteq Sessions
        /\ op.target \in Origins /\ op.generation \in Nat /\ generation \in Nat
    BY DEF OperationType, PageInv, PageTypes
  <1>2. generation' \in Nat /\ op.generation <= generation
    BY <1>1 DEF TargetOK
  <1>3. op.generation <= generation'
    BY <1>1, <1>2
  <1>4. op.generation = generation' => op.generation = generation /\ entered' = entered
    BY <1>1, <1>2
  <1>5. op.session # None => op.session \in Sessions /\ home'[op.session] = home[op.session]
    BY <1>1 DEF TargetOK
  <1>6. TargetOK(op)'
    BY <1>3, <1>5 DEF TargetOK
  <1>0. None \notin Workspaces
    BY WorkbenchAssumption
  <1>7. AnswerOK(op)'
    <2>1. CASE op.kind = "create"
      <3>1. op.target \in Sessions
        BY <2>1 DEF TargetOK
      <3>2. op.at = "answered" => home[op.target] = op.workspace /\ op.workspace \in Workspaces
        BY <2>1 DEF AnswerOK
      <3>3. op.at \in {"sent", "working"} => home'[op.target] = None
        BY <2>1 DEF AnswerOK
      <3> QED
        BY <1>0, <2>1, <3>1, <3>2, <3>3 DEF AnswerOK
    <2>2. CASE op.kind = "list"
      <3>1. op.target \in Workspaces
        BY <2>2 DEF TargetOK
      <3>2. op.at = "answered" => \A s \in op.sessions : home'[s] = op.target
        BY <1>0, <1>1, <2>2, <3>1 DEF AnswerOK
      <3> QED
        BY <1>4, <2>2, <3>2 DEF AnswerOK
    <2> QED
      BY <2>1, <2>2 DEF AnswerOK
  <1>8. RemembersOK(op) => RemembersOK(op)'
    BY <1>4, <1>5 DEF RemembersOK
  <1> QED
    BY <1>6, <1>7, <1>8

\* One operation takes its next step.
LEMMA SlotStep ==
    ASSUME PageInv, NEW o \in Slots, NEW r \in OperationType,
           operation' = [operation EXCEPT ![o] = r],
           view' \in ViewType, generation' \in 0 .. MaxEnters,
           entered' \in Workspaces \union {None}, scope' \in Workspaces \union {None},
           home' \in [Sessions -> Workspaces \union {None}],
           crossed' \in BOOLEAN, late' \in BOOLEAN,
           late => late' \/ generation' = generation + 1,
           (generation' = generation /\ entered' = entered) \/ generation' = generation + 1,
           \A s \in Sessions : home[s] # None => home'[s] = home[s],
           \A s \in Sessions : home'[s] # home[s] => Creates(o) /\ operation[o].target = s,
           \A s \in events' : s \in Sessions /\ home'[s] # None,
           TargetOK(r)', AnswerOK(r)',
           r.kind = "create" /\ r.at \in {"sent", "working"} =>
               \A p \in Slots \ {o} : Creates(p) => operation[p].target # r.target,
           ExistIn(view)', ~crossed' => ScopeOK',
           ~late' => view'.workspace = entered' /\ ShownOK(view)' /\ RemembersOK(r)'
    PROVE  PageInv'
  <1>1. /\ operation' \in [Slots -> OperationType \union {Idle}]
        /\ operation'[o] = r /\ \A p \in Slots \ {o} : operation'[p] = operation[p]
    BY SlotChanges DEF PageInv
  <1>2. PageTypes'
    BY <1>1 DEF PageTypes
  <1>3. ASSUME NEW p \in Slots \ {o}, Pending(p)'
        PROVE  /\ TargetOK(operation[p])' /\ AnswerOK(operation[p])'
               /\ ~late' => RemembersOK(operation[p])'
    <2>1. PICK q : q = operation[p]
      OBVIOUS
    <2>2. operation'[p] = q /\ Pending(p)
      BY <1>1, <1>3, <2>1 DEF Pending
    <2>3. q \in OperationType
      BY <2>1, <2>2, TypedPending DEF PageInv
    <2>4. TargetOK(q) /\ AnswerOK(q) /\ (~late => RemembersOK(q))
      BY <2>1, <2>2 DEF PageInv, OperationsOK
    <2>5. ASSUME q.kind = "create", q.at \in {"sent", "working"}
          PROVE  home'[q.target] = home[q.target]
      <3>1. q.target \in Sessions /\ Creates(p)
        BY <2>1, <2>2, <2>4, <2>5 DEF TargetOK, Creates
      <3>2. ~(Creates(o) /\ operation[o].target = q.target)
        BY <2>1, <3>1 DEF PageInv, OperationsOK
      <3> QED
        BY <3>1, <3>2
    <2>6. TargetOK(q)' /\ AnswerOK(q)' /\ (RemembersOK(q) => RemembersOK(q)')
      BY <2>3, <2>4, <2>5, OthersKeep
    <2>7. TargetOK(operation[p])' /\ AnswerOK(operation[p])'
      BY <2>2, <2>6 DEF TargetOK, AnswerOK
    <2>8. ASSUME ~late' PROVE RemembersOK(operation[p])'
      <3>1. RemembersOK(q)'
        <4>1. CASE ~late
          BY <2>4, <2>6, <4>1
        <4>2. CASE generation' = generation + 1
          <5>1. q.generation \in Nat /\ generation \in Nat
            BY <2>3 DEF OperationType, PageInv, PageTypes
          <5>2. q.generation # generation'
            BY <2>4, <4>2, <5>1 DEF TargetOK
          <5> QED
            BY <5>2 DEF RemembersOK
        <4> QED
          BY <2>8, <4>1, <4>2
      <3> QED
        BY <2>2, <3>1 DEF RemembersOK
    <2> QED
      BY <2>7, <2>8
  <1>4. TargetOK(operation[o])' /\ AnswerOK(operation[o])'
    BY <1>1 DEF TargetOK, AnswerOK
  <1>5. ASSUME ~late' PROVE RemembersOK(operation[o])'
    <2>1. RemembersOK(r)'
      BY <1>5
    <2> QED
      BY <1>1, <2>1 DEF RemembersOK
  <1>6. ASSUME NEW p \in Slots, NEW q \in Slots, Creates(p)', Creates(q)',
               operation'[p].target = operation'[q].target, p # q
        PROVE  FALSE
    <2>1. \A i \in Slots \ {o} : Creates(i)' => Creates(i) /\ operation'[i] = operation[i]
      BY <1>1 DEF Creates, Pending
    <2>2. Creates(o)' => r.kind = "create" /\ r.at \in {"sent", "working"}
      BY <1>1 DEF Creates
    <2>3. CASE p = o
      BY <1>1, <1>6, <2>1, <2>2, <2>3
    <2>4. CASE q = o
      BY <1>1, <1>6, <2>1, <2>2, <2>4
    <2>5. CASE p # o /\ q # o
      BY <1>6, <2>1, <2>5 DEF PageInv, OperationsOK
    <2> QED
      BY <2>3, <2>4, <2>5
  <1>7. \A p \in Slots : Pending(p)' => TargetOK(operation[p])' /\ AnswerOK(operation[p])'
    BY <1>3, <1>4
  <1>8. OperationsOK'
    BY <1>6, <1>7 DEF OperationsOK
  <1>9. \A p \in Slots : ~late' /\ Pending(p)' => RemembersOK(operation[p])'
    BY <1>3, <1>5
  <1> QED
    BY <1>2, <1>8, <1>9 DEF PageInv

\* An operation that sends no list and awaits none leaves the scope alone.
LEMMA ScopeKept ==
    ASSUME PageInv, NEW o \in Slots, NEW r \in OperationType,
           operation' = [operation EXCEPT ![o] = r], r.kind = "list" => r.at = "refused",
           UNCHANGED <<generation, entered, scope, crossed>>, view'.ready = view.ready
    PROVE  ~crossed' => ScopeOK'
  <1> SUFFICES ASSUME ~crossed' PROVE ScopeOK'
    OBVIOUS
  <1>1. ScopeOK
    BY DEF PageInv
  <1>2. operation'[o] = r /\ \A p \in Slots \ {o} : operation'[p] = operation[p]
    BY SlotChanges DEF PageInv
  <1>3. \A p \in Slots \ {o} : Lists(p)' => Lists(p) /\ operation'[p] = operation[p]
    BY <1>2 DEF Lists, Pending
  <1>4. Lists(o)' => operation'[o].at = "refused"
    BY <1>2 DEF Lists
  <1>5. ASSUME NEW p \in Slots, Lists(p)', operation'[p].at = "answered",
               operation'[p].generation = generation'
        PROVE  scope' = operation'[p].target
    <2>1. p # o
      BY <1>4, <1>5
    <2>2. Lists(p) /\ operation'[p] = operation[p]
      BY <1>3, <1>5, <2>1
    <2> QED
      BY <1>1, <1>5, <2>2 DEF ScopeOK
  <1> QED
    BY <1>1, <1>5 DEF ScopeOK

\* A click starts an operation on what the page shows.
LEMMA ClickedStep ==
    ASSUME PageInv, NEW o \in Slots,
           NEW kind \in Kinds \ {"list", "refresh"}, NEW target \in Origins, NEW v \in ViewType,
           Clicked(o, kind, target, v), v.ready = view.ready, ExistIn(v),
           ~late => v.workspace = entered /\ ShownOK(v),
           kind = "load" => target \in Workspaces,
           kind \in OfWorkspace => target = v.workspace,
           kind \in OfSession => target = v.session /\ target \in Sessions,
           kind = "create" => /\ target \in Sessions /\ home[target] = None
                              /\ v.workspace \in Workspaces /\ v.session = None
                              /\ \A p \in Slots : Creates(p) => operation[p].target # target
    PROVE  PageInv'
  <1>1. PICK r : r = [kind |-> kind, at |-> "sent", target |-> target,
                      workspace |-> v.workspace, session |-> v.session,
                      package |-> v.package, sessions |-> {}, generation |-> generation]
    OBVIOUS
  <1>2. /\ r.kind = kind /\ r.at = "sent" /\ r.target = target /\ r.workspace = v.workspace
        /\ r.session = v.session /\ r.package = v.package /\ r.generation = generation
    BY <1>1
  <1>3. /\ view' = v /\ operation' = [operation EXCEPT ![o] = r]
        /\ UNCHANGED <<generation, entered, scope, home, events, crossed, late>>
    BY <1>1 DEF Clicked, mainVars
  <1>4. /\ generation \in 0 .. MaxEnters /\ generation \in Nat
        /\ entered \in Workspaces \union {None} /\ scope \in Workspaces \union {None}
        /\ home \in [Sessions -> Workspaces \union {None}] /\ crossed \in BOOLEAN
        /\ late \in BOOLEAN
    BY DEF PageInv, PageTypes
  <1>5. r \in OperationType
    <2>1. /\ v.workspace \in Workspaces \union {None}
          /\ v.session \in Sessions \union {None}
          /\ v.package \in Origins
      BY DEF ViewType
    <2> QED
      BY <1>1, <1>4, <2>1 DEF OperationType
  <1>6. TargetOK(r)
    <2>1. kind \in OfSession \union {"create"} => target \in Sessions
      OBVIOUS
    <2>2. v.session # None => home[v.session] # None
      BY DEF ExistIn
    <2> QED
      BY <1>2, <1>4, <2>1, <2>2 DEF TargetOK
  <1>7. AnswerOK(r)
    BY <1>2 DEF AnswerOK
  <1>8. TargetOK(r)' /\ AnswerOK(r)'
    BY <1>3, <1>6, <1>7 DEF TargetOK, AnswerOK
  <1>9. ASSUME ~late' PROVE view'.workspace = entered' /\ ShownOK(view)' /\ RemembersOK(r)'
    <2>1. v.workspace = entered /\ ShownOK(v)
      BY <1>3, <1>9
    <2>2. ShownOK(view)' /\ view'.workspace = entered'
      BY <1>3, <2>1 DEF ShownOK, Belongs
    <2>3. /\ v.session # None => home[v.session] = v.workspace
          /\ v.package \in Sessions => v.package = v.session
          /\ v.package \in Workspaces => v.package = v.workspace
      BY <2>1 DEF ShownOK, Belongs
    <2>4. RemembersOK(r)'
      BY <1>2, <1>3, <2>1, <2>3 DEF RemembersOK
    <2> QED
      BY <2>2, <2>4
  <1>10. ExistIn(view)' /\ \A s \in events' : s \in Sessions /\ home'[s] # None
    BY <1>3 DEF ExistIn, PageInv
  <1>11. ~crossed' => ScopeOK'
    BY <1>2, <1>3, <1>5, ScopeKept
  <1>12. r.kind = "create" /\ r.at \in {"sent", "working"} =>
             \A p \in Slots \ {o} : Creates(p) => operation[p].target # r.target
    BY <1>2
  <1> QED
    BY <1>3, <1>4, <1>5, <1>8, <1>9, <1>10, <1>11, <1>12, SlotStep

\* Every click starts such an operation.
LEMMA ClickedKeeps ==
    ASSUME PageInv, NEW o \in Slots,
           \/ Open(o) \/ WorkspaceOperation(o) \/ Create(o)
           \/ SessionOperation(o) \/ PackageOperation(o) \/ Match(o)
    PROVE  PageInv'
  <1>1. view \in ViewType /\ ExistIn(view) /\ (~late => view.workspace = entered /\ ShownOK(view))
    BY DEF PageInv, PageTypes
  <1>2. /\ view.workspace \in Workspaces \union {None}
        /\ view.session \in Sessions \union {None}
        /\ view.package \in Origins
    BY <1>1 DEF ViewType
  <1>3. /\ Workspaces \union Sessions \union {None} \subseteq Origins
        /\ None \notin Workspaces /\ None \notin Sessions
    BY WorkbenchAssumption DEF Origins
  <1>4. CASE Open(o)
    <2>1. PICK w \in Workspaces : Clicked(o, "load", w, view)
      BY <1>4 DEF Open
    <2>2. PICK kind : kind = "load"
      OBVIOUS
    <2>3. /\ kind \in Kinds \ {"list", "refresh"} /\ kind \notin OfWorkspace
          /\ kind \notin OfSession
          /\ kind # "create"
      BY <2>2 DEF Kinds, OfWorkspace, OfSession
    <2>4. Clicked(o, kind, w, view) /\ w \in Origins
      BY <1>3, <2>1, <2>2
    <2> QED
      BY <1>1, <2>3, <2>4, ClickedStep
  <1>5. CASE WorkspaceOperation(o)
    <2>1. PICK kind \in {"addAsset", "observe", "seal"} : Clicked(o, kind, view.workspace, view)
      BY <1>5 DEF WorkspaceOperation
    <2>2. PICK w : w = view.workspace
      OBVIOUS
    <2>3. /\ kind \in Kinds \ {"list", "refresh"} /\ kind \notin OfSession
          /\ kind \notin {"load", "create"}
      BY <2>1 DEF Kinds, OfWorkspace, OfSession
    <2>4. Clicked(o, kind, w, view) /\ w \in Origins
      BY <1>2, <1>3, <2>1, <2>2
    <2> QED
      BY <1>1, <2>2, <2>3, <2>4, ClickedStep
  <1>6. CASE Create(o)
    <2>1. PICK s \in Sessions : /\ home[s] = None
                                /\ \A p \in Under("create") : operation[p].target # s
                                /\ Clicked(o, "create", s, CreationCleared(view))
      BY <1>6 DEF Create
    <2>2. view.workspace \in Workspaces
      BY <1>2, <1>6 DEF Create
    <2>3. PICK v : v = CreationCleared(view)
      OBVIOUS
    <2>4. /\ v \in ViewType /\ v.ready = view.ready /\ v.workspace = view.workspace
          /\ v.session = None
          /\ ExistIn(v) /\ (~late => ShownOK(v))
      BY <1>1, <2>3, ClearedMakes, ClearedShown
    <2>5. PICK kind : kind = "create"
      OBVIOUS
    <2>6. /\ kind \in Kinds \ {"list", "refresh"} /\ kind \notin OfWorkspace
          /\ kind \notin OfSession
          /\ kind # "load"
      BY <2>5 DEF Kinds, OfWorkspace, OfSession
    <2>7. \A p \in Slots : Creates(p) => operation[p].target # s
      BY <2>1 DEF Under, Creates
    <2>8. Clicked(o, kind, s, v) /\ s \in Origins
      BY <1>3, <2>1, <2>3, <2>5
    <2> QED
      BY <1>1, <2>1, <2>2, <2>4, <2>6, <2>7, <2>8, ClickedStep
  <1>7. CASE SessionOperation(o)
    <2>1. PICK kind \in {"freeze", "run", "complete", "export"} :
             Clicked(o, kind, view.session, view)
      BY <1>7 DEF SessionOperation
    <2>2. PICK s : s = view.session
      OBVIOUS
    <2>3. /\ kind \in Kinds \ {"list", "refresh"} /\ kind \notin OfWorkspace
          /\ kind \notin {"load", "create"}
      BY <2>1 DEF Kinds, OfWorkspace, OfSession
    <2>4. s \in Sessions
      BY <1>2, <1>7, <2>2 DEF SessionOperation
    <2>5. Clicked(o, kind, s, view) /\ s \in Origins
      BY <1>3, <2>1, <2>2, <2>4
    <2> QED
      BY <1>1, <2>2, <2>3, <2>4, <2>5, ClickedStep
  <1>8. CASE PackageOperation(o) \/ Match(o)
    <2>1. PICK kind \in {"verify", "timestamp", "match"} : Clicked(o, kind, view.package, view)
      BY <1>8 DEF PackageOperation, Match
    <2>2. PICK p : p = view.package
      OBVIOUS
    <2>3. /\ kind \in Kinds \ {"list", "refresh"} /\ kind \notin OfWorkspace
          /\ kind \notin OfSession
          /\ kind \notin {"load", "create"}
      BY <2>1 DEF Kinds, OfWorkspace, OfSession, OfPackage
    <2>4. Clicked(o, kind, p, view) /\ p \in Origins
      BY <1>2, <2>1, <2>2
    <2> QED
      BY <1>1, <2>3, <2>4, ClickedStep
  <1> QED
    BY <1>4, <1>5, <1>6, <1>7, <1>8

\* Main takes up, refuses or has done the work of an operation.
LEMMA PassesOn ==
    ASSUME PageInv, NEW o \in Slots, operation[o].kind # "none",
           NEW a \in {"working", "answered", "refused"},
           operation' = [operation EXCEPT ![o].at = a],
           UNCHANGED <<view, generation, entered, scope, home, crossed, late>>,
           \A s \in events' : s \in Sessions /\ home[s] # None,
           operation[o].kind = "list" => a = "refused",
           operation[o].kind = "create" =>
               /\ a # "answered"
               /\ a = "working" => operation[o].at \in {"sent", "working"}
    PROVE  PageInv'
  <1>0. PICK op, sessions : op = operation[o] /\ sessions = op.sessions
    OBVIOUS
  <1>1. op \in OperationType /\ Pending(o) /\ sessions \in SUBSET Sessions
    BY <1>0, PendingTyped DEF PageInv, OperationType
  <1>2. PICK r : r = [op EXCEPT !.at = a, !.sessions = sessions]
    OBVIOUS
  <1>3. /\ r \in OperationType
        /\ r.at = a /\ r.sessions = sessions /\ r.kind = op.kind /\ r.target = op.target
        /\ r.workspace = op.workspace /\ r.session = op.session /\ r.package = op.package
        /\ r.generation = op.generation
        /\ operation' = [operation EXCEPT ![o] = r]
    <2>1. a \in {"working", "answered", "refused"}
      OBVIOUS
    <2>2. r = [op EXCEPT !.at = a]
      BY <1>0, <1>1, <1>2 DEF OperationType
    <2>3. operation' = [operation EXCEPT ![o] = r]
      BY <1>0, <2>2 DEF PageInv, PageTypes
    <2>4. /\ r \in OperationType
          /\ r.at = a /\ r.sessions = sessions /\ r.kind = op.kind /\ r.target = op.target
          /\ r.workspace = op.workspace /\ r.session = op.session /\ r.package = op.package
          /\ r.generation = op.generation
      BY ONLY <1>1, <1>2, <2>1 DEF OperationType
    <2> QED
      BY <2>3, <2>4
  <1>4. TargetOK(op) /\ AnswerOK(op) /\ (~late => RemembersOK(op))
    BY <1>0, <1>1 DEF PageInv, OperationsOK
  <1>5. TargetOK(r)
    BY <1>3, <1>4 DEF TargetOK
  <1>6. AnswerOK(r)
    BY <1>0, <1>3, <1>4 DEF AnswerOK
  <1>7. TargetOK(r)' /\ AnswerOK(r)'
    BY <1>5, <1>6 DEF TargetOK, AnswerOK
  <1>8. ASSUME ~late' PROVE view'.workspace = entered' /\ ShownOK(view)' /\ RemembersOK(r)'
    <2>1. view.workspace = entered /\ ShownOK(view) /\ RemembersOK(op)
      BY <1>4, <1>8 DEF PageInv
    <2>2. RemembersOK(r)
      BY <1>3, <2>1 DEF RemembersOK
    <2> QED
      BY <2>1, <2>2 DEF ShownOK, Belongs, RemembersOK
  <1>9. ASSUME r.kind = "create", r.at \in {"sent", "working"}, NEW p \in Slots \ {o},
               Creates(p)
        PROVE  operation[p].target # r.target
    <2>1. Creates(o)
      BY <1>0, <1>1, <1>3, <1>9 DEF Creates
    <2> QED
      BY <1>0, <1>3, <1>9, <2>1 DEF PageInv, OperationsOK
  <1>10. /\ view' \in ViewType /\ generation' \in 0 .. MaxEnters
         /\ entered' \in Workspaces \union {None} /\ scope' \in Workspaces \union {None}
         /\ home' \in [Sessions -> Workspaces \union {None}]
         /\ crossed' \in BOOLEAN /\ late' \in BOOLEAN /\ ExistIn(view)'
    BY DEF PageInv, PageTypes, ExistIn
  <1>11. ~crossed' => ScopeOK'
    BY <1>0, <1>3, ScopeKept
  <1> QED
    BY <1>3, <1>7, <1>8, <1>9, <1>10, <1>11, SlotStep

\* Main takes up an operation; the sessions of a workspace make it the scope.
LEMMA HandledKeeps ==
    ASSUME PageInv, NEW o \in Slots, Handled(o)
    PROVE  PageInv'
  <1>1. PICK op : op = operation[o]
    OBVIOUS
  <1>2. /\ op.kind # "none" /\ op.at = "sent" /\ operation[o].kind # "none"
        /\ UNCHANGED <<view, generation, entered, late>>
    BY <1>1 DEF Handled
  <1>3. /\ op \in OperationType /\ Pending(o) /\ TargetOK(op) /\ AnswerOK(op)
        /\ ~late => RemembersOK(op)
    BY <1>1, <1>2, PendingTyped DEF PageInv, OperationsOK
  <1>4. \A s \in events : s \in Sessions /\ home[s] # None
    BY DEF PageInv
  <1>5. CASE \/ op.kind # "list" /\ operation' = [operation EXCEPT ![o].at = "working"]
                 /\ UNCHANGED <<scope, home, events, crossed>>
             \/ Refused(o)
    <2>1. PICK a \in {"working", "refused"} :
             /\ operation' = [operation EXCEPT ![o].at = a]
             /\ op.kind = "list" => a = "refused"
             /\ UNCHANGED <<scope, home, events, crossed>>
      BY <1>5 DEF Refused
    <2> QED
      BY <1>1, <1>2, <1>4, <2>1, PassesOn
  <1>6. CASE /\ op.kind = "list" /\ scope' = op.target
             /\ crossed' = (op.generation # generation)
             /\ operation' = [operation EXCEPT ![o].at = "answered",
                                               ![o].sessions = SessionsOf(op.target)]
             /\ UNCHANGED <<home, events>>
    <2>1. PICK sessions : sessions = SessionsOf(op.target)
      OBVIOUS
    <2>2. sessions \in SUBSET Sessions /\ \A s \in sessions : home[s] = op.target
      BY <2>1 DEF SessionsOf
    <2>3. PICK a : a = "answered"
      OBVIOUS
    <2>4. a \in {"working", "answered", "refused"}
      BY <2>3
    <2>5. PICK r : r = [op EXCEPT !.at = a, !.sessions = sessions]
      OBVIOUS
    <2>6. /\ r \in OperationType
          /\ r.at = "answered" /\ r.sessions = sessions /\ r.kind = op.kind
          /\ r.target = op.target
          /\ r.workspace = op.workspace /\ r.session = op.session /\ r.package = op.package
          /\ r.generation = op.generation
          /\ operation' = [operation EXCEPT ![o] = r]
      <3>1. operation' = [operation EXCEPT ![o] = r]
        BY <1>1, <1>6, <2>1, <2>3, <2>5 DEF PageInv, PageTypes
      <3>2. op \in OperationType
        BY <1>3
      <3>3. /\ r \in OperationType
            /\ r.at = a /\ r.sessions = sessions /\ r.kind = op.kind /\ r.target = op.target
            /\ r.workspace = op.workspace /\ r.session = op.session
            /\ r.package = op.package
            /\ r.generation = op.generation
        BY ONLY <2>2, <2>4, <2>5, <3>2 DEF OperationType
      <3> QED
        BY <2>3, <3>1, <3>3
    <2>7. TargetOK(r)'
      BY <1>2, <1>3, <1>6, <2>6 DEF TargetOK
    <2>8. AnswerOK(r)'
      BY <1>2, <1>3, <1>6, <2>2, <2>6 DEF AnswerOK
    <2>9. op.target \in Workspaces
      BY <1>3, <1>6 DEF TargetOK
    <2>10. ASSUME ~late'
           PROVE  view'.workspace = entered' /\ ShownOK(view)' /\ RemembersOK(r)'
      <3>1. view.workspace = entered /\ ShownOK(view)
        BY <1>2, <2>10 DEF PageInv
      <3> QED
        BY <1>2, <1>6, <2>6, <3>1 DEF ShownOK, Belongs, RemembersOK
    <2>11. /\ view' \in ViewType /\ generation' \in 0 .. MaxEnters
           /\ entered' \in Workspaces \union {None}
           /\ home' \in [Sessions -> Workspaces \union {None}]
           /\ late' \in BOOLEAN /\ ExistIn(view)' /\ crossed \in BOOLEAN
      BY <1>2, <1>6 DEF PageInv, PageTypes, ExistIn
    <2>12. ASSUME ~crossed' PROVE ScopeOK'
      <3>1. scope' = entered
        BY <1>3, <1>6, <2>12 DEF AnswerOK
      <3>2. ASSUME NEW p \in Slots, Lists(p)', operation'[p].at = "answered",
                   operation'[p].generation = generation'
            PROVE  scope' = operation'[p].target
        <4>1. operation'[o] = r /\ \A q \in Slots \ {o} : operation'[q] = operation[q]
          BY <2>6, SlotChanges DEF PageInv
        <4>2. CASE p = o
          BY <1>6, <2>6, <4>1, <4>2
        <4>3. CASE p # o
          <5>1. Lists(p) /\ operation'[p] = operation[p]
            BY <3>2, <4>1, <4>3 DEF Lists, Pending
          <5>2. operation[p].target = entered
            BY <1>2, <3>2, <5>1 DEF Lists, PageInv, OperationsOK, AnswerOK
          <5> QED
            BY <3>1, <5>1, <5>2
        <4> QED
          BY <4>2, <4>3
      <3> QED
        BY <1>2, <3>1, <3>2 DEF ScopeOK
    <2>13. crossed' \in BOOLEAN /\ scope' \in Workspaces \union {None}
      BY <1>6, <2>9, <2>11
    <2>14. /\ \A s \in Sessions : home'[s] = home[s]
           /\ \A s \in events' : s \in Sessions /\ home'[s] # None
           /\ r.kind # "create" /\ generation' = generation /\ entered' = entered /\ (late => late')
      BY <1>2, <1>4, <1>6, <2>6
    <2> QED
      BY <2>6, <2>7, <2>8, <2>10, <2>11, <2>12, <2>13, <2>14, SlotStep
  <1> QED
    BY <1>1, <1>2, <1>5, <1>6 DEF Handled, Activated

\* Main has done the work of an operation; a created session has its home now.
LEMMA WorkedKeeps ==
    ASSUME PageInv, NEW o \in Slots, Worked(o)
    PROVE  PageInv'
  <1>1. PICK op : op = operation[o]
    OBVIOUS
  <1>2. /\ op.kind # "none" /\ op.at = "working" /\ operation[o].kind # "none"
        /\ UNCHANGED <<view, generation, entered, late>>
    BY <1>1 DEF Worked
  <1>3. /\ op \in OperationType /\ Pending(o) /\ TargetOK(op) /\ AnswerOK(op)
        /\ ~late => RemembersOK(op)
    BY <1>1, <1>2, PendingTyped DEF PageInv, OperationsOK
  <1>4. \A s \in events : s \in Sessions /\ home[s] # None
    BY DEF PageInv
  <1>5. op.kind # "list"
    BY <1>2, <1>3 DEF AnswerOK
  <1>6. CASE Refused(o)
    <2>1. PICK a : a = "refused"
      OBVIOUS
    <2>2. /\ operation' = [operation EXCEPT ![o].at = a]
          /\ a \in {"working", "answered", "refused"}
          /\ UNCHANGED <<scope, home, events, crossed>>
      BY <1>6, <2>1 DEF Refused
    <2> QED
      BY <1>1, <1>2, <1>4, <1>5, <2>1, <2>2, PassesOn
  <1>7. CASE /\ op.kind \notin {"create", "freeze", "run", "complete"}
             /\ operation' = [operation EXCEPT ![o].at = "answered"]
             /\ UNCHANGED <<scope, home, events, crossed>>
    <2>1. PICK a : a = "answered"
      OBVIOUS
    <2>2. /\ operation' = [operation EXCEPT ![o].at = a]
          /\ a \in {"working", "answered", "refused"}
      BY <1>7, <2>1
    <2> QED
      BY <1>1, <1>2, <1>4, <1>5, <1>7, <2>1, <2>2, PassesOn
  <1>8. CASE /\ op.kind \in {"freeze", "run", "complete"} /\ home' = home
             /\ \E a \in {"answered", "refused"} :
                   operation' = [operation EXCEPT ![o].at = a]
             /\ events' \subseteq events \union {op.target} /\ UNCHANGED <<scope, crossed>>
    <2>1. PICK a \in {"answered", "refused"} : operation' = [operation EXCEPT ![o].at = a]
      BY <1>8
    <2>2. op.target \in Sessions /\ home[op.target] # None
      BY WorkbenchAssumption, <1>3, <1>8 DEF TargetOK, OfSession, OperationType
    <2>3. \A s \in events' : s \in Sessions /\ home[s] # None
      BY <1>4, <1>8, <2>2
    <2> QED
      BY <1>1, <1>2, <1>5, <1>8, <2>1, <2>3, PassesOn
  <1>9. CASE /\ op.kind = "create" /\ home' = [home EXCEPT ![op.target] = op.workspace]
             /\ \E a \in {"answered", "refused"} :
                   operation' = [operation EXCEPT ![o].at = a]
             /\ events' \subseteq events \union {op.target} /\ UNCHANGED <<scope, crossed>>
    <2>1. PICK a \in {"answered", "refused"} : operation' = [operation EXCEPT ![o].at = a]
      BY <1>9
    <2>2. PICK r : r = [op EXCEPT !.at = a]
      OBVIOUS
    <2>3. operation' = [operation EXCEPT ![o] = r]
      BY <1>1, <2>1, <2>2 DEF PageInv, PageTypes
    <2>4. op \in OperationType
      BY <1>3
    <2>5. /\ r \in OperationType
          /\ r.at = a /\ r.sessions = op.sessions /\ r.kind = op.kind
          /\ r.target = op.target
          /\ r.workspace = op.workspace /\ r.session = op.session /\ r.package = op.package
          /\ r.generation = op.generation
      BY ONLY <2>1, <2>2, <2>4 DEF OperationType
    <2>6. /\ op.target \in Sessions /\ op.workspace \in Workspaces /\ op.session = None
          /\ home[op.target] = None
      BY <1>2, <1>3, <1>9 DEF TargetOK, AnswerOK
    <2>7. None \notin Workspaces /\ home \in [Sessions -> Workspaces \union {None}]
      BY WorkbenchAssumption DEF PageInv, PageTypes
    <2>8. /\ home' \in [Sessions -> Workspaces \union {None}]
          /\ home'[op.target] = op.workspace
          /\ \A s \in Sessions : s # op.target => home'[s] = home[s]
          /\ \A s \in Sessions : home[s] # None => home'[s] = home[s]
      BY <1>9, <2>6, <2>7
    <2>9. Creates(o)
      BY <1>1, <1>2, <1>3, <1>9 DEF Creates
    <2>10. \A s \in Sessions : home'[s] # home[s] => Creates(o) /\ operation[o].target = s
      BY <1>1, <2>8, <2>9
    <2>11. \A s \in events' : s \in Sessions /\ home'[s] # None
      BY <1>4, <1>9, <2>6, <2>7, <2>8
    <2>12. TargetOK(r)'
      BY <1>2, <1>3, <2>5, <2>6, <1>9 DEF TargetOK, OfSession, OfWorkspace
    <2>13. AnswerOK(r)'
      BY <1>9, <2>1, <2>5, <2>6, <2>8 DEF AnswerOK
    <2>14. \A s \in view.listed \union ({view.session} \ {None}) :
              s \in Sessions /\ home[s] # None /\ home'[s] = home[s]
      BY <2>8 DEF PageInv, PageTypes, ViewType, ExistIn
    <2>15. ExistIn(view)'
      BY <1>2, <2>14 DEF ExistIn
    <2>16. ASSUME ~late'
           PROVE  view'.workspace = entered' /\ ShownOK(view)' /\ RemembersOK(r)'
      <3>1. view.workspace = entered /\ ShownOK(view) /\ RemembersOK(op)
        BY <1>2, <1>3, <2>16 DEF PageInv
      <3>2. ShownOK(view)'
        BY <1>2, <2>14, <3>1 DEF ShownOK, Belongs
      <3>3. RemembersOK(r)'
        BY <1>2, <1>9, <2>5, <2>6, <3>1 DEF RemembersOK
      <3> QED
        BY <1>2, <3>1, <3>2, <3>3
    <2>17. ~crossed' => ScopeOK'
      BY <1>2, <1>5, <1>9, <2>3, <2>5, ScopeKept
    <2>18. /\ view' \in ViewType /\ generation' \in 0 .. MaxEnters
           /\ entered' \in Workspaces \union {None} /\ scope' \in Workspaces \union {None}
           /\ crossed' \in BOOLEAN /\ late' \in BOOLEAN /\ (late => late')
           /\ generation' = generation /\ entered' = entered
           /\ r.at \notin {"sent", "working"}
      BY <1>2, <1>9, <2>1, <2>5 DEF PageInv, PageTypes
    <2> QED
      BY <2>3, <2>5, <2>8, <2>10, <2>11, <2>12, <2>13, <2>15, <2>16, <2>17, <2>18, SlotStep
  <1>10. CASE /\ op.kind \in {"create", "freeze", "run", "complete"}
              /\ home' = IF op.kind = "create"
                        THEN [home EXCEPT ![op.target] = op.workspace] ELSE home
              /\ \/ /\ operation' = [operation EXCEPT ![o].at = "answered"]
                    /\ events' = events \union {op.target}
                 \/ /\ operation' = [operation EXCEPT ![o].at = "refused"]
                    /\ UNCHANGED events
              /\ UNCHANGED <<scope, crossed>>
    <2>1. /\ \E a \in {"answered", "refused"} : operation' = [operation EXCEPT ![o].at = a]
          /\ events' \subseteq events \union {op.target}
      BY <1>10
    <2> QED
      BY <1>8, <1>9, <1>10, <2>1
  <1> QED
    BY <1>1, <1>6, <1>7, <1>10 DEF Worked, MayIssue

\* A run shows its session and loads the workspace of that session again.
LEMMA RunAnswerKeeps ==
    ASSUME PageInv, NEW o \in Slots, RunAnswer(o)
    PROVE  PageInv'
  <1>1. PICK op : op = operation[o]
    OBVIOUS
  <1>2. /\ op.kind = "run" /\ op.at \in {"answered", "refused"}
        /\ operation[o].kind # "none"
        /\ UNCHANGED <<generation, entered, scope, home, events, crossed>>
    BY <1>1 DEF RunAnswer, mainVars
  <1>3. op \in OperationType /\ Pending(o) /\ TargetOK(op) /\ (~late => RemembersOK(op))
    BY <1>1, <1>2, PendingTyped DEF PageInv, OperationsOK
  <1>4. /\ view \in ViewType /\ late \in BOOLEAN /\ ExistIn(view)
        /\ ~late => view.workspace = entered /\ ShownOK(view)
        /\ ~crossed => ScopeOK
    BY DEF PageInv, PageTypes
  <1>5. CASE op.at = "refused"
    <2>1. operation' = [operation EXCEPT ![o] = Idle] /\ UNCHANGED <<view, late>>
      BY <1>1, <1>5 DEF RunAnswer
    <2>2. /\ operation' \in [Slots -> OperationType \union {Idle}]
          /\ \A p \in Slots : operation'[p] \in {operation[p], Idle}
      BY <2>1, SlotEnds
    <2>3. ~crossed /\ view'.ready => scope = entered
      BY <1>4, <2>1 DEF ScopeOK
    <2> QED
      BY <1>2, <1>4, <2>1, <2>2, <2>3, PageStep
  <1>6. CASE op.at = "answered"
    <2>1. PICK s, h : s = op.target /\ h = home[op.target]
      OBVIOUS
    <2>2. s \in Sessions /\ s = op.session /\ h # None /\ home[s] = h
      BY WorkbenchAssumption, <1>2, <1>3, <2>1 DEF TargetOK, OfSession, OperationType
    <2>3. h \in Origins /\ generation \in 0 .. MaxEnters /\ None \notin Sessions
      BY WorkbenchAssumption, <2>2 DEF PageInv, PageTypes, Origins
    <2>4. PICK r : r = [op EXCEPT !.kind = "refresh", !.at = "sent", !.target = h, !.session = s,
                                  !.generation = generation]
      OBVIOUS
    <2>5. op \in OperationType
      BY <1>3
    <2>6. s \in Sessions \union {None} /\ "refresh" \in Kinds
      BY <2>2 DEF Kinds
    <2>7. /\ r \in OperationType
          /\ r.kind = "refresh" /\ r.at = "sent" /\ r.target = h /\ r.session = s
          /\ r.workspace = op.workspace /\ r.package = op.package
          /\ r.generation = generation
      BY ONLY <2>3, <2>4, <2>5, <2>6 DEF OperationType
    <2>8. operation' = [operation EXCEPT ![o] = r]
      BY <1>1, <1>6, <2>1, <2>4 DEF RunAnswer, PageInv, PageTypes
    <2>9. PICK v : v = [view EXCEPT !.session = s]
      OBVIOUS
    <2>10. view' = v /\ late' = (late \/ MovedOn(op))
      BY <1>1, <1>2, <1>6, <2>1, <2>9 DEF RunAnswer, Applied, SessionAnswer
    <2>11. /\ v \in ViewType
           /\ v.workspace = view.workspace /\ v.document = view.document
           /\ v.ready = view.ready
           /\ v.listed = view.listed /\ v.session = s /\ v.prefill = view.prefill
           /\ v.image = view.image /\ v.match = view.match /\ v.package = view.package
           /\ v.report = view.report
      BY ONLY <1>4, <2>6, <2>9 DEF ViewType
    <2>12. ExistIn(view)'
      BY <1>2, <1>4, <2>2, <2>10, <2>11 DEF ExistIn
    <2>13. late' \in BOOLEAN /\ (late => late')
      BY <1>4, <2>10
    <2>14. TargetOK(r)'
      BY <1>2, <2>2, <2>3, <2>7 DEF TargetOK, OfSession, OfWorkspace
    <2>15. AnswerOK(r)'
      BY <2>7 DEF AnswerOK
    <2>16. ASSUME ~late'
           PROVE  view'.workspace = entered' /\ ShownOK(view)' /\ RemembersOK(r)'
      <3>1. ~late /\ op.generation = generation /\ op.session = view.session
        BY <2>10, <2>13, <2>16 DEF MovedOn
      <3>2. view.workspace = entered /\ ShownOK(view) /\ RemembersOK(op)
        BY <1>3, <1>4, <3>1
      <3>3. v = view
        BY <1>4, <2>2, <2>9, <3>1 DEF ViewType
      <3>4. view'.workspace = entered' /\ ShownOK(view)'
        BY <1>2, <2>10, <3>2, <3>3 DEF ShownOK, Belongs
      <3>5. op.workspace = entered /\ home[s] = op.workspace
        BY <1>2, <2>2, <2>3, <3>1, <3>2 DEF RemembersOK
      <3>6. RemembersOK(r)'
        BY <1>2, <2>2, <2>7, <3>5 DEF RemembersOK
      <3> QED
        BY <3>4, <3>6
    <2>17. ~crossed' => ScopeOK'
      BY <1>2, <2>7, <2>8, <2>10, <2>11, ScopeKept
    <2>18. /\ entered' \in Workspaces \union {None} /\ scope' \in Workspaces \union {None}
           /\ home' \in [Sessions -> Workspaces \union {None}] /\ crossed' \in BOOLEAN
           /\ \A x \in Sessions : home'[x] = home[x]
           /\ \A x \in events' : x \in Sessions /\ home'[x] # None
           /\ view' \in ViewType /\ generation' \in 0 .. MaxEnters
      BY <1>2, <2>3, <2>10, <2>11 DEF PageInv, PageTypes
    <2> QED
      BY <1>2, <2>7, <2>8, <2>12, <2>13, <2>14, <2>15, <2>16, <2>17, <2>18, SlotStep
  <1> QED
    BY <1>2, <1>5, <1>6

\* Entering a workspace clears the page, and tells every earlier request from
\* those made since.
LEMMA LoadedKeeps ==
    ASSUME PageInv, NEW o \in Slots, Loaded(o)
    PROVE  PageInv'
  <1>1. PICK op : op = operation[o]
    OBVIOUS
  <1>2. /\ op.kind = "load" /\ op.at \in {"answered", "refused"}
        /\ operation[o].kind # "none"
        /\ UNCHANGED <<scope, home, events, crossed>>
    BY <1>1 DEF Loaded, mainVars
  <1>3. op \in OperationType /\ Pending(o) /\ TargetOK(op)
    BY <1>1, <1>2, PendingTyped DEF PageInv, OperationsOK
  <1>4. /\ view \in ViewType /\ late \in BOOLEAN /\ ExistIn(view)
        /\ ~late => view.workspace = entered /\ ShownOK(view)
        /\ ~crossed => ScopeOK
    BY DEF PageInv, PageTypes
  <1>5. CASE op.at = "refused"
    <2>1. /\ operation' = [operation EXCEPT ![o] = Idle]
          /\ UNCHANGED <<view, generation, entered, late>>
      BY <1>1, <1>5 DEF Loaded
    <2>2. /\ operation' \in [Slots -> OperationType \union {Idle}]
          /\ \A p \in Slots : operation'[p] \in {operation[p], Idle}
      BY <2>1, SlotEnds
    <2>3. ~crossed /\ view'.ready => scope = entered
      BY <1>4, <2>1 DEF ScopeOK
    <2> QED
      BY <1>2, <1>4, <2>1, <2>2, <2>3, PageStep
  <1>6. CASE op.at = "answered"
    <2>1. PICK w, g : w = op.target /\ g = generation + 1
      OBVIOUS
    <2>2. w \in Workspaces
      BY <1>2, <1>3, <2>1 DEF TargetOK
    <2>3. generation \in 0 .. MaxEnters /\ generation \in Nat /\ MaxEnters \in Nat
      BY WorkbenchAssumption DEF PageInv, PageTypes
    <2>4. /\ generation < MaxEnters /\ generation' = g /\ entered' = w
          /\ view' = Entered(view, w) /\ late' = FALSE
      BY <1>1, <1>6, <2>1 DEF Loaded
    <2>5. g \in 0 .. MaxEnters /\ generation' = generation + 1
      BY <2>1, <2>3, <2>4
    <2>6. PICK r : r = [op EXCEPT !.kind = "list", !.at = "sent", !.generation = g]
      OBVIOUS
    <2>7. op \in OperationType /\ "list" \in Kinds
      BY <1>3 DEF Kinds
    <2>8. /\ r \in OperationType
          /\ r.kind = "list" /\ r.at = "sent" /\ r.target = op.target
          /\ r.session = op.session
          /\ r.generation = g
      BY ONLY <2>5, <2>6, <2>7 DEF OperationType
    <2>9. operation' = [operation EXCEPT ![o] = r]
      BY <1>1, <1>6, <2>1, <2>6 DEF Loaded, PageInv, PageTypes
    <2>10. PICK c : c = CreationCleared(view)
      OBVIOUS
    <2>11. /\ c \in ViewType /\ c.session = None /\ c.prefill = None /\ c.image = None
           /\ c.match = None /\ c.package = None /\ c.report = None
      BY <1>4, <2>10, ClearedMakes
    <2>12. PICK v : v = [c EXCEPT !.ready = FALSE, !.listed = {}, !.workspace = w, !.document = w]
      OBVIOUS
    <2>13. w \in Workspaces \union {None} /\ {} \in SUBSET Sessions
      BY <2>2
    <2>14. /\ v \in ViewType
           /\ v.ready = FALSE /\ v.listed = {} /\ v.workspace = w /\ v.document = w
           /\ v.session = c.session /\ v.prefill = c.prefill /\ v.image = c.image
           /\ v.match = c.match /\ v.package = c.package /\ v.report = c.report
      BY ONLY <2>11, <2>12, <2>13 DEF ViewType
    <2>15. view' = v
      BY <2>4, <2>10, <2>12 DEF Entered
    <2>16. ExistIn(view)'
      BY <2>11, <2>14, <2>15 DEF ExistIn
    <2>17. TargetOK(r)'
      BY <1>2, <1>3, <2>1, <2>2, <2>4, <2>5, <2>8 DEF TargetOK, OfSession, OfWorkspace
    <2>18. AnswerOK(r)'
      BY <2>1, <2>4, <2>8 DEF AnswerOK
    <2>19. view'.workspace = entered' /\ ShownOK(view)'
      <3>1. None \notin Sessions /\ None \notin Workspaces
        BY WorkbenchAssumption
      <3> QED
        BY <2>4, <2>11, <2>14, <2>15, <3>1 DEF ShownOK, Belongs
    <2>20. RemembersOK(r)'
      BY <2>8 DEF RemembersOK
    <2>21. ScopeOK'
      <3>1. operation'[o] = r /\ \A p \in Slots \ {o} : operation'[p] = operation[p]
        BY <2>8, <2>9, SlotChanges DEF PageInv
      <3>2. ASSUME NEW p \in Slots, Lists(p)', operation'[p].at = "answered"
            PROVE  operation'[p].generation # generation'
        <4>1. p # o
          BY <2>8, <3>1, <3>2
        <4>2. operation'[p] = operation[p] /\ Pending(p)
          BY <3>1, <3>2, <4>1 DEF Lists, Pending
        <4>3. operation[p].generation \in Nat /\ operation[p].generation <= generation
          BY <4>2, TypedPending DEF PageInv, OperationsOK, TargetOK, OperationType
        <4> QED
          BY <2>3, <2>5, <4>2, <4>3
      <3> QED
        BY <2>14, <2>15, <3>2 DEF ScopeOK
    <2>22. /\ view' \in ViewType
           /\ entered' \in Workspaces \union {None} /\ scope' \in Workspaces \union {None}
           /\ home' \in [Sessions -> Workspaces \union {None}] /\ crossed' \in BOOLEAN
           /\ late' \in BOOLEAN
           /\ \A s \in Sessions : home'[s] = home[s]
           /\ \A s \in events' : s \in Sessions /\ home'[s] # None
      BY <1>2, <2>2, <2>4, <2>14, <2>15 DEF PageInv, PageTypes
    <2>23. generation' \in 0 .. MaxEnters /\ r.kind # "create"
      BY <2>1, <2>4, <2>5, <2>8
    <2> QED
      BY <2>5, <2>8, <2>9, <2>16, <2>17, <2>18, <2>19, <2>20, <2>21, <2>22, <2>23, SlotStep
  <1> QED
    BY <1>2, <1>5, <1>6

\* The page starts empty.
LEMMA PageStarts == ASSUME Init PROVE PageInv
  <1>1. /\ \A o \in Slots : operation[o] = Idle
        /\ operation \in [Slots -> OperationType \union {Idle}]
    BY DEF Init
  <1>2. \A o \in Slots : ~Pending(o)
    BY <1>1 DEF Pending
  <1>3. None \in Origins /\ None \notin Workspaces /\ None \notin Sessions
    BY WorkbenchAssumption DEF Origins
  <1>4. /\ view.workspace = None /\ view.document = None /\ view.ready = FALSE
        /\ view.listed = {}
        /\ view.session = None /\ view.prefill = None /\ view.image = None
        /\ view.match = None /\ view.package = None /\ view.report = None
        /\ view \in ViewType
    BY <1>3 DEF Init, EmptyView, ViewType
  <1>5. PageTypes
    <2>1. /\ generation = 0 /\ entered = None /\ scope = None
          /\ home \in [Sessions -> Workspaces \union {None}]
          /\ crossed = FALSE /\ late = FALSE
      BY DEF Init
    <2>2. generation \in 0 .. MaxEnters
      BY WorkbenchAssumption, <2>1
    <2> QED
      BY <1>1, <1>4, <2>1, <2>2 DEF PageTypes
  <1>6. OperationsOK /\ ScopeOK
    BY <1>2, <1>4 DEF OperationsOK, Creates, ScopeOK, Lists
  <1>7. ExistIn(view) /\ ShownOK(view) /\ view.workspace = entered /\ events = {}
    BY <1>3, <1>4 DEF ExistIn, ShownOK, Belongs, Init
  <1> QED
    BY <1>2, <1>5, <1>6, <1>7 DEF PageInv

\* PageInv is an inductive invariant of Workbench.tla: what the page shows, what its
\* operations remember and the scope Main keeps fit together, for any number of
\* workspaces, sessions and operations at a time.
THEOREM Inductive == Spec => []PageInv
  <1>1. Init => PageInv
    BY PageStarts
  <1>2. PageInv /\ [Next]_vars => PageInv'
    <2> SUFFICES ASSUME PageInv, [Next]_vars PROVE PageInv'
      OBVIOUS
    <2>1. CASE UNCHANGED vars
      <3>1. UNCHANGED <<view, generation, entered, operation, scope, home, events, crossed,
                        late>>
        BY <2>1 DEF vars
      <3> QED
        BY <3>1
           DEF PageInv, PageTypes, OperationsOK, TargetOK, AnswerOK, RemembersOK, Belongs,
                    ShownOK, ExistIn, ScopeOK, Pending, Lists, Creates
    <2>2. ASSUME NEW o \in Slots,
                 \/ Open(o) \/ WorkspaceOperation(o) \/ Create(o)
                 \/ SessionOperation(o) \/ PackageOperation(o) \/ Match(o)
                 \/ Handled(o) \/ Worked(o)
                 \/ Answer(o) \/ RunAnswer(o) \/ Loaded(o) \/ Listed(o)
          PROVE  PageInv'
      <3>1. CASE \/ Open(o) \/ WorkspaceOperation(o) \/ Create(o)
                 \/ SessionOperation(o) \/ PackageOperation(o) \/ Match(o)
        BY <3>1, ClickedKeeps
      <3>2. CASE Handled(o) \/ Worked(o)
        BY <3>2, HandledKeeps, WorkedKeeps
      <3>3. CASE Answer(o) \/ RunAnswer(o) \/ Loaded(o) \/ Listed(o)
        BY <3>3, AnswerKeeps, RunAnswerKeeps, LoadedKeeps, ListedKeeps
      <3> QED
        BY <2>2, <3>1, <3>2, <3>3
    <2>3. CASE \/ Restore \/ PickImage \/ PickPackage \/ RecentPackage \/ EventArrives
      BY <2>3, RestoreKeeps, PicksKeep, EventKeeps
    <2> QED
      BY <2>1, <2>2, <2>3 DEF Next
  <1> QED
    BY <1>1, <1>2, PTL DEF Spec

\* The page, the operations and Main's scope keep their types.
THEOREM TypeCorrect == Spec => []TypeOK
  <1>1. PageInv => TypeOK
    BY DEF PageInv, PageTypes, ViewType, TypeOK
  <1> QED
    BY <1>1, Inductive, PTL

\* enterWorkspaceScope's generation is enough: whatever order the answers of several
\* openings come in, the page offers to create and restore sessions only when those
\* of the workspace entered last have arrived, and what an earlier one left behind
\* is gone.
THEOREM LatestEnterWins == Spec => []LastEnterWins
  <1>1. PageInv => LastEnterWins
    BY DEF PageInv, ShownOK, LastEnterWins
  <1> QED
    BY <1>1, Inductive, PTL

\* The page offers to create sessions only in the workspace that
\* getCreationSessions made the active scope, unless Main took up the request of an
\* overtaken opening last.
THEOREM ScopesAgree == Spec => []ScopeAgrees
  <1>1. PageInv => ScopeAgrees
    BY DEF PageInv, ScopeOK, ScopeAgrees
  <1> QED
    BY <1>1, Inductive, PTL

\* From an opening on, as long as every answer finds the page as its operation left
\* it, the session, the list, the image, the package and the report on the page
\* belong together.
THEOREM ViewIsScoped == Spec => []ScopedView
  <1>1. PageInv => ScopedView
    BY DEF PageInv, ShownOK, Belongs, ScopedView, Own
  <1> QED
    BY <1>1, Inductive, PTL
=============================================================================
