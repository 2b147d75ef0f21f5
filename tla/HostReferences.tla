--------------------------- MODULE HostReferences ---------------------------
(***************************************************************************)
(* The references Main hands to a renderer in place of paths               *)
(* (AuthorityRegistry, apps/desktop/src/main/authority.ts), and the two    *)
(* ways the IPC handlers spend them (apps/desktop/src/main/ipc.ts):        *)
(*                                                                         *)
(*   - startAuthorizedJob resolves every reference of the request, puts    *)
(*     the job in the scheduler's queue and then consumes the one-use ones;*)
(*   - the handlers that work themselves or call the Utility directly      *)
(*     resolve, work, and consume at the end.                              *)
(*                                                                         *)
(* A behaviour is about one operation: its references are issued to a      *)
(* renderer, each by one of the places the workbench has it from           *)
(* (HostOperations), and several requests carry the same ones, as when a   *)
(* button is pressed twice, a failed request is tried again, or another    *)
(* renderer has come to know a reference.                                  *)
(*                                                                         *)
(* resolve checks the record, then awaits the file system (canonicalize);  *)
(* the handlers of other requests run in the meantime.  What follows an    *)
(* await up to the next one is one step.                                   *)
(***************************************************************************)
EXTENDS HostOperations

CONSTANTS
    Requests,
    Renderers,   \* webContents ids
    Owner,       \* the one the references are issued to
    Sender,      \* the renderer a request comes from
    MaxChanges   \* bound: how many expiries and moves of files a run has

ASSUME ReferenceAssumption ==
    /\ Owner \in Renderers
    /\ Sender \in [Requests -> Renderers]
    /\ MaxChanges \in Nat

VARIABLES
    operation,   \* what the requests ask for
    inputs,      \* the references they carry, in the order they are resolved
    source,      \* where each of them was issued
    known,       \* keys of #records
    consumed,    \* records with consumed set
    expired,     \* references whose expiresAt has passed
    moved,       \* references whose path resolves to another file now
    at,          \* where the handler of a request is
    step,        \* which of its references it is resolving
    answer,      \* what the renderer was told
    worked,      \* requests whose job was queued or executed
    late,        \* history: requests that came when a one-use reference of
                 \* theirs had been spent
    changes      \* how many expiries and moves there were

vars == <<operation, inputs, source, known, consumed, expired, moved, at, step,
          answer, worked, late, changes>>

form == <<operation, inputs, source>>

Refs == DOMAIN inputs

Record(r) == GrantOf[source[r]]
OneUse    == {r \in Refs : Record(r).oneUse}

Codes == {"HOST_REFERENCE_KIND_MISMATCH", "HOST_REFERENCE_UNKNOWN", "HOST_REFERENCE_ORIGIN_MISMATCH",
          "HOST_REFERENCE_PERMISSION_DENIED", "HOST_REFERENCE_REUSED",
          "HOST_REFERENCE_EXPIRED", "HOST_REFERENCE_PATH_CHANGED",
          "JOB_QUEUE_FULL", "FAILED"}

Init ==
    /\ operation \in Operations
    /\ inputs \in InputsOf(operation)
    /\ source \in {f \in [DOMAIN inputs -> Sources] :
                      \A r \in DOMAIN inputs : f[r] \in inputs[r].from}
    /\ known = {} /\ consumed = {} /\ expired = {} /\ moved = {}
    /\ at = [q \in Requests |-> "idle"]
    /\ step = [q \in Requests |-> 1]
    /\ answer = [q \in Requests |-> "none"]
    /\ worked = {}
    /\ late = {}
    /\ changes = 0

-----------------------------------------------------------------------------
(* The registry.                                                            *)

\* issue, after its canonicalize.
Issue(r) ==
    /\ r \notin known \union expired \union moved
    /\ known' = known \union {r}
    /\ UNCHANGED <<form, consumed, expired, moved, at, step, answer, worked, late,
                   changes>>

\* The clock passes expiresAt.
Expire(r) ==
    /\ changes < MaxChanges /\ changes' = changes + 1
    /\ r \in known \ expired
    /\ expired' = expired \union {r}
    /\ UNCHANGED <<form, known, consumed, moved, at, step, answer, worked, late>>

\* The user, or another program, replaces the file or moves it back.
Move(r) ==
    /\ changes < MaxChanges /\ changes' = changes + 1
    /\ r \in known
    /\ moved' = IF r \in moved THEN moved \ {r} ELSE moved \union {r}
    /\ UNCHANGED <<form, known, consumed, expired, at, step, answer, worked, late>>

\* Mutant of Check: the consumed flag is only looked at by consume.
CheckIgnoresConsumed(q, r) ==
    IF r \notin known THEN "HOST_REFERENCE_UNKNOWN"
    ELSE IF Record(r).kind # inputs[r].kind THEN "HOST_REFERENCE_KIND_MISMATCH"
    ELSE IF Owner # Sender[q] THEN "HOST_REFERENCE_ORIGIN_MISMATCH"
    ELSE IF inputs[r].permission \notin Record(r).permissions
         THEN "HOST_REFERENCE_PERMISSION_DENIED"
    ELSE IF r \in expired THEN "HOST_REFERENCE_EXPIRED"
    ELSE "none"

\* What resolve checks before it awaits, in its order.  What a renderer may
\* have changed in a reference it sends is not modelled.
Check(q, r) ==
    IF r \notin known THEN "HOST_REFERENCE_UNKNOWN"
    ELSE IF Record(r).kind # inputs[r].kind THEN "HOST_REFERENCE_KIND_MISMATCH"
    ELSE IF Owner # Sender[q] THEN "HOST_REFERENCE_ORIGIN_MISMATCH"
    ELSE IF inputs[r].permission \notin Record(r).permissions
         THEN "HOST_REFERENCE_PERMISSION_DENIED"
    ELSE IF r \in consumed THEN "HOST_REFERENCE_REUSED"
    ELSE IF r \in expired THEN "HOST_REFERENCE_EXPIRED"
    ELSE "none"

\* Mutant of Consumable: consume does not look at the flag.
ConsumableAgain(q, r) ==
    /\ r \in known
    /\ Record(r).kind = inputs[r].kind /\ Owner = Sender[q]
    /\ inputs[r].permission \in Record(r).permissions

\* What consume checks; it does not look at the time.
Consumable(q, r) ==
    /\ r \in known /\ r \notin consumed
    /\ Record(r).kind = inputs[r].kind /\ Owner = Sender[q]
    /\ inputs[r].permission \in Record(r).permissions

-----------------------------------------------------------------------------
(* The handlers.                                                            *)

Answered(q, a) ==
    /\ at' = [at EXCEPT ![q] = "answered"]
    /\ answer' = [answer EXCEPT ![q] = a]

\* resolve of the n-th reference up to its await: an expired record is
\* deleted, and any error ends the handler.
Resolve(q, n) ==
    LET error == Check(q, n)
    IN /\ known' = IF error = "HOST_REFERENCE_EXPIRED" THEN known \ {n} ELSE known
       /\ step' = [step EXCEPT ![q] = n]
       /\ IF error = "none"
          THEN at' = [at EXCEPT ![q] = "resolving"] /\ UNCHANGED answer
          ELSE Answered(q, error)
       /\ UNCHANGED <<form, consumed, expired, moved, worked, changes>>

Receive(q) ==
    /\ at[q] = "idle"
    /\ Refs = known \union expired
    /\ late' = IF consumed # {} THEN late \union {q} ELSE late
    /\ Resolve(q, 1)

Resolved(q) == at[q] = "resolving" /\ step[q] \notin moved

\* canonicalize found another file.
ResolveFails(q) ==
    /\ at[q] = "resolving" /\ step[q] \in moved
    /\ Answered(q, "HOST_REFERENCE_PATH_CHANGED")
    /\ UNCHANGED <<form, known, consumed, expired, moved, step, worked, late, changes>>

ResolveNext(q) ==
    /\ Resolved(q) /\ step[q] < Len(inputs)
    /\ Resolve(q, step[q] + 1)
    /\ UNCHANGED late

\* The handler consumes what it has to, one after the other; the first that
\* cannot be throws, and the renderer is told so, although the work is done.
ConsumeAll(q) ==
    LET Fails(r) == inputs[r].consumed /\ ~Consumable(q, r)
        Before(r) == \A m \in Refs : Fails(m) => r < m
    IN /\ consumed' = consumed \union
              {r \in OneUse : inputs[r].consumed /\ Before(r)}
       /\ Answered(q, IF \E r \in Refs : Fails(r)
                      THEN "HOST_REFERENCE_REUSED" ELSE "ok")
       /\ worked' = worked \union {q}

\* Mutant of Refuse: the references of a refused job are spent all the same.
RefuseAndConsume(q, code) ==
    /\ Answered(q, code)
    /\ consumed' = consumed \union OneUse
    /\ UNCHANGED <<form, known, expired, moved, step, worked, late, changes>>

\* No work was done, and nothing is consumed.
Refuse(q, code) ==
    /\ Answered(q, code)
    /\ UNCHANGED <<form, known, consumed, expired, moved, step, worked, late, changes>>

\* startAuthorizedJob: scheduler.enqueue, then consume, in one go; with a full
\* queue the references stay usable.
Enqueue(q) ==
    /\ Resolved(q) /\ step[q] = Len(inputs) /\ operation \in DOMAIN JobInputs
    /\ \/ Refuse(q, "JOB_QUEUE_FULL")
       \/ ConsumeAll(q) /\ UNCHANGED <<form, known, expired, moved, step, late, changes>>

\* The other handlers read their files and await executeUtility.
Execute(q) ==
    /\ Resolved(q) /\ step[q] = Len(inputs) /\ operation \in DOMAIN DirectInputs
    /\ at' = [at EXCEPT ![q] = "executing"]
    /\ UNCHANGED <<form, known, consumed, expired, moved, step, answer, worked,
                   late, changes>>

ExecuteReturns(q) ==
    /\ at[q] = "executing"
    /\ \/ Refuse(q, "FAILED")
       \/ ConsumeAll(q) /\ UNCHANGED <<form, known, expired, moved, step, late, changes>>

Handle(q) == ResolveFails(q) \/ ResolveNext(q) \/ Enqueue(q) \/ Execute(q)
                \/ ExecuteReturns(q)

Next ==
    \/ \E r \in Refs : Issue(r) \/ Expire(r) \/ Move(r)
    \/ \E q \in Requests : Receive(q) \/ Handle(q)

Spec == Init /\ [][Next]_vars

-----------------------------------------------------------------------------
(* Properties.                                                              *)

TypeOK ==
    /\ operation \in Operations /\ inputs \in InputsOf(operation)
    /\ source \in [Refs -> Sources]
    /\ known \subseteq Refs /\ expired \subseteq Refs /\ moved \subseteq Refs
    /\ consumed \subseteq OneUse
    /\ at \in [Requests -> {"idle", "resolving", "executing", "answered"}]
    /\ step \in [Requests -> Nat]
    /\ \A q \in Requests : step[q] \in Refs
    /\ answer \in [Requests -> {"none", "ok"} \union Codes]
    /\ worked \subseteq Requests /\ late \subseteq Requests
    /\ changes \in 0 .. MaxChanges

\* At most one request is told that it has used a one-use reference, and it is
\* spent by then, however the awaits of the handlers interleave.
SpentOnce ==
    OneUse # {} =>
        /\ \A p, q \in Requests : answer[p] = "ok" /\ answer[q] = "ok" => p = q
        /\ \A q \in Requests : answer[q] = "ok" => OneUse \subseteq consumed

\* A reference is only spent by work that was done: after a full queue or a
\* failed execution the user need not select the file again.
SpentForWork == consumed # {} => worked # {}

\* A request that comes when its one-use reference has been spent does no
\* work, whatever it awaited before it came to that reference.
LateDoesNoWork == late \intersect worked = {}

\* What the workbench passes to an operation, Main has issued for it: wherever
\* the page has a reference from, a request of its owner is never refused for
\* the kind of the reference or for a permission it lacks.
GrantsSuffice ==
    \A q \in Requests :
        answer[q] \in {"HOST_REFERENCE_KIND_MISMATCH",
                       "HOST_REFERENCE_PERMISSION_DENIED"} => Sender[q] # Owner
=============================================================================
