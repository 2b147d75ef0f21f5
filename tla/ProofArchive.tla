---------------------------- MODULE ProofArchive ----------------------------
(***************************************************************************)
(* What a proof workspace promises to the callers of its operations,       *)
(* independently of the files it is kept in: what a writer was answered ok *)
(* for is in the workspace; a package holds nothing that was not answered, *)
(* and all that had been when its sealing began; the package at a path is  *)
(* final.  There is no lock: what a writer was answered for that has raced *)
(* with another one of its file may be missing from the workspace and from *)
(* packages.  Once answered without a race, nothing is ever lost.          *)
(* Failures and killed processes show nowhere; a writer that is killed     *)
(* after its write counts as answered.                                     *)
(* ProofWorkspace is shown to implement this specification.                *)
(***************************************************************************)
CONSTANTS
    Writers,    \* operations that add an asset or an event
    Seals,      \* operations that make a package
    Outputs,    \* paths of packages
    Target,     \* the path of a seal
    None

VARIABLES
    answered,   \* the writers that were answered ok
    contents,   \* what is in the workspace, each thing named by its writer
    sealing,    \* the seals that have begun
    owed,       \* what had been answered when a seal began
    published,  \* what is at a path: by which seal, and what it holds
    raced       \* the writers that have overlapped another one of their file

vars == <<answered, contents, sealing, owed, published, raced>>

Init ==
    /\ answered = {}
    /\ contents = {}
    /\ sealing = {}
    /\ owed = [s \in Seals |-> {}]
    /\ published = [p \in Outputs |-> [seal |-> None, holds |-> {}]]
    /\ raced = {}

\* A writer is answered ok, and what it wrote is there.  Of what was written
\* before, only what a racing writer wrote may be lost, or may be back.
Answer(o) ==
    /\ o \notin answered
    /\ answered' = answered \union {o}
    /\ \E kept \in SUBSET answered :
          /\ contents' = kept \union {o}
          /\ answered \ raced \subseteq kept
    /\ UNCHANGED <<sealing, owed, published, raced>>

\* A seal begins.
Begin(s) ==
    /\ s \notin sealing
    /\ sealing' = sealing \union {s}
    /\ owed' = [owed EXCEPT ![s] = answered]
    /\ UNCHANGED <<answered, contents, published, raced>>

\* It puts its package at a path that is free.
Publish(s) ==
    /\ s \in sealing
    /\ published[Target[s]].seal = None
    /\ \E holds \in SUBSET answered :
          /\ owed[s] \ raced \subseteq holds
          /\ published' = [published EXCEPT ![Target[s]] =
                               [seal |-> s, holds |-> holds]]
    /\ UNCHANGED <<answered, contents, sealing, owed, raced>>

\* Writers of one file are under way at the same time.  It is too late for those
\* that have been answered to race.
Race ==
    /\ \E racing \in SUBSET (Writers \ answered) : raced' = raced \union racing
    /\ UNCHANGED <<answered, contents, sealing, owed, published>>

Next ==
    \/ \E o \in Writers : Answer(o)
    \/ \E s \in Seals : Begin(s) \/ Publish(s)
    \/ Race

Spec == Init /\ [][Next]_vars
=============================================================================
