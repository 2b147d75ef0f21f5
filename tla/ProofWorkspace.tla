--------------------------- MODULE ProofWorkspace ---------------------------
(***************************************************************************)
(* A proof workspace on disk and the operations of proof-core that work on *)
(* it: add_asset and record_event (workspace.rs), the C2PA observation     *)
(* that ends in record_event (c2pa_bridge.rs), the event chain             *)
(* (event_chain.rs) and seal_workspace with its self-check (package.rs,    *)
(* verify.rs).                                                             *)
(*                                                                         *)
(* An operation runs in a process of its own: a Utility of the desktop     *)
(* application or a run of the command line.  There is no lock.  Each step *)
(* below is one access to the file system: a file is read as a whole, and  *)
(* replaced or created by renaming a temporary one.  A process may be      *)
(* killed, or meet an error, between any two of them.                      *)
(*                                                                         *)
(* An event is made by one operation, once, so its id stands for its hash; *)
(* the bytes of an asset are those that were added, or other ones.         *)
(***************************************************************************)
EXTENDS Naturals, Sequences

CONSTANTS
    Adds,       \* calls of add_asset, each named by the asset it adds
    Records,    \* calls that record an event, each named by the event
    About,      \* the asset a C2PA observation is about (None: another event)
    Seals,      \* calls of seal_workspace
    Signed,     \* the ones that sign (protocol 1.0); the others are legacy 0.2
    Outputs,    \* paths packages are written to
    Target,     \* the output path of a seal
    MaxFaults,  \* bound: changes of files by others, errors, killed processes
    None

ASSUME WorkspaceAssumption ==
    /\ Adds \intersect Records = {} /\ Adds \intersect Seals = {}
    /\ Records \intersect Seals = {}
    /\ None \notin Adds \union Records \union Seals
    /\ About \in [Records -> Adds \union {None}]
    /\ Signed \subseteq Seals
    /\ Target \in [Seals -> Outputs]
    /\ MaxFaults \in Nat

VARIABLES
    record,      \* the assets of proof-workspace.json
    files,       \* the files of assets/
    events,      \* events/events.json
    packages,    \* what is at the output paths
    at,          \* where an operation is
    seenAssets,  \* the assets it has read
    seenEvents,  \* the chain it has read
    before,      \* history: what had been answered ok when a seal began
    overlapped,  \* history: the writers that were between their read and their
                 \* write while another one of the same file was
    faults

vars == <<record, files, events, packages, at, seenAssets, seenEvents,
          before, overlapped, faults>>

Ops == Adds \union Records \union Seals

Event == [id : Records, about : Adds \union {None}, sequence : Nat \ {0},
          previous : Records \union {None}]

Ids(chain) == {chain[i].id : i \in DOMAIN chain}

NoPackage == [assets |-> {}, events |-> <<>>, signed |-> FALSE, seal |-> None]

Places == {"idle", "copying", "persisted", "observed", "extending", "hashing",
           "hashed", "writing", "checking", "publishing",
           "ok", "failed", "stopped"}

Ended == {"idle", "ok", "failed", "stopped"}

Init ==
    /\ record = {}
    /\ files = [a \in Adds |-> "absent"]
    /\ events = <<>>
    /\ packages = [p \in Outputs |-> NoPackage]
    /\ at = [o \in Ops |-> "idle"]
    /\ seenAssets = [o \in Ops |-> {}]
    /\ seenEvents = [o \in Ops |-> <<>>]
    /\ before = [s \in Seals |-> {}]
    /\ overlapped = {}
    /\ faults = 0

Goes(o, place) == at' = [at EXCEPT ![o] = place]

\* o has read its file while others are going to write it.
Overlaps(o, others) ==
    overlapped' = IF others = {} THEN overlapped
                  ELSE overlapped \union others \union {o}

-----------------------------------------------------------------------------
(* add_asset.                                                               *)

\* The record is read.  A call that is refused for its source, its name or the
\* size limits changes nothing: it is one that never begins.
AddStarts(a) ==
    /\ at[a] = "idle" /\ Goes(a, "copying")
    /\ seenAssets' = [seenAssets EXCEPT ![a] = record]
    /\ Overlaps(a, {b \in Adds \ {a} : at[b] \in {"copying", "persisted"}})
    /\ UNCHANGED <<record, files, events, packages, seenEvents, before, faults>>

\* Mutant of AddPersists: the record is written before the file is there.
AddRecordsFirst(a) ==
    /\ at[a] = "copying" /\ Goes(a, "persisted")
    /\ record' = seenAssets[a] \union {a}
    /\ UNCHANGED <<files, events, packages, seenAssets, seenEvents, before,
                   overlapped, faults>>

\* The copy gets its name.
AddPersists(a) ==
    /\ at[a] = "copying" /\ Goes(a, "persisted")
    /\ files' = [files EXCEPT ![a] = "good"]
    /\ UNCHANGED <<record, events, packages, seenAssets, seenEvents, before,
                   overlapped, faults>>

\* The record that was read, with the new asset, replaces the one there is.
AddWrites(a) ==
    /\ at[a] = "persisted" /\ Goes(a, "ok")
    /\ record' = seenAssets[a] \union {a}
    /\ UNCHANGED <<files, events, packages, seenAssets, seenEvents, before,
                   overlapped, faults>>

\* Mutant of AddFails: the error of write_workspace is ignored.
AddIgnoresFailure(a) ==
    /\ at[a] = "persisted" /\ Goes(a, "ok")
    /\ UNCHANGED <<record, files, events, packages, seenAssets, seenEvents,
                   before, overlapped, faults>>

\* The record cannot be written: the file is taken back.
AddFails(a) ==
    /\ at[a] = "persisted" /\ Goes(a, "failed")
    /\ files' = [files EXCEPT ![a] = "absent"]
    /\ UNCHANGED <<record, events, packages, seenAssets, seenEvents, before,
                   overlapped, faults>>

-----------------------------------------------------------------------------
(* record_event.                                                            *)

\* verify_event_chain: sequence numbers, links and unique ids.
ValidChain(chain) ==
    /\ \A i \in DOMAIN chain :
          /\ chain[i].sequence = i
          /\ chain[i].previous = IF i = 1 THEN None ELSE chain[i - 1].id
    /\ \A i, j \in DOMAIN chain : chain[i].id = chain[j].id => i = j

\* create_event.
NewEvent(chain, e) ==
    [id |-> e, about |-> About[e], sequence |-> Len(chain) + 1,
     previous |-> IF chain = <<>> THEN None ELSE chain[Len(chain)].id]

\* create_c2pa_observation: the asset is one of the record, with its digest.
Observes(e) ==
    /\ at[e] = "idle" /\ About[e] # None
    /\ Goes(e, IF About[e] \in record /\ files[About[e]] = "good"
               THEN "observed" ELSE "failed")
    /\ UNCHANGED <<record, files, events, packages, seenAssets, seenEvents,
                   before, overlapped, faults>>

\* The chain is read and verified.
RecordReads(e) ==
    /\ at[e] = IF About[e] = None THEN "idle" ELSE "observed"
    /\ IF ValidChain(events)
       THEN /\ Goes(e, "extending")
            /\ seenEvents' = [seenEvents EXCEPT ![e] = events]
            /\ Overlaps(e, {d \in Records \ {e} : at[d] = "extending"})
       ELSE Goes(e, "failed") /\ UNCHANGED <<seenEvents, overlapped>>
    /\ UNCHANGED <<record, files, events, packages, seenAssets, before, faults>>

\* Mutant of RecordWrites: the event is appended to the file in place.
RecordAppends(e) ==
    /\ at[e] = "extending" /\ Goes(e, "ok")
    /\ events' = Append(events, NewEvent(seenEvents[e], e))
    /\ UNCHANGED <<record, files, packages, seenAssets, seenEvents, before,
                   overlapped, faults>>

\* The chain that was read, with the new event, replaces the one there is.  (Its
\* size is not looked at here; only load_events refuses more than 16 MiB.)
RecordWrites(e) ==
    /\ at[e] = "extending" /\ Goes(e, "ok")
    /\ events' = Append(seenEvents[e], NewEvent(seenEvents[e], e))
    /\ UNCHANGED <<record, files, packages, seenAssets, seenEvents, before,
                   overlapped, faults>>

-----------------------------------------------------------------------------
(* seal_workspace.                                                          *)

Free(p) == packages[p].seal = None

\* The output must not exist, and the record must name an asset.
SealStarts(s) ==
    /\ at[s] = "idle"
    /\ IF Free(Target[s]) /\ record # {}
       THEN Goes(s, "hashing") /\ seenAssets' = [seenAssets EXCEPT ![s] = record]
       ELSE Goes(s, "failed") /\ UNCHANGED seenAssets
    /\ before' = [before EXCEPT ![s] =
                      {o \in Adds \union Records : at[o] = "ok"}]
    /\ UNCHANGED <<record, files, events, packages, seenEvents, overlapped,
                   faults>>

Intact(s) == \A a \in seenAssets[s] : files[a] = "good"

\* Mutant of SealHashes: an asset that does not match is left out.
SealSkipsAssets(s) ==
    /\ at[s] = "hashing" /\ Goes(s, "hashed")
    /\ seenAssets' = [seenAssets EXCEPT ![s] = {a \in @ : files[a] = "good"}]
    /\ UNCHANGED <<record, files, events, packages, seenEvents, before,
                   overlapped, faults>>

\* Every asset is hashed and compared with the record.
SealHashes(s) ==
    /\ at[s] = "hashing" /\ Goes(s, IF Intact(s) THEN "hashed" ELSE "failed")
    /\ UNCHANGED <<record, files, events, packages, seenAssets, seenEvents,
                   before, overlapped, faults>>

\* The chain is read and verified; the manifest is made of it and signed.
SealReadsEvents(s) ==
    /\ at[s] = "hashed"
    /\ IF ValidChain(events)
       THEN Goes(s, "writing") /\ seenEvents' = [seenEvents EXCEPT ![s] = events]
       ELSE Goes(s, "failed") /\ UNCHANGED seenEvents
    /\ UNCHANGED <<record, files, events, packages, seenAssets, before,
                   overlapped, faults>>

\* write_zip into a temporary file: the assets are copied and hashed again.
SealWrites(s) ==
    /\ at[s] = "writing" /\ Goes(s, IF Intact(s) THEN "checking" ELSE "failed")
    /\ UNCHANGED <<record, files, events, packages, seenAssets, seenEvents,
                   before, overlapped, faults>>

Observations(chain) == {i \in DOMAIN chain : chain[i].about # None}

\* verify_package as far as it depends on what was read: observations count in
\* signed packages only (collect_c2pa_evidence), one for each declared asset.
Verifies(assets, chain, signed) ==
    /\ assets # {} /\ ValidChain(chain)
    /\ signed =>
          /\ \A i \in Observations(chain) : chain[i].about \in assets
          /\ \A i, j \in Observations(chain) :
                chain[i].about = chain[j].about => i = j

SealChecks(s) ==
    /\ at[s] = "checking"
    /\ Goes(s, IF Verifies(seenAssets[s], seenEvents[s], s \in Signed)
               THEN "publishing" ELSE "failed")
    /\ UNCHANGED <<record, files, events, packages, seenAssets, seenEvents,
                   before, overlapped, faults>>

Package(s) == [assets |-> seenAssets[s], events |-> seenEvents[s],
               signed |-> s \in Signed, seal |-> s]

\* persist_noclobber.
SealPersists(s) ==
    /\ at[s] = "publishing"
    /\ IF Free(Target[s])
       THEN /\ Goes(s, "ok")
            /\ packages' = [packages EXCEPT ![Target[s]] = Package(s)]
       ELSE Goes(s, "failed") /\ UNCHANGED packages
    /\ UNCHANGED <<record, files, events, seenAssets, seenEvents, before,
                   overlapped, faults>>

-----------------------------------------------------------------------------
(* The environment.                                                         *)

\* Another program changes or restores the file of an asset.
Changes(a) ==
    /\ faults < MaxFaults /\ faults' = faults + 1
    /\ files[a] # "absent"
    /\ files' = [files EXCEPT ![a] = IF @ = "good" THEN "changed" ELSE "good"]
    /\ UNCHANGED <<record, events, packages, at, seenAssets, seenEvents, before,
                   overlapped>>

\* An error ends the operation, or its process is killed.
Stops(o) ==
    /\ faults < MaxFaults /\ faults' = faults + 1
    /\ at[o] \notin Ended /\ Goes(o, "stopped")
    /\ UNCHANGED <<record, files, events, packages, seenAssets, seenEvents,
                   before, overlapped>>

AddSteps(a) == AddStarts(a) \/ AddPersists(a) \/ AddWrites(a) \/ AddFails(a)

RecordSteps(e) == Observes(e) \/ RecordReads(e) \/ RecordWrites(e)

SealSteps(s) ==
    \/ SealStarts(s) \/ SealHashes(s) \/ SealReadsEvents(s)
    \/ SealWrites(s) \/ SealChecks(s) \/ SealPersists(s)

Next ==
    \/ \E a \in Adds : AddSteps(a) \/ Changes(a)
    \/ \E e \in Records : RecordSteps(e)
    \/ \E s \in Seals : SealSteps(s)
    \/ \E o \in Ops : Stops(o)

Spec == Init /\ [][Next]_vars

-----------------------------------------------------------------------------
(* Properties.                                                              *)

TypeOK ==
    /\ record \subseteq Adds
    /\ files \in [Adds -> {"absent", "good", "changed"}]
    /\ events \in Seq(Event)
    /\ packages \in [Outputs -> [assets : SUBSET Adds, events : Seq(Event),
                                 signed : BOOLEAN, seal : Seals \union {None}]]
    /\ at \in [Ops -> Places]
    /\ seenAssets \in [Ops -> SUBSET Adds]
    /\ seenEvents \in [Ops -> Seq(Event)]
    /\ before \in [Seals -> SUBSET (Adds \union Records)]
    /\ overlapped \subseteq Adds \union Records
    /\ faults \in 0 .. MaxFaults

\* However many writers race, and wherever they are killed, the file of events
\* holds a chain of which every sequence number, link and id verifies.  (That it
\* can be extended and sealed does not follow: the file may outgrow the 16 MiB
\* that load_events reads, and a second observation of an asset cannot be sealed.)
ChainStaysValid == ValidChain(events)

\* The record names no asset whose file was never put in place or was taken
\* back: not after a race, a failed write or a crash.
RecordedHasFile == \A a \in record : files[a] # "absent"

\* What an operation was answered ok for stays in the workspace, unless it was
\* itself under way together with another writer of its file: however later
\* writers overlap, fail or are killed, they lose each other's answers and
\* nobody else's.
AnswersKept ==
    /\ \A a \in Adds : at[a] = "ok" => a \in record \union overlapped
    /\ \A e \in Records : at[e] = "ok" => e \in Ids(events) \union overlapped

\* A package holds everything that had been answered ok when its sealing
\* began, whatever was added, changed or restored while it was made, but for
\* answers to writers that had overlapped.
PackageIsComplete ==
    \A p \in Outputs :
        ~Free(p) =>
            before[packages[p].seal] \ overlapped \subseteq
                packages[p].assets \union Ids(packages[p].events)

\* A signed package at an output path observes only assets it holds, each one
\* once, although its assets and its events were read at different times and
\* both may have grown in between.
PublishedVerifies ==
    \A p \in Outputs :
        packages[p].signed =>
            LET chain == packages[p].events IN
            \A i \in Observations(chain) :
                /\ chain[i].about \in packages[p].assets
                /\ \A j \in Observations(chain) :
                      chain[i].about = chain[j].about => i = j

\* The workspace implements the promise of ProofArchive: each step is a step of
\* it or shows nothing to a caller, whatever writers and seals overlap, fail or
\* are killed.
Answered == {o \in Adds \union Records : at[o] = "ok"}

Contents == record \union Ids(events)

Begun == {s \in Seals : at[s] # "idle"}

Published ==
    [p \in Outputs |-> [seal  |-> packages[p].seal,
                        holds |-> packages[p].assets \union Ids(packages[p].events)]]

Archive == INSTANCE ProofArchive
           WITH Writers <- Adds \union Records, answered <- Answered,
                contents <- Contents, sealing <- Begun, owed <- before,
                published <- Published, raced <- overlapped

ImplementsArchive == Archive!Spec

\* A package is never replaced by another one.
NeverClobbered ==
    [][\A p \in Outputs : ~Free(p) => packages'[p] = packages[p]]_vars

=============================================================================
