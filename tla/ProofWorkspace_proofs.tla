----------------------- MODULE ProofWorkspace_proofs -----------------------
(***************************************************************************)
(* Proofs about ProofWorkspace, for any number of assets, events, seals    *)
(* and faults.                                                             *)
(***************************************************************************)
EXTENDS ProofWorkspace, SequenceTheorems, TLAPS

PackageType == [assets : SUBSET Adds, events : Seq(Event),
                signed : BOOLEAN, seal : Seals \union {None}]

-----------------------------------------------------------------------------
(* The inductive invariant.                                                 *)

\* What is about to be extended is a valid chain, and an event that was not
\* answered for is in no chain, so that extending cannot repeat an id.
Chains ==
    /\ ValidChain(events)
    /\ \A e \in Records : at[e] = "extending" => ValidChain(seenEvents[e])
    /\ \A e \in Records : at[e] # "ok" =>
          e \notin Ids(events) /\ \A o \in Ops : e \notin Ids(seenEvents[o])

\* An asset anybody has read of in the record was added for good: its own
\* add_asset can no longer take the file back.
Filed ==
    \A a \in Adds :
        /\ at[a] = "persisted" => files[a] # "absent"
        /\ a \in record => at[a] = "ok" /\ files[a] # "absent"
        /\ \A o \in Ops : a \in seenAssets[o] => at[a] = "ok" /\ files[a] # "absent"

AddingPlaces == {"copying", "persisted"}

\* Two operations between their read and their write of one file have overlapped,
\* and each of them has read all that was answered to writers that have not.
OneWriter ==
    /\ \A a, b \in Adds : at[a] \in AddingPlaces =>
          /\ at[b] \in AddingPlaces => a = b \/ {a, b} \subseteq overlapped
          /\ at[b] = "ok" => b \in seenAssets[a] \union overlapped
    /\ \A e, d \in Records : at[e] = "extending" =>
          /\ at[d] = "extending" => e = d \/ {e, d} \subseteq overlapped
          /\ at[d] = "ok" => d \in Ids(seenEvents[e]) \union overlapped

\* How much of what had been answered ok a seal under way holds already.
Sealing ==
    \A s \in Seals :
        /\ at[s] = "publishing" =>
              Verifies(seenAssets[s], seenEvents[s], s \in Signed)
        /\ at[s] \in {"hashing", "hashed"} =>
              /\ before[s] \intersect Adds \subseteq seenAssets[s] \union overlapped
              /\ \A e \in before[s] \intersect Records : at[e] = "ok"
        /\ at[s] \in {"writing", "checking", "publishing"} =>
              before[s] \ overlapped \subseteq
                  seenAssets[s] \union Ids(seenEvents[s])

\* A package was made by a seal that has ended.
Sealed ==
    \A p \in Outputs :
        /\ ~Free(p) => at[packages[p].seal] = "ok"
        /\ packages[p].signed => ~Free(p)

\* PublishedVerifies of one package.
Observed(package) ==
    LET chain == package.events IN
    \A i \in Observations(chain) :
        /\ chain[i].about \in package.assets
        /\ \A j \in Observations(chain) :
              chain[i].about = chain[j].about => i = j

IInv ==
    /\ TypeOK /\ Chains /\ Filed /\ OneWriter /\ AnswersKept
    /\ Sealing /\ Sealed /\ PackageIsComplete /\ PublishedVerifies

-----------------------------------------------------------------------------
(* The chain of events.                                                     *)

\* A new event is one of the type of events.
LEMMA NewEventType ==
    ASSUME NEW chain \in Seq(Event), NEW e \in Records
    PROVE  /\ NewEvent(chain, e) \in Event
           /\ NewEvent(chain, e).id = e
           /\ NewEvent(chain, e).sequence = Len(chain) + 1
           /\ NewEvent(chain, e).previous =
                 IF chain = <<>> THEN None ELSE chain[Len(chain)].id
           /\ Append(chain, NewEvent(chain, e)) \in Seq(Event)
  <1>1. CASE chain = <<>>
    BY <1>1, WorkspaceAssumption DEF NewEvent, Event
  <1>2. CASE chain # <<>>
    <2>1. Len(chain) \in Nat \ {0} /\ chain[Len(chain)] \in Event
      BY <1>2, EmptySeq, ElementOfSeq
    <2>2. chain[Len(chain)].id \in Records
      BY <2>1 DEF Event
    <2> QED BY <1>2, <2>1, <2>2, WorkspaceAssumption DEF NewEvent, Event
  <1> QED BY <1>1, <1>2

\* Extending a chain adds the id of the event to it and no other.
LEMMA AppendIds ==
    ASSUME NEW chain \in Seq(Event), NEW x \in Event
    PROVE  Ids(Append(chain, x)) = Ids(chain) \union {x.id}
  BY DEF Ids

\* A valid chain extended by create_event with a fresh id is valid again.
LEMMA AppendValid ==
    ASSUME NEW chain \in Seq(Event), NEW e \in Records,
           ValidChain(chain), e \notin Ids(chain)
    PROVE  ValidChain(Append(chain, NewEvent(chain, e)))
  <1> DEFINE x == NewEvent(chain, e)
             longer == Append(chain, x)
             n == Len(chain)
  <1>1. /\ x \in Event /\ x.id = e /\ x.sequence = n + 1
        /\ x.previous = IF n = 0 THEN None ELSE chain[n].id
    BY NewEventType, EmptySeq
  <1>2. /\ n \in Nat /\ DOMAIN chain = 1 .. n
        /\ DOMAIN longer = 1 .. (n + 1) /\ longer[n + 1] = x
        /\ \A i \in 1 .. n : longer[i] = chain[i]
    BY <1>1
  <1> HIDE DEF x, longer, n
  <1>3. ASSUME NEW i \in 1 .. (n + 1)
        PROVE  /\ longer[i].sequence = i
               /\ longer[i].previous = IF i = 1 THEN None ELSE longer[i - 1].id
    <2>1. CASE i \in 1 .. n
      BY <1>2, <2>1 DEF ValidChain
    <2>2. CASE i = n + 1
      BY <1>1, <1>2, <2>2 DEF n
    <2> QED BY <1>2, <2>1, <2>2
  <1>4. \A i, j \in 1 .. (n + 1) : longer[i].id = longer[j].id => i = j
    <2>1. \A i \in 1 .. n : longer[i].id # e
      BY <1>2 DEF Ids
    <2>2. longer[n + 1].id = e
      BY <1>1, <1>2
    <2>3. \A i, j \in 1 .. n : longer[i].id = longer[j].id => i = j
      BY <1>2 DEF ValidChain
    <2>4. \A i \in 1 .. (n + 1) : i \in 1 .. n \/ i = n + 1
      BY <1>2
    <2> QED BY <2>1, <2>2, <2>3, <2>4
  <1>5. ValidChain(longer)
    BY <1>2, <1>3, <1>4 DEF ValidChain
  <1> QED BY <1>5 DEF longer, x

-----------------------------------------------------------------------------
(* Every step keeps it.                                                     *)

\* The initial state satisfies the invariant.
LEMMA Initially == Init => IInv
  <1> SUFFICES ASSUME Init PROVE IInv
    OBVIOUS
  <1>1. TypeOK
    <2>1. <<>> \in Seq(Event)
      BY EmptySeq
    <2>2. packages \in [Outputs -> PackageType]
      BY <2>1 DEF Init, NoPackage, PackageType
    <2>3. seenEvents \in [Ops -> Seq(Event)] /\ events \in Seq(Event)
      BY <2>1 DEF Init
    <2>4. at \in [Ops -> Places]
      BY DEF Init, Places
    <2>5. /\ record \subseteq Adds /\ files \in [Adds -> {"absent", "good", "changed"}]
          /\ seenAssets \in [Ops -> SUBSET Adds]
          /\ before \in [Seals -> SUBSET (Adds \union Records)]
          /\ overlapped \subseteq Adds \union Records
      BY DEF Init
    <2>6. faults \in 0 .. MaxFaults
      BY WorkspaceAssumption DEF Init
    <2> QED BY <2>2, <2>3, <2>4, <2>5, <2>6 DEF TypeOK, PackageType
  <1>2. Chains
    BY DEF Init, Chains, ValidChain, Ids, Ops
  <1>3. Filed /\ OneWriter
    BY DEF Init, Filed, OneWriter, AddingPlaces, Ops
  <1>4. AnswersKept /\ Sealing
    BY DEF Init, AnswersKept, Sealing, Ops
  <1>5. Sealed /\ PackageIsComplete /\ PublishedVerifies
    BY DEF Init, Sealed, PackageIsComplete, PublishedVerifies, Free, NoPackage
  <1> QED BY <1>1, <1>2, <1>3, <1>4, <1>5 DEF IInv

-----------------------------------------------------------------------------
(* What the steps with a choice in them do.                                 *)

\* record_event goes on with the chain it has read, which is valid, or fails.
LEMMA ReadFrame ==
    ASSUME TypeOK, NEW e \in Records, RecordReads(e)
    PROVE  /\ at[e] \in {"idle", "observed"}
           /\ \A o \in Ops \ {e} : at'[o] = at[o] /\ seenEvents'[o] = seenEvents[o]
           /\ \/ /\ at'[e] = "extending" /\ seenEvents'[e] = events
                 /\ ValidChain(events)
                 /\ Overlaps(e, {d \in Records \ {e} : at[d] = "extending"})
              \/ /\ at'[e] = "failed" /\ seenEvents'[e] = seenEvents[e]
                 /\ overlapped' = overlapped
  <1>1. e \in Ops
    BY DEF Ops
  <1>2. CASE ValidChain(events)
    BY <1>1, <1>2 DEF RecordReads, TypeOK, Goes
  <1>3. CASE ~ValidChain(events)
    BY <1>1, <1>3 DEF RecordReads, TypeOK, Goes
  <1> QED BY <1>2, <1>3

\* A seal goes on with the record it has read, or fails; it remembers what had
\* been answered.
LEMMA SealStartsFrame ==
    ASSUME TypeOK, NEW s \in Seals, SealStarts(s)
    PROVE  /\ at[s] = "idle"
           /\ \A o \in Ops \ {s} : at'[o] = at[o] /\ seenAssets'[o] = seenAssets[o]
           /\ \A r \in Seals \ {s} : before'[r] = before[r]
           /\ before'[s] = {o \in Adds \union Records : at[o] = "ok"}
           /\ \/ at'[s] = "hashing" /\ seenAssets'[s] = record
              \/ at'[s] = "failed" /\ seenAssets'[s] = seenAssets[s]
  <1>1. s \in Ops
    BY DEF Ops
  <1>2. CASE Free(Target[s]) /\ record # {}
    BY <1>1, <1>2 DEF SealStarts, TypeOK, Goes
  <1>3. CASE ~(Free(Target[s]) /\ record # {})
    BY <1>1, <1>3 DEF SealStarts, TypeOK, Goes
  <1> QED BY <1>2, <1>3

\* A seal goes on with the chain it has read, or fails.
LEMMA SealReadsFrame ==
    ASSUME TypeOK, NEW s \in Seals, SealReadsEvents(s)
    PROVE  /\ at[s] = "hashed"
           /\ \A o \in Ops \ {s} : at'[o] = at[o] /\ seenEvents'[o] = seenEvents[o]
           /\ \/ at'[s] = "writing" /\ seenEvents'[s] = events
              \/ at'[s] = "failed" /\ seenEvents'[s] = seenEvents[s]
  <1>1. s \in Ops
    BY DEF Ops
  <1>2. CASE ValidChain(events)
    BY <1>1, <1>2 DEF SealReadsEvents, TypeOK, Goes
  <1>3. CASE ~ValidChain(events)
    BY <1>1, <1>3 DEF SealReadsEvents, TypeOK, Goes
  <1> QED BY <1>2, <1>3

\* A seal puts its package at its free output path, or fails.
LEMMA PersistFrame ==
    ASSUME TypeOK, NEW s \in Seals, SealPersists(s)
    PROVE  /\ at[s] = "publishing"
           /\ \A o \in Ops \ {s} : at'[o] = at[o]
           /\ \/ /\ at'[s] = "ok" /\ Free(Target[s])
                 /\ packages'[Target[s]] = Package(s)
                 /\ \A p \in Outputs \ {Target[s]} : packages'[p] = packages[p]
              \/ at'[s] = "failed" /\ packages' = packages
  <1>1. s \in Ops /\ Target[s] \in Outputs
    BY WorkspaceAssumption DEF Ops
  <1>2. CASE Free(Target[s])
    BY <1>1, <1>2 DEF SealPersists, TypeOK, Goes
  <1>3. CASE ~Free(Target[s])
    BY <1>1, <1>3 DEF SealPersists, TypeOK, Goes
  <1> QED BY <1>2, <1>3

\* Every step keeps the type.
LEMMA TypeStep ==
    ASSUME TypeOK, [Next]_vars
    PROVE  TypeOK'
  <1>1. CASE \E a \in Adds : AddStarts(a)
    BY WorkspaceAssumption, <1>1
       DEF AddStarts, Overlaps, TypeOK, Ops, Places, Goes
  <1>2. CASE \E a \in Adds : AddPersists(a)
    BY WorkspaceAssumption, <1>2 DEF AddPersists, TypeOK, Ops, Places, Goes
  <1>3. CASE \E a \in Adds : AddWrites(a)
    BY WorkspaceAssumption, <1>3 DEF AddWrites, TypeOK, Ops, Places, Goes
  <1>4. CASE \E a \in Adds : AddFails(a)
    BY WorkspaceAssumption, <1>4 DEF AddFails, TypeOK, Ops, Places, Goes
  <1>5. CASE \E a \in Adds : Changes(a)
    BY WorkspaceAssumption, <1>5 DEF Changes, TypeOK, Ops, Places, Goes
  <1>6. CASE \E e \in Records : Observes(e)
    BY WorkspaceAssumption, <1>6 DEF Observes, TypeOK, Ops, Places, Goes
  <1>7. CASE \E e \in Records : RecordReads(e)
    <2> PICK e \in Records : RecordReads(e)
      BY <1>7
    <2>1. at' \in [Ops -> Places] /\ seenEvents' \in [Ops -> Seq(Event)]
      BY ZenonT(60) DEF RecordReads, TypeOK, Ops, Places, Goes
    <2>2. overlapped' \subseteq Adds \union Records
      BY DEF RecordReads, Overlaps, TypeOK
    <2> QED BY <2>1, <2>2 DEF RecordReads, TypeOK
  <1>8. CASE \E e \in Records : RecordWrites(e)
    <2> PICK e \in Records : RecordWrites(e)
      BY <1>8
    <2>1. events' \in Seq(Event)
      BY NewEventType DEF RecordWrites, TypeOK, Ops
    <2> QED BY <2>1 DEF RecordWrites, TypeOK, Ops, Places, Goes
  <1>9. CASE \E s \in Seals : SealStarts(s)
    <2> PICK s \in Seals : SealStarts(s)
      BY <1>9
    <2>1. at' \in [Ops -> Places]
      BY DEF SealStarts, TypeOK, Ops, Places, Goes
    <2>2. seenAssets' \in [Ops -> SUBSET Adds]
      BY DEF SealStarts, TypeOK, Ops
    <2>3. before' \in [Seals -> SUBSET (Adds \union Records)]
      BY DEF SealStarts, TypeOK
    <2> QED BY <2>1, <2>2, <2>3 DEF SealStarts, TypeOK
  <1>10. CASE \E s \in Seals : SealHashes(s)
    BY WorkspaceAssumption, <1>10
       DEF SealHashes, Intact, TypeOK, Ops, Places, Goes
  <1>11. CASE \E s \in Seals : SealReadsEvents(s)
    <2> PICK s \in Seals : SealReadsEvents(s)
      BY <1>11
    <2>1. at' \in [Ops -> Places] /\ seenEvents' \in [Ops -> Seq(Event)]
      BY ZenonT(60) DEF SealReadsEvents, TypeOK, Ops, Places, Goes
    <2> QED BY <2>1 DEF SealReadsEvents, TypeOK
  <1>12. CASE \E s \in Seals : SealWrites(s)
    BY WorkspaceAssumption, <1>12
       DEF SealWrites, Intact, TypeOK, Ops, Places, Goes
  <1>13. CASE \E s \in Seals : SealChecks(s)
    BY WorkspaceAssumption, <1>13 DEF SealChecks, TypeOK, Ops, Places, Goes
  <1>14. CASE \E s \in Seals : SealPersists(s)
    <2> PICK s \in Seals : SealPersists(s)
      BY <1>14
    <2>1. at' \in [Ops -> Places]
      BY DEF SealPersists, TypeOK, Ops, Places, Goes
    <2>2. Package(s) \in PackageType
      BY DEF Package, TypeOK, Ops, PackageType
    <2>3. packages' \in [Outputs -> PackageType]
      BY <2>2 DEF SealPersists, TypeOK, PackageType
    <2> QED BY <2>1, <2>3 DEF PackageType, SealPersists, TypeOK
  <1>15. CASE \E o \in Ops : Stops(o)
    BY WorkspaceAssumption, <1>15 DEF Stops, Ended, TypeOK, Ops, Places, Goes
  <1>16. CASE UNCHANGED vars
    BY WorkspaceAssumption, <1>16 DEF vars, TypeOK, Ops, Places, Goes
  <1> QED
    BY <1>1, <1>2, <1>3, <1>4, <1>5, <1>6, <1>7, <1>8,
       <1>9, <1>10, <1>11, <1>12, <1>13, <1>14, <1>15, <1>16
       DEF Next, AddSteps, RecordSteps, SealSteps

\* Every step keeps the chains.
LEMMA ChainStep ==
    ASSUME TypeOK, Chains, [Next]_vars
    PROVE  Chains'
  <1>1. CASE \E a \in Adds : AddStarts(a)
    BY WorkspaceAssumption, <1>1 DEF AddStarts, TypeOK, Chains, Ops, Goes
  <1>2. CASE \E a \in Adds : AddPersists(a)
    BY WorkspaceAssumption, <1>2 DEF AddPersists, TypeOK, Chains, Ops, Goes
  <1>3. CASE \E a \in Adds : AddWrites(a)
    BY WorkspaceAssumption, <1>3 DEF AddWrites, TypeOK, Chains, Ops, Goes
  <1>4. CASE \E a \in Adds : AddFails(a)
    BY WorkspaceAssumption, <1>4 DEF AddFails, TypeOK, Chains, Ops, Goes
  <1>5. CASE \E a \in Adds : Changes(a)
    BY WorkspaceAssumption, <1>5 DEF Changes, TypeOK, Chains, Ops, Goes
  <1>6. CASE \E e \in Records : Observes(e)
    BY WorkspaceAssumption, <1>6 DEF Observes, TypeOK, Chains, Ops, Goes
  <1>7. CASE \E e \in Records : RecordReads(e)
    <2> PICK e \in Records : RecordReads(e)
      BY <1>7
    <2> QED BY ReadFrame, WorkspaceAssumption DEF RecordReads, Chains, Ops
  <1>8. CASE \E e \in Records : RecordWrites(e)
    <2> PICK e \in Records : RecordWrites(e)
      BY <1>8
    <2> DEFINE chain == seenEvents[e]
    <2>1. /\ chain \in Seq(Event) /\ ValidChain(chain) /\ e \notin Ids(chain)
          /\ events' = Append(chain, NewEvent(chain, e))
          /\ at'[e] = "ok" /\ \A d \in Records \ {e} : at'[d] = at[d]
      BY DEF RecordWrites, Chains, TypeOK, Ops, Goes
    <2>2. ValidChain(events') /\ Ids(events') = Ids(chain) \union {e}
      BY <2>1, AppendValid, AppendIds, NewEventType
    <2>3. ValidChain(events)' /\ \A d \in Records : at'[d] # "ok" => d \notin Ids(events')
      BY <2>1, <2>2 DEF Chains, Ops, ValidChain
    <2> QED BY <2>1, <2>3 DEF RecordWrites, Chains
  <1>9. CASE \E s \in Seals : SealStarts(s)
    <2> PICK s \in Seals : SealStarts(s)
      BY <1>9
    <2> QED BY SealStartsFrame, WorkspaceAssumption DEF SealStarts, Chains, Ops
  <1>10. CASE \E s \in Seals : SealHashes(s)
    BY WorkspaceAssumption, <1>10
       DEF SealHashes, Intact, TypeOK, Chains, Ops, Goes
  <1>11. CASE \E s \in Seals : SealReadsEvents(s)
    <2> PICK s \in Seals : SealReadsEvents(s)
      BY <1>11
    <2> QED BY SealReadsFrame, WorkspaceAssumption
       DEF SealReadsEvents, Chains, Ops
  <1>12. CASE \E s \in Seals : SealWrites(s)
    BY WorkspaceAssumption, <1>12
       DEF SealWrites, Intact, TypeOK, Chains, Ops, Goes
  <1>13. CASE \E s \in Seals : SealChecks(s)
    BY WorkspaceAssumption, <1>13 DEF SealChecks, TypeOK, Chains, Ops, Goes
  <1>14. CASE \E s \in Seals : SealPersists(s)
    <2> PICK s \in Seals : SealPersists(s)
      BY <1>14
    <2> QED BY PersistFrame, WorkspaceAssumption DEF SealPersists, Chains, Ops
  <1>15. CASE \E o \in Ops : Stops(o)
    BY WorkspaceAssumption, <1>15 DEF Stops, Ended, TypeOK, Chains, Ops, Goes
  <1>16. CASE UNCHANGED vars
    BY WorkspaceAssumption, <1>16 DEF vars, TypeOK, Chains, Ops, Goes
  <1> QED
    BY <1>1, <1>2, <1>3, <1>4, <1>5, <1>6, <1>7, <1>8,
       <1>9, <1>10, <1>11, <1>12, <1>13, <1>14, <1>15, <1>16
       DEF Next, AddSteps, RecordSteps, SealSteps

\* Every step keeps the files behind the record.
LEMMA FileStep ==
    ASSUME TypeOK, Filed, [Next]_vars
    PROVE  Filed'
  <1>1. CASE \E a \in Adds : AddStarts(a)
    BY WorkspaceAssumption, <1>1 DEF AddStarts, TypeOK, Filed, Ops, Goes
  <1>2. CASE \E a \in Adds : AddPersists(a)
    BY WorkspaceAssumption, <1>2 DEF AddPersists, TypeOK, Filed, Ops, Goes
  <1>3. CASE \E a \in Adds : AddWrites(a)
    BY WorkspaceAssumption, <1>3 DEF AddWrites, TypeOK, Filed, Ops, Goes
  <1>4. CASE \E a \in Adds : AddFails(a)
    BY WorkspaceAssumption, <1>4 DEF AddFails, TypeOK, Filed, Ops, Goes
  <1>5. CASE \E a \in Adds : Changes(a)
    BY WorkspaceAssumption, <1>5 DEF Changes, TypeOK, Filed, Ops, Goes
  <1>6. CASE \E e \in Records : Observes(e)
    BY WorkspaceAssumption, <1>6 DEF Observes, TypeOK, Filed, Ops, Goes
  <1>7. CASE \E e \in Records : RecordReads(e)
    BY WorkspaceAssumption, <1>7 DEF RecordReads, TypeOK, Filed, Ops, Goes
  <1>8. CASE \E e \in Records : RecordWrites(e)
    BY WorkspaceAssumption, <1>8 DEF RecordWrites, TypeOK, Filed, Ops, Goes
  <1>9. CASE \E s \in Seals : SealStarts(s)
    <2> PICK s \in Seals : SealStarts(s)
      BY <1>9
    <2> QED BY SealStartsFrame, WorkspaceAssumption DEF SealStarts, Filed, Ops
  <1>10. CASE \E s \in Seals : SealHashes(s)
    BY WorkspaceAssumption, <1>10
       DEF SealHashes, Intact, TypeOK, Filed, Ops, Goes
  <1>11. CASE \E s \in Seals : SealReadsEvents(s)
    BY WorkspaceAssumption, <1>11 DEF SealReadsEvents, TypeOK, Filed, Ops, Goes
  <1>12. CASE \E s \in Seals : SealWrites(s)
    BY WorkspaceAssumption, <1>12
       DEF SealWrites, Intact, TypeOK, Filed, Ops, Goes
  <1>13. CASE \E s \in Seals : SealChecks(s)
    BY WorkspaceAssumption, <1>13 DEF SealChecks, TypeOK, Filed, Ops, Goes
  <1>14. CASE \E s \in Seals : SealPersists(s)
    BY WorkspaceAssumption, <1>14
       DEF SealPersists, Free, Package, TypeOK, Filed, Ops, Goes
  <1>15. CASE \E o \in Ops : Stops(o)
    BY WorkspaceAssumption, <1>15 DEF Stops, Ended, TypeOK, Filed, Ops, Goes
  <1>16. CASE UNCHANGED vars
    BY WorkspaceAssumption, <1>16 DEF vars, TypeOK, Filed, Ops, Goes
  <1> QED
    BY <1>1, <1>2, <1>3, <1>4, <1>5, <1>6, <1>7, <1>8,
       <1>9, <1>10, <1>11, <1>12, <1>13, <1>14, <1>15, <1>16
       DEF Next, AddSteps, RecordSteps, SealSteps

\* A writer that begins notes itself and those it finds under way.
LEMMA OverlapNoted ==
    ASSUME NEW o, NEW others, Overlaps(o, others)
    PROVE  /\ overlapped \subseteq overlapped'
           /\ \A d \in others : {o, d} \subseteq overlapped'
  <1>1. CASE others = {}
    BY <1>1 DEF Overlaps
  <1>2. CASE others # {}
    BY <1>2 DEF Overlaps
  <1> QED BY <1>1, <1>2

\* Every step keeps the writers apart, or notes that they overlap.
LEMMA WriterStep ==
    ASSUME TypeOK, OneWriter, AnswersKept, [Next]_vars
    PROVE  OneWriter'
  <1>1. CASE \E a \in Adds : AddStarts(a)
    <2> PICK a \in Adds : AddStarts(a)
      BY <1>1
    <2>1. /\ at' = [at EXCEPT ![a] = "copying"] /\ a \in Ops
          /\ seenAssets' = [seenAssets EXCEPT ![a] = record]
          /\ record' = record /\ events' = events /\ seenEvents' = seenEvents
      BY DEF AddStarts, Goes, Ops
    <2>2. \A e \in Records : at'[e] = at[e]
      BY <2>1, WorkspaceAssumption DEF TypeOK, Ops
    <2>3. /\ overlapped \subseteq overlapped'
          /\ \A b \in Adds \ {a} :
                at[b] \in AddingPlaces => {a, b} \subseteq overlapped'
      BY OverlapNoted DEF AddStarts, AddingPlaces
    <2>4. /\ at'[a] = "copying" /\ seenAssets'[a] = record
          /\ \A b \in Adds \ {a} : at'[b] = at[b] /\ seenAssets'[b] = seenAssets[b]
      BY <2>1 DEF TypeOK, Ops
    <2>5. ASSUME NEW c \in Adds, NEW b \in Adds, at'[c] \in AddingPlaces
          PROVE  /\ at'[b] \in AddingPlaces => c = b \/ {c, b} \subseteq overlapped'
                 /\ at'[b] = "ok" => b \in seenAssets'[c] \union overlapped'
      <3>1. CASE c = a
        BY <2>3, <2>4, <3>1 DEF AnswersKept
      <3>2. CASE c # a
        BY <2>3, <2>4, <2>5, <3>2 DEF OneWriter
      <3> QED BY <3>1, <3>2
    <2>6. ASSUME NEW e \in Records, NEW d \in Records, at'[e] = "extending"
          PROVE  /\ at'[d] = "extending" => e = d \/ {e, d} \subseteq overlapped'
                 /\ at'[d] = "ok" => d \in Ids(seenEvents'[e]) \union overlapped'
      BY <2>1, <2>2, <2>3, <2>6 DEF OneWriter
    <2> QED BY <2>5, <2>6 DEF OneWriter
  <1>2. CASE \E a \in Adds : AddPersists(a)
    BY WorkspaceAssumption, <1>2
       DEF AddPersists, TypeOK, OneWriter, AddingPlaces, Ops, Goes
  <1>3. CASE \E a \in Adds : AddWrites(a)
    BY WorkspaceAssumption, <1>3
       DEF AddWrites, TypeOK, OneWriter, AddingPlaces, Ops, Goes
  <1>4. CASE \E a \in Adds : AddFails(a)
    BY WorkspaceAssumption, <1>4
       DEF AddFails, TypeOK, OneWriter, AddingPlaces, Ops, Goes
  <1>5. CASE \E a \in Adds : Changes(a)
    BY WorkspaceAssumption, <1>5
       DEF Changes, TypeOK, OneWriter, AddingPlaces, Ops, Goes
  <1>6. CASE \E e \in Records : Observes(e)
    BY WorkspaceAssumption, <1>6
       DEF Observes, TypeOK, OneWriter, AddingPlaces, Ops, Goes
  <1>7. CASE \E e \in Records : RecordReads(e)
    <2> PICK e \in Records : RecordReads(e)
      BY <1>7
    <2>1. /\ record' = record /\ seenAssets' = seenAssets /\ e \notin Adds
          /\ \A o \in Ops \ {e} : at'[o] = at[o] /\ seenEvents'[o] = seenEvents[o]
          /\ \A a \in Adds : a \in Ops \ {e}
          /\ \A d \in Records : d \in Ops
      BY ReadFrame, WorkspaceAssumption DEF RecordReads, Ops
    <2>2. overlapped \subseteq overlapped'
      BY ReadFrame, OverlapNoted
    <2>3. ASSUME NEW d \in Records, NEW f \in Records, at'[d] = "extending"
          PROVE  /\ at'[f] = "extending" => d = f \/ {d, f} \subseteq overlapped'
                 /\ at'[f] = "ok" => f \in Ids(seenEvents'[d]) \union overlapped'
      <3>1. CASE at'[e] = "extending" /\ seenEvents'[e] = events
                 /\ Overlaps(e, {g \in Records \ {e} : at[g] = "extending"})
        <4>1. \A g \in Records \ {e} :
                 at[g] = "extending" => {e, g} \subseteq overlapped'
          BY <3>1, OverlapNoted
        <4>2. CASE d = e
          BY <2>1, <2>2, <3>1, <4>1, <4>2 DEF AnswersKept
        <4>3. CASE d # e /\ f = e
          BY <2>1, <2>3, <3>1, <4>1, <4>3
        <4>4. CASE d # e /\ f # e
          BY <2>1, <2>2, <2>3, <4>4 DEF OneWriter
        <4> QED BY <4>2, <4>3, <4>4
      <3>2. CASE at'[e] = "failed" /\ overlapped' = overlapped
        BY <2>1, <2>3, <3>2 DEF OneWriter
      <3> QED BY <3>1, <3>2, ReadFrame
    <2>4. ASSUME NEW a \in Adds, NEW b \in Adds, at'[a] \in AddingPlaces
          PROVE  /\ at'[b] \in AddingPlaces => a = b \/ {a, b} \subseteq overlapped'
                 /\ at'[b] = "ok" => b \in seenAssets'[a] \union overlapped'
      BY <2>1, <2>2, <2>4 DEF OneWriter
    <2> QED BY <2>3, <2>4 DEF OneWriter
  <1>8. CASE \E e \in Records : RecordWrites(e)
    BY WorkspaceAssumption, <1>8
       DEF RecordWrites, TypeOK, OneWriter, AddingPlaces, Ops, Goes
  <1>9. CASE \E s \in Seals : SealStarts(s)
    <2> PICK s \in Seals : SealStarts(s)
      BY <1>9
    <2> QED BY SealStartsFrame, WorkspaceAssumption
       DEF SealStarts, OneWriter, AddingPlaces, Ops
  <1>10. CASE \E s \in Seals : SealHashes(s)
    BY WorkspaceAssumption, <1>10
       DEF SealHashes, Intact, TypeOK, OneWriter, AddingPlaces, Ops, Goes
  <1>11. CASE \E s \in Seals : SealReadsEvents(s)
    <2> PICK s \in Seals : SealReadsEvents(s)
      BY <1>11
    <2> QED BY SealReadsFrame, WorkspaceAssumption
       DEF SealReadsEvents, OneWriter, AddingPlaces, Ops
  <1>12. CASE \E s \in Seals : SealWrites(s)
    BY WorkspaceAssumption, <1>12
       DEF SealWrites, Intact, TypeOK, OneWriter, AddingPlaces, Ops, Goes
  <1>13. CASE \E s \in Seals : SealChecks(s)
    BY WorkspaceAssumption, <1>13
       DEF SealChecks, TypeOK, OneWriter, AddingPlaces, Ops, Goes
  <1>14. CASE \E s \in Seals : SealPersists(s)
    <2> PICK s \in Seals : SealPersists(s)
      BY <1>14
    <2>1. /\ s \notin Adds \union Records
          /\ \A o \in Adds \union Records : at'[o] = at[o]
          /\ UNCHANGED <<seenAssets, seenEvents, overlapped>>
      BY PersistFrame, WorkspaceAssumption DEF SealPersists, Ops
    <2> QED BY <2>1 DEF OneWriter
  <1>15. CASE \E o \in Ops : Stops(o)
    BY WorkspaceAssumption, <1>15
       DEF Stops, Ended, TypeOK, OneWriter, AddingPlaces, Ops, Goes
  <1>16. CASE UNCHANGED vars
    BY WorkspaceAssumption, <1>16
       DEF vars, TypeOK, OneWriter, AddingPlaces, Ops, Goes
  <1> QED
    BY <1>1, <1>2, <1>3, <1>4, <1>5, <1>6, <1>7, <1>8,
       <1>9, <1>10, <1>11, <1>12, <1>13, <1>14, <1>15, <1>16
       DEF Next, AddSteps, RecordSteps, SealSteps

\* Every step keeps what was answered ok.
LEMMA AnswerStep ==
    ASSUME TypeOK, OneWriter, AnswersKept, [Next]_vars
    PROVE  AnswersKept'
  <1>1. CASE \E a \in Adds : AddStarts(a)
    <2> PICK a \in Adds : AddStarts(a)
      BY <1>1
    <2>1. overlapped \subseteq overlapped'
      BY OverlapNoted DEF AddStarts
    <2>2. /\ record' = record /\ events' = events /\ at'[a] = "copying"
          /\ \A o \in Ops \ {a} : at'[o] = at[o]
      BY DEF AddStarts, Goes, TypeOK, Ops
    <2> QED BY <2>1, <2>2 DEF AnswersKept, Ops
  <1>2. CASE \E a \in Adds : AddPersists(a)
    BY WorkspaceAssumption, <1>2
       DEF AddPersists, TypeOK, OneWriter, AnswersKept, AddingPlaces, Ops, Goes
  <1>3. CASE \E a \in Adds : AddWrites(a)
    BY WorkspaceAssumption, <1>3
       DEF AddWrites, TypeOK, OneWriter, AnswersKept, AddingPlaces, Ops, Goes
  <1>4. CASE \E a \in Adds : AddFails(a)
    BY WorkspaceAssumption, <1>4
       DEF AddFails, TypeOK, OneWriter, AnswersKept, AddingPlaces, Ops, Goes
  <1>5. CASE \E a \in Adds : Changes(a)
    BY WorkspaceAssumption, <1>5
       DEF Changes, TypeOK, OneWriter, AnswersKept, AddingPlaces, Ops, Goes
  <1>6. CASE \E e \in Records : Observes(e)
    BY WorkspaceAssumption, <1>6
       DEF Observes, TypeOK, OneWriter, AnswersKept, AddingPlaces, Ops, Goes
  <1>7. CASE \E e \in Records : RecordReads(e)
    <2> PICK e \in Records : RecordReads(e)
      BY <1>7
    <2>1. overlapped \subseteq overlapped' /\ at'[e] # "ok"
      BY ReadFrame, OverlapNoted
    <2>2. /\ record' = record /\ events' = events
          /\ \A o \in Ops \ {e} : at'[o] = at[o]
      BY ReadFrame DEF RecordReads
    <2> QED BY <2>1, <2>2 DEF AnswersKept, Ops
  <1>8. CASE \E e \in Records : RecordWrites(e)
    <2> PICK e \in Records : RecordWrites(e)
      BY <1>8
    <2>1. /\ seenEvents[e] \in Seq(Event) /\ at[e] = "extending" /\ at'[e] = "ok"
          /\ events' = Append(seenEvents[e], NewEvent(seenEvents[e], e))
          /\ \A o \in Ops \ {e} : at'[o] = at[o]
          /\ record' = record /\ overlapped' = overlapped
      BY DEF RecordWrites, TypeOK, Ops, Goes
    <2>2. Ids(events') = Ids(seenEvents[e]) \union {e}
      BY <2>1, AppendIds, NewEventType
    <2>3. \A d \in Records :
             at[d] = "ok" => d \in Ids(seenEvents[e]) \union overlapped
      BY <2>1 DEF OneWriter
    <2>4. e \notin Adds
      BY WorkspaceAssumption
    <2>5. Ids(events)' = Ids(events')
      BY DEF Ids
    <2> QED BY <2>1, <2>2, <2>3, <2>4, <2>5 DEF AnswersKept, Ops
  <1>9. CASE \E s \in Seals : SealStarts(s)
    BY WorkspaceAssumption, <1>9
       DEF SealStarts, Free, TypeOK, OneWriter, AnswersKept, AddingPlaces, Ops, Goes
  <1>10. CASE \E s \in Seals : SealHashes(s)
    BY WorkspaceAssumption, <1>10
       DEF SealHashes, Intact, TypeOK, OneWriter, AnswersKept, AddingPlaces, Ops, Goes
  <1>11. CASE \E s \in Seals : SealReadsEvents(s)
    BY WorkspaceAssumption, <1>11
       DEF SealReadsEvents, TypeOK, OneWriter, AnswersKept, AddingPlaces, Ops, Goes
  <1>12. CASE \E s \in Seals : SealWrites(s)
    BY WorkspaceAssumption, <1>12
       DEF SealWrites, Intact, TypeOK, OneWriter, AnswersKept, AddingPlaces, Ops, Goes
  <1>13. CASE \E s \in Seals : SealChecks(s)
    BY WorkspaceAssumption, <1>13
       DEF SealChecks, TypeOK, OneWriter, AnswersKept, AddingPlaces, Ops, Goes
  <1>14. CASE \E s \in Seals : SealPersists(s)
    BY WorkspaceAssumption, <1>14
       DEF SealPersists, Free, Package, TypeOK, OneWriter, AnswersKept, AddingPlaces, Ops, Goes
  <1>15. CASE \E o \in Ops : Stops(o)
    BY WorkspaceAssumption, <1>15
       DEF Stops, Ended, TypeOK, OneWriter, AnswersKept, AddingPlaces, Ops, Goes
  <1>16. CASE UNCHANGED vars
    BY WorkspaceAssumption, <1>16
       DEF vars, TypeOK, OneWriter, AnswersKept, AddingPlaces, Ops, Goes
  <1> QED
    BY <1>1, <1>2, <1>3, <1>4, <1>5, <1>6, <1>7, <1>8,
       <1>9, <1>10, <1>11, <1>12, <1>13, <1>14, <1>15, <1>16
       DEF Next, AddSteps, RecordSteps, SealSteps

\* Every step keeps what the seals hold.
LEMMA SealStep ==
    ASSUME TypeOK, OneWriter, AnswersKept, Sealing, [Next]_vars
    PROVE  Sealing'
  <1>1. CASE \E a \in Adds : AddStarts(a)
    <2> PICK a \in Adds : AddStarts(a)
      BY <1>1
    <2>1. /\ \A o \in Ops \ {a} : at'[o] = at[o] /\ seenAssets'[o] = seenAssets[o]
          /\ overlapped \subseteq overlapped' /\ at[a] = "idle"
          /\ seenEvents' = seenEvents /\ before' = before
      BY OverlapNoted DEF AddStarts, Goes, TypeOK, Ops
    <2>2. /\ \A s \in Seals : s # a /\ s \in Ops
          /\ \A e \in Records : e # a /\ e \in Ops
      BY WorkspaceAssumption DEF Ops
    <2> QED BY <2>1, <2>2 DEF Sealing
  <1>2. CASE \E a \in Adds : AddPersists(a)
    BY WorkspaceAssumption, <1>2
       DEF AddPersists, TypeOK, OneWriter, AnswersKept, Sealing, AddingPlaces, Ops, Goes
  <1>3. CASE \E a \in Adds : AddWrites(a)
    BY WorkspaceAssumption, <1>3
       DEF AddWrites, TypeOK, OneWriter, AnswersKept, Sealing, AddingPlaces, Ops, Goes
  <1>4. CASE \E a \in Adds : AddFails(a)
    BY WorkspaceAssumption, <1>4
       DEF AddFails, TypeOK, OneWriter, AnswersKept, Sealing, AddingPlaces, Ops, Goes
  <1>5. CASE \E a \in Adds : Changes(a)
    BY WorkspaceAssumption, <1>5
       DEF Changes, TypeOK, OneWriter, AnswersKept, Sealing, AddingPlaces, Ops, Goes
  <1>6. CASE \E e \in Records : Observes(e)
    BY WorkspaceAssumption, <1>6
       DEF Observes, TypeOK, OneWriter, AnswersKept, Sealing, AddingPlaces, Ops, Goes
  <1>7. CASE \E e \in Records : RecordReads(e)
    <2> PICK e \in Records : RecordReads(e)
      BY <1>7
    <2>1. /\ \A o \in Ops \ {e} : at'[o] = at[o] /\ seenEvents'[o] = seenEvents[o]
          /\ at[e] # "ok" /\ overlapped \subseteq overlapped'
          /\ seenAssets' = seenAssets /\ before' = before
      BY ReadFrame, OverlapNoted DEF RecordReads
    <2>2. \A s \in Seals : s # e /\ s \in Ops
      BY WorkspaceAssumption DEF Ops
    <2> QED BY <2>1, <2>2 DEF Sealing, Ops
  <1>8. CASE \E e \in Records : RecordWrites(e)
    BY WorkspaceAssumption, <1>8
       DEF RecordWrites, TypeOK, OneWriter, AnswersKept, Sealing, AddingPlaces, Ops, Goes
  <1>9. CASE \E s \in Seals : SealStarts(s)
    BY WorkspaceAssumption, <1>9
       DEF SealStarts, Free, TypeOK, OneWriter, AnswersKept, Sealing, AddingPlaces, Ops, Goes
  <1>10. CASE \E s \in Seals : SealHashes(s)
    BY WorkspaceAssumption, <1>10
       DEF SealHashes, Intact, TypeOK, OneWriter, AnswersKept, Sealing, AddingPlaces, Ops, Goes
  <1>11. CASE \E s \in Seals : SealReadsEvents(s)
    <2> PICK s \in Seals : SealReadsEvents(s)
      BY <1>11
    <2>1. /\ \A o \in Ops \ {s} : at'[o] = at[o] /\ seenEvents'[o] = seenEvents[o]
          /\ at[s] = "hashed" /\ overlapped' = overlapped
          /\ seenAssets' = seenAssets /\ before' = before
          /\ (at'[s] = "writing" /\ seenEvents'[s] = events) \/ at'[s] = "failed"
      BY SealReadsFrame DEF SealReadsEvents
    <2>2. before[s] \subseteq Adds \union Records
      BY DEF TypeOK
    <2>3. before[s] \ overlapped \subseteq seenAssets[s] \union Ids(events)
      BY <2>1, <2>2 DEF Sealing, AnswersKept
    <2>4. \A e \in Records : e # s /\ e \in Ops
      BY WorkspaceAssumption DEF Ops
    <2> QED BY <2>1, <2>2, <2>3, <2>4 DEF Sealing, Ops
  <1>12. CASE \E s \in Seals : SealWrites(s)
    BY WorkspaceAssumption, <1>12
       DEF SealWrites, Intact, TypeOK, OneWriter, AnswersKept, Sealing, AddingPlaces, Ops, Goes
  <1>13. CASE \E s \in Seals : SealChecks(s)
    BY WorkspaceAssumption, <1>13
       DEF SealChecks, TypeOK, OneWriter, AnswersKept, Sealing, AddingPlaces, Ops, Goes
  <1>14. CASE \E s \in Seals : SealPersists(s)
    <2> PICK s \in Seals : SealPersists(s)
      BY <1>14
    <2>1. /\ \A o \in Ops \ {s} : at'[o] = at[o]
          /\ at'[s] \in {"ok", "failed"} /\ overlapped' = overlapped
          /\ seenAssets' = seenAssets /\ seenEvents' = seenEvents
          /\ before' = before
      BY PersistFrame DEF SealPersists
    <2>2. \A e \in Records : e # s /\ e \in Ops
      BY WorkspaceAssumption DEF Ops
    <2> QED BY <2>1, <2>2 DEF Sealing, Ops
  <1>15. CASE \E o \in Ops : Stops(o)
    BY WorkspaceAssumption, <1>15
       DEF Stops, Ended, TypeOK, OneWriter, AnswersKept, Sealing, AddingPlaces, Ops, Goes
  <1>16. CASE UNCHANGED vars
    BY WorkspaceAssumption, <1>16
       DEF vars, TypeOK, OneWriter, AnswersKept, Sealing, AddingPlaces, Ops, Goes
  <1> QED
    BY <1>1, <1>2, <1>3, <1>4, <1>5, <1>6, <1>7, <1>8,
       <1>9, <1>10, <1>11, <1>12, <1>13, <1>14, <1>15, <1>16
       DEF Next, AddSteps, RecordSteps, SealSteps

\* A package that is there stays as it is; an operation that has answered ok
\* stays so, and a seal keeps what it remembered.
LEMMA Lasting ==
    ASSUME TypeOK, [Next]_vars
    PROVE  /\ \A o \in Ops : at[o] = "ok" => at'[o] = "ok"
           /\ \A s \in Seals : at[s] # "idle" => before'[s] = before[s]
           /\ overlapped \subseteq overlapped'
           /\ packages' = packages \/ \E s \in Seals : SealPersists(s)
  <1>1. CASE \E a \in Adds : AddStarts(a)
    BY WorkspaceAssumption, <1>1, OverlapNoted DEF AddStarts, TypeOK, Ops, Goes
  <1>2. CASE \E a \in Adds : AddPersists(a)
    BY WorkspaceAssumption, <1>2 DEF AddPersists, TypeOK, Ops, Goes
  <1>3. CASE \E a \in Adds : AddWrites(a)
    BY WorkspaceAssumption, <1>3 DEF AddWrites, TypeOK, Ops, Goes
  <1>4. CASE \E a \in Adds : AddFails(a)
    BY WorkspaceAssumption, <1>4 DEF AddFails, TypeOK, Ops, Goes
  <1>5. CASE \E a \in Adds : Changes(a)
    BY WorkspaceAssumption, <1>5 DEF Changes, TypeOK, Ops, Goes
  <1>6. CASE \E e \in Records : Observes(e)
    BY WorkspaceAssumption, <1>6 DEF Observes, TypeOK, Ops, Goes
  <1>7. CASE \E e \in Records : RecordReads(e)
    <2> PICK e \in Records : RecordReads(e)
      BY <1>7
    <2> QED BY ReadFrame, OverlapNoted, WorkspaceAssumption DEF RecordReads, Ops
  <1>8. CASE \E e \in Records : RecordWrites(e)
    BY WorkspaceAssumption, <1>8 DEF RecordWrites, TypeOK, Ops, Goes
  <1>9. CASE \E s \in Seals : SealStarts(s)
    <2> PICK s \in Seals : SealStarts(s)
      BY <1>9
    <2> QED BY SealStartsFrame, WorkspaceAssumption DEF SealStarts, Ops
  <1>10. CASE \E s \in Seals : SealHashes(s)
    BY WorkspaceAssumption, <1>10 DEF SealHashes, Intact, TypeOK, Ops, Goes
  <1>11. CASE \E s \in Seals : SealReadsEvents(s)
    <2> PICK s \in Seals : SealReadsEvents(s)
      BY <1>11
    <2> QED BY SealReadsFrame, WorkspaceAssumption DEF SealReadsEvents, Ops
  <1>12. CASE \E s \in Seals : SealWrites(s)
    BY WorkspaceAssumption, <1>12 DEF SealWrites, Intact, TypeOK, Ops, Goes
  <1>13. CASE \E s \in Seals : SealChecks(s)
    BY WorkspaceAssumption, <1>13 DEF SealChecks, TypeOK, Ops, Goes
  <1>14. CASE \E s \in Seals : SealPersists(s)
    <2> PICK s \in Seals : SealPersists(s)
      BY <1>14
    <2> QED BY PersistFrame, WorkspaceAssumption DEF SealPersists, Ops
  <1>15. CASE \E o \in Ops : Stops(o)
    BY WorkspaceAssumption, <1>15 DEF Stops, Ended, TypeOK, Ops, Goes
  <1>16. CASE UNCHANGED vars
    BY WorkspaceAssumption, <1>16 DEF vars, TypeOK, Ops, Goes
  <1> QED
    BY <1>1, <1>2, <1>3, <1>4, <1>5, <1>6, <1>7, <1>8,
       <1>9, <1>10, <1>11, <1>12, <1>13, <1>14, <1>15, <1>16
       DEF Next, AddSteps, RecordSteps, SealSteps

\* Every step keeps what packages hold.
LEMMA PackageStep ==
    ASSUME TypeOK, Sealing, Sealed, PackageIsComplete, PublishedVerifies, [Next]_vars
    PROVE  (Sealed /\ PackageIsComplete /\ PublishedVerifies)'
  <1>1. \A p \in Outputs : ~Free(p) =>
            /\ packages[p].seal \in Seals /\ packages[p].seal \in Ops
            /\ at[packages[p].seal] = "ok"
            /\ at'[packages[p].seal] = "ok"
            /\ before'[packages[p].seal] = before[packages[p].seal]
    BY Lasting DEF Sealed, Free, TypeOK, Ops
  <1>2. ASSUME NEW p \in Outputs, packages'[p] = packages[p]
        PROVE  /\ ~Free(p)' => at'[packages'[p].seal] = "ok"
               /\ packages'[p].signed => ~Free(p)'
               /\ ~Free(p)' =>
                     before'[packages'[p].seal] \ overlapped' \subseteq
                         packages'[p].assets \union Ids(packages'[p].events)
               /\ packages'[p].signed => Observed(packages'[p])
    BY <1>1, <1>2, Lasting
       DEF Free, Sealed, PackageIsComplete, PublishedVerifies, Observed
  <1>3. ASSUME NEW s \in Seals, SealPersists(s), at'[s] = "ok",
               packages'[Target[s]] = Package(s)
        PROVE  /\ at'[packages'[Target[s]].seal] = "ok"
               /\ ~Free(Target[s])'
               /\ before'[packages'[Target[s]].seal] \ overlapped' \subseteq
                     packages'[Target[s]].assets
                         \union Ids(packages'[Target[s]].events)
               /\ packages'[Target[s]].signed => Observed(packages'[Target[s]])
    <2>1. /\ Package(s).seal = s /\ Package(s).assets = seenAssets[s]
          /\ Package(s).events = seenEvents[s]
          /\ Package(s).signed <=> s \in Signed
      BY DEF Package
    <2>2. Verifies(seenAssets[s], seenEvents[s], s \in Signed)
      BY <1>3, PersistFrame DEF Sealing
    <2>3. before'[s] \ overlapped' \subseteq
             seenAssets[s] \union Ids(seenEvents[s])
      BY <1>3, PersistFrame DEF Sealing, SealPersists
    <2>4. s # None
      BY WorkspaceAssumption
    <2>5. Package(s).signed => Observed(Package(s))
      BY <2>1, <2>2 DEF Verifies, Observed
    <2> QED BY <1>3, <2>1, <2>3, <2>4, <2>5 DEF Free
  <1>4. CASE packages' = packages
    BY <1>2, <1>4 DEF Sealed, PackageIsComplete, PublishedVerifies, Observed
  <1>5. CASE \E s \in Seals : SealPersists(s)
    <2> PICK s \in Seals : SealPersists(s)
      BY <1>5
    <2>1. CASE at'[s] = "ok" /\ packages'[Target[s]] = Package(s)
               /\ \A p \in Outputs \ {Target[s]} : packages'[p] = packages[p]
      BY SMTT(30), <1>2, <1>3, <2>1
         DEF Sealed, PackageIsComplete, PublishedVerifies, Observed
    <2>2. CASE packages' = packages
      BY <1>2, <2>2 DEF Sealed, PackageIsComplete, PublishedVerifies, Observed
    <2> QED BY <2>1, <2>2, PersistFrame
  <1> QED BY <1>4, <1>5, Lasting

-----------------------------------------------------------------------------
(* Theorems.                                                                *)

\* The invariant is inductive.
LEMMA Inductive == Spec => []IInv
  <1>1. IInv /\ [Next]_vars => IInv'
    BY TypeStep, ChainStep, FileStep, WriterStep, AnswerStep, SealStep, PackageStep
       DEF IInv
  <1> QED BY Initially, <1>1, PTL DEF Spec

\* Every variable keeps its type.
THEOREM TypeCorrect == Spec => []TypeOK
  <1>1. IInv => TypeOK
    BY DEF IInv
  <1> QED BY Inductive, <1>1, PTL

\* However record_event calls overlap, and wherever they are killed, the file
\* of events holds a chain that verifies.
THEOREM ChainValid == Spec => []ChainStaysValid
  <1>1. IInv => ChainStaysValid
    BY DEF IInv, Chains, ChainStaysValid
  <1> QED BY Inductive, <1>1, PTL

\* No add_asset that races, fails or is killed leaves an asset in the record
\* without its file.
THEOREM RecordHasFiles == Spec => []RecordedHasFile
  <1>1. IInv => RecordedHasFile
    BY DEF IInv, TypeOK, Filed, RecordedHasFile
  <1> QED BY Inductive, <1>1, PTL

\* What an operation was answered ok for stays in the workspace, whatever later
\* writers do to each other, unless it overlapped another writer of its file.
THEOREM NothingLost == Spec => []AnswersKept
  <1>1. IInv => AnswersKept
    BY DEF IInv
  <1> QED BY Inductive, <1>1, PTL

\* A package holds all that had been answered when its sealing began, and a
\* signed one observes only what it holds.
THEOREM PackagesSound == Spec => [](PackageIsComplete /\ PublishedVerifies)
  <1>1. IInv => PackageIsComplete /\ PublishedVerifies
    BY DEF IInv
  <1> QED BY Inductive, <1>1, PTL

\* A package is never replaced, whatever seals race for its path.
THEOREM PackagesStay == Spec => NeverClobbered
  <1>1. ASSUME TypeOK, [Next]_vars
        PROVE  \A p \in Outputs : ~Free(p) => packages'[p] = packages[p]
    BY <1>1, Lasting, PersistFrame
  <1>2. TypeOK /\ [Next]_vars =>
            [\A p \in Outputs : ~Free(p) => packages'[p] = packages[p]]_vars
    BY <1>1
  <1> QED BY TypeCorrect, <1>2, PTL DEF Spec, NeverClobbered


-----------------------------------------------------------------------------
(* The workspace implements ProofArchive.                                   *)

\* What nobody was answered for is nowhere: not in the workspace, nor in what an
\* operation has read of it.
LEMMA OnlyAnswered ==
    ASSUME IInv
    PROVE  /\ Contents \subseteq Answered
           /\ \A o \in Ops : seenAssets[o] \union Ids(seenEvents[o]) \subseteq Answered
  <1>1. /\ record \subseteq Adds /\ events \in Seq(Event)
        /\ \A o \in Ops : seenAssets[o] \subseteq Adds /\ seenEvents[o] \in Seq(Event)
    BY DEF IInv, TypeOK
  <1>2. \A chain \in Seq(Event) : Ids(chain) \subseteq Records
    <2> SUFFICES ASSUME NEW chain \in Seq(Event), NEW i \in DOMAIN chain
                 PROVE  chain[i].id \in Records
      BY DEF Ids
    <2>1. chain[i] \in Event
      BY ElementOfSeq
    <2> QED BY <2>1 DEF Event
  <1>3. /\ \A e \in Ids(events) : e \in Records /\ at[e] = "ok"
        /\ \A o \in Ops : \A e \in Ids(seenEvents[o]) : e \in Records /\ at[e] = "ok"
    BY <1>1, <1>2 DEF IInv, Chains
  <1>4. /\ \A a \in record : a \in Adds /\ at[a] = "ok"
        /\ \A o \in Ops : \A a \in seenAssets[o] : a \in Adds /\ at[a] = "ok"
    BY <1>1 DEF IInv, Filed
  <1> QED BY <1>3, <1>4 DEF Contents, Answered

\* The step of one operation, by where it was and where it goes: what was answered
\* and which seals have begun change with it alone.
LEMMA PlaceFrame ==
    ASSUME TypeOK, NEW o \in Ops, \A d \in Ops \ {o} : at'[d] = at[d]
    PROVE  /\ at[o] # "ok" /\ at'[o] # "ok" => Answered' = Answered
           /\ o \in Adds \union Records /\ at'[o] = "ok" =>
                 Answered' = Answered \union {o}
           /\ o \in Seals => Answered' = Answered
           /\ (at[o] = "idle" <=> at'[o] = "idle") => Begun' = Begun
           /\ o \in Adds \union Records => Begun' = Begun
           /\ o \in Seals /\ at'[o] # "idle" => Begun' = Begun \union {o}
  BY WorkspaceAssumption DEF Answered, Begun, Ops


\* What a caller sees.
Shown == <<Answered, Contents, Begun, before, Published, overlapped>>

\* A writer that begins shows nothing, or that it races with others that have not
\* been answered either.
LEMMA WriterBegins ==
    ASSUME TypeOK, NEW o \in Adds \union Records, at[o] # "ok", at'[o] # "ok",
           \A d \in Ops \ {o} : at'[d] = at[d],
           UNCHANGED <<record, events, packages, before>>,
           NEW racing, racing \subseteq Adds \union Records,
           \A d \in racing : at[d] # "ok",
           overlapped' = overlapped \union racing
    PROVE  Archive!Race
  <1>1. o \in Ops
    BY DEF Ops
  <1>2. Answered' = Answered /\ Begun' = Begun
    BY <1>1, PlaceFrame
  <1>3. Contents' = Contents /\ Published' = Published
    BY DEF Contents, Published
  <1>4. racing \in SUBSET ((Adds \union Records) \ Answered)
    BY DEF Answered
  <1> QED
    BY <1>2, <1>3, <1>4 DEF Archive!Race

\* A step of a writer that overlaps nobody and is not its last shows nothing.
LEMMA WriterGoesOn ==
    ASSUME TypeOK, NEW o \in Adds \union Records, at[o] # "ok", at'[o] # "ok",
           \A d \in Ops \ {o} : at'[d] = at[d],
           UNCHANGED <<record, events, packages, before, overlapped>>
    PROVE  UNCHANGED Shown
  <1>1. o \in Ops
    BY DEF Ops
  <1>2. Answered' = Answered /\ Begun' = Begun
    BY <1>1, PlaceFrame
  <1>3. Contents' = Contents /\ Published' = Published
    BY DEF Contents, Published
  <1> QED BY <1>2, <1>3 DEF Shown

\* What a writer that finds others under way adds to the racing ones.
LEMMA Racing ==
    ASSUME NEW o, NEW others, Overlaps(o, others)
    PROVE  \E racing \in SUBSET (others \union {o}) :
               overlapped' = overlapped \union racing
  <1>1. CASE others = {}
    <2> WITNESS {} \in SUBSET (others \union {o})
    <2> QED BY <1>1 DEF Overlaps
  <1>2. CASE others # {}
    <2> WITNESS others \union {o} \in SUBSET (others \union {o})
    <2> QED BY <1>2 DEF Overlaps
  <1> QED BY <1>1, <1>2

\* A writer that replaces its file with what it has read and its own is answered:
\* what it has not read was answered to others that overlapped.
LEMMA WriterAnswers ==
    ASSUME IInv, NEW o \in Adds \union Records, at[o] # "ok", at'[o] = "ok",
           \A d \in Ops \ {o} : at'[d] = at[d],
           NEW kept, kept \subseteq Answered, Answered \ overlapped \subseteq kept,
           Contents' = kept \union {o},
           UNCHANGED <<packages, before, overlapped>>
    PROVE  Archive!Answer(o)
  <1>1. o \in Ops /\ TypeOK
    BY DEF Ops, IInv
  <1>2. Answered' = Answered \union {o} /\ Begun' = Begun
    BY <1>1, PlaceFrame
  <1>3. o \notin Answered
    BY DEF Answered
  <1>4. Published' = Published
    BY DEF Published
  <1> QED
    BY <1>2, <1>3, <1>4 DEF Archive!Answer

\* A step of a seal between its beginning and its end shows nothing.
LEMMA SealGoesOn ==
    ASSUME TypeOK, NEW s \in Seals, at[s] # "idle", at'[s] # "idle",
           \A d \in Ops \ {s} : at'[d] = at[d],
           UNCHANGED <<record, events, packages, before, overlapped>>
    PROVE  UNCHANGED Shown
  <1>1. s \in Ops
    BY DEF Ops
  <1>2. Answered' = Answered /\ Begun' = Begun
    BY <1>1, PlaceFrame
  <1>3. Contents' = Contents /\ Published' = Published
    BY DEF Contents, Published
  <1> QED BY <1>2, <1>3 DEF Shown

\* A seal begins: what had been answered by then is owed.
LEMMA SealBegins ==
    ASSUME TypeOK, NEW s \in Seals, SealStarts(s)
    PROVE  Archive!Begin(s)
  <1>1. /\ at[s] = "idle" /\ s \in Ops /\ at'[s] # "idle"
        /\ \A o \in Ops \ {s} : at'[o] = at[o]
    BY SealStartsFrame DEF Ops
  <1>2. Answered' = Answered /\ Begun' = Begun \union {s} /\ s \notin Begun
    BY <1>1, PlaceFrame DEF Begun
  <1>3. before' = [before EXCEPT ![s] = Answered]
    BY DEF SealStarts, Answered
  <1>4. Contents' = Contents /\ Published' = Published /\ overlapped' = overlapped
    BY DEF SealStarts, Contents, Published
  <1> QED BY <1>2, <1>3, <1>4 DEF Archive!Begin

\* A seal publishes what it has read, which is enough and not too much, or finds
\* its path taken, which shows nothing.
LEMMA SealPublishes ==
    ASSUME IInv, NEW s \in Seals, SealPersists(s)
    PROVE  Archive!Publish(s) \/ UNCHANGED Shown
  <1>1. /\ TypeOK /\ s \in Ops /\ Target[s] \in Outputs
        /\ at[s] = "publishing" /\ at'[s] # "idle"
        /\ \A o \in Ops \ {s} : at'[o] = at[o]
    BY PersistFrame, WorkspaceAssumption DEF Ops, IInv
  <1>2. UNCHANGED <<record, events, before, overlapped>>
    BY DEF SealPersists
  <1>3. CASE packages' = packages
    BY <1>1, <1>2, <1>3, SealGoesOn
  <1>4. CASE /\ Free(Target[s])
             /\ packages'[Target[s]] = Package(s)
             /\ \A p \in Outputs \ {Target[s]} : packages'[p] = packages[p]
    <2>1. PICK holds : holds = seenAssets[s] \union Ids(seenEvents[s])
      OBVIOUS
    <2>2. holds \subseteq Answered
      BY <1>1, <2>1, OnlyAnswered
    <2>3. before[s] \ overlapped \subseteq holds
      BY <1>1, <2>1 DEF IInv, Sealing
    <2>4. Published' = [Published EXCEPT ![Target[s]] = [seal |-> s, holds |-> holds]]
      <3>1. /\ packages'[Target[s]].seal = s
            /\ packages'[Target[s]].assets \union Ids(packages'[Target[s]].events) = holds
        BY <1>4, <2>1 DEF Package
      <3> QED BY <1>1, <1>4, <3>1 DEF Published
    <2>5. Published[Target[s]].seal = None
      BY <1>1, <1>4 DEF Published, Free
    <2>6. /\ Answered' = Answered /\ Begun' = Begun
          /\ Contents' = Contents /\ s \in Begun
      BY <1>1, <1>2, PlaceFrame DEF Begun, Contents
    <2>7. Archive!Publish(s)
      BY <1>2, <2>2, <2>3, <2>4, <2>5, <2>6 DEF Archive!Publish
    <2> QED BY <2>7
  <1> QED BY <1>3, <1>4, PersistFrame, <1>1


\* Every step is a step of ProofArchive or shows nothing.
LEMMA ArchiveStep ==
    ASSUME IInv, [Next]_vars
    PROVE  [Archive!Next]_Shown
  <1> SUFFICES Archive!Next \/ UNCHANGED Shown
    OBVIOUS
  <1>0. TypeOK
    BY DEF IInv
  <1>1. ASSUME NEW a \in Adds, AddStarts(a)
        PROVE  Archive!Next \/ UNCHANGED Shown
    <2>1. /\ at[a] = "idle" /\ at'[a] = "copying"
          /\ \A d \in Ops \ {a} : at'[d] = at[d]
      BY <1>0, <1>1 DEF AddStarts, Goes, TypeOK, Ops
    <2>2. UNCHANGED <<record, events, packages, before>>
      BY <1>1 DEF AddStarts
    <2>3. PICK others : /\ others = {b \in Adds \ {a} : at[b] \in {"copying", "persisted"}}
                        /\ Overlaps(a, others)
      BY <1>1 DEF AddStarts
    <2>4. PICK racing \in SUBSET (others \union {a}) :
                 overlapped' = overlapped \union racing
      BY <2>3, Racing
    <2>5. racing \subseteq Adds \union Records /\ \A d \in racing : at[d] # "ok"
      BY <2>1, <2>3, <2>4
    <2>6. Archive!Race
      BY <1>0, <2>1, <2>2, <2>4, <2>5, WriterBegins
    <2> QED BY <2>6 DEF Archive!Next
  <1>2. ASSUME NEW a \in Adds, AddPersists(a) \/ AddFails(a)
        PROVE  Archive!Next \/ UNCHANGED Shown
    <2>1. /\ at[a] \in {"copying", "persisted"} /\ at'[a] \in {"persisted", "failed"}
          /\ \A d \in Ops \ {a} : at'[d] = at[d]
      BY <1>0, <1>2 DEF AddPersists, AddFails, Goes, TypeOK, Ops
    <2>2. UNCHANGED <<record, events, packages, before, overlapped>>
      BY <1>2 DEF AddPersists, AddFails
    <2> QED BY <1>0, <2>1, <2>2, WriterGoesOn
  <1>3. ASSUME NEW a \in Adds, AddWrites(a)
        PROVE  Archive!Next \/ UNCHANGED Shown
    <2>1. /\ at[a] = "persisted" /\ at'[a] = "ok" /\ a \in Ops
          /\ \A d \in Ops \ {a} : at'[d] = at[d]
      BY <1>0, <1>3 DEF AddWrites, Goes, TypeOK, Ops
    <2>2. PICK kept : kept = seenAssets[a] \union Ids(events)
      OBVIOUS
    <2>3. kept \subseteq Answered
      BY <2>1, <2>2, OnlyAnswered DEF Contents
    <2>4. Answered \ overlapped \subseteq kept
      BY <2>1, <2>2 DEF IInv, OneWriter, AnswersKept, AddingPlaces, Answered
    <2>5. /\ Contents' = kept \union {a}
          /\ UNCHANGED <<packages, before, overlapped>>
      BY <1>3, <2>2 DEF AddWrites, Contents
    <2>6. Archive!Answer(a)
      BY <2>1, <2>3, <2>4, <2>5, WriterAnswers
    <2> QED BY <2>6 DEF Archive!Next
  <1>4. ASSUME NEW e \in Records, Observes(e)
        PROVE  Archive!Next \/ UNCHANGED Shown
    <2>1. /\ at[e] = "idle" /\ at'[e] \in {"observed", "failed"}
          /\ \A d \in Ops \ {e} : at'[d] = at[d]
      BY <1>0, <1>4 DEF Observes, Goes, TypeOK, Ops
    <2>2. UNCHANGED <<record, events, packages, before, overlapped>>
      BY <1>4 DEF Observes
    <2> QED BY <1>0, <2>1, <2>2, WriterGoesOn
  <1>5. ASSUME NEW e \in Records, RecordReads(e)
        PROVE  Archive!Next \/ UNCHANGED Shown
    <2>1. /\ at[e] \in {"idle", "observed"} /\ at'[e] \in {"extending", "failed"}
          /\ \A d \in Ops \ {e} : at'[d] = at[d]
      BY <1>0, <1>5, ReadFrame
    <2>2. UNCHANGED <<record, events, packages, before>>
      BY <1>5 DEF RecordReads
    <2>3. CASE overlapped' = overlapped
      BY <1>0, <2>1, <2>2, <2>3, WriterGoesOn
    <2>4. CASE Overlaps(e, {d \in Records \ {e} : at[d] = "extending"})
      <3>1. PICK others : /\ others = {d \in Records \ {e} : at[d] = "extending"}
                          /\ Overlaps(e, others)
        BY <2>4
      <3>2. PICK racing \in SUBSET (others \union {e}) :
                   overlapped' = overlapped \union racing
        BY <3>1, Racing
      <3>3. racing \subseteq Adds \union Records /\ \A d \in racing : at[d] # "ok"
        BY <2>1, <3>1, <3>2
      <3>4. Archive!Race
        BY <1>0, <2>1, <2>2, <3>2, <3>3, WriterBegins
      <3> QED BY <3>4 DEF Archive!Next
    <2> QED BY <1>0, <1>5, <2>3, <2>4, ReadFrame
  <1>6. ASSUME NEW e \in Records, RecordWrites(e)
        PROVE  Archive!Next \/ UNCHANGED Shown
    <2>1. /\ at[e] = "extending" /\ at'[e] = "ok" /\ e \in Ops
          /\ seenEvents[e] \in Seq(Event)
          /\ \A d \in Ops \ {e} : at'[d] = at[d]
      BY <1>0, <1>6 DEF RecordWrites, Goes, TypeOK, Ops
    <2>2. PICK kept : kept = record \union Ids(seenEvents[e])
      OBVIOUS
    <2>3. kept \subseteq Answered
      BY <2>1, <2>2, OnlyAnswered DEF Contents
    <2>4. Answered \ overlapped \subseteq kept
      BY <2>1, <2>2 DEF IInv, OneWriter, AnswersKept, Answered
    <2>5. Ids(events') = Ids(seenEvents[e]) \union {e}
      BY <1>6, <2>1, NewEventType, AppendIds DEF RecordWrites
    <2>6. /\ Contents' = kept \union {e}
          /\ UNCHANGED <<packages, before, overlapped>>
      BY <1>6, <2>2, <2>5 DEF RecordWrites, Contents, Ids
    <2>7. Archive!Answer(e)
      BY <2>1, <2>3, <2>4, <2>6, WriterAnswers
    <2> QED BY <2>7 DEF Archive!Next
  <1>7. ASSUME NEW s \in Seals, SealStarts(s)
        PROVE  Archive!Next \/ UNCHANGED Shown
    BY <1>0, <1>7, SealBegins DEF Archive!Next
  <1>8. ASSUME NEW s \in Seals, SealHashes(s) \/ SealWrites(s) \/ SealChecks(s)
        PROVE  Archive!Next \/ UNCHANGED Shown
    <2>1. /\ at[s] # "idle" /\ at'[s] # "idle"
          /\ \A d \in Ops \ {s} : at'[d] = at[d]
      BY <1>0, <1>8 DEF SealHashes, SealWrites, SealChecks, Goes, TypeOK, Ops
    <2>2. UNCHANGED <<record, events, packages, before, overlapped>>
      BY <1>8 DEF SealHashes, SealWrites, SealChecks
    <2> QED BY <1>0, <2>1, <2>2, SealGoesOn
  <1>9. ASSUME NEW s \in Seals, SealReadsEvents(s)
        PROVE  Archive!Next \/ UNCHANGED Shown
    <2>1. /\ at[s] # "idle" /\ at'[s] # "idle"
          /\ \A d \in Ops \ {s} : at'[d] = at[d]
      BY <1>0, <1>9, SealReadsFrame
    <2>2. UNCHANGED <<record, events, packages, before, overlapped>>
      BY <1>9 DEF SealReadsEvents
    <2> QED BY <1>0, <2>1, <2>2, SealGoesOn
  <1>10. ASSUME NEW s \in Seals, SealPersists(s)
         PROVE  Archive!Next \/ UNCHANGED Shown
    BY <1>10, SealPublishes DEF Archive!Next
  <1>11. ASSUME NEW o \in Ops, Stops(o)
         PROVE  Archive!Next \/ UNCHANGED Shown
    <2>1. /\ at[o] \notin Ended /\ at'[o] = "stopped"
          /\ \A d \in Ops \ {o} : at'[d] = at[d]
      BY <1>0, <1>11 DEF Stops, Goes, TypeOK, Ops
    <2>2. UNCHANGED <<record, events, packages, before, overlapped>>
      BY <1>11 DEF Stops
    <2>3. at[o] # "idle" /\ at[o] # "ok"
      BY <2>1 DEF Ended
    <2>4. CASE o \in Seals
      BY <1>0, <2>1, <2>2, <2>3, <2>4, SealGoesOn
    <2>5. CASE o \in Adds \union Records
      BY <1>0, <2>1, <2>2, <2>3, <2>5, WriterGoesOn
    <2> QED BY <2>4, <2>5 DEF Ops
  <1>12. CASE (\E a \in Adds : Changes(a)) \/ UNCHANGED vars
    <2>1. UNCHANGED <<at, record, events, packages, before, overlapped>>
      BY <1>12 DEF Changes, vars
    <2> QED BY <2>1 DEF Shown, Answered, Contents, Begun, Published
  <1> QED
    BY <1>1, <1>2, <1>3, <1>4, <1>5, <1>6, <1>7, <1>8, <1>9, <1>10, <1>11, <1>12
       DEF Next, AddSteps, RecordSteps, SealSteps

\* The workspace implements ProofArchive, for any operations, overlaps and faults:
\* whatever is answered, in whatever order, a caller sees the promised workspace.
THEOREM ArchiveImplemented == Spec => ImplementsArchive
  <1>1. Init => Archive!Init
    <2> SUFFICES ASSUME Init PROVE Archive!Init
      OBVIOUS
    <2>1. Answered = {} /\ Begun = {}
      BY DEF Init, Answered, Begun, Ops
    <2>2. Contents = {} /\ before = [s \in Seals |-> {}] /\ overlapped = {}
      BY DEF Init, Contents, Ids
    <2>3. Published = [p \in Outputs |-> [seal |-> None, holds |-> {}]]
      <3>1. Ids(<<>>) = {}
        BY DEF Ids
      <3>2. \A p \in Outputs : /\ packages[p].seal = None
                               /\ packages[p].assets \union Ids(packages[p].events) = {}
        BY <3>1 DEF Init, NoPackage
      <3> QED BY <3>2 DEF Published
    <2> QED BY <2>1, <2>2, <2>3 DEF Archive!Init
  <1>2. IInv /\ [Next]_vars => [Archive!Next]_(Archive!vars)
    BY ArchiveStep DEF Shown, Archive!vars
  <1> QED
    BY Inductive, <1>1, <1>2, PTL DEF Spec, ImplementsArchive, Archive!Spec

=============================================================================
