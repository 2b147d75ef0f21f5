----------------------- MODULE CreationSessions_proofs -----------------------
(***************************************************************************)
(* Proofs about creation sessions, for any sessions, runs and completions,  *)
(* any number of events, restarts and changes of the workspace: what a      *)
(* stored session says has happened, whatever handlers raced for it.        *)
(***************************************************************************)
EXTENDS CreationSessions, TLAPS

-----------------------------------------------------------------------------
(* The invariant.                                                           *)

StoredType == [state : States, snapshot : BOOLEAN, output : Runs \union {None},
               package : Seals \union {None}]

RunType == [session : Sessions \union {None}, at : Places, aborted : BOOLEAN,
            asset : BOOLEAN, events : 0 .. EvidenceCount]

SealType == [session : Sessions \union {None},
             at : {"idle", "checking", "sealing", "verifying", "saving", "ended",
                   "lost"},
             sealed : BOOLEAN, verified : BOOLEAN]

\* A run that is under way by what it has written to its session: it will
\* write another state before it ends.
Working == {"announcing", "provider", "staging", "ingesting", "ingested",
            "recording", "recorded"}

\* Places at which nothing has been added to the workspace yet.
Early == {"idle", "inspecting", "announcing", "provider", "staging", "ingesting"}

\* Places of a run that has written its output, and of one that may be done.
Over == {"publishing", "closing", "ended", "lost"}

\* What a run has done by the place it is at.  One that was aborted has left
\* the provider by failing, so that it has done nothing.
RunOK(r) ==
    /\ run[r].at # "idle" => run[r].session \in Sessions
    /\ run[r].at \in Early => ~run[r].asset /\ run[r].events = 0
    /\ run[r].at \in {"ingested", "recording", "recorded"} => run[r].asset
    /\ run[r].at = "recording" => run[r].events < EvidenceCount
    /\ run[r].aborted =>
           /\ run[r].at \in {"announcing", "provider", "closing", "ended", "lost"}
           /\ ~run[r].asset

SealUnderWay == {"checking", "sealing", "verifying", "saving"}

\* What a completion has done, and that its session keeps its output.
SealOK(c) ==
    /\ seal[c].at # "idle" => seal[c].session \in Sessions
    /\ seal[c].at \in SealUnderWay => stored[seal[c].session].output # None
    /\ seal[c].at \in {"verifying", "saving"} => seal[c].sealed
    /\ seal[c].at = "saving" => seal[c].verified

\* The output and the package of a row, and the state it has without them.
RowOK(s) ==
    /\ stored[s].state = "absent" =>
           stored[s].output = None /\ stored[s].package = None
    /\ stored[s].output # None =>
           LET o == stored[s].output IN
              run[o].session = s /\ run[o].asset
                 /\ run[o].events = EvidenceCount /\ run[o].at \in Over
    /\ stored[s].state \in {"proof_ready", "complete"} => stored[s].output # None
    /\ stored[s].state = "complete" => stored[s].package # None
    /\ stored[s].package # None =>
           LET p == stored[s].package IN
              seal[p].session = s /\ seal[p].sealed /\ seal[p].verified
                 /\ seal[p].at \in {"ended", "lost"}

\* Who wrote that the session is under way still is.
Attended(s) ==
    stored[s].state \in {"running", "succeeded"} =>
        \E r \in Runs : run[r].session = s /\ run[r].at \in Working

IInv ==
    /\ TypeOK
    /\ \A r \in Runs : RunOK(r)
    /\ \A c \in Seals : SealOK(c)
    /\ \A s \in Sessions : RowOK(s) /\ Attended(s)

\* The types, by the names above.
LEMMA Types ==
    TypeOK <=> /\ stored \in [Sessions -> StoredType]
               /\ run \in [Runs -> RunType]
               /\ seal \in [Seals -> SealType]
               /\ prompts \subseteq Sessions
               /\ controller \in [Sessions -> Runs \union {None}]
               /\ active \in BOOLEAN
               /\ stopped \subseteq Runs
               /\ faults \in 0 .. MaxFaults
  BY DEF TypeOK, StoredType, RunType, SealType

-----------------------------------------------------------------------------
(* A step of one handler: it has a new record, and writes the row of its    *)
(* own session at most.                                                     *)

\* What such a step leaves alone.
Elsewhere ==
    /\ prompts' \subseteq Sessions
    /\ controller' \in [Sessions -> Runs \union {None}]
    /\ active' \in BOOLEAN
    /\ stopped' \subseteq Runs
    /\ faults' \in 0 .. MaxFaults

\* A row may get an output or a package, and never loses its output.
WritesRow(s, row) ==
    /\ stored' = [stored EXCEPT ![s] = row]
    /\ row \in StoredType
    /\ stored[s].output # None => row.output # None

LEMMA RunStepOK ==
    ASSUME IInv, Elsewhere, UNCHANGED seal,
           NEW r \in Runs, NEW s \in Sessions,
           NEW record \in RunType, NEW row, WritesRow(s, row),
           run[r].at = "idle" \/ run[r].session = s,
           record.session = s,
           run' = [run EXCEPT ![r] = record],
           RunOK(r)', RowOK(s)', Attended(s)'
    PROVE  IInv'
<1>1. /\ run' \in [Runs -> RunType] /\ stored' \in [Sessions -> StoredType]
      /\ run'[r] = record /\ stored'[s] = row
      /\ \A q \in Runs \ {r} : run'[q] = run[q]
      /\ \A t \in Sessions \ {s} : stored'[t] = stored[t]
  BY Types DEF IInv, WritesRow
<1>2. TypeOK'
  <2>1. seal' \in [Seals -> SealType]
    BY Types DEF IInv
  <2>. QED  BY <1>1, <2>1 DEF TypeOK, Elsewhere, StoredType, RunType, SealType
<1>3. ASSUME NEW q \in Runs PROVE RunOK(q)'
  <2>1. CASE q = r
    BY <2>1
  <2>2. CASE q # r
    BY <1>1, <2>2 DEF IInv, RunOK
  <2>. QED  BY <2>1, <2>2
<1>4. ASSUME NEW c \in Seals PROVE SealOK(c)'
  BY <1>1 DEF IInv, SealOK, SealUnderWay, WritesRow
<1>5. ASSUME NEW t \in Sessions PROVE RowOK(t)' /\ Attended(t)'
  <2>1. CASE t = s
    BY <2>1
  <2>2. CASE t # s
    <3>1. stored'[t] = stored[t] /\ stored[t] \in StoredType
      BY <1>1, <2>2, Types DEF IInv
    <3>2. RowOK(t) /\ Attended(t)
      BY DEF IInv
    <3>3. stored[t].output # None => stored[t].output \in Runs \ {r}
      BY <2>2, <3>1, <3>2 DEF RowOK, StoredType, Over
    <3>4. RowOK(t)'
      BY <1>1, <3>1, <3>2, <3>3 DEF RowOK
    <3>5. Attended(t)'
      BY <1>1, <2>2, <3>1, <3>2 DEF Attended, Working
    <3>. QED  BY <3>4, <3>5
  <2>. QED  BY <2>1, <2>2
<1>. QED  BY <1>2, <1>3, <1>4, <1>5 DEF IInv

LEMMA SealStepOK ==
    ASSUME IInv, Elsewhere, UNCHANGED run,
           NEW c \in Seals, NEW s \in Sessions,
           NEW record \in SealType, NEW row, WritesRow(s, row),
           seal[c].at = "idle" \/ seal[c].session = s,
           record.session = s,
           seal' = [seal EXCEPT ![c] = record],
           SealOK(c)', RowOK(s)', Attended(s)'
    PROVE  IInv'
<1>1. /\ seal' \in [Seals -> SealType] /\ stored' \in [Sessions -> StoredType]
      /\ seal'[c] = record /\ stored'[s] = row
      /\ \A d \in Seals \ {c} : seal'[d] = seal[d]
      /\ \A t \in Sessions \ {s} : stored'[t] = stored[t]
  BY Types DEF IInv, WritesRow
<1>2. TypeOK'
  <2>1. run' \in [Runs -> RunType]
    BY Types DEF IInv
  <2>. QED  BY <1>1, <2>1 DEF TypeOK, Elsewhere, StoredType, RunType, SealType
<1>3. ASSUME NEW r \in Runs PROVE RunOK(r)'
  BY DEF IInv, RunOK
<1>4. ASSUME NEW d \in Seals PROVE SealOK(d)'
  <2>1. CASE d = c
    BY <2>1
  <2>2. CASE d # c
    BY <1>1, <2>2 DEF IInv, SealOK, SealUnderWay, WritesRow
  <2>. QED  BY <2>1, <2>2
<1>5. ASSUME NEW t \in Sessions PROVE RowOK(t)' /\ Attended(t)'
  <2>1. CASE t = s
    BY <2>1
  <2>2. CASE t # s
    <3>1. stored'[t] = stored[t] /\ stored[t] \in StoredType
      BY <1>1, <2>2, Types DEF IInv
    <3>2. RowOK(t) /\ Attended(t)
      BY DEF IInv
    <3>3. stored[t].package # None => stored[t].package \in Seals \ {c}
      BY <2>2, <3>1, <3>2 DEF RowOK, StoredType
    <3>4. RowOK(t)'
      BY <1>1, <3>1, <3>2, <3>3 DEF RowOK
    <3>5. Attended(t)'
      BY <3>1, <3>2 DEF Attended
    <3>. QED  BY <3>4, <3>5
  <2>. QED  BY <2>1, <2>2
<1>. QED  BY <1>2, <1>3, <1>4, <1>5 DEF IInv

-----------------------------------------------------------------------------
(* The kinds of steps of a run.                                             *)

\* A run that goes on without writing its row: it stays at work, or over.
LEMMA RunGoesOK ==
    ASSUME IInv, Elsewhere, UNCHANGED <<seal, stored>>,
           NEW r \in Runs, run[r].at # "idle",
           NEW record \in RunType,
           run' = [run EXCEPT ![r] = record],
           record.session = run[r].session,
           run[r].at \in Working => record.at \in Working,
           run[r].at \in Over => /\ record.at \in Over /\ record.asset = run[r].asset
                                 /\ record.events = run[r].events,
           RunOK(r)'
    PROVE  IInv'
<1>0. PICK s \in Sessions : run[r].session = s
  BY DEF IInv, RunOK
<1>1. RowOK(s) /\ Attended(s) /\ stored \in [Sessions -> StoredType]
      /\ run \in [Runs -> RunType]
  BY <1>0, Types DEF IInv, RunOK
<1>2. WritesRow(s, stored[s])
  BY <1>1 DEF WritesRow
<1>3. stored[s].output # None => stored[s].output \in Runs
  BY <1>1 DEF StoredType
<1>4. RowOK(s)'
  BY <1>0, <1>1, <1>3 DEF RowOK
<1>5. Attended(s)'
  BY <1>0, <1>1 DEF Attended
<1>. QED  BY <1>0, <1>1, <1>2, <1>4, <1>5, RunStepOK

\* The catch block, from wherever the run awaits.
LEMMA FailsOK ==
    ASSUME IInv, Elsewhere, UNCHANGED seal,
           NEW r \in Runs, run[r].at # "idle",
           NEW state \in {"failed", "cancelled"}, Fails(r, state)
    PROVE  IInv'
<1>0. PICK s \in Sessions : run[r].session = s
  BY DEF IInv, RunOK
<1> DEFINE record == [run[r] EXCEPT !.at = "closing"]
           row    == [stored[s] EXCEPT !.state = state]
<1>1. RowOK(s) /\ RunOK(r) /\ stored[s] \in StoredType
      /\ stored \in [Sessions -> StoredType]
      /\ run \in [Runs -> RunType] /\ run[r] \in RunType
  BY <1>0, Types DEF IInv, RunOK
<1>2. record \in RunType /\ row \in StoredType
  BY <1>1 DEF RunType, Places, StoredType, States
<1>3. run' = [run EXCEPT ![r] = record] /\ stored' = [stored EXCEPT ![s] = row]
  BY <1>0 DEF Fails, Goes, Written
<1>4. /\ run' \in [Runs -> RunType] /\ run'[r] = record /\ stored'[s] = row
      /\ \A q \in Runs \ {r} : run'[q] = run[q]
  BY <1>1, <1>2, <1>3
<1>5. /\ record.session = s /\ record.at = "closing"
      /\ record.asset = run[r].asset /\ record.events = run[r].events
      /\ record.aborted = run[r].aborted
      /\ row.state = state /\ row.output = stored[s].output
      /\ row.package = stored[s].package
  BY <1>0, <1>1 DEF RunType, StoredType
<1>6. WritesRow(s, row)
  BY <1>2, <1>3, <1>5 DEF WritesRow
<1>7. RunOK(r)'
  BY <1>0, <1>1, <1>4, <1>5 DEF RunOK, Early
<1>8. stored[s].output # None => stored[s].output \in Runs
  BY <1>1 DEF StoredType
<1>9. RowOK(s)'
  <2>1. stored'[s].output = stored[s].output /\ stored'[s].package = stored[s].package
        /\ stored'[s].state = state
    BY <1>4, <1>5
  <2> HIDE DEF record, row
  <2>. QED  BY <1>1, <1>4, <1>5, <1>8, <2>1 DEF RowOK, Over
<1>10. Attended(s)'
  <2> HIDE DEF record, row
  <2>. QED  BY <1>1, <1>4, <1>5 DEF Attended
<1>. QED  BY <1>0, <1>1, <1>2, <1>3, <1>5, <1>6, <1>7, <1>9, <1>10, RunStepOK

\* A run that goes on to a place at which it is at work, and writes that.
LEMMA WorksOK ==
    ASSUME IInv, Elsewhere, UNCHANGED seal,
           NEW r \in Runs, run[r].at \notin Over \union {"idle"},
           NEW state \in {"running", "succeeded"},
           NEW place \in {"announcing", "provider", "staging"},
           stored' = Written(run[r].session, state), Goes(r, place),
           place \in Early \ {"staging"} \/ ~run[r].aborted,
           run[r].at \in Early
    PROVE  IInv'
<1>0. PICK s \in Sessions : run[r].session = s
  BY DEF IInv, RunOK
<1> DEFINE record == [run[r] EXCEPT !.at = place]
           row    == [stored[s] EXCEPT !.state = state]
<1>1. RowOK(s) /\ RunOK(r) /\ stored[s] \in StoredType
      /\ stored \in [Sessions -> StoredType]
      /\ run \in [Runs -> RunType] /\ run[r] \in RunType
  BY <1>0, Types DEF IInv, RunOK
<1>2. record \in RunType /\ row \in StoredType
  BY <1>1 DEF RunType, Places, Working, StoredType, States
<1>3. run' = [run EXCEPT ![r] = record] /\ stored' = [stored EXCEPT ![s] = row]
  BY <1>0 DEF Goes, Written
<1>4. /\ run' \in [Runs -> RunType] /\ run'[r] = record /\ stored'[s] = row
      /\ \A q \in Runs \ {r} : run'[q] = run[q]
  BY <1>1, <1>2, <1>3
<1>5. /\ record.session = s /\ record.at = place
      /\ record.asset = run[r].asset /\ record.events = run[r].events
      /\ record.aborted = run[r].aborted
      /\ row.state = state /\ row.output = stored[s].output
      /\ row.package = stored[s].package
  BY <1>0, <1>1 DEF RunType, StoredType
<1>6. WritesRow(s, row)
  BY <1>2, <1>3, <1>5 DEF WritesRow
<1>7. RunOK(r)'
  BY <1>0, <1>1, <1>4, <1>5 DEF RunOK, Early, Working
<1>8. stored[s].output # None => stored[s].output \in Runs \ {r}
  BY <1>1 DEF StoredType, RowOK, Over
<1>9. RowOK(s)'
  <2>1. stored'[s].output = stored[s].output /\ stored'[s].package = stored[s].package
        /\ stored'[s].state = state
    BY <1>4, <1>5
  <2> HIDE DEF record, row
  <2>. QED  BY <1>1, <1>4, <1>5, <1>8, <2>1 DEF RowOK
<1>10. Attended(s)'
  <2> HIDE DEF record, row
  <2>. QED  BY <1>1, <1>4, <1>5 DEF Attended, Working
<1>. QED  BY <1>0, <1>1, <1>2, <1>3, <1>5, <1>6, <1>7, <1>9, <1>10, RunStepOK

-----------------------------------------------------------------------------
(* The steps of a run.                                                      *)

LEMMA ElsewhereKept ==
    ASSUME IInv, UNCHANGED <<prompts, active, stopped, faults>>,
           controller' = controller
              \/ \E s \in Sessions, c \in Runs \union {None} :
                    controller' = [controller EXCEPT ![s] = c]
    PROVE  Elsewhere
  BY DEF IInv, TypeOK, Elsewhere

\* A request, run or refused.
LEMMA RunRequestedOK ==
    ASSUME IInv, NEW r \in Runs, NEW s \in Sessions, RunRequested(r, s) PROVE IInv'
<1> DEFINE place  == IF Runnable(s) THEN "inspecting" ELSE "closing"
           record == [run[r] EXCEPT !.session = s, !.at = place]
           state  == IF Runnable(s) THEN stored[s].state ELSE "failed"
           row    == [stored[s] EXCEPT !.state = state]
<1>1. /\ RowOK(s) /\ Attended(s) /\ RunOK(r) /\ stored[s] \in StoredType
      /\ stored \in [Sessions -> StoredType]
      /\ run \in [Runs -> RunType] /\ run[r] \in RunType
      /\ run[r].at = "idle" /\ stored[s].state # "absent"
  BY Types DEF IInv, RunRequested
<1>2. record \in RunType /\ row \in StoredType
  BY <1>1 DEF RunType, Places, StoredType, States
<1>3. run' = [run EXCEPT ![r] = record] /\ stored' = [stored EXCEPT ![s] = row]
  BY <1>1 DEF RunRequested, Written, StoredType
<1>4. /\ run' \in [Runs -> RunType] /\ run'[r] = record /\ stored'[s] = row
      /\ \A q \in Runs \ {r} : run'[q] = run[q]
  BY <1>1, <1>2, <1>3
<1>5. /\ record.session = s /\ record.at = place
      /\ record.asset = run[r].asset /\ record.events = run[r].events
      /\ record.aborted = run[r].aborted
      /\ row.state = state /\ row.output = stored[s].output
      /\ row.package = stored[s].package
      /\ place \in {"inspecting", "closing"} /\ state \in {stored[s].state, "failed"}
  BY <1>1 DEF RunType, StoredType
<1> HIDE DEF record, row, place, state
<1>6. WritesRow(s, row) /\ Elsewhere /\ UNCHANGED seal
  BY <1>2, <1>3, <1>5, ElsewhereKept DEF WritesRow, RunRequested, Unmoved
<1>7. RunOK(r)'
  BY <1>1, <1>4, <1>5 DEF RunOK, Early
<1>8. stored[s].output # None => stored[s].output \in Runs \ {r}
  BY <1>1 DEF StoredType, RowOK, Over
<1>9. RowOK(s)' /\ Attended(s)'
  BY <1>1, <1>4, <1>5, <1>6, <1>8 DEF RowOK, Attended, Working
<1>. QED  BY <1>1, <1>2, <1>3, <1>5, <1>6, <1>7, <1>9, RunStepOK

\* The inspection, the announcement and what the provider says.
LEMMA InspectReturnsOK ==
    ASSUME IInv, NEW r \in Runs, InspectReturns(r) PROVE IInv'
<1>1. UNCHANGED seal /\ run[r].at = "inspecting" /\ run[r].session \in Sessions
      /\ ~run[r].aborted
  BY DEF InspectReturns, Unmoved, IInv, RunOK
<1>2. Elsewhere
  BY <1>1, ElsewhereKept DEF InspectReturns, Throws, Unmoved
<1>3. CASE Fails(r, "failed")
  BY <1>1, <1>2, <1>3, FailsOK
<1>4. CASE stored' = Written(run[r].session, "running") /\ Goes(r, "announcing")
  BY <1>1, <1>2, <1>4, WorksOK DEF Over, Early
<1>. QED  BY <1>3, <1>4 DEF InspectReturns, Throws

LEMMA AnnounceReturnsOK ==
    ASSUME IInv, NEW r \in Runs, AnnounceReturns(r) PROVE IInv'
<1>1. /\ UNCHANGED seal /\ Elsewhere /\ run[r].at = "announcing"
      /\ RunOK(r) /\ run \in [Runs -> RunType] /\ run[r] \in RunType
  BY ElsewhereKept, Types DEF AnnounceReturns, Throws, Unmoved, IInv
<1>2. CASE Fails(r, "failed")
  BY <1>1, <1>2, FailsOK
<1>3. CASE Goes(r, "provider") /\ UNCHANGED stored
  <2> DEFINE record == [run[r] EXCEPT !.at = "provider"]
  <2>1. record \in RunType /\ run' = [run EXCEPT ![r] = record] /\ run'[r] = record
    BY <1>1, <1>3 DEF Goes, RunType, Places
  <2>2. RunOK(r)'
    BY <1>1, <2>1 DEF RunOK, RunType, Early
  <2>. QED  BY <1>1, <1>3, <2>1, <2>2, RunGoesOK DEF RunType, Working, Over
<1>. QED  BY <1>2, <1>3 DEF AnnounceReturns, Throws

LEMMA ObserveOK ==
    ASSUME IInv, NEW r \in Runs, Observe(r) PROVE IInv'
<1>1. /\ UNCHANGED seal /\ Elsewhere /\ run[r].at = "provider"
      /\ run \in [Runs -> RunType]
  BY ElsewhereKept, Types DEF Observe, Unmoved, IInv
<1>2. Goes(r, "provider") /\ stored' = Written(run[r].session, "running")
  BY <1>1 DEF Observe, Goes, RunType
<1>. QED  BY <1>1, <1>2, WorksOK DEF Over, Early

LEMMA ProviderAnswersOK ==
    ASSUME IInv, NEW r \in Runs, ProviderAnswers(r) PROVE IInv'
<1>1. UNCHANGED seal /\ Elsewhere /\ run[r].at = "provider"
  BY ElsewhereKept DEF ProviderAnswers, ProviderFails, ProviderReturns, Unmoved
<1>2. CASE Fails(r, "failed") \/ Fails(r, "cancelled")
  BY <1>1, <1>2, FailsOK
<1>3. CASE /\ ~run[r].aborted
           /\ stored' = Written(run[r].session, "succeeded") /\ Goes(r, "staging")
  BY <1>1, <1>3, WorksOK DEF Over, Early
<1>. QED  BY <1>2, <1>3 DEF ProviderAnswers, ProviderFails, ProviderReturns

\* The output goes to the workspace.
LEMMA StagingReturnsOK ==
    ASSUME IInv, NEW r \in Runs, StagingReturns(r) PROVE IInv'
<1>1. /\ UNCHANGED seal /\ Elsewhere /\ run[r].at = "staging"
      /\ RunOK(r) /\ run \in [Runs -> RunType] /\ run[r] \in RunType
  BY ElsewhereKept, Types DEF StagingReturns, Throws, Unmoved, IInv
<1>2. CASE Fails(r, "failed")
  BY <1>1, <1>2, FailsOK
<1>3. CASE Goes(r, "ingesting") /\ UNCHANGED stored
  <2> DEFINE record == [run[r] EXCEPT !.at = "ingesting"]
  <2>1. record \in RunType /\ run' = [run EXCEPT ![r] = record] /\ run'[r] = record
    BY <1>1, <1>3 DEF Goes, RunType, Places
  <2>2. RunOK(r)'
    BY <1>1, <2>1 DEF RunOK, RunType, Early
  <2>. QED  BY <1>1, <1>3, <2>1, <2>2, RunGoesOK DEF RunType, Working, Over
<1>. QED  BY <1>2, <1>3 DEF StagingReturns, Throws

LEMMA UtilityWorksOK ==
    ASSUME IInv, NEW r \in Runs, UtilityWorks(r) PROVE IInv'
<1>1. /\ UNCHANGED <<seal, stored>> /\ Elsewhere
      /\ RunOK(r) /\ run \in [Runs -> RunType] /\ run[r] \in RunType
  BY ElsewhereKept, Types DEF UtilityWorks, Unmoved, IInv
<1>2. CASE /\ run[r].at = "ingesting"
           /\ run' = [run EXCEPT ![r].asset = TRUE, ![r].at = "ingested"]
  <2> DEFINE record == [run[r] EXCEPT !.asset = TRUE, !.at = "ingested"]
  <2>1. record \in RunType /\ run' = [run EXCEPT ![r] = record] /\ run'[r] = record
    BY <1>1, <1>2 DEF RunType, Places
  <2>2. RunOK(r)'
    BY <1>1, <1>2, <2>1 DEF RunOK, RunType, Early
  <2>. QED  BY <1>1, <1>2, <2>1, <2>2, RunGoesOK DEF RunType, Working, Over
<1>3. CASE /\ run[r].at = "recording"
           /\ run' = [run EXCEPT ![r].events = @ + 1, ![r].at = "recorded"]
  <2> DEFINE record == [run[r] EXCEPT !.events = @ + 1, !.at = "recorded"]
  <2>1. run[r].events + 1 \in 0 .. EvidenceCount
    BY <1>1, <1>3, CreationAssumption DEF RunOK, RunType
  <2>2. record \in RunType /\ run' = [run EXCEPT ![r] = record] /\ run'[r] = record
    BY <1>1, <1>3, <2>1 DEF RunType, Places
  <2>3. RunOK(r)'
    BY <1>1, <1>3, <2>2 DEF RunOK, RunType, Early
  <2>. QED  BY <1>1, <1>3, <2>2, <2>3, RunGoesOK DEF RunType, Working, Over
<1>. QED  BY <1>2, <1>3 DEF UtilityWorks

LEMMA UtilityFailsOK ==
    ASSUME IInv, NEW r \in Runs, UtilityFails(r) PROVE IInv'
  BY FailsOK, ElsewhereKept DEF UtilityFails, Throws, Unmoved

LEMMA NextEventOK ==
    ASSUME IInv, NEW r \in Runs, NextEvent(r) PROVE IInv'
<1> DEFINE record == [run[r] EXCEPT !.at = "recording"]
<1>1. /\ UNCHANGED <<seal, stored>> /\ Elsewhere
      /\ run[r].at \in {"ingested", "recorded"}
      /\ RunOK(r) /\ run \in [Runs -> RunType] /\ run[r] \in RunType
      /\ run[r].events # EvidenceCount
  BY ElsewhereKept, Types DEF NextEvent, EvidenceComplete, Unmoved, IInv
<1>2. record \in RunType /\ run' = [run EXCEPT ![r] = record] /\ run'[r] = record
  BY <1>1 DEF NextEvent, Goes, RunType, Places
<1>3. RunOK(r)'
  BY <1>1, <1>2, CreationAssumption DEF RunOK, RunType, Early
<1>. QED  BY <1>1, <1>2, <1>3, RunGoesOK DEF RunType, Working, Over

\* The output is written when its asset and its events are there.
LEMMA PublishOK ==
    ASSUME IInv, NEW r \in Runs, Publish(r) PROVE IInv'
<1>0. PICK s \in Sessions : run[r].session = s
  BY DEF IInv, RunOK, Publish
<1> DEFINE place  == IF active THEN "publishing" ELSE "closing"
           state  == IF active THEN "proof_ready" ELSE "failed"
           record == [run[r] EXCEPT !.at = place]
           row    == [stored[s] EXCEPT !.output = r, !.state = state]
<1>1. /\ RowOK(s) /\ RunOK(r) /\ stored[s] \in StoredType
      /\ stored \in [Sessions -> StoredType]
      /\ run \in [Runs -> RunType] /\ run[r] \in RunType
      /\ run[r].at \in {"ingested", "recorded"}
      /\ run[r].events = EvidenceCount
  BY Types DEF IInv, Publish, EvidenceComplete
<1>2. record \in RunType /\ row \in StoredType
  BY <1>1 DEF RunType, Places, StoredType, States
<1>3. run' = [run EXCEPT ![r] = record] /\ stored' = [stored EXCEPT ![s] = row]
  BY <1>0, <1>1 DEF Publish, Goes, StoredType
<1>4. /\ run' \in [Runs -> RunType] /\ run'[r] = record /\ stored'[s] = row
      /\ \A q \in Runs \ {r} : run'[q] = run[q]
  BY <1>1, <1>2, <1>3
<1>5. /\ record.session = s /\ record.at = place
      /\ record.asset = run[r].asset /\ record.events = run[r].events
      /\ record.aborted = run[r].aborted
      /\ row.state = state /\ row.output = r /\ row.package = stored[s].package
      /\ place \in {"publishing", "closing"} /\ state \in {"proof_ready", "failed"}
  BY <1>0, <1>1 DEF RunType, StoredType
<1> HIDE DEF record, row, place, state
<1>6. WritesRow(s, row) /\ Elsewhere /\ UNCHANGED seal
  BY <1>2, <1>3, <1>5, CreationAssumption, ElsewhereKept
     DEF WritesRow, Publish, Unmoved
<1>7. RunOK(r)'
  BY <1>0, <1>1, <1>4, <1>5 DEF RunOK, Early
<1>8. RowOK(s)' /\ Attended(s)'
  BY <1>1, <1>4, <1>5, <1>6, CreationAssumption DEF RowOK, RunOK, Attended, Over
<1>. QED  BY <1>0, <1>1, <1>2, <1>3, <1>5, <1>6, <1>7, <1>8, RunStepOK

\* The finally block.
LEMMA ClosesOK ==
    ASSUME IInv, NEW r \in Runs, run[r].at \in {"publishing", "closing"},
           Closes(r), Unmoved
    PROVE  IInv'
<1> DEFINE record == [run[r] EXCEPT !.at = "ended"]
<1>1. /\ UNCHANGED <<seal, stored>>
      /\ RunOK(r) /\ run \in [Runs -> RunType] /\ run[r] \in RunType
      /\ run[r].session \in Sessions
  BY Types DEF Closes, Unmoved, IInv, RunOK
<1>2. Elsewhere
  BY <1>1, ElsewhereKept DEF Closes, Unmoved
<1>3. record \in RunType /\ run' = [run EXCEPT ![r] = record] /\ run'[r] = record
  BY <1>1 DEF Closes, Goes, RunType, Places
<1>4. RunOK(r)'
  BY <1>1, <1>3 DEF RunOK, RunType, Early
<1>. QED  BY <1>1, <1>2, <1>3, <1>4, RunGoesOK DEF RunType, Working, Over

LEMMA RunEndsOK ==
    ASSUME IInv, NEW r \in Runs, PublishReturns(r) \/ RunEnds(r) PROVE IInv'
<1>1. CASE run[r].at = "publishing" /\ Throws(r) /\ Unmoved
  BY <1>1, FailsOK, ElsewhereKept DEF Throws, Unmoved
<1>2. CASE run[r].at \in {"publishing", "closing"} /\ Closes(r) /\ Unmoved
  BY <1>2, ClosesOK
<1>. QED  BY <1>1, <1>2 DEF PublishReturns, RunEnds

LEMMA ProceedsOK ==
    ASSUME IInv, NEW r \in Runs, Proceeds(r) PROVE IInv'
  BY InspectReturnsOK, AnnounceReturnsOK, ProviderAnswersOK, StagingReturnsOK,
     UtilityWorksOK, UtilityFailsOK, NextEventOK, PublishOK, RunEndsOK
     DEF Proceeds

-----------------------------------------------------------------------------
(* Rows without a run.                                                      *)

\* A row may be written by others as long as it keeps output and package, and
\* no state that promises one is invented.
LEMMA RowWrittenOK ==
    ASSUME IInv, Elsewhere, UNCHANGED <<run, seal>>, NEW s \in Sessions,
           NEW row \in StoredType, stored' = [stored EXCEPT ![s] = row],
           row.output = stored[s].output, row.package = stored[s].package,
           row.state \in {"draft", "frozen", "cancelled"}
    PROVE  IInv'
<1>1. /\ stored' \in [Sessions -> StoredType] /\ stored'[s] = row
      /\ \A t \in Sessions \ {s} : stored'[t] = stored[t]
      /\ run \in [Runs -> RunType] /\ seal \in [Seals -> SealType]
      /\ stored \in [Sessions -> StoredType]
  BY Types DEF IInv
<1>2. TypeOK'
  BY <1>1 DEF TypeOK, Elsewhere, StoredType, RunType, SealType
<1>3. ASSUME NEW r \in Runs PROVE RunOK(r)'
  BY DEF IInv, RunOK
<1>4. ASSUME NEW c \in Seals PROVE SealOK(c)'
  BY <1>1 DEF IInv, SealOK, SealUnderWay
<1>5. ASSUME NEW t \in Sessions PROVE RowOK(t)' /\ Attended(t)'
  <2>1. CASE t = s
    BY <1>1, <2>1 DEF IInv, RowOK, Attended
  <2>2. CASE t # s
    BY <1>1, <2>2 DEF IInv, RowOK, Attended
  <2>. QED  BY <2>1, <2>2
<1>. QED  BY <1>2, <1>3, <1>4, <1>5 DEF IInv

LEMMA CreateOK ==
    ASSUME IInv, NEW s \in Sessions, Create(s) PROVE IInv'
<1>1. stored[s].output = None /\ stored[s].package = None
  BY DEF IInv, RowOK, Create
<1>2. NewSession \in StoredType
  BY DEF NewSession, StoredType, States
<1>. QED
  BY <1>1, <1>2, RowWrittenOK, ElsewhereKept DEF Create, NewSession

LEMMA FreezeOK ==
    ASSUME IInv, NEW s \in Sessions, Freeze(s) PROVE IInv'
<1> DEFINE row == [stored[s] EXCEPT !.state = "frozen", !.snapshot = TRUE]
<1>1. stored[s] \in StoredType
  BY Types DEF IInv
<1>2. /\ row \in StoredType /\ row.output = stored[s].output
      /\ row.package = stored[s].package /\ row.state = "frozen"
  BY <1>1 DEF StoredType, States
<1>3. stored' = [stored EXCEPT ![s] = row]
  BY <1>1 DEF Freeze, StoredType
<1>4. Elsewhere /\ UNCHANGED <<run, seal>>
  BY DEF IInv, TypeOK, Elsewhere, Freeze
<1>. QED  BY <1>2, <1>3, <1>4, RowWrittenOK

\* A cancellation marks the run whose controller there is.
LEMMA CancelOK ==
    ASSUME IInv, NEW s \in Sessions, Cancel(s) PROVE IInv'
<1> DEFINE mark(r) == controller[s] = r /\ run[r].at \in LooksAtSignal
           row == [stored[s] EXCEPT !.state = "cancelled"]
<1>1. /\ stored \in [Sessions -> StoredType] /\ stored[s] \in StoredType
      /\ run \in [Runs -> RunType] /\ seal \in [Seals -> SealType]
      /\ stored' = [stored EXCEPT ![s] = row]
  BY Types DEF IInv, Cancel, Written
<1>2. ASSUME NEW r \in Runs
      PROVE  /\ run'[r] \in RunType
             /\ run'[r].session = run[r].session /\ run'[r].at = run[r].at
             /\ run'[r].asset = run[r].asset /\ run'[r].events = run[r].events
             /\ run'[r].aborted = (run[r].aborted \/ mark(r))
  <2>1. run[r] \in RunType
    BY <1>1
  <2>2. run'[r] = [run[r] EXCEPT !.aborted = @ \/ mark(r)]
    BY DEF Cancel
  <2>3. (run[r].aborted \/ mark(r)) \in BOOLEAN
    BY <2>1 DEF RunType
  <2>. QED  BY <2>1, <2>2, <2>3 DEF RunType
<1>3. /\ row \in StoredType /\ row.output = stored[s].output
      /\ row.package = stored[s].package /\ row.state = "cancelled"
      /\ stored'[s] = row /\ \A t \in Sessions \ {s} : stored'[t] = stored[t]
      /\ stored' \in [Sessions -> StoredType]
  BY <1>1 DEF StoredType, States
<1> HIDE DEF row
<1>4. TypeOK'
  <2>1. run' \in [Runs -> RunType]
    BY <1>2 DEF Cancel
  <2>2. UNCHANGED <<prompts, controller, active, seal, faults>>
        /\ stopped' \subseteq Runs
    BY DEF Cancel, IInv, TypeOK
  <2>. QED  BY <1>1, <1>3, <2>1, <2>2, Types DEF IInv, TypeOK, StoredType, RunType
<1>5. ASSUME NEW r \in Runs PROVE RunOK(r)'
  BY <1>2 DEF IInv, RunOK, Early, LooksAtSignal
<1>6. ASSUME NEW c \in Seals PROVE SealOK(c)'
  BY <1>3 DEF IInv, SealOK, SealUnderWay, Cancel
<1>7. ASSUME NEW t \in Sessions PROVE RowOK(t)' /\ Attended(t)'
  <2>1. /\ stored'[t].output = stored[t].output
        /\ stored'[t].package = stored[t].package
        /\ stored'[t].state \in {stored[t].state, "cancelled"}
    BY <1>3
  <2>2. RowOK(t) /\ Attended(t) /\ stored[t] \in StoredType /\ UNCHANGED seal
    BY <1>1 DEF IInv, Cancel
  <2>3. stored[t].output # None => stored[t].output \in Runs
    BY <2>2 DEF StoredType
  <2>4. RowOK(t)'
    BY <1>2, <2>1, <2>2, <2>3 DEF RowOK
  <2>5. Attended(t)'
    BY <1>2, <2>1, <2>2 DEF Attended
  <2>. QED  BY <2>4, <2>5
<1>. QED  BY <1>4, <1>5, <1>6, <1>7 DEF IInv

-----------------------------------------------------------------------------
(* The steps of a completion.                                               *)

\* A completion is asked for when there is an output.
LEMMA SealRequestedOK ==
    ASSUME IInv, NEW c \in Seals, NEW s \in Sessions, SealRequested(c, s)
    PROVE  IInv'
<1> DEFINE record == [seal[c] EXCEPT !.session = s, !.at = "checking"]
<1>1. /\ UNCHANGED <<run, stored>> /\ Elsewhere
      /\ seal[c].at = "idle" /\ stored[s].output # None
      /\ seal \in [Seals -> SealType] /\ seal[c] \in SealType
      /\ stored \in [Sessions -> StoredType] /\ stored[s] \in StoredType
  BY ElsewhereKept, Types DEF SealRequested, SealUnmoved, IInv
<1>2. record \in SealType /\ seal' = [seal EXCEPT ![c] = record] /\ seal'[c] = record
  BY <1>1 DEF SealRequested, SealType
<1>3. SealOK(c)'
  BY <1>1, <1>2 DEF SealOK, SealType, SealUnderWay
<1>4. WritesRow(s, stored[s])
  BY <1>1 DEF WritesRow
<1>5. stored[s].package # None => stored[s].package \in Seals \ {c}
  BY <1>1 DEF IInv, RowOK, StoredType
<1>6. RowOK(s)'
  BY <1>1, <1>2, <1>5 DEF IInv, RowOK
<1>7. Attended(s)'
  BY <1>1 DEF IInv, Attended
<1>. QED  BY <1>1, <1>2, <1>3, <1>4, <1>6, <1>7, SealStepOK DEF SealType

\* One that goes on, or fails, writes nothing to its session.
LEMMA SealGoesOK ==
    ASSUME IInv, SealUnmoved, UNCHANGED stored,
           NEW c \in Seals, seal[c].at \in SealUnderWay,
           NEW record \in SealType, seal' = [seal EXCEPT ![c] = record],
           record.session = seal[c].session,
           SealOK(c)'
    PROVE  IInv'
<1>0. PICK s \in Sessions : seal[c].session = s
  BY DEF IInv, SealOK, SealUnderWay
<1>1. /\ UNCHANGED run /\ Elsewhere
      /\ seal \in [Seals -> SealType]
      /\ stored \in [Sessions -> StoredType] /\ stored[s] \in StoredType
  BY ElsewhereKept, Types DEF SealUnmoved, IInv
<1>2. WritesRow(s, stored[s])
  BY <1>1 DEF WritesRow
<1>3. stored[s].package # None => stored[s].package \in Seals \ {c}
  BY <1>1 DEF IInv, RowOK, StoredType, SealUnderWay
<1>4. RowOK(s)'
  BY <1>1, <1>3 DEF IInv, RowOK
<1>5. Attended(s)'
  BY <1>1 DEF IInv, Attended
<1>. QED  BY <1>0, <1>1, <1>2, <1>4, <1>5, SealStepOK

LEMMA SealProceedsOK ==
    ASSUME IInv, NEW c \in Seals,
           SealChecked(c) \/ SealPackage(c) \/ VerifyPackage(c) \/ SealFails(c)
    PROVE  IInv'
<1>1. /\ SealOK(c) /\ seal[c] \in SealType /\ seal \in [Seals -> SealType]
      /\ UNCHANGED stored /\ SealUnmoved
  BY Types DEF IInv, SealChecked, SealPackage, VerifyPackage, SealFails
<1>2. CASE SealChecked(c) \/ SealFails(c)
  <2> DEFINE place  == IF SealChecked(c) THEN "sealing" ELSE "ended"
             record == [seal[c] EXCEPT !.at = place]
  <2>1. seal[c].at \in SealUnderWay
        /\ (place = "sealing" => seal[c].at = "checking")
    BY <1>1, <1>2 DEF SealChecked, SealFails, Live, SealType, SealUnderWay
  <2>2. seal' = [seal EXCEPT ![c] = record]
    BY <1>2 DEF SealChecked, SealFails, SealGoes
  <2>3. place \in {"sealing", "ended"}
    OBVIOUS
  <2> HIDE DEF place
  <2>4. record \in SealType /\ seal'[c] = record
    BY <1>1, <2>2, <2>3 DEF SealType
  <2>5. SealOK(c)'
    BY <1>1, <2>1, <2>3, <2>4 DEF SealOK, SealType, SealUnderWay
  <2>. QED  BY <1>1, <2>1, <2>2, <2>4, <2>5, SealGoesOK DEF SealType
<1>3. CASE SealPackage(c)
  <2> DEFINE record == [seal[c] EXCEPT !.sealed = TRUE, !.at = "verifying"]
  <2>1. /\ seal[c].at = "sealing" /\ seal' = [seal EXCEPT ![c] = record]
        /\ record \in SealType /\ seal'[c] = record
    BY <1>1, <1>3 DEF SealPackage, SealType
  <2>2. SealOK(c)'
    BY <1>1, <2>1 DEF SealOK, SealType, SealUnderWay
  <2>. QED  BY <1>1, <2>1, <2>2, SealGoesOK DEF SealType, SealUnderWay
<1>4. CASE VerifyPackage(c)
  <2> DEFINE record == [seal[c] EXCEPT !.verified = TRUE, !.at = "saving"]
  <2>1. /\ seal[c].at = "verifying" /\ seal' = [seal EXCEPT ![c] = record]
        /\ record \in SealType /\ seal'[c] = record
    BY <1>1, <1>4 DEF VerifyPackage, SealType
  <2>2. SealOK(c)'
    BY <1>1, <2>1 DEF SealOK, SealType, SealUnderWay
  <2>. QED  BY <1>1, <2>1, <2>2, SealGoesOK DEF SealType, SealUnderWay
<1>. QED  BY <1>2, <1>3, <1>4

\* The report is saved: the session is complete, with a package.
LEMMA SaveReportOK ==
    ASSUME IInv, NEW c \in Seals, SaveReport(c) PROVE IInv'
<1>0. PICK s \in Sessions : seal[c].session = s
  BY DEF IInv, SealOK, SaveReport
<1> DEFINE record == [seal[c] EXCEPT !.at = "ended"]
           row    == [stored[s] EXCEPT !.state = "complete", !.package = c]
<1>1. /\ SealOK(c) /\ RowOK(s) /\ seal[c] \in SealType /\ seal \in [Seals -> SealType]
      /\ stored[s] \in StoredType /\ stored \in [Sessions -> StoredType]
      /\ UNCHANGED run /\ Elsewhere /\ seal[c].at = "saving"
  BY ElsewhereKept, Types DEF IInv, SaveReport, SealUnmoved
<1>2. /\ record \in SealType /\ record.session = s /\ record.at = "ended"
      /\ record.sealed /\ record.verified
  BY <1>0, <1>1 DEF SealType, SealOK
<1>3. /\ row \in StoredType /\ row.output = stored[s].output
      /\ row.output # None /\ row.package = c /\ row.state = "complete"
  BY <1>0, <1>1 DEF StoredType, States, SealOK, SealUnderWay
<1>4. seal' = [seal EXCEPT ![c] = record] /\ stored' = [stored EXCEPT ![s] = row]
  BY <1>0, <1>1 DEF SaveReport, SealGoes, StoredType
<1> HIDE DEF record, row
<1>5. seal'[c] = record /\ stored'[s] = row /\ WritesRow(s, row)
  BY <1>1, <1>3, <1>4 DEF WritesRow
<1>6. SealOK(c)'
  BY <1>2, <1>5 DEF SealOK, SealUnderWay
<1>7. RowOK(s)' /\ Attended(s)'
  BY <1>1, <1>2, <1>3, <1>5, CreationAssumption DEF RowOK, Attended
<1>. QED  BY <1>0, <1>1, <1>2, <1>4, <1>5, <1>6, <1>7, SealStepOK

-----------------------------------------------------------------------------
(* The environment.                                                         *)

LEMMA SwitchOK ==
    ASSUME IInv, Switch PROVE IInv'
<1>1. TypeOK'
  BY CreationAssumption DEF IInv, TypeOK, Switch
<1>2. UNCHANGED <<stored, run, seal>>
  BY DEF Switch
<1>. QED
  BY <1>1, <1>2 DEF IInv, RunOK, SealOK, RowOK, Attended

\* A restart loses the handlers, and no session stays under way.
LEMMA RestartOK ==
    ASSUME IInv, Restart PROVE IInv'
<1>1. ASSUME NEW r \in Runs
      PROVE  /\ run'[r] \in RunType
             /\ run'[r].session = run[r].session /\ run'[r].aborted = run[r].aborted
             /\ run'[r].asset = run[r].asset /\ run'[r].events = run[r].events
             /\ run'[r].at = IF Live(run[r]) THEN "lost" ELSE run[r].at
  <2>1. run[r] \in RunType /\ run'[r] = Lost(run[r])
    BY Types DEF IInv, Restart
  <2>. QED  BY <2>1 DEF Lost, RunType, Places
<1>2. ASSUME NEW c \in Seals
      PROVE  /\ seal'[c] \in SealType
             /\ seal'[c].session = seal[c].session
             /\ seal'[c].sealed = seal[c].sealed
             /\ seal'[c].verified = seal[c].verified
             /\ seal'[c].at = IF Live(seal[c]) THEN "lost" ELSE seal[c].at
  <2>1. seal[c] \in SealType /\ seal'[c] = Lost(seal[c])
    BY Types DEF IInv, Restart
  <2>. QED  BY <2>1 DEF Lost, SealType
<1>3. ASSUME NEW s \in Sessions
      PROVE  /\ stored'[s] \in StoredType
             /\ stored'[s].output = stored[s].output
             /\ stored'[s].package = stored[s].package
             /\ stored'[s].state = Recovered(stored[s].state)
  <2>1. stored[s] \in StoredType
        /\ stored'[s] = [stored[s] EXCEPT !.state = Recovered(stored[s].state)]
    BY Types DEF IInv, Restart
  <2>2. Recovered(stored[s].state) \in States
    BY <2>1 DEF Recovered, StoredType, States
  <2>. QED  BY <2>1, <2>2 DEF StoredType
<1>4. TypeOK'
  <2>1. /\ run' \in [Runs -> RunType] /\ seal' \in [Seals -> SealType]
        /\ stored' \in [Sessions -> StoredType]
    BY <1>1, <1>2, <1>3 DEF Restart
  <2>2. /\ prompts' \subseteq Sessions
        /\ controller' \in [Sessions -> Runs \union {None}]
        /\ active' \in BOOLEAN /\ stopped' \subseteq Runs
        /\ faults' \in 0 .. MaxFaults
    BY CreationAssumption DEF IInv, TypeOK, Restart
  <2>. QED  BY <2>1, <2>2 DEF TypeOK, StoredType, RunType, SealType
<1>5. ASSUME NEW r \in Runs PROVE RunOK(r)'
  BY <1>1 DEF IInv, RunOK, Live, Early
<1>6. ASSUME NEW c \in Seals PROVE SealOK(c)'
  BY <1>2 DEF IInv, SealOK, Live, SealUnderWay
<1>7. ASSUME NEW s \in Sessions PROVE RowOK(s)' /\ Attended(s)'
  <2>1. RowOK(s) /\ stored[s] \in StoredType
    BY Types DEF IInv
  <2>2. /\ stored[s].output # None => stored[s].output \in Runs
        /\ stored[s].package # None => stored[s].package \in Seals
    BY <2>1 DEF StoredType
  <2>3. RowOK(s)'
    BY <1>1, <1>2, <1>3, <2>1, <2>2 DEF RowOK, Recovered, Live, Over
  <2>4. Attended(s)'
    BY <1>3 DEF Attended, Recovered
  <2>. QED  BY <2>3, <2>4
<1>. QED  BY <1>4, <1>5, <1>6, <1>7 DEF IInv

-----------------------------------------------------------------------------
(* The theorems.                                                            *)

\* The invariant holds of every handler, completion and row.
THEOREM Inductive == Spec => []IInv
<1>1. Init => IInv
  <2> SUFFICES ASSUME Init PROVE IInv
    OBVIOUS
  <2>1. NoRun \in RunType
    BY CreationAssumption DEF NoRun, RunType, Places
  <2>2. NoSeal \in SealType
    BY DEF NoSeal, SealType
  <2>3. TypeOK
    BY <2>1, <2>2, CreationAssumption DEF Init, TypeOK, RunType, SealType, States
  <2>. QED
    BY <2>3 DEF Init, IInv, RunOK, SealOK, RowOK, Attended, NoRun, NoSeal, Early,
                SealUnderWay
<1>2. IInv /\ [Next]_vars => IInv'
  <2> SUFFICES ASSUME IInv, [Next]_vars PROVE IInv'
    OBVIOUS
  <2>1. CASE \E s \in Sessions : Create(s) \/ Freeze(s) \/ Cancel(s)
    BY <2>1, CreateOK, FreezeOK, CancelOK
  <2>2. CASE \E r \in Runs, s \in Sessions : RunRequested(r, s)
    BY <2>2, RunRequestedOK
  <2>3. CASE \E r \in Runs : Observe(r) \/ Proceeds(r)
    BY <2>3, ObserveOK, ProceedsOK
  <2>4. CASE \E c \in Seals, s \in Sessions : SealRequested(c, s)
    BY <2>4, SealRequestedOK
  <2>5. CASE \E c \in Seals : Completes(c)
    BY <2>5, SealProceedsOK, SaveReportOK DEF Completes
  <2>6. CASE Switch \/ Restart
    BY <2>6, SwitchOK, RestartOK
  <2>7. CASE UNCHANGED vars
    BY <2>7 DEF vars, IInv, TypeOK, RunOK, SealOK, RowOK, Attended
  <2>. QED  BY <2>1, <2>2, <2>3, <2>4, <2>5, <2>6, <2>7 DEF Next
<1>. QED  BY <1>1, <1>2, PTL DEF Spec

\* Every variable keeps its type.
THEOREM TypeCorrect == Spec => []TypeOK
  BY Inductive, PTL DEF IInv

\* An output that a session shows is in the workspace with its chain of events,
\* and a complete session has a package that was sealed and verified, whatever
\* runs, completions, cancellations and restarts wrote to its row.
THEOREM EvidenceThere == Spec => []EvidenceBehindProof
<1>1. IInv => EvidenceBehindProof
  BY DEF IInv, RowOK, EvidenceBehindProof
<1>. QED  BY <1>1, Inductive, PTL

\* A session that is shown under way has a run that works on it: whoever wrote
\* the state will write another before it ends.
THEOREM NoneOrphaned == Spec => []NoOrphan
<1>1. IInv => NoOrphan
  BY DEF IInv, Attended, NoOrphan, Working, Live
<1>. QED  BY <1>1, Inductive, PTL

\* What the provider delivers after the abort of a run is dropped.
THEOREM AbortsHold == Spec => []AbortedAddsNothing
<1>1. IInv => AbortedAddsNothing
  BY CreationAssumption DEF IInv, RunOK, RowOK, AbortedAddsNothing
<1>. QED  BY <1>1, Inductive, PTL
=============================================================================
