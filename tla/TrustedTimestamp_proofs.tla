----------------------- MODULE TrustedTimestamp_proofs -----------------------
(***************************************************************************)
(* Proofs about TrustedTimestamp, for any number of requests of a window    *)
(* and any trust snapshots: what a cancellation stops, whom it reaches,     *)
(* what is sent, and what stays on disk.                                    *)
(***************************************************************************)
EXTENDS TrustedTimestamp, TLAPS

-----------------------------------------------------------------------------
(* The invariant.                                                           *)

\* Places at which nothing can have been attached.
Unattached == Network \union {"idle", "preparing", "confirming", "storing"}

\* An abort in time is never followed by an attachment.
Stops(r) ==
    /\ request[r].at \in Unattached => attached[r] = None
    /\ request[r].at \notin {"removing", "done"} => request[r].answer # "ok"
    /\ request[r].aborted = "intime" =>
           /\ request[r].at \in Network \union {"removing", "done"}
           /\ attached[r] = None
           /\ request[r].answer # "ok"

\* The snapshot the user confirmed is the one the request goes on with.
Confirms(r) ==
    /\ request[r].at \in Holding => request[r].confirmed = request[r].profile
    /\ attached[r] # None => attached[r] = request[r].confirmed

\* A response file has its path, and a handler that still has to remove it.
Stages(r) ==
    /\ request[r].at \in {"storing", "attaching", "issuing"} => request[r].path
    /\ r \in staged =>
           request[r].path /\ request[r].at \in {"attaching", "issuing", "removing"}

\* The entry of the window: whose it is, and who may have lost it.
Reaches(r) == request[r].at \in Holding => controller = r \/ request[r].overlapped

Overlaps ==
    \A r, s \in Requests :
        r # s /\ request[r].at \in Holding /\ AtWork(s) => request[r].overlapped

Held == controller # None => request[controller].at \in Holding

RequestOK(r) == Stops(r) /\ Confirms(r) /\ Stages(r) /\ Reaches(r)

IInv == TypeOK /\ (\A r \in Requests : RequestOK(r)) /\ Overlaps /\ Held

-----------------------------------------------------------------------------
(* One lemma per kind of step.                                              *)

\* A handler that fails leaves an invariant state, wherever it waits.
LEMMA FailsOK ==
    ASSUME IInv, NEW r \in Requests, AtWork(r), Fails(r)
    PROVE  IInv'
<1>1. TypeOK'
  <2>1. request[r] \in RequestType
    BY DEF IInv, TypeOK
  <2>2. [request[r] EXCEPT !.at = "removing", !.answer = "failed"] \in RequestType
    BY <2>1 DEF RequestType, Places
  <2>3. request' \in [Requests -> RequestType]
    BY <2>2 DEF IInv, TypeOK, Fails, Leaves
  <2>. QED  BY <2>3 DEF IInv, TypeOK, Fails, Freed
<1>2. ASSUME NEW s \in Requests PROVE RequestOK(s)'
  BY <1>2, TimestampAssumption
     DEF IInv, TypeOK, RequestOK, Stops, Confirms, Stages, Reaches, Overlaps,
         AtWork, Fails, Leaves, Freed, Holding, Unattached, Network
<1>3. Overlaps'
  BY DEF IInv, TypeOK, Overlaps, AtWork, Fails, Leaves, Holding, Network
<1>4. Held'
  BY DEF Held, Fails, Freed
<1>. QED  BY <1>1, <1>2, <1>3, <1>4 DEF IInv

\* An abort marks at most the request the entry belongs to.
LEMMA AbortedOK ==
    ASSUME IInv, request' = Aborted, staged' \in SUBSET staged,
           UNCHANGED <<profile, controller, attached>>
    PROVE  IInv'
<1>1. CASE request' = request
  BY <1>1 DEF IInv, TypeOK, RequestOK, Stops, Confirms, Stages, Reaches,
              Overlaps, AtWork, Held
<1>2. CASE /\ controller # None /\ request[controller].aborted = "no"
           /\ request' = [request EXCEPT ![controller].aborted =
                  IF request[controller].at \in Network
                  THEN "intime" ELSE "late"]
  <2>1. controller \in Requests /\ request[controller].at \in Holding
    BY <1>2 DEF IInv, TypeOK, Held
  <2>2. TypeOK'
    <3> DEFINE mark == IF request[controller].at \in Network
                       THEN "intime" ELSE "late"
    <3>1. [request[controller] EXCEPT !.aborted = mark] \in RequestType
      BY <2>1 DEF IInv, TypeOK, RequestType
    <3>2. request' = [request EXCEPT ![controller] =
              [request[controller] EXCEPT !.aborted = mark]]
      BY <1>2
    <3>3. request' \in [Requests -> RequestType]
      BY <3>1, <3>2 DEF IInv, TypeOK
    <3>. QED  BY <3>3 DEF IInv, TypeOK
  <2>3. ASSUME NEW s \in Requests PROVE RequestOK(s)'
    BY <1>2, <2>1, <2>3
       DEF IInv, TypeOK, RequestOK, Stops, Confirms, Stages, Reaches, Holding,
           Unattached, Network
  <2>4. Overlaps' /\ Held'
    BY <1>2, <2>1 DEF IInv, TypeOK, Overlaps, AtWork, Held
  <2>. QED  BY <2>2, <2>3, <2>4 DEF IInv
<1>. QED  BY <1>1, <1>2 DEF Aborted, IInv, TypeOK

\* A request that is made, or refused, while others may be under way.
LEMMA RequestStepOK ==
    ASSUME IInv, NEW r \in Requests, Request(r)
    PROVE  IInv'
<1> DEFINE others == {s \in Requests \ {r} : request[s].at \in Holding}
           refused == profile = None \/ controller # None
           record == [request[r] EXCEPT !.profile = profile, !.at = "preparing"]
<1>1. /\ request[r].at = "idle"
      /\ request' = [s \in Requests |->
            IF s = r THEN IF refused THEN Leaves(record, "failed") ELSE record
            ELSE IF s \in others THEN [request[s] EXCEPT !.overlapped = TRUE]
            ELSE request[s]]
      /\ controller' = IF refused THEN None ELSE controller
      /\ UNCHANGED <<profile, staged, attached, closed>>
  BY DEF Request, Freed
<1>2. /\ request'[r].at \in {"preparing", "removing"}
      /\ request'[r].answer # "ok"
      /\ request'[r].aborted = request[r].aborted
      /\ request'[r].path = request[r].path
      /\ request'[r].confirmed = request[r].confirmed
      /\ request'[r] \in RequestType
  <2>1. request[r] \in RequestType
    BY DEF IInv, TypeOK
  <2>2. request[r].answer # "ok" /\ profile \in Profiles \union {None}
    BY <1>1 DEF IInv, TypeOK, RequestOK, Stops
  <2>3. request'[r] = IF refused THEN Leaves(record, "failed") ELSE record
    BY <1>1
  <2>4. record = [request[r] EXCEPT !.profile = profile, !.at = "preparing"]
    OBVIOUS
  <2> HIDE DEF others, refused, record
  <2>5. CASE refused
    <3>1. request'[r] = [request[r] EXCEPT !.profile = profile,
                             !.at = "removing", !.answer = "failed"]
      BY <2>1, <2>3, <2>4, <2>5 DEF Leaves, RequestType
    <3>. QED  BY <2>1, <2>2, <3>1 DEF Places, RequestType
  <2>6. CASE ~refused
    <3>1. request'[r] = [request[r] EXCEPT !.profile = profile,
                             !.at = "preparing"]
      BY <2>3, <2>4, <2>6
    <3>. QED  BY <2>1, <2>2, <3>1 DEF Places, RequestType
  <2>. QED  BY <2>5, <2>6
<1>3. ASSUME NEW s \in Requests, s # r
      PROVE  /\ request'[s].at = request[s].at
             /\ request'[s].answer = request[s].answer
             /\ request'[s].aborted = request[s].aborted
             /\ request'[s].path = request[s].path
             /\ request'[s].profile = request[s].profile
             /\ request'[s].confirmed = request[s].confirmed
             /\ request'[s].overlapped =
                    (request[s].overlapped \/ request[s].at \in Holding)
             /\ request'[s] \in RequestType
  <2>1. request[s] \in RequestType
    BY DEF IInv, TypeOK
  <2>2. request'[s] = IF request[s].at \in Holding
                      THEN [request[s] EXCEPT !.overlapped = TRUE] ELSE request[s]
    BY <1>1, <1>3
  <2>. QED  BY ZenonT(60), <2>1, <2>2 DEF RequestType
<1> HIDE DEF record, refused
<1>4. TypeOK'
  <2>1. request' \in [Requests -> RequestType]
    BY <1>1, <1>2, <1>3
  <2>. QED  BY <1>1, <2>1 DEF IInv, TypeOK
<1>5. ASSUME NEW s \in Requests PROVE RequestOK(s)'
  <2>1. CASE s = r
    BY <1>1, <1>2, <2>1
       DEF IInv, RequestOK, Stops, Confirms, Stages, Reaches, Holding,
           Unattached, Network
  <2>2. CASE s # r
    <3>1. Stops(s)' /\ Confirms(s)' /\ Stages(s)'
      BY <1>1, <1>3, <2>2 DEF IInv, RequestOK, Stops, Confirms, Stages
    <3>2. Reaches(s)'
      BY <1>3, <2>2 DEF Reaches
    <3>. QED  BY <3>1, <3>2 DEF RequestOK
  <2>. QED  BY <2>1, <2>2
<1>6. Overlaps'
  <2>. SUFFICES ASSUME NEW s \in Requests, NEW t \in Requests, s # t,
                       request'[s].at \in Holding, AtWork(t)'
                PROVE  request'[s].overlapped
    BY DEF Overlaps
  <2>1. CASE s = r
    BY <1>2, <2>1 DEF Holding, Network
  <2>2. CASE s # r
    BY <1>3, <2>2
  <2>. QED  BY <2>1, <2>2
<1>7. Held'
  <2>1. controller # None /\ controller' # None =>
            controller' = controller /\ controller \in Requests \ {r}
    BY <1>1 DEF IInv, TypeOK, Held, Holding, Network
  <2>2. controller = None => controller' = None
    BY <1>1
  <2>. QED  BY <1>3, <2>1, <2>2 DEF IInv, Held
<1>. QED  BY <1>4, <1>5, <1>6, <1>7 DEF IInv

\* A step of one handler that is under way: it has a new record, the entry of
\* the window is left alone, freed or its own, and the rest is as before.
Moves(r, record) ==
    /\ AtWork(r)
    /\ \/ /\ record.overlapped = request[r].overlapped
          /\ record.at \in Holding => request[r].at \in Holding
       \/ \A s \in Requests \ {r} : AtWork(s) => record.overlapped
    /\ request' = [request EXCEPT ![r] = record]
    /\ attached' \in [Requests -> Profiles \union {None}]
    /\ staged' \subseteq Requests
    /\ \A s \in Requests \ {r} :
           attached'[s] = attached[s] /\ (s \in staged' => s \in staged)
    /\ controller' \in {controller, None, r}
    /\ controller' = r => record.at \in Holding
    /\ UNCHANGED <<profile, closed>>

LEMMA MovesOK ==
    ASSUME IInv, NEW r \in Requests, NEW record \in RequestType,
           Moves(r, record), RequestOK(r)'
    PROVE  IInv'
<1>1. /\ request' \in [Requests -> RequestType]
      /\ request'[r] = record
      /\ \A s \in Requests \ {r} : request'[s] = request[s]
  BY DEF IInv, TypeOK, Moves
<1>2. TypeOK'
  BY <1>1 DEF IInv, TypeOK, Moves
<1>3. ASSUME NEW s \in Requests PROVE RequestOK(s)'
  <2>1. CASE s = r
    BY <2>1
  <2>2. CASE s # r
    <3>1. Stops(s)' /\ Confirms(s)' /\ Stages(s)'
      BY <1>1, <2>2 DEF IInv, RequestOK, Stops, Confirms, Stages, Moves
    <3>2. Reaches(s)'
      BY <1>1, <2>2 DEF IInv, TypeOK, RequestOK, Reaches, Overlaps, AtWork,
                        Moves, Holding, Network
    <3>. QED  BY <3>1, <3>2 DEF RequestOK
  <2>. QED  BY <2>1, <2>2
<1>4. Overlaps'
  BY <1>1 DEF IInv, Overlaps, AtWork, Moves
<1>5. Held'
  BY <1>1 DEF IInv, TypeOK, Held, Moves
<1>. QED  BY <1>2, <1>3, <1>4, <1>5 DEF IInv

-----------------------------------------------------------------------------
(* The steps.                                                               *)

\* The native core has prepared the request.
LEMMA PreparedOK ==
    ASSUME IInv, NEW r \in Requests, Prepared(r) PROVE IInv'
<1>1. CASE Fails(r)
  BY <1>1, FailsOK DEF Prepared, AtWork, Network
<1>2. CASE /\ Goes(r, "confirming")
            /\ UNCHANGED <<profile, controller, staged, attached, closed>>
  <2> DEFINE record == [request[r] EXCEPT !.at = "confirming"]
  <2>1. record \in RequestType
    BY DEF Prepared, IInv, TypeOK, RequestType, Places, Network
  <2>2. Moves(r, record)
    BY <1>2, TimestampAssumption
       DEF Moves, Prepared, AtWork, Goes, IInv, TypeOK, RequestType, Held,
           Holding, Network
  <2>3. request'[r] = record
    BY <2>1, <2>2 DEF Moves, IInv, TypeOK
  <2>4. RequestOK(r)'
    BY <1>2, <2>3
       DEF Prepared, IInv, TypeOK, RequestType, RequestOK, Stops, Confirms, Stages,
           Reaches, Watched, Holding, Unattached, Network
  <2>. QED  BY <2>1, <2>2, <2>4, MovesOK
<1>. QED  BY <1>1, <1>2 DEF Prepared

\* The dialog was answered.
LEMMA ConfirmedOK ==
    ASSUME IInv, NEW r \in Requests, Confirmed(r) PROVE IInv'
<1>1. CASE Fails(r)
  BY <1>1, FailsOK DEF Confirmed, AtWork, Network
<1>2. CASE /\ request' = [request EXCEPT
                    ![r].at = "resolving",
                    ![r].confirmed = request[r].profile,
                    ![r].overlapped = \E s \in Requests \ {r} : AtWork(s)]
            /\ controller' = r
            /\ UNCHANGED <<profile, staged, attached, closed>>
  <2>0. PICK beside \in BOOLEAN : beside = (\E s \in Requests \ {r} : AtWork(s))
    OBVIOUS
  <2> DEFINE record == [request[r] EXCEPT !.at = "resolving",
                                   !.confirmed = request[r].profile,
                                   !.overlapped = beside]
  <2>1. record \in RequestType
    BY DEF Confirmed, IInv, TypeOK, RequestType, Places, Network
  <2>2. record.at = "resolving" /\ record.overlapped = beside
    BY DEF IInv, TypeOK, RequestType
  <2>3. request' = [request EXCEPT ![r] = record]
    BY <1>2, <2>0
  <2>4. Moves(r, record)
    BY <1>2, <2>0, <2>2, <2>3
       DEF Moves, Confirmed, AtWork, IInv, TypeOK, Holding, Network
  <2>5. request'[r] = record
    BY <2>3 DEF IInv, TypeOK
  <2>6. RequestOK(r)'
    BY <1>2, <2>5
       DEF Confirmed, IInv, TypeOK, RequestType, RequestOK, Stops, Confirms, Stages,
           Reaches, Holding, Unattached, Network
  <2>. QED  BY <2>1, <2>4, <2>6, MovesOK
<1>. QED  BY <1>1, <1>2 DEF Confirmed

\* The lookup answered.
LEMMA NameResolvesOK ==
    ASSUME IInv, NEW r \in Requests, NameResolves(r) PROVE IInv'
<1>1. CASE Fails(r)
  BY <1>1, FailsOK DEF NameResolves, AtWork, Network
<1>2. CASE /\ Goes(r, "waiting")
            /\ UNCHANGED <<profile, controller, staged, attached, closed>>
  <2> DEFINE record == [request[r] EXCEPT !.at = "waiting"]
  <2>1. record \in RequestType
    BY DEF NameResolves, IInv, TypeOK, RequestType, Places, Network
  <2>2. Moves(r, record)
    BY <1>2
       DEF Moves, NameResolves, AtWork, Goes, IInv, TypeOK, RequestType, Held,
           Holding, Network
  <2>3. request'[r] = record
    BY <2>1, <2>2 DEF Moves, IInv, TypeOK
  <2>4. RequestOK(r)'
    BY <1>2, <2>3
       DEF NameResolves, IInv, TypeOK, RequestType, RequestOK, Stops, Confirms, Stages,
           Reaches, Watched, Holding, Unattached, Network
  <2>. QED  BY <2>1, <2>2, <2>4, MovesOK
<1>. QED  BY <1>1, <1>2 DEF NameResolves

\* The head of the response came.
LEMMA HeadArrivesOK ==
    ASSUME IInv, NEW r \in Requests, HeadArrives(r) PROVE IInv'
<1>1. CASE Fails(r)
  BY <1>1, FailsOK DEF HeadArrives, AtWork, Network
<1>2. CASE /\ Goes(r, "receiving")
            /\ UNCHANGED <<profile, controller, staged, attached, closed>>
  <2> DEFINE record == [request[r] EXCEPT !.at = "receiving"]
  <2>1. record \in RequestType
    BY DEF HeadArrives, IInv, TypeOK, RequestType, Places, Network
  <2>2. Moves(r, record)
    BY <1>2
       DEF Moves, HeadArrives, AtWork, Goes, IInv, TypeOK, RequestType, Held,
           Holding, Network
  <2>3. request'[r] = record
    BY <2>1, <2>2 DEF Moves, IInv, TypeOK
  <2>4. RequestOK(r)'
    BY <1>2, <2>3
       DEF HeadArrives, IInv, TypeOK, RequestType, RequestOK, Stops, Confirms, Stages,
           Reaches, Watched, Holding, Unattached, Network
  <2>. QED  BY <2>1, <2>2, <2>4, MovesOK
<1>. QED  BY <1>1, <1>2 DEF HeadArrives

\* The response ended.
LEMMA BodyEndsOK ==
    ASSUME IInv, NEW r \in Requests, BodyEnds(r) PROVE IInv'
<1>1. CASE Fails(r)
  BY <1>1, FailsOK DEF BodyEnds, AtWork, Network
<1>2. CASE /\ request' = [request EXCEPT ![r].at = "storing", ![r].path = TRUE]
            /\ UNCHANGED <<profile, controller, staged, attached, closed>>
  <2> DEFINE record == [request[r] EXCEPT !.at = "storing", !.path = TRUE]
  <2>1. record \in RequestType
    BY DEF BodyEnds, IInv, TypeOK, RequestType, Places, Network
  <2>2. Moves(r, record)
    BY <1>2
       DEF Moves, BodyEnds, AtWork, Goes, IInv, TypeOK, RequestType, Held,
           Holding, Network
  <2>3. request'[r] = record
    BY <2>1, <2>2 DEF Moves, IInv, TypeOK
  <2>4. RequestOK(r)'
    BY <1>2, <2>3
       DEF BodyEnds, IInv, TypeOK, RequestType, RequestOK, Stops, Confirms, Stages,
           Reaches, Watched, Holding, Unattached, Network
  <2>. QED  BY <2>1, <2>2, <2>4, MovesOK
<1>. QED  BY <1>1, <1>2 DEF BodyEnds

\* The response file was written, or not, or in part.
LEMMA StoredOK ==
    ASSUME IInv, NEW r \in Requests, Stored(r) PROVE IInv'
<1>0. /\ request[r].at = "storing" /\ request[r].path
      /\ request[r].aborted # "intime" /\ request[r].answer # "ok"
      /\ request[r].confirmed = request[r].profile
      /\ attached[r] # None => attached[r] = request[r].confirmed
      /\ controller = r \/ request[r].overlapped
      /\ attached[r] = None
  BY DEF Stored, IInv, RequestOK, Stops, Confirms, Stages, Reaches, Unattached,
         Holding, Network
<1>1. CASE /\ staged' = staged \union {r}
            /\ Goes(r, "attaching")
            /\ UNCHANGED <<controller, profile, attached, closed>>
  <2> DEFINE record == [request[r] EXCEPT !.at = "attaching"]
  <2>1. record \in RequestType
    BY DEF IInv, TypeOK, RequestType, Places
  <2>2. Moves(r, record)
    BY <1>0, <1>1, TimestampAssumption
       DEF Moves, AtWork, Goes, Leaves, Freed, AttachProfile, IInv, TypeOK,
           RequestType, Held, Holding, Network
  <2>3. /\ request'[r] = record
        /\ record.path = request[r].path
        /\ record.confirmed = request[r].confirmed
        /\ record.profile = request[r].profile
        /\ record.aborted = request[r].aborted
        /\ record.overlapped = request[r].overlapped
    BY <2>2 DEF Moves, IInv, TypeOK, RequestType
  <2>4. record.at = "attaching" /\ record.answer = request[r].answer
    BY DEF IInv, TypeOK, RequestType
  <2>5. staged' \subseteq staged \union {r} /\ attached'[r] \in {attached[r]}
    BY <1>1 DEF AttachProfile, IInv, TypeOK
  <2> HIDE DEF record
  <2>6. Stops(r)' /\ Confirms(r)'
    BY <1>0, <2>3, <2>4, <2>5 DEF Stops, Confirms, Holding, Unattached, Network
  <2>7. Stages(r)' /\ Reaches(r)'
    BY <1>0, <1>1, <2>3, <2>4, <2>5 DEF Stages, Reaches, Holding, Network
  <2>. QED  BY <2>1, <2>2, <2>6, <2>7, MovesOK DEF RequestOK
<1>2. CASE /\ staged' \in {staged, staged \union {r}}
            /\ request' = [request EXCEPT ![r] = Leaves(@, "failed")]
            /\ controller' = Freed
            /\ UNCHANGED <<profile, attached, closed>>
  <2> DEFINE record == [request[r] EXCEPT !.at = "removing", !.answer = "failed"]
  <2>1. record \in RequestType
    BY ZenonT(60) DEF IInv, TypeOK, RequestType, Places
  <2>2. Moves(r, record)
    BY <1>0, <1>2, TimestampAssumption
       DEF Moves, AtWork, Goes, Leaves, Freed, AttachProfile, IInv, TypeOK,
           RequestType, Held, Holding, Network
  <2>3. /\ request'[r] = record
        /\ record.path = request[r].path
        /\ record.confirmed = request[r].confirmed
        /\ record.profile = request[r].profile
        /\ record.aborted = request[r].aborted
        /\ record.overlapped = request[r].overlapped
    BY <2>2 DEF Moves, IInv, TypeOK, RequestType
  <2>4. record.at = "removing" /\ record.answer = "failed"
    BY DEF IInv, TypeOK, RequestType
  <2>5. staged' \subseteq staged \union {r} /\ attached'[r] \in {attached[r]}
    BY <1>2 DEF AttachProfile, IInv, TypeOK
  <2> HIDE DEF record
  <2>6. Stops(r)' /\ Confirms(r)'
    BY <1>0, <2>3, <2>4, <2>5 DEF Stops, Confirms, Holding, Unattached, Network
  <2>7. Stages(r)' /\ Reaches(r)'
    BY <1>0, <1>2, <2>3, <2>4, <2>5 DEF Stages, Reaches, Holding, Network
  <2>. QED  BY <2>1, <2>2, <2>6, <2>7, MovesOK DEF RequestOK
<1>. QED  BY <1>1, <1>2 DEF Stored

\* The native core published the package, and was heard or not, or failed.
LEMMA AttachedOK ==
    ASSUME IInv, NEW r \in Requests, Attached(r) PROVE IInv'
<1>0. /\ request[r].at = "attaching" /\ request[r].path
      /\ request[r].aborted # "intime" /\ request[r].answer # "ok"
      /\ request[r].confirmed = request[r].profile
      /\ attached[r] # None => attached[r] = request[r].confirmed
      /\ controller = r \/ request[r].overlapped
  BY DEF Attached, IInv, RequestOK, Stops, Confirms, Stages, Reaches, Unattached,
         Holding, Network
<1>1. CASE /\ attached' = [attached EXCEPT ![r] = AttachProfile(r)]
            /\ Goes(r, "issuing")
            /\ UNCHANGED <<controller, profile, staged, closed>>
  <2> DEFINE record == [request[r] EXCEPT !.at = "issuing"]
  <2>1. record \in RequestType
    BY DEF IInv, TypeOK, RequestType, Places
  <2>2. Moves(r, record)
    BY <1>0, <1>1, TimestampAssumption
       DEF Moves, AtWork, Goes, Leaves, Freed, AttachProfile, IInv, TypeOK,
           RequestType, Held, Holding, Network
  <2>3. /\ request'[r] = record
        /\ record.path = request[r].path
        /\ record.confirmed = request[r].confirmed
        /\ record.profile = request[r].profile
        /\ record.aborted = request[r].aborted
        /\ record.overlapped = request[r].overlapped
    BY <2>2 DEF Moves, IInv, TypeOK, RequestType
  <2>4. record.at = "issuing" /\ record.answer = request[r].answer
    BY DEF IInv, TypeOK, RequestType
  <2>5. staged' \subseteq staged \union {r} /\ attached'[r] \in {request[r].profile}
    BY <1>1 DEF AttachProfile, IInv, TypeOK
  <2> HIDE DEF record
  <2>6. Stops(r)' /\ Confirms(r)'
    BY <1>0, <2>3, <2>4, <2>5 DEF Stops, Confirms, Holding, Unattached, Network
  <2>7. Stages(r)' /\ Reaches(r)'
    BY <1>0, <1>1, <2>3, <2>4, <2>5 DEF Stages, Reaches, Holding, Network
  <2>. QED  BY <2>1, <2>2, <2>6, <2>7, MovesOK DEF RequestOK
<1>2. CASE /\ attached' = [attached EXCEPT ![r] = AttachProfile(r)]
            /\ request' = [request EXCEPT ![r] = Leaves(@, "failed")]
            /\ controller' = Freed
            /\ UNCHANGED <<profile, staged, closed>>
  <2> DEFINE record == [request[r] EXCEPT !.at = "removing", !.answer = "failed"]
  <2>1. record \in RequestType
    BY ZenonT(60) DEF IInv, TypeOK, RequestType, Places
  <2>2. Moves(r, record)
    BY <1>0, <1>2, TimestampAssumption
       DEF Moves, AtWork, Goes, Leaves, Freed, AttachProfile, IInv, TypeOK,
           RequestType, Held, Holding, Network
  <2>3. /\ request'[r] = record
        /\ record.path = request[r].path
        /\ record.confirmed = request[r].confirmed
        /\ record.profile = request[r].profile
        /\ record.aborted = request[r].aborted
        /\ record.overlapped = request[r].overlapped
    BY <2>2 DEF Moves, IInv, TypeOK, RequestType
  <2>4. record.at = "removing" /\ record.answer = "failed"
    BY DEF IInv, TypeOK, RequestType
  <2>5. staged' \subseteq staged \union {r} /\ attached'[r] \in {request[r].profile}
    BY <1>2 DEF AttachProfile, IInv, TypeOK
  <2> HIDE DEF record
  <2>6. Stops(r)' /\ Confirms(r)'
    BY <1>0, <2>3, <2>4, <2>5 DEF Stops, Confirms, Holding, Unattached, Network
  <2>7. Stages(r)' /\ Reaches(r)'
    BY <1>0, <1>2, <2>3, <2>4, <2>5 DEF Stages, Reaches, Holding, Network
  <2>. QED  BY <2>1, <2>2, <2>6, <2>7, MovesOK DEF RequestOK
<1>3. CASE /\ request' = [request EXCEPT ![r] = Leaves(@, "failed")]
            /\ controller' = Freed
            /\ UNCHANGED <<attached, profile, staged, closed>>
  <2> DEFINE record == [request[r] EXCEPT !.at = "removing", !.answer = "failed"]
  <2>1. record \in RequestType
    BY ZenonT(60) DEF IInv, TypeOK, RequestType, Places
  <2>2. Moves(r, record)
    BY <1>0, <1>3, TimestampAssumption
       DEF Moves, AtWork, Goes, Leaves, Freed, AttachProfile, IInv, TypeOK,
           RequestType, Held, Holding, Network
  <2>3. /\ request'[r] = record
        /\ record.path = request[r].path
        /\ record.confirmed = request[r].confirmed
        /\ record.profile = request[r].profile
        /\ record.aborted = request[r].aborted
        /\ record.overlapped = request[r].overlapped
    BY <2>2 DEF Moves, IInv, TypeOK, RequestType
  <2>4. record.at = "removing" /\ record.answer = "failed"
    BY DEF IInv, TypeOK, RequestType
  <2>5. staged' \subseteq staged \union {r} /\ attached'[r] \in {attached[r]}
    BY <1>3 DEF AttachProfile, IInv, TypeOK
  <2> HIDE DEF record
  <2>6. Stops(r)' /\ Confirms(r)'
    BY <1>0, <2>3, <2>4, <2>5 DEF Stops, Confirms, Holding, Unattached, Network
  <2>7. Stages(r)' /\ Reaches(r)'
    BY <1>0, <1>3, <2>3, <2>4, <2>5 DEF Stages, Reaches, Holding, Network
  <2>. QED  BY <2>1, <2>2, <2>6, <2>7, MovesOK DEF RequestOK
<1>. QED  BY <1>1, <1>2, <1>3 DEF Attached

\* The package has its reference.
LEMMA IssuedOK ==
    ASSUME IInv, NEW r \in Requests, Issued(r) PROVE IInv'
<1>0. /\ request[r].at = "issuing" /\ request[r].path
      /\ request[r].aborted # "intime" /\ request[r].answer # "ok"
      /\ request[r].confirmed = request[r].profile
      /\ attached[r] # None => attached[r] = request[r].confirmed
      /\ controller = r \/ request[r].overlapped
  BY DEF Issued, IInv, RequestOK, Stops, Confirms, Stages, Reaches, Unattached,
         Holding, Network
<1>1. CASE /\ request' = [request EXCEPT ![r] = Leaves(@, "ok")]
            /\ controller' = Freed
            /\ UNCHANGED <<profile, staged, attached, closed>>
  <2> DEFINE record == [request[r] EXCEPT !.at = "removing", !.answer = "ok"]
  <2>1. record \in RequestType
    BY DEF IInv, TypeOK, RequestType, Places
  <2>2. Moves(r, record)
    BY <1>0, <1>1, TimestampAssumption
       DEF Moves, AtWork, Goes, Leaves, Freed, AttachProfile, IInv, TypeOK,
           RequestType, Held, Holding, Network
  <2>3. /\ request'[r] = record
        /\ record.path = request[r].path
        /\ record.confirmed = request[r].confirmed
        /\ record.profile = request[r].profile
        /\ record.aborted = request[r].aborted
        /\ record.overlapped = request[r].overlapped
    BY <2>2 DEF Moves, IInv, TypeOK, RequestType
  <2>4. record.at = "removing" /\ record.answer = "ok"
    BY DEF IInv, TypeOK, RequestType
  <2>5. staged' \subseteq staged \union {r} /\ attached'[r] \in {attached[r]}
    BY <1>1 DEF AttachProfile, IInv, TypeOK
  <2> HIDE DEF record
  <2>6. Stops(r)' /\ Confirms(r)'
    BY <1>0, <2>3, <2>4, <2>5 DEF Stops, Confirms, Holding, Unattached, Network
  <2>7. Stages(r)' /\ Reaches(r)'
    BY <1>0, <1>1, <2>3, <2>4, <2>5 DEF Stages, Reaches, Holding, Network
  <2>. QED  BY <2>1, <2>2, <2>6, <2>7, MovesOK DEF RequestOK
<1>2. CASE Fails(r)
  BY <1>0, <1>2, FailsOK DEF AtWork
<1>. QED  BY <1>1, <1>2 DEF Issued

\* The response file is removed, and the handler over.
LEMMA RemovedOK ==
    ASSUME IInv, NEW r \in Requests, Removed(r) PROVE IInv'
<1> DEFINE record == [request[r] EXCEPT !.at = "done"]
<1>1. record \in RequestType
  BY DEF IInv, TypeOK, RequestType, Places
<1>2. /\ request' \in [Requests -> RequestType]
      /\ request'[r] = record
      /\ \A s \in Requests \ {r} : request'[s] = request[s]
  BY <1>1 DEF Removed, Goes, IInv, TypeOK
<1>3. TypeOK'
  BY <1>2 DEF Removed, Residue, IInv, TypeOK
<1>4. ASSUME NEW s \in Requests PROVE RequestOK(s)'
  <2>1. CASE s = r
    BY <1>2, <2>1
       DEF Removed, Residue, IInv, TypeOK, RequestType, RequestOK, Stops, Confirms,
           Stages, Reaches, Holding, Unattached, Network
  <2>2. CASE s # r
    BY <1>2, <2>2
       DEF Removed, Residue, IInv, RequestOK, Stops, Confirms, Stages, Reaches
  <2>. QED  BY <2>1, <2>2
<1>5. Overlaps'
  BY <1>2 DEF IInv, TypeOK, RequestType, Overlaps, AtWork, Removed, Holding, Network
<1>6. Held'
  BY <1>2 DEF IInv, TypeOK, Held, Removed, Holding, Network
<1>. QED  BY <1>3, <1>4, <1>5, <1>6 DEF IInv

\* The invariant does not look at the closed flag, nor at the entry tsaProfiles
\* once a request has read it.
LEMMA ImportOK ==
    ASSUME IInv, ImportProfile PROVE IInv'
BY DEF IInv, ImportProfile, TypeOK, RequestOK, Stops, Confirms, Stages, Reaches,
       Overlaps, AtWork, Held

LEMMA InitOK == Init => IInv
<1>. SUFFICES ASSUME Init PROVE IInv
  OBVIOUS
<1>1. NewRequest \in RequestType
  BY DEF NewRequest, RequestType, Places
<1>2. TypeOK
  BY <1>1 DEF Init, TypeOK
<1>3. ASSUME NEW r \in Requests PROVE RequestOK(r)
  BY DEF Init, NewRequest, RequestOK, Stops, Confirms, Stages, Reaches, Holding,
         Unattached, Network
<1>4. Overlaps /\ Held
  BY DEF Init, NewRequest, Overlaps, AtWork, Held
<1>. QED  BY <1>2, <1>3, <1>4 DEF IInv

\* Every step keeps the invariant.
LEMMA NextOK == IInv /\ [Next]_vars => IInv'
<1>. SUFFICES ASSUME IInv, [Next]_vars PROVE IInv'
  OBVIOUS
<1>1. CASE ImportProfile
  BY <1>1, ImportOK
<1>2. CASE Cancel
  BY <1>2, AbortedOK DEF Cancel
<1>3. CASE Close
  BY <1>3, AbortedOK DEF Close
<1>4. ASSUME NEW r \in Requests, Request(r) PROVE IInv'
  BY <1>4, RequestStepOK
<1>5. ASSUME NEW r \in Requests, Confirmed(r) PROVE IInv'
  BY <1>5, ConfirmedOK
<1>6. ASSUME NEW r \in Requests, Proceeds(r) PROVE IInv'
  <2>1. CASE AbortSeen(r) \/ Expires(r)
    BY <2>1, FailsOK DEF AbortSeen, Expires, AtWork, Network
  <2>2. CASE Prepared(r)
    BY <2>2, PreparedOK
  <2>3. CASE NameResolves(r) \/ HeadArrives(r) \/ BodyEnds(r)
    BY <2>3, NameResolvesOK, HeadArrivesOK, BodyEndsOK
  <2>4. CASE Stored(r) \/ Attached(r) \/ Issued(r)
    BY <2>4, StoredOK, AttachedOK, IssuedOK
  <2>5. CASE Removed(r)
    BY <2>5, RemovedOK
  <2>. QED  BY <1>6, <2>1, <2>2, <2>3, <2>4, <2>5 DEF Proceeds
<1>7. CASE UNCHANGED vars
  BY <1>7 DEF vars, IInv, TypeOK, RequestOK, Stops, Confirms, Stages, Reaches,
              Overlaps, AtWork, Held
<1>. QED  BY <1>1, <1>2, <1>3, <1>4, <1>5, <1>6, <1>7 DEF Next

-----------------------------------------------------------------------------
(* The theorems.                                                            *)

LEMMA Invariance == Spec => []IInv
BY InitOK, NextOK, PTL DEF Spec

\* Every variable keeps its type, for any requests and trust snapshots.
THEOREM TypeCorrect == Spec => []TypeOK
<1>1. IInv => TypeOK
  BY DEF IInv
<1>. QED  BY <1>1, Invariance, PTL

\* A cancellation on the network ends in no attachment, however it races the
\* authority, the timers and the other requests of the window.
THEOREM CancellationStops == Spec => []AbortStops
<1>1. IInv => AbortStops
  BY DEF IInv, RequestOK, Stops, AbortStops
<1>. QED  BY <1>1, Invariance, PTL

\* A confirmed request beside which no other of the window was at work has the
\* entry of the window until its answer, and no entry outlives its request.
THEOREM CancellationReaches == Spec => []CancelReaches
<1>1. IInv => CancelReaches
  BY DEF IInv, RequestOK, Reaches, Held, CancelReaches
<1>. QED  BY <1>1, Invariance, PTL

\* What is attached is what the user confirmed.
THEOREM ConfirmationHolds == Spec => []SentAsConfirmed
<1>1. IInv => SentAsConfirmed
  BY DEF IInv, RequestOK, Confirms, SentAsConfirmed
<1>. QED  BY <1>1, Invariance, PTL

\* No handler is done before its response file is gone.
THEOREM StagingCleared == Spec => []NothingStaged
<1>1. IInv => NothingStaged
  BY DEF IInv, RequestOK, Stages, NothingStaged
<1>. QED  BY <1>1, Invariance, PTL
=============================================================================
