-------------------------- MODULE TrustedTimestamp --------------------------
(***************************************************************************)
(* requestTrustedTimestamp and cancelTrustedTimestamp of one window         *)
(* (ipc.ts), with postTimestampRequest, which talks to the time stamping    *)
(* authority.  The maps tsaProfiles and timestampAbortControllers have one  *)
(* entry for a window, here `profile' and `controller'.                     *)
(*                                                                         *)
(* A request moves from await to await: the native core prepares the        *)
(* request, the user confirms what is disclosed, the name is resolved, the  *)
(* answer arrives, it is stored and the native core attaches it.  The       *)
(* authority is the environment: it answers anything or nothing.            *)
(***************************************************************************)
EXTENDS FiniteSets

CONSTANTS
    Requests,   \* calls of requestTrustedTimestamp
    Profiles,   \* trust snapshots that can be imported
    None        \* no entry, no value

ASSUME TimestampAssumption == None \notin Requests \union Profiles

VARIABLES
    profile,     \* the imported trust snapshot of the window
    controller,  \* the request whose AbortController the window's entry is
    request,     \* request -> its record
    staged,      \* the requests whose response file is on disk
    attached,    \* request -> the snapshot its published package was checked with
    closed       \* close was called

vars == <<profile, controller, request, staged, attached, closed>>

Network == {"resolving", "waiting", "receiving"}
Places == Network \union {"idle", "preparing", "confirming", "storing",
                          "attaching", "issuing", "removing", "done"}

NewRequest ==
    [at |-> "idle",
     profile |-> None,       \* `imported', read once
     path |-> FALSE,         \* responsePath is set
     aborted |-> "no",       \* its signal: in time, or after the response ended
     confirmed |-> None,     \* what the user agreed to disclose
     overlapped |-> FALSE,   \* since it was confirmed, another request of the
                             \* window was at work too
     answer |-> "none"]

RequestType ==
    [at : Places, profile : Profiles \union {None}, path : BOOLEAN,
     aborted : {"no", "intime", "late"}, confirmed : Profiles \union {None},
     overlapped : BOOLEAN, answer : {"none", "ok", "failed"}]

Init ==
    /\ profile = None /\ controller = None
    /\ request = [r \in Requests |-> NewRequest]
    /\ staged = {}
    /\ attached = [r \in Requests |-> None]
    /\ closed = FALSE

\* The request is past the await at which it sets the entry of the window.
Holding == Network \union {"storing", "attaching", "issuing"}

\* The request may still set the entry of the window, or delete it.
AtWork(r) == request[r].at \notin {"idle", "removing", "done"}

Goes(r, place) == request' = [request EXCEPT ![r].at = place]

-----------------------------------------------------------------------------
\* The end of importTsaProfile.
ImportProfile ==
    /\ \E p \in Profiles : profile' = p
    /\ UNCHANGED <<controller, request, staged, attached, closed>>

\* Mutant of Freed: the entry is left behind.
FreedNever == controller

\* The finally clause deletes the entry of the window, whoever made it.
Freed == None

\* The handler is over but for the removal of its response file.
Leaves(record, answer) ==
    [record EXCEPT !.at = "removing", !.answer = answer]

Fails(r) ==
    /\ request' = [request EXCEPT ![r] = Leaves(@, "failed")]
    /\ controller' = Freed
    /\ UNCHANGED <<profile, staged, attached, closed>>

\* Up to the first await: a request is refused without a profile, and while the
\* entry of the window is taken.
Request(r) ==
    /\ request[r].at = "idle"
    /\ LET others == {s \in Requests \ {r} : request[s].at \in Holding}
           refused == profile = None \/ controller # None
           record == [request[r] EXCEPT !.profile = profile, !.at = "preparing"]
       IN  /\ request' = [s \in Requests |->
                 IF s = r THEN IF refused THEN Leaves(record, "failed") ELSE record
                 ELSE IF s \in others THEN [request[s] EXCEPT !.overlapped = TRUE]
                 ELSE request[s]]
           /\ controller' = IF refused THEN Freed ELSE controller
    /\ UNCHANGED <<profile, staged, attached, closed>>

\* Both references resolve and the native core prepares a request for the
\* profile that was read.
Prepared(r) ==
    /\ request[r].at = "preparing"
    /\ \/ /\ Goes(r, "confirming")
          /\ UNCHANGED <<profile, controller, staged, attached, closed>>
       \/ Fails(r)

\* The dialog is answered; only now the window's entry is set.
Confirmed(r) ==
    /\ request[r].at = "confirming"
    /\ \/ /\ request' = [request EXCEPT
                ![r].at = "resolving",
                ![r].confirmed = request[r].profile,
                ![r].overlapped = \E s \in Requests \ {r} : AtWork(s)]
          /\ controller' = r
          /\ UNCHANGED <<profile, staged, attached, closed>>
       \/ Fails(r)

-----------------------------------------------------------------------------
(* postTimestampRequest.  Both of its promises settle once, with the first  *)
(* of their events.                                                         *)

\* Mutant of Watched: the transport does not look at the signal.
WatchedNever(r) == TRUE

\* The signal was not aborted: an abort settles the promise before anything that
\* is delivered later.
Watched(r) == request[r].aborted = "no"

AbortSeen(r) ==
    /\ request[r].at \in Network /\ request[r].aborted = "intime"
    /\ Fails(r)

\* The lookup answers, with addresses inside the scope of the endpoint or not.
NameResolves(r) ==
    /\ request[r].at = "resolving" /\ Watched(r)
    /\ \/ /\ Goes(r, "waiting")
          /\ UNCHANGED <<profile, controller, staged, attached, closed>>
       \/ Fails(r)

\* The head of a response: wrong status or content type, or a body to come.
HeadArrives(r) ==
    /\ request[r].at = "waiting" /\ Watched(r)
    /\ \/ /\ Goes(r, "receiving")
          /\ UNCHANGED <<profile, controller, staged, attached, closed>>
       \/ Fails(r)

\* The body ends within its limit, or grows past it or breaks off.  The path of
\* the response file is chosen before the file is written.
BodyEnds(r) ==
    /\ request[r].at = "receiving" /\ Watched(r)
    /\ \/ /\ request' = [request EXCEPT ![r].at = "storing", ![r].path = TRUE]
          /\ UNCHANGED <<profile, controller, staged, attached, closed>>
       \/ Fails(r)

\* Mutant of Expires: no timer runs, a silent authority is waited for.
ExpiresNever(r) == FALSE

\* The total time limit of the lookup or of the request, or its idle limit.
Expires(r) ==
    /\ request[r].at \in Network
    /\ Fails(r)

-----------------------------------------------------------------------------
\* The response is written; a failed write may leave a part of it.
Stored(r) ==
    /\ request[r].at = "storing"
    /\ \/ /\ ~closed
          /\ staged' = staged \union {r}
          /\ Goes(r, "attaching")
          /\ UNCHANGED controller
       \/ /\ staged' \in {staged, staged \union {r}}
          /\ request' = [request EXCEPT ![r] = Leaves(@, "failed")]
          /\ controller' = Freed
    /\ UNCHANGED <<profile, attached, closed>>

\* Mutant of AttachProfile: the snapshot imported by now is used.
AttachProfileNow(r) == profile

AttachProfile(r) == request[r].profile

\* The native core checks the response and publishes the package, without its
\* answer being heard in every case; then the output reference is consumed, the
\* package remembered and a reference to it issued.
Attached(r) ==
    /\ request[r].at = "attaching"
    /\ \/ /\ attached' = [attached EXCEPT ![r] = AttachProfile(r)]
          /\ \/ ~closed /\ Goes(r, "issuing") /\ UNCHANGED controller
             \/ /\ request' = [request EXCEPT ![r] = Leaves(@, "failed")]
                /\ controller' = Freed
       \/ /\ request' = [request EXCEPT ![r] = Leaves(@, "failed")]
          /\ controller' = Freed
          /\ UNCHANGED attached
    /\ UNCHANGED <<profile, staged, closed>>

\* registry.issue looks at the file again.
Issued(r) ==
    /\ request[r].at = "issuing"
    /\ \/ /\ request' = [request EXCEPT ![r] = Leaves(@, "ok")]
          /\ controller' = Freed
          /\ UNCHANGED <<profile, staged, attached, closed>>
       \/ Fails(r)

\* Mutant of Residue: the path is known once the write has succeeded.
ResidueOfSuccess(r) == request[r].path /\ attached[r] # None

\* What the finally clause removes.
Residue(r) == request[r].path

Removed(r) ==
    /\ request[r].at = "removing"
    /\ Goes(r, "done")
    /\ staged' = IF Residue(r) THEN staged \ {r} ELSE staged
    /\ UNCHANGED <<profile, controller, attached, closed>>

-----------------------------------------------------------------------------
\* Aborts the request the entry of the window belongs to.
Aborted ==
    IF controller = None \/ request[controller].aborted # "no" THEN request
    ELSE [request EXCEPT ![controller].aborted =
              IF request[controller].at \in Network THEN "intime" ELSE "late"]

\* cancelTrustedTimestamp.
Cancel ==
    /\ controller # None
    /\ request' = Aborted
    /\ UNCHANGED <<profile, controller, staged, attached, closed>>

\* close aborts as well, and removes the staging directory.
Close ==
    /\ ~closed /\ closed' = TRUE
    /\ request' = Aborted
    /\ staged' = {}
    /\ UNCHANGED <<profile, controller, attached>>

-----------------------------------------------------------------------------
\* What goes on without the user.
Proceeds(r) ==
    \/ Prepared(r) \/ AbortSeen(r) \/ Expires(r) \/ NameResolves(r)
    \/ HeadArrives(r) \/ BodyEnds(r) \/ Stored(r) \/ Attached(r) \/ Issued(r)
    \/ Removed(r)

Next ==
    \/ ImportProfile \/ Cancel \/ Close
    \/ \E r \in Requests : Request(r) \/ Confirmed(r) \/ Proceeds(r)

(* Timers fire, file operations and calls of the native core settle; the    *)
(* authority and the name service answer only if they like to, and the      *)
(* user need not answer the dialog.                                         *)
Fairness ==
    \A r \in Requests :
        /\ WF_vars(Prepared(r)) /\ WF_vars(AbortSeen(r)) /\ WF_vars(Expires(r))
        /\ WF_vars(Stored(r)) /\ WF_vars(Attached(r)) /\ WF_vars(Issued(r))
        /\ WF_vars(Removed(r))

Spec == Init /\ [][Next]_vars /\ Fairness

-----------------------------------------------------------------------------
\* Type invariant.
TypeOK ==
    /\ profile \in Profiles \union {None}
    /\ controller \in Requests \union {None}
    /\ request \in [Requests -> RequestType]
    /\ staged \subseteq Requests
    /\ attached \in [Requests -> Profiles \union {None}]

\* A request that is cancelled while it is on the network attaches nothing, and
\* its caller is told so; a cancellation that comes later changes nothing.
AbortStops ==
    \A r \in Requests :
        request[r].aborted = "intime" =>
            attached[r] = None /\ request[r].answer # "ok"

\* From its confirmation to its answer, cancel and close reach a request, and no
\* other is let in beside it, unless another one of the window was at work since
\* then: a refused one frees the entry of the other, and two that wait for the
\* user replace each other's.  An entry outlives no request, whatever overlapped:
\* a window is never locked out by one that is over.
CancelReaches ==
    /\ \A r \in Requests :
           request[r].at \in Holding => controller = r \/ request[r].overlapped
    /\ controller # None => request[controller].at \in Holding

\* What is sent and attached is what the user confirmed, although another trust
\* snapshot may be imported while the request waits.
SentAsConfirmed ==
    \A r \in Requests :
        attached[r] # None => attached[r] = request[r].confirmed

\* No response file survives its request, however the request ends (removals
\* themselves are taken to succeed).
NothingStaged == \A r \in Requests : request[r].at = "done" => r \notin staged

\* Once the user has confirmed, the request ends, even if nobody answers.
RequestsEnd ==
    \A r \in Requests :
        request[r].at \in Places \ {"idle", "preparing", "confirming"}
            ~> request[r].at = "done"
=============================================================================
