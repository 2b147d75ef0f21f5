------------------------------ MODULE ComfyUi ------------------------------
(***************************************************************************)
(* The provider of a creation session: ComfyUiSupervisor, which finds a     *)
(* ComfyUI server on the loopback port or starts a child of its own, and    *)
(* ComfyUiProviderAdapter.run, which submits one workflow to whatever       *)
(* server listens there, follows it and may interrupt it.                   *)
(*                                                                         *)
(* A call is one inspectProviderInstallation, or one runCreationSession,    *)
(* which inspects as well and then runs the adapter.  Every await of a call *)
(* is a place `at'; what happens between two awaits is one action.  The     *)
(* server, the processes and the user are the environment: a server works   *)
(* its queue in order and forgets queue and history when it exits, a child  *)
(* that finds the port taken exits, and the user may run a server too.  The *)
(* runtime directory of a child is left out, and so is all that happens     *)
(* after Main has gone.                                                     *)
(***************************************************************************)
EXTENDS Naturals, Sequences, FiniteSets

CONSTANTS
    Calls,      \* calls of inspect
    RunCalls,   \* those that go on to run the adapter
    None,       \* undefined
    User,       \* the server the user started
    MaxStarts,  \* bound on children started
    MaxPolls    \* polls of one wait: the 90 s of a start, the 10 min of a job

ASSUME ProviderAssumption ==
    /\ RunCalls \subseteq Calls
    /\ MaxStarts \in Nat /\ MaxPolls \in Nat
    /\ None \notin 1..MaxStarts /\ User \notin 1..MaxStarts

VARIABLES
    managedChild,    \* #managedChild: the number of the start, or None
    starts,          \* how many times #start was entered
    process,         \* start -> none, starting, serving, exited
    killed,          \* the children kill() was called for
    server,          \* who listens on the port
    queue,           \* the prompts of that server, the running one first
    history,         \* call -> what that server's history says of its prompt
    call,            \* call -> its record
    closing,         \* close and the quit of the application
    raced,           \* history: the starts during whose mkdir another one or
                     \* close came, or that came after close
    interrupted      \* the servers a global interrupt was posted to

vars == <<managedChild, starts, process, killed, server, queue, history, call,
          closing, raced, interrupted>>

Starts == 1..MaxStarts
Alive(n) == process[n] \in {"starting", "serving"}

(* probing .. reached are the awaits of inspect, socket .. cancelling those *)
(* of the adapter's run.                                                    *)
Places == {"idle", "probing", "answered", "making", "polling", "reached", "ready",
           "socket", "posting", "asking", "viewing", "pausing",
           "cancelling", "done"}
AdapterPlaces == {"socket", "posting", "asking", "viewing", "pausing", "cancelling"}
Terminal == {"completed", "failed", "cancelled"}

NewCall ==
    [at |-> "idle", start |-> 0, polls |-> 0,
     allow |-> FALSE,     \* allowGlobalInterrupt of its adapter
     sent |-> FALSE,      \* its prompt reached the server
     job |-> FALSE,       \* providerJobId is set
     aborted |-> FALSE,   \* its signal
     last |-> "none",     \* the last observation
     ending |-> "none",   \* the observation that follows the cancel request
     answer |-> "none"]   \* ok, failed or cancelled

CallType ==
    [at : Places, start : 0..MaxStarts, polls : 0..MaxPolls, allow : BOOLEAN,
     sent : BOOLEAN, job : BOOLEAN, aborted : BOOLEAN,
     last : {"none", "accepted", "progress"} \union Terminal,
     ending : {"none", "failed", "cancelled"},
     answer : {"none", "ok", "failed", "cancelled"}]

Init ==
    /\ managedChild = None /\ starts = 0
    /\ process = [n \in Starts |-> "none"]
    /\ killed = {}
    /\ server = None /\ queue = <<>>
    /\ history = [c \in Calls |-> "none"]
    /\ call = [c \in Calls |-> NewCall]
    /\ closing = "open"
    /\ raced = {} /\ interrupted = {}

Running == closing # "gone"
serverVars == <<server, queue, history>>
managedVars == <<managedChild, starts, process, killed>>
restVars == <<closing, raced, interrupted>>

\* What a call still remembers of its wait is dropped when it moves on.
Goes(c, place) ==
    call' = [call EXCEPT ![c].at = place, ![c].start = 0,
                 ![c].polls = IF place = "ready" THEN 0 ELSE @]
Over(c, answer, last) ==
    call' = [call EXCEPT ![c].at = "done", ![c].answer = answer,
                 ![c].last = last, ![c].start = 0, ![c].polls = 0,
                 ![c].allow = FALSE, ![c].sent = FALSE, ![c].ending = "none"]
Answers(c, answer) == Over(c, answer, call[c].last)

-----------------------------------------------------------------------------
(* The supervisor.                                                          *)

\* validateInstallation reads the files, the version and the licence.
Inspect(c) ==
    /\ Running /\ call[c].at = "idle"
    /\ Goes(c, "probing") \/ Answers(c, "failed")
    /\ UNCHANGED <<managedVars, serverVars, restVars>>

\* adapter.inspect: features, statistics, nodes, checkpoints; then it opens a
\* socket.
Inspected(c) ==
    /\ Running /\ server # None
    /\ \/ call[c].at = "probing" /\ Goes(c, "answered")
       \/ /\ call[c].at = "polling"
          /\ call' = [call EXCEPT ![c].at = "reached"]
    /\ UNCHANGED <<managedVars, serverVars, restVars>>

\* The socket opens, and the versions are compared.
SocketOpens(c) ==
    /\ Running /\ server # None /\ call[c].at \in {"answered", "reached"}
    /\ \/ IF c \in RunCalls THEN Goes(c, "ready") ELSE Answers(c, "ok")
       \/ Answers(c, "failed")
    /\ UNCHANGED <<managedVars, serverVars, restVars>>

\* The first inspection, and the inspection of a child, which may fail at any of
\* their requests, or because the socket does not open in time.
Probing(c) == call[c].at \in {"probing", "answered"}
Polling(c) == call[c].at \in {"polling", "reached"}

\* Mutant of StartAllowed: a managed child does not keep inspect from starting.
StartAlways(c) == starts < MaxStarts

\* inspect starts a child of its own only while it manages none.
StartAllowed(c) == managedChild = None /\ starts < MaxStarts

\* The starts that wait for their mkdir.
MakingNow == {call[d].start : d \in {e \in Calls : call[e].at = "making"}}

\* The probe failed and no child is managed: #start, up to its mkdir.
ProbeStarts(c) ==
    /\ Running /\ Probing(c)
    /\ StartAllowed(c)
    /\ starts' = starts + 1
    /\ raced' = raced \union MakingNow \union
                    (IF closing = "open" /\ MakingNow = {} THEN {}
                     ELSE {starts + 1})
    /\ call' = [call EXCEPT ![c].at = "making", ![c].start = starts + 1]
    /\ UNCHANGED <<managedChild, process, killed, serverVars, closing,
                   interrupted>>

\* The probe failed although a child is managed.
ProbeFails(c) ==
    /\ Running /\ Probing(c)
    /\ managedChild # None
    /\ Answers(c, "failed")
    /\ UNCHANGED <<managedVars, serverVars, restVars>>

\* #start continues after its mkdir: the child is spawned, whatever #managedChild
\* is by now, and #waitForInspection asks it for the first time.
Made(c) ==
    /\ Running /\ call[c].at = "making"
    /\ LET n == call[c].start IN
       \/ /\ process' = [process EXCEPT ![n] = "starting"]
          /\ managedChild' = n
          /\ Goes(c, "polling")
       \/ /\ Answers(c, "failed")
          /\ UNCHANGED <<process, managedChild>>
    /\ UNCHANGED <<starts, killed, serverVars, restVars>>

\* #waitForInspection asked in vain and slept a second: out of time, child lost,
\* or asked again.
Woken(c) ==
    /\ Running /\ Polling(c)
    /\ \/ Answers(c, "failed")
       \/ /\ managedChild # None /\ call[c].polls < MaxPolls
          /\ call' = [call EXCEPT ![c].at = "polling", ![c].polls = @ + 1]
    /\ UNCHANGED <<managedVars, serverVars, restVars>>

\* close: the child is forgotten and killed.
Close ==
    /\ closing = "open"
    /\ managedChild' = None
    /\ IF managedChild # None
       THEN killed' = killed \union {managedChild} /\ closing' = "killing"
       ELSE closing' = "closed" /\ UNCHANGED killed
    /\ raced' = raced \union MakingNow
    /\ UNCHANGED <<starts, process, serverVars, call, interrupted>>

\* The child's exit event, or five seconds.
KillSettles ==
    /\ closing = "killing" /\ closing' = "closed"
    /\ UNCHANGED <<managedVars, serverVars, call, raced, interrupted>>

\* The application quits: after close, or because a second quit finds the close
\* flag set and does not wait for the first.
Quit ==
    /\ closing \in {"killing", "closed"}
    /\ closing' = "gone"
    /\ UNCHANGED <<managedVars, serverVars, call, raced, interrupted>>

-----------------------------------------------------------------------------
(* Processes and the user.                                                  *)

Bind(n) ==
    /\ Running /\ process[n] = "starting" /\ server = None
    /\ process' = [process EXCEPT ![n] = "serving"]
    /\ server' = n
    /\ UNCHANGED <<managedChild, starts, killed, queue, history, call, restVars>>

\* A child exits: killed, crashed, or because the port is taken; the exit event
\* clears #managedChild if it still is this child.
Exits(n) ==
    /\ Running /\ Alive(n)
    /\ process' = [process EXCEPT ![n] = "exited"]
    /\ managedChild' = IF managedChild = n THEN None ELSE managedChild
    /\ IF server = n
       THEN server' = None /\ queue' = <<>> /\ history' = [c \in Calls |-> "none"]
       ELSE UNCHANGED serverVars
    /\ UNCHANGED <<starts, killed, call, restVars>>

\* The user starts a server of his own, which stays.
UserServer ==
    /\ Running /\ server = None /\ server' = User
    /\ UNCHANGED <<managedVars, queue, history, call, restVars>>

\* The prompt of a submission reaches the server.
Accepts(c) ==
    /\ Running /\ call[c].at = "posting" /\ ~call[c].sent
    /\ server # None
    /\ queue' = Append(queue, c)
    /\ call' = [call EXCEPT ![c].sent = TRUE]
    /\ UNCHANGED <<managedVars, server, history, restVars>>

Works ==
    /\ Running /\ queue # <<>>
    /\ \E outcome \in {"success", "error"} :
          history' = [history EXCEPT ![Head(queue)] = outcome]
    /\ queue' = Tail(queue)
    /\ UNCHANGED <<managedVars, server, call, restVars>>

-----------------------------------------------------------------------------
(* The adapter.                                                             *)

\* runCreationSession makes an adapter, which remembers whether a child is
\* managed now, and run opens its progress socket.
RunStarts(c) ==
    /\ Running /\ call[c].at = "ready"
    /\ call' = [call EXCEPT ![c].at = "socket",
                            ![c].allow = (managedChild # None)]
    /\ UNCHANGED <<managedVars, serverVars, restVars>>

\* cancelCreationSession, or close, aborts the controller of the run; the signal
\* is not looked at before the adapter runs.
Abort(c) ==
    /\ Running /\ ~call[c].aborted
    /\ call[c].at \in AdapterPlaces
    /\ call' = [call EXCEPT ![c].aborted = TRUE]
    /\ UNCHANGED <<managedVars, serverVars, restVars>>

\* How a request may be rejected.  With the signal aborted the network says
\* cancelled, a status or an answer that is not what it should be still says failed.
Rejections(c) == {"failed"} \union (IF call[c].aborted THEN {"cancelled"} ELSE {})

\* run rejects before it has a providerJobId: nothing is observed.
SocketRejected(c) ==
    Answers(c, IF call[c].aborted THEN "cancelled" ELSE "failed")

\* Opened, refused, out of time or aborted; the submission that follows is
\* rejected at once when the signal is aborted already.
SocketSettles(c) ==
    /\ Running /\ call[c].at = "socket"
    /\ \/ ~call[c].aborted /\ Goes(c, "posting")
       \/ SocketRejected(c)
    /\ UNCHANGED <<managedVars, serverVars, restVars>>

\* Mutant of Iterate: a cancellation is only looked at while a request waits.
IterateDeaf(c) ==
    \/ call[c].polls < MaxPolls /\ call' = [call EXCEPT
           ![c].at = "asking", ![c].job = TRUE, ![c].polls = @ + 1,
           ![c].last = IF call[c].job THEN @ ELSE "accepted"]

\* The top of the loop: aborted, out of time, or one more look at the history.
Iterate(c) ==
    LET known == [call EXCEPT ![c].job = TRUE,
                     ![c].last = IF call[c].job THEN @ ELSE "accepted"]
    IN  \/ /\ call[c].aborted
           /\ call' = [known EXCEPT ![c].at = "cancelling",
                                    ![c].ending = "cancelled"]
        \/ /\ ~call[c].aborted
           /\ call' = [known EXCEPT ![c].at = "cancelling",
                                    ![c].ending = "failed"]
        \/ /\ ~call[c].aborted /\ call[c].polls < MaxPolls
           /\ call' = [known EXCEPT ![c].at = "asking", ![c].polls = @ + 1]

\* The answer to the submission; a prompt that reached the server stays there
\* when its answer is lost, malformed or aborted.
PostSettles(c) ==
    /\ Running /\ call[c].at = "posting"
    /\ \/ call[c].sent /\ Iterate(c)
       \/ \E reason \in Rejections(c) : Answers(c, reason)
    /\ UNCHANGED <<managedVars, serverVars, restVars>>

\* What run observes last, and its answer.
Ends(c, terminal) ==
    Over(c, IF terminal = "completed" THEN "ok" ELSE terminal, terminal)

\* The catch block of run, with the prompt's identity known.
Caught(c) ==
    \/ "failed" \in Rejections(c) /\ Ends(c, "failed")
    \/ /\ "cancelled" \in Rejections(c)
       /\ call' = [call EXCEPT ![c].at = "cancelling", ![c].ending = "cancelled"]

HistorySettles(c) ==
    /\ Running /\ call[c].at = "asking"
    /\ \/ Caught(c)
       \/ server # None /\ history[c] = "error" /\ Ends(c, "failed")
       \/ server # None /\ history[c] = "success" /\ Goes(c, "viewing")
       \/ /\ server # None /\ history[c] = "none"
          /\ call' = [call EXCEPT ![c].at = "pausing", ![c].last = "progress"]
    /\ UNCHANGED <<managedVars, serverVars, restVars>>

ViewSettles(c) ==
    /\ Running /\ call[c].at = "viewing"
    /\ \/ Caught(c)
       \/ server # None /\ history[c] = "success" /\ Ends(c, "completed")
    /\ UNCHANGED <<managedVars, serverVars, restVars>>

PauseEnds(c) ==
    /\ Running /\ call[c].at = "pausing"
    /\ Iterate(c)
    /\ UNCHANGED <<managedVars, serverVars, restVars>>

\* cancel settles: when the adapter may, the server that listens now is told to
\* interrupt whatever it is running; a failure of the request is ignored.
CancelSettles(c) ==
    /\ Running /\ call[c].at = "cancelling"
    /\ Ends(c, call[c].ending)
    /\ \/ /\ call[c].allow /\ server # None
          /\ interrupted' = interrupted \union {server}
          /\ IF queue = <<>> THEN UNCHANGED <<queue, history>>
             ELSE /\ history' = [history EXCEPT ![Head(queue)] = "error"]
                  /\ queue' = Tail(queue)
       \/ UNCHANGED <<queue, history, interrupted>>
    /\ UNCHANGED <<managedVars, server, closing, raced>>

\* Mutant of Listening: the socket outlives the run.
ListeningOn(c) == call[c].job

\* The socket is open and the prompt's identity is known.
Listening(c) ==
    call[c].job /\ call[c].at \in {"asking", "viewing", "pausing", "cancelling"}

\* A progress message of the server.
SocketProgress(c) ==
    /\ Running /\ Listening(c) /\ server # None
    /\ call' = [call EXCEPT ![c].last = "progress"]
    /\ UNCHANGED <<managedVars, serverVars, restVars>>

-----------------------------------------------------------------------------
Step(c) ==
    \/ Inspect(c) \/ Inspected(c) \/ SocketOpens(c) \/ ProbeStarts(c)
    \/ ProbeFails(c) \/ Made(c) \/ Woken(c)
    \/ RunStarts(c) \/ SocketSettles(c) \/ PostSettles(c)
    \/ HistorySettles(c) \/ ViewSettles(c) \/ PauseEnds(c) \/ CancelSettles(c)

Next ==
    \/ \E c \in Calls : Step(c) \/ Abort(c) \/ Accepts(c) \/ SocketProgress(c)
    \/ \E n \in Starts : Bind(n) \/ Exits(n)
    \/ UserServer \/ Works
    \/ Close \/ KillSettles \/ Quit

(* Every await of a call ends: on the file system, with an answer, or by a  *)
(* timer (5 s of a socket, 1 s and 0.5 s between polls, and the time limits *)
(* of fetch).                                                               *)
Spec == Init /\ [][Next]_vars /\ \A c \in Calls : WF_vars(Step(c))

-----------------------------------------------------------------------------
\* Type invariant.
TypeOK ==
    /\ managedChild \in Starts \union {None}
    /\ process \in [Starts -> {"none", "starting", "serving", "exited"}]
    /\ server \in Starts \union {None, User}
    /\ call \in [Calls -> CallType]

\* A run whose prompt was accepted observes its end exactly once, and last: what
\* the session was told is what the caller of run is answered, although progress
\* arrives on the socket at any time and a cancellation races the history.
EndObserved ==
    \A c \in Calls :
        /\ call[c].last \in Terminal => call[c].at = "done"
        /\ call[c].at = "done" /\ call[c].job =>
               call[c].last = IF call[c].answer = "ok" THEN "completed"
                              ELSE call[c].answer

\* A ComfyUI child that runs is the one the supervisor knows, or was killed, and
\* from close on it was killed, unless its own start overlapped another one or
\* close: children that got lost so do not make the supervisor lose later ones.
NoStray ==
    \A n \in Starts \ raced :
        Alive(n) => (n = managedChild /\ closing = "open") \/ n \in killed

\* Every call of inspect and run ends, whatever server, children and user do.
CallsEnd ==
    \A c \in Calls :
        call[c].at # "idle" ~> (call[c].at = "done" \/ closing = "gone")

\* "Global /interrupt is allowed only for a child process started and owned by
\* this app" (docs/DESKTOP-WORKBENCH.md:114).  The code remembers that a child was
\* managed and posts to whoever listens on the port.
OnlyOwnInterrupted == User \notin interrupted
=============================================================================
