------------------------- MODULE UtilitySupervisor -------------------------
(***************************************************************************)
(* Electron Main's supervisor of the Utility Process                       *)
(* (apps/desktop/src/main/utility-supervisor.ts) together with the Utility *)
(* processes it forks (apps/desktop/src/utility/utility.ts).               *)
(*                                                                         *)
(* Any number of callers may be inside execute() at once: the scheduler's  *)
(* pump, and every IPC handler that calls executeUtility directly.  Main's *)
(* event loop takes one macrotask at a time (a message, an exit event, a   *)
(* timer, a new call); what an await continues with is a microtask and     *)
(* runs before the next macrotask, which is what Turn says.                *)
(*                                                                         *)
(* A child that was killed keeps running until it dies, and its death is   *)
(* known to Main only with the exit event: messages sent before may be     *)
(* delivered or lost.  Timers carry no time here: one may fire whenever it *)
(* is set.  A native operation may take for ever.                          *)
(***************************************************************************)
EXTENDS Naturals, Sequences, FiniteSets

CONSTANTS
    Calls,       \* job ids passed to execute, each a call of its own
    MaxForks,    \* bound: how many Utility processes one run may fork
    MaxFaults,   \* bound: how often Utilities crash or misbehave by themselves
    MayShutdown, \* whether shutdown() may be called in this instance
    NoCall

VARIABLES
    child,       \* #child (0: undefined)
    forks,       \* how many children were forked; they are numbered by it
    health,      \* #state
    generation,  \* #generation
    discovered,  \* whether #discovery is set
    starting,    \* the child whose #startPromise is unsettled (0: none)
    pending,     \* keys of #pending
    closing,     \* #closing
    stopping,    \* the child shutdown() waits for (0: none)
    call,        \* where a caller of execute is
    outcome,     \* what execute returned or will return to it
    utility,     \* the processes
    begun,       \* history: how often the native operation of a call began
    done,        \* history: calls whose native operation ended in the Utility
    quit,        \* history: whether shutdown was called
    faults       \* history: faults so far

vars == <<child, forks, health, generation, discovered, starting, pending,
          closing, stopping, call, outcome, utility, begun, done,
          quit, faults>>

mainVars == <<child, forks, health, generation, discovered, starting, pending,
              closing, stopping, call, outcome, quit>>

Children == 1 .. MaxForks

Healths  == {"starting", "healthy", "restarting", "stopped", "failed"}
Places   == {"idle", "starting", "resumed", "posted", "cleanup", "settled"}
Outcomes == {"none", "data", "UTILITY_HANDSHAKE_FAILED", "UTILITY_PROCESS_LOST",
             "JOB_TRANSITION_INVALID", "UTILITY_MESSAGE_INVALID", "JOB_TIMEOUT"}

\* life: "gone" is dead with the exit event delivered.
Lives    == {"unborn", "booting", "idle", "busy", "dead", "gone"}
ToChild  == [type : {"execute"}, id : Calls] \union [type : {"shutdown"}]
ToMain   == [type : {"ready", "incompatible", "malformed", "oversized"}]
              \union [type : {"result", "flood"}, id : Calls]

Alive(k) == utility[k].life \in {"booting", "idle", "busy"}

NoUtility == [life |-> "unborn", killed |-> FALSE, work |-> NoCall,
              inbox |-> <<>>, outbox |-> <<>>]

Init ==
    /\ child = 0 /\ forks = 0 /\ generation = 0
    /\ health = "stopped"
    /\ discovered = FALSE
    /\ starting = 0
    /\ pending = {}
    /\ closing = FALSE
    /\ stopping = 0
    /\ call = [c \in Calls |-> "idle"]
    /\ outcome = [c \in Calls |-> "none"]
    /\ utility = [k \in Children |-> NoUtility]
    /\ begun = [c \in Calls |-> 0]
    /\ done = {}
    /\ quit = FALSE
    /\ faults = 0

-----------------------------------------------------------------------------
(* Helpers.                                                                 *)

\* No continuation of a settled promise is waiting to run.
Turn == \A c \in Calls : call[c] # "resumed"

\* postMessage: what is sent to a dead process is lost.
Posted(u, k, message) ==
    IF u[k].life \in {"dead", "gone"} THEN u
    ELSE [u EXCEPT ![k].inbox = Append(@, message)]

\* child.kill(): a request; the process dies in its own time.
Killed(u, k) ==
    IF k = 0 THEN u ELSE [u EXCEPT ![k].killed = TRUE]

\* readyResolve / #failStart: every caller that awaits the start promise goes
\* on; with a rejection execute throws and the pump turns it into a failure.
StartSettles(ok) ==
    /\ starting' = 0
    /\ call' = [c \in Calls |-> IF call[c] # "starting" THEN call[c]
                                ELSE IF ok THEN "resumed" ELSE "settled"]
    /\ outcome' = [c \in Calls |-> IF call[c] = "starting" /\ ~ok
                                   THEN "UTILITY_HANDSHAKE_FAILED"
                                   ELSE outcome[c]]

Settle(c, result) ==
    /\ call' = [call EXCEPT ![c] = "settled"]
    /\ outcome' = [outcome EXCEPT ![c] = result]

-----------------------------------------------------------------------------
(* start and execute.                                                       *)

\* start() of a healthy Utility returns its discovery; execute goes on in a
\* microtask.
ExecuteHealthy(c) ==
    /\ Turn /\ call[c] = "idle"
    /\ health = "healthy" /\ discovered
    /\ call' = [call EXCEPT ![c] = "resumed"]
    /\ UNCHANGED <<child, forks, health, generation, discovered, starting,
                   pending, closing, stopping, outcome, utility, begun, done,
                   quit, faults>>

\* start() while another start is under way returns the same promise.
ExecuteJoins(c) ==
    /\ Turn /\ call[c] = "idle"
    /\ ~(health = "healthy" /\ discovered)
    /\ starting # 0
    /\ call' = [call EXCEPT ![c] = "starting"]
    /\ UNCHANGED <<child, forks, health, generation, discovered, starting,
                   pending, closing, stopping, outcome, utility, begun, done,
                   quit, faults>>

\* start() forks a Utility and sets the handshake timer.  Whatever #child was
\* is forgotten, alive or not.
ExecuteForks(c) ==
    /\ Turn /\ call[c] = "idle"
    /\ ~(health = "healthy" /\ discovered)
    /\ starting = 0
    /\ forks < MaxForks
    /\ forks' = forks + 1
    /\ child' = forks + 1
    /\ starting' = forks + 1
    /\ closing' = FALSE
    /\ health' = IF generation = 0 THEN "starting" ELSE "restarting"
    /\ utility' = [utility EXCEPT ![forks + 1].life = "booting"]
    /\ call' = [call EXCEPT ![c] = "starting"]
    /\ UNCHANGED <<generation, discovered, pending, stopping, outcome, begun,
                   done, quit, faults>>

\* What execute may refuse a call with after `await this.start()'.  A request
\* above the message limit is a choice here.
Refusals ==
    IF child = 0 \/ health # "healthy" THEN {"UTILITY_PROCESS_LOST"}
    ELSE IF pending # {} THEN {"JOB_TRANSITION_INVALID"}
    ELSE {"UTILITY_MESSAGE_INVALID"}

ExecuteRefuses(c) ==
    /\ call[c] = "resumed"
    /\ \E r \in Refusals : Settle(c, r)
    /\ UNCHANGED <<child, forks, health, generation, discovered, starting,
                   pending, closing, stopping, utility, begun, done,
                   quit, faults>>

\* The job is posted to the current child and its operation timer set.
ExecutePosts(c) ==
    /\ call[c] = "resumed"
    /\ child # 0 /\ health = "healthy" /\ pending = {}
    /\ pending' = pending \union {c}
    /\ call' = [call EXCEPT ![c] = "posted"]
    /\ utility' = Posted(utility, child, [type |-> "execute", id |-> c])
    /\ UNCHANGED <<child, forks, health, generation, discovered, starting,
                   closing, stopping, outcome, begun, done, quit, faults>>

\* Mutant of OperationTimeout: a Utility that is told to die counts as lost
\* at once, so that the next start forks another one.
OperationTimeoutLosesChild(c) ==
    /\ Turn /\ c \in pending
    /\ pending' = pending \ {c}
    /\ utility' = Killed(utility, child)
    /\ health' = "failed"
    /\ call' = [call EXCEPT ![c] = "cleanup"]
    /\ outcome' = [outcome EXCEPT ![c] = "JOB_TIMEOUT"]
    /\ UNCHANGED <<child, forks, generation, discovered, starting, closing,
                   stopping, begun, done, quit, faults>>

\* The operation timer: the call is forgotten, the child killed, and the
\* caller told after the clean-up of its temporary files.
OperationTimeout(c) ==
    /\ Turn /\ c \in pending
    /\ pending' = pending \ {c}
    /\ utility' = Killed(utility, child)
    /\ call' = [call EXCEPT ![c] = "cleanup"]
    /\ outcome' = [outcome EXCEPT ![c] = "JOB_TIMEOUT"]
    /\ UNCHANGED <<child, forks, health, generation, discovered, starting,
                   closing, stopping, begun, done, quit, faults>>

\* cleanupAfterLoss has retried its removals and the promise resolves.
CleanupEnds(c) ==
    /\ Turn /\ call[c] = "cleanup"
    /\ call' = [call EXCEPT ![c] = "settled"]
    /\ UNCHANGED <<child, forks, health, generation, discovered, starting,
                   pending, closing, stopping, outcome, utility, begun, done,
                   quit, faults>>

\* The handshake timer of the start under way, which does nothing once the
\* child is healthy or another one.
HandshakeTimeout ==
    /\ Turn
    /\ starting # 0 /\ child = starting /\ health # "healthy"
    /\ utility' = Killed(utility, starting)
    /\ StartSettles(FALSE)
    /\ UNCHANGED <<child, forks, health, generation, discovered, pending,
                   closing, stopping, begun, done, quit, faults>>

-----------------------------------------------------------------------------
(* Messages and exits.                                                      *)

\* The head of a child's outbox reaches Main, unless the process is gone.
Says(u, k, message) == [u EXCEPT ![k].outbox = Append(@, message)]
Hears(k, type) ==
    /\ Turn
    /\ utility[k].outbox # <<>>
    /\ Head(utility[k].outbox).type = type

Heard(u, k) == [u EXCEPT ![k].outbox = Tail(@)]

\* A child that is not (any more) the current one is not listened to.
IgnoredMessage(k) ==
    /\ Turn /\ k # child
    /\ utility[k].outbox # <<>>
    /\ utility' = Heard(utility, k)
    /\ UNCHANGED mainVars /\ UNCHANGED <<begun, done, faults>>

\* The handshake.  Nothing tells a start that is awaited from one that was
\* given up: a late ready makes the child it came from healthy.
ReadyMessage(k) ==
    /\ Hears(k, "ready") /\ k = child
    /\ discovered' = TRUE
    /\ generation' = generation + 1
    /\ health' = "healthy"
    /\ StartSettles(TRUE)
    /\ utility' = Heard(utility, k)
    /\ UNCHANGED <<child, forks, pending, closing, stopping, begun, done,
                   quit, faults>>

\* A handshake that does not validate, or a message that does not parse.
InvalidMessage(k) ==
    /\ Hears(k, "incompatible") \/ Hears(k, "malformed")
    /\ k = child
    /\ StartSettles(FALSE)
    /\ utility' = Killed(Heard(utility, k), k)
    /\ UNCHANGED <<child, forks, health, generation, discovered, pending,
                   closing, stopping, begun, done, quit, faults>>

\* A message above the limit only kills the child; so does one progress
\* message too many, when its job is still pending.
OversizedMessage(k) ==
    /\ \/ Hears(k, "oversized")
       \/ Hears(k, "flood") /\ Head(utility[k].outbox).id \in pending
    /\ k = child
    /\ utility' = Killed(Heard(utility, k), k)
    /\ UNCHANGED mainVars /\ UNCHANGED <<begun, done, faults>>

\* A result, or a progress message, for a job that is no longer pending.
UnknownJobMessage(k) ==
    /\ Hears(k, "result") \/ Hears(k, "flood")
    /\ k = child
    /\ Head(utility[k].outbox).id \notin pending
    /\ utility' = Heard(utility, k)
    /\ UNCHANGED mainVars /\ UNCHANGED <<begun, done, faults>>

ResultMessage(k) ==
    /\ Hears(k, "result") /\ k = child
    /\ LET c == Head(utility[k].outbox).id IN
          /\ c \in pending
          /\ pending' = pending \ {c}
          /\ Settle(c, "data")
    /\ utility' = Heard(utility, k)
    /\ UNCHANGED <<child, forks, health, generation, discovered, starting,
                   closing, stopping, begun, done, quit, faults>>

HealthAfterExit(k) ==
    IF stopping = k THEN "stopped"
    ELSE IF child # k THEN health
    ELSE IF closing THEN "stopped" ELSE "failed"

\* Mutant of CallAfterExit: pending jobs are given back to be executed again.
CallReplayed(c) ==
    IF call[c] = "starting" THEN "settled"
    ELSE IF c \in pending THEN "idle" ELSE call[c]

\* Of the current child, #handleExit rejects the start under way and fails
\* every pending job after the clean-up; none is sent again.
CallAfterExit(c) ==
    IF call[c] = "starting" THEN "settled"
    ELSE IF c \in pending THEN "cleanup" ELSE call[c]

\* The exit event.  A shutdown that waited for this child ends.
Exit(k) ==
    /\ Turn /\ utility[k].life = "dead"
    /\ utility' = [utility EXCEPT ![k].life = "gone", ![k].outbox = <<>>]
    /\ stopping' = IF stopping = k THEN 0 ELSE stopping
    /\ health' = HealthAfterExit(k)
    /\ IF child = k
       THEN /\ child' = 0
            /\ discovered' = FALSE
            /\ starting' = 0
            /\ pending' = {}
            /\ call' = [c \in Calls |-> CallAfterExit(c)]
            /\ outcome' = [c \in Calls |->
                  IF call[c] = "starting" THEN "UTILITY_HANDSHAKE_FAILED"
                  ELSE IF c \in pending THEN "UTILITY_PROCESS_LOST"
                  ELSE outcome[c]]
       ELSE UNCHANGED <<child, discovered, starting, pending, call, outcome>>
    /\ UNCHANGED <<forks, generation, closing, begun, done, quit, faults>>

-----------------------------------------------------------------------------
(* shutdown, called once when the application closes.                       *)

Shutdown ==
    /\ MayShutdown /\ Turn /\ ~quit
    /\ quit' = TRUE
    /\ closing' = TRUE
    /\ IF child = 0
       THEN health' = "stopped" /\ UNCHANGED <<stopping, utility>>
       ELSE /\ stopping' = child
            /\ utility' = Posted(utility, child, [type |-> "shutdown"])
            /\ UNCHANGED health
    /\ UNCHANGED <<child, forks, generation, discovered, starting, pending,
                   call, outcome, begun, done, faults>>

\* The child did not exit in time: it is killed, and shutdown ends without
\* waiting for its exit event.
ShutdownTimeout ==
    /\ Turn /\ stopping # 0
    /\ utility' = Killed(utility, stopping)
    /\ stopping' = 0
    /\ health' = "stopped"
    /\ UNCHANGED <<child, forks, generation, discovered, starting, pending,
                   closing, call, outcome, begun, done, quit, faults>>

-----------------------------------------------------------------------------
(* The Utility process.                                                     *)

\* The addon is loaded and its API compatible: the process announces itself.
Boot(k) ==
    /\ utility[k].life = "booting"
    /\ utility' = Says([utility EXCEPT ![k].life = "idle"], k, [type |-> "ready"])
    /\ UNCHANGED mainVars /\ UNCHANGED <<begun, done, faults>>

\* process.exit, or a kill that took effect: what was not read is lost.
Dead(u, k) == [u EXCEPT ![k].life = "dead", ![k].work = NoCall, ![k].inbox = <<>>]

\* A job arrives: an idle process begins it.
Receive(k) ==
    /\ utility[k].life = "idle"
    /\ utility[k].inbox # <<>> /\ Head(utility[k].inbox).type = "execute"
    /\ LET c == Head(utility[k].inbox).id IN
          /\ utility' = [utility EXCEPT ![k].life = "busy", ![k].work = c,
                                        ![k].inbox = Tail(@)]
          /\ begun' = [begun EXCEPT ![c] = @ + 1]
    /\ UNCHANGED mainVars /\ UNCHANGED <<done, faults>>

\* A job for a busy process (exit code 75), or a shutdown message (73 or 0).
ReceiveAndExit(k) ==
    /\ utility[k].life \in {"idle", "busy"}
    /\ utility[k].inbox # <<>>
    /\ utility[k].life = "busy" \/ Head(utility[k].inbox).type = "shutdown"
    /\ utility' = Dead(utility, k)
    /\ UNCHANGED mainVars /\ UNCHANGED <<begun, done, faults>>

\* execute: one call of the native addon, chosen by the job; what it answers, a
\* value or an error, is data to everyone here.
Executed(k) == done' = done \union {utility[k].work}

\* The native operation returned: the envelope is sent and busy cleared.
Finish(k) ==
    /\ utility[k].life = "busy"
    /\ Executed(k)
    /\ utility' = Says([utility EXCEPT ![k].life = "idle", ![k].work = NoCall],
                       k, [type |-> "result", id |-> utility[k].work])
    /\ UNCHANGED mainVars /\ UNCHANGED <<begun, faults>>

\* The process dies: because it was killed, or by a crash of its own.
Die(k) ==
    /\ Alive(k)
    /\ utility[k].killed \/ faults < MaxFaults
    /\ faults' = IF utility[k].killed THEN faults ELSE faults + 1
    /\ utility' = Dead(utility, k)
    /\ UNCHANGED mainVars /\ UNCHANGED <<begun, done>>

\* Other faults: an incompatible handshake; a malformed or oversized message;
\* too much progress; a result above the limit, which send() refuses so that
\* nothing answers the job.
Misbehave(k) ==
    /\ faults < MaxFaults
    /\ faults' = faults + 1
    /\ \/ /\ utility[k].life = "booting"
          /\ utility' = Says([utility EXCEPT ![k].life = "idle"], k,
                             [type |-> "incompatible"])
          /\ UNCHANGED done
       \/ /\ utility[k].life \in {"idle", "busy"}
          /\ \E t \in {"malformed", "oversized"} :
                utility' = Says(utility, k, [type |-> t])
          /\ UNCHANGED done
       \/ /\ utility[k].life = "busy"
          /\ utility' = Says(utility, k, [type |-> "flood", id |-> utility[k].work])
          /\ UNCHANGED done
       \/ /\ utility[k].life = "busy"
          /\ Executed(k)
          /\ utility' = [utility EXCEPT ![k].life = "idle", ![k].work = NoCall]
    /\ UNCHANGED mainVars /\ UNCHANGED begun

-----------------------------------------------------------------------------
Execute(c) == ExecuteHealthy(c) \/ ExecuteJoins(c) \/ ExecuteForks(c)
Resume(c)  == ExecuteRefuses(c) \/ ExecutePosts(c)

Message(k) ==
    \/ IgnoredMessage(k) \/ ReadyMessage(k) \/ InvalidMessage(k)
    \/ OversizedMessage(k) \/ UnknownJobMessage(k) \/ ResultMessage(k)

Process(k) == Boot(k) \/ Receive(k) \/ ReceiveAndExit(k) \/ Finish(k)

\* Everything but the calls of execute and shutdown.
Internal ==
    \/ \E c \in Calls : Resume(c) \/ OperationTimeout(c) \/ CleanupEnds(c)
    \/ HandshakeTimeout \/ ShutdownTimeout
    \/ \E k \in Children : \/ Message(k) \/ Exit(k)
                           \/ Process(k) \/ Die(k) \/ Misbehave(k)

Next == (\E c \in Calls : Execute(c)) \/ Shutdown \/ Internal

Spec == Init /\ [][Next]_vars

\* Continuations run and timers that stay set fire in the end.  Nothing is
\* assumed of native operations, of answers, of the death of a killed process
\* or of the health of a Utility.
Fairness ==
    /\ \A c \in Calls : /\ WF_vars(Resume(c))
                        /\ WF_vars(OperationTimeout(c))
                        /\ WF_vars(CleanupEnds(c))
    /\ WF_vars(HandshakeTimeout)

FairSpec == Spec /\ Fairness

-----------------------------------------------------------------------------
(* Properties.                                                              *)

TypeOK ==
    /\ child \in 0 .. forks /\ forks \in 0 .. MaxForks
    /\ health \in Healths
    /\ generation \in 0 .. forks
    /\ discovered \in BOOLEAN
    /\ starting \in {0, child}
    /\ pending \subseteq Calls
    /\ closing \in BOOLEAN
    /\ stopping \in 0 .. forks
    /\ call \in [Calls -> Places]
    /\ outcome \in [Calls -> Outcomes]
    /\ utility \in [Children -> [life : Lives, killed : BOOLEAN,
                                 work : Calls \union {NoCall},
                                 inbox : Seq(ToChild), outbox : Seq(ToMain)]]
    /\ begun \in [Calls -> Nat]
    /\ done \subseteq Calls
    /\ quit \in BOOLEAN
    /\ faults \in 0 .. MaxFaults

\* The native operation of a job begins at most once, whatever is lost, killed
\* or restarted ("State-changing jobs are never replayed automatically").
NoReplay == \A c \in Calls : begun[c] <= 1

\* A caller is given data only for a job the Utility has finished, and a job
\* that was refused never began.
AnswersAreTrue ==
    \A c \in Calls :
        /\ outcome[c] = "data" => c \in done
        /\ outcome[c] \in {"JOB_TRANSITION_INVALID", "UTILITY_MESSAGE_INVALID",
                           "UTILITY_HANDSHAKE_FAILED"} => begun[c] = 0

\* No two Utility processes execute native operations at the same time, even
\* while a killed one lives on ("Concurrent native jobs: 1").  A call that
\* comes once shutdown was called may overlap: shutdown waits for one child,
\* and its end sets #state to stopped even when there is a new child by then.
SingleWriter ==
    ~quit => Cardinality({k \in Children : utility[k].life = "busy"}) <= 1

=============================================================================
