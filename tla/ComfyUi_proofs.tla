--------------------------- MODULE ComfyUi_proofs ---------------------------
(***************************************************************************)
(* Proofs about the provider of the images, for any calls, starts and       *)
(* polls: a child that runs is the managed one or was killed, and a run     *)
(* whose prompt is known observes its end.                                  *)
(***************************************************************************)
EXTENDS ComfyUi, TLAPS

\* What the environment of a call keeps.
ProviderTypes ==
    /\ managedChild \in Starts \union {None}
    /\ starts \in 0 .. MaxStarts
    /\ process \in [Starts -> {"none", "starting", "serving", "exited"}]
    /\ server \in Starts \union {None, User}
    /\ call \in [Calls -> CallType]

\* The prompt's identity is known from the first look at the history on, a
\* cancel request knows what is to be observed after it, and the end is observed
\* as the caller is answered.
CallOK(k) ==
    /\ k.job => k.at \in {"asking", "viewing", "pausing", "cancelling", "done"}
    /\ k.at = "cancelling" => k.ending # "none"
    /\ k.at = "making" => k.start \in Starts
    /\ k.last \in Terminal => k.at = "done"
    /\ k.at = "done" /\ k.job =>
           k.last = IF k.answer = "ok" THEN "completed" ELSE k.answer

Making(c) == call[c].at = "making"

\* Of two calls that are about to spawn a child both starts have raced, and so has
\* the start of a child that is managed by then, and any start after close.
OneStart ==
    \A c \in Calls : Making(c) =>
        /\ \A d \in Calls : Making(d) => c = d \/ call[d].start \in raced
        /\ managedChild # None => managedChild \in raced
        /\ closing # "open" => call[c].start \in raced

ProviderInv ==
    /\ ProviderTypes
    /\ \A c \in Calls : CallOK(call[c])
    /\ OneStart
    /\ NoStray

\* A step of one call that starts nothing.
Becomes(c, k) == k \in CallType /\ call' = [call EXCEPT ![c] = k]

LEMMA CallFrame ==
    ASSUME ProviderInv, NEW c \in Calls, NEW k, Becomes(c, k),
           CallOK(k), ~(k.at = "making"),
           UNCHANGED <<managedChild, starts, process, killed, server, closing, raced>>
    PROVE  ProviderInv'
  <1>1. call' \in [Calls -> CallType]
    BY DEF Becomes, ProviderInv, ProviderTypes
  <1>2. call'[c] = k /\ \A d \in Calls \ {c} : call'[d] = call[d]
    BY DEF Becomes, ProviderInv, ProviderTypes
  <1>3. ProviderTypes'
    BY <1>1 DEF ProviderInv, ProviderTypes
  <1>4. \A d \in Calls : CallOK(call'[d])
    BY <1>2 DEF ProviderInv
  <1>5. \A d \in Calls : Making(d)' => Making(d) /\ call'[d] = call[d]
    BY <1>2 DEF Making
  <1>6. OneStart'
    BY <1>5 DEF ProviderInv, OneStart
  <1>7. NoStray'
    BY DEF ProviderInv, NoStray, Alive
  <1> QED
    BY <1>3, <1>4, <1>6, <1>7 DEF ProviderInv

\* A call is of its type.
LEMMA CallTyped ==
    ASSUME ProviderInv, NEW c \in Calls
    PROVE  call[c] \in CallType /\ CallOK(call[c])
  BY DEF ProviderInv, ProviderTypes

\* What Goes and Over make of a call.
LEMMA GoesMakes ==
    ASSUME ProviderInv, NEW c \in Calls, NEW place \in Places,
           Goes(c, place)
    PROVE  \E k : /\ Becomes(c, k)
                  /\ k.at = place /\ k.job = call[c].job /\ k.last = call[c].last
                  /\ k.ending = call[c].ending /\ k.answer = call[c].answer
  <1>1. PICK s : s = call[c] /\ s \in CallType
    BY CallTyped
  <1>2. PICK polls \in 0 .. MaxPolls :
           call' = [call EXCEPT ![c].at = place, ![c].start = 0, ![c].polls = polls]
    <2>1. CASE place = "ready"
      <3>1. 0 \in 0 .. MaxPolls
        BY ProviderAssumption, <1>1 DEF CallType
      <3> QED
        BY <2>1, <3>1 DEF Goes
    <2>2. CASE place # "ready"
      BY <1>1, <2>2 DEF Goes, CallType
    <2> QED
      BY <2>1, <2>2
  <1>3. PICK k : k = [s EXCEPT !.at = place, !.start = 0, !.polls = polls]
    OBVIOUS
  <1>4. /\ k \in CallType /\ k.at = place /\ k.job = s.job /\ k.last = s.last
        /\ k.ending = s.ending /\ k.answer = s.answer
    <2>1. 0 \in 0 .. MaxStarts
      BY ProviderAssumption, <1>1 DEF CallType
    <2> QED
      BY <1>1, <1>3, <2>1 DEF CallType
  <1>5. call' = [call EXCEPT ![c] = k]
    BY <1>1, <1>2, <1>3 DEF ProviderInv, ProviderTypes
  <1> QED
    BY <1>1, <1>4, <1>5 DEF Becomes

\* A call that is over keeps its job and is done.
LEMMA OverMakes ==
    ASSUME ProviderInv, NEW c \in Calls,
           NEW answer \in {"ok", "failed", "cancelled"},
           NEW last \in {"none", "accepted", "progress"} \union Terminal, Over(c, answer, last)
    PROVE  \E k : /\ Becomes(c, k)
                  /\ k.at = "done" /\ k.job = call[c].job /\ k.last = last
                  /\ k.answer = answer
  <1>1. PICK s : s = call[c] /\ s \in CallType
    BY CallTyped
  <1>2. PICK k : k = [s EXCEPT !.at = "done", !.answer = answer, !.last = last, !.start = 0,
                               !.polls = 0, !.allow = FALSE, !.sent = FALSE, !.ending = "none"]
    OBVIOUS
  <1>3. k \in CallType /\ k.at = "done" /\ k.job = s.job /\ k.last = last /\ k.answer = answer
    <2>1. 0 \in 0 .. MaxStarts /\ 0 \in 0 .. MaxPolls /\ "done" \in Places
      BY ProviderAssumption, <1>1 DEF CallType, Places
    <2> QED
      BY <1>1, <1>2, <2>1 DEF CallType
  <1>4. call' = [call EXCEPT ![c] = k]
    BY <1>1, <1>2 DEF ProviderInv, ProviderTypes, Over
  <1> QED
    BY <1>1, <1>3, <1>4 DEF Becomes

\* An answered call is done, and what it observed last stays.
LEMMA AnswersMakes ==
    ASSUME ProviderInv, NEW c \in Calls,
           NEW answer \in {"ok", "failed", "cancelled"},
           Answers(c, answer)
    PROVE  \E k : /\ Becomes(c, k)
                  /\ k.at = "done" /\ k.job = call[c].job /\ k.last = call[c].last
                  /\ k.answer = answer
  <1>1. PICK last : last = call[c].last
    OBVIOUS
  <1>2. last \in {"none", "accepted", "progress"} \union Terminal
    BY <1>1, CallTyped DEF CallType
  <1>3. Over(c, answer, last)
    BY <1>1 DEF Answers
  <1>4. \E k : /\ Becomes(c, k) /\ k.at = "done" /\ k.job = call[c].job
              /\ k.last = last /\ k.answer = answer
    BY <1>2, <1>3, OverMakes
  <1> QED
    BY <1>1, <1>4

\* The supervisor's part of a call.
LEMMA InspectKeeps ==
    ASSUME ProviderInv, NEW c \in Calls,
           \/ Inspect(c) \/ Inspected(c) \/ SocketOpens(c)
           \/ ProbeFails(c) \/ Woken(c)
    PROVE  ProviderInv'
  <1>1. UNCHANGED <<managedChild, starts, process, killed, server, closing, raced>>
    BY DEF Inspect, Inspected, SocketOpens, ProbeFails, Woken, managedVars,
       serverVars,
           restVars
  <1>2. PICK s : s = call[c] /\ s \in CallType /\ CallOK(s)
    BY CallTyped
  <1>3. /\ s.at \in {"idle", "probing", "answered", "polling", "reached"}
        /\ ~s.job /\ s.last \notin Terminal
    <2>1. s.at \in {"idle", "probing", "answered", "polling", "reached"}
      BY <1>2
         DEF Inspect, Inspected, SocketOpens, ProbeFails, Woken, Probing,
             Polling
    <2> QED
      BY <1>2, <2>1 DEF CallOK, CallType
  <1>4. \/ Goes(c, "probing") \/ Goes(c, "answered") \/ Goes(c, "ready")
        \/ Answers(c, "ok") \/ Answers(c, "failed")
        \/ call' = [call EXCEPT ![c].at = "reached"]
        \/ call[c].polls < MaxPolls /\ call' = [call EXCEPT ![c].at = "polling", ![c].polls = @ + 1]
    BY <1>2 DEF Inspect, Inspected, SocketOpens, ProbeFails, Woken
  <1>5. ASSUME NEW place \in {"probing", "answered", "ready"}, Goes(c, place)
        PROVE  ProviderInv'
    <2>1. PICK k : /\ Becomes(c, k) /\ k.at = place /\ k.job = s.job /\ k.last = s.last
      BY <1>2, <1>5, GoesMakes DEF Places
    <2>2. CallOK(k)
      BY <1>3, <2>1 DEF CallOK, CallType
    <2> QED
      BY <1>1, <2>1, <2>2, CallFrame
  <1>6. ASSUME NEW answer \in {"ok", "failed"}, Answers(c, answer) PROVE ProviderInv'
    <2>1. PICK k : Becomes(c, k) /\ k.at = "done" /\ k.job = s.job /\ k.last = s.last
      BY <1>2, <1>6, AnswersMakes
    <2>2. CallOK(k)
      BY <1>3, <2>1 DEF CallOK, CallType
    <2> QED
      BY <1>1, <2>1, <2>2, CallFrame
  <1>7. CASE call' = [call EXCEPT ![c].at = "reached"]
    <2>1. PICK k : k = [s EXCEPT !.at = "reached"]
      OBVIOUS
    <2>2. k \in CallType /\ k.at = "reached" /\ k.job = s.job /\ k.last = s.last
      BY <1>2, <2>1 DEF CallType, Places
    <2>3. Becomes(c, k) /\ CallOK(k)
      BY <1>2, <1>3, <1>7, <2>1, <2>2 DEF Becomes, CallOK, ProviderInv, ProviderTypes
    <2> QED
      BY <1>1, <2>2, <2>3, CallFrame
  <1>8. CASE /\ call[c].polls < MaxPolls
             /\ call' = [call EXCEPT ![c].at = "polling", ![c].polls = @ + 1]
    <2>1. PICK k : k = [s EXCEPT !.at = "polling", !.polls = @ + 1]
      OBVIOUS
    <2>2. s.polls + 1 \in 0 .. MaxPolls
      BY ProviderAssumption, <1>2, <1>8 DEF CallType
    <2>3. k \in CallType /\ k.at = "polling" /\ k.job = s.job /\ k.last = s.last
      BY ZenonT(60), <1>2, <2>1, <2>2 DEF CallType, Places
    <2>4. Becomes(c, k) /\ CallOK(k)
      BY <1>2, <1>3, <1>8, <2>1, <2>3 DEF Becomes, CallOK, ProviderInv, ProviderTypes
    <2> QED
      BY <1>1, <2>3, <2>4, CallFrame
  <1> QED
    BY <1>4, <1>5, <1>6, <1>7, <1>8

\* Two calls that go to their mkdir at once overlap, and both starts are noted.
LEMMA ProbeStartsKeeps ==
    ASSUME ProviderInv, NEW c \in Calls, ProbeStarts(c)
    PROVE  ProviderInv'
  <1>1. PICK s : s = call[c] /\ s \in CallType /\ CallOK(s)
    BY CallTyped
  <1>2. PICK k : k = [s EXCEPT !.at = "making", !.start = starts + 1]
    OBVIOUS
  <1>3. s.at \in {"probing", "answered"} /\ ~s.job /\ s.last \notin Terminal
    BY <1>1 DEF ProbeStarts, Probing, CallOK, CallType
  <1>4. starts \in Nat /\ starts + 1 \in Starts /\ starts + 1 \in 0 .. MaxStarts
        /\ starts' = starts + 1 /\ managedChild = None
        /\ UNCHANGED <<managedChild, process, killed, server>>
    BY ProviderAssumption DEF ProbeStarts, StartAllowed, Starts, ProviderInv, ProviderTypes, serverVars
  <1>5. /\ k \in CallType /\ k.at = "making" /\ k.start = starts + 1
        /\ k.job = s.job /\ k.last = s.last
    BY ZenonT(60), <1>1, <1>2, <1>4 DEF CallType, Places
  <1>6. CallOK(k)
    BY <1>3, <1>4, <1>5 DEF CallOK, CallType
  <1>7. call' = [call EXCEPT ![c] = k]
    BY <1>1, <1>2 DEF ProbeStarts, ProviderInv, ProviderTypes
  <1>8. /\ call' \in [Calls -> CallType] /\ call'[c] = k
        /\ \A d \in Calls \ {c} : call'[d] = call[d]
    BY <1>5, <1>7 DEF ProviderInv, ProviderTypes
  <1>9. ProviderTypes'
    BY <1>4, <1>8 DEF ProviderInv, ProviderTypes
  <1>10. \A d \in Calls : CallOK(call'[d])
    BY <1>6, <1>8 DEF ProviderInv
  <1>11. /\ raced \subseteq raced' /\ closing' = closing
         /\ \A d \in Calls : Making(d) => {call[d].start, starts + 1} \subseteq raced'
         /\ closing # "open" => starts + 1 \in raced'
    <2>1. /\ raced' = raced \union MakingNow \union
                        (IF closing = "open" /\ MakingNow = {} THEN {} ELSE {starts + 1})
          /\ closing' = closing
      BY DEF ProbeStarts
    <2>2. \A d \in Calls : Making(d) => call[d].start \in MakingNow
      BY DEF Making, MakingNow
    <2> QED BY <2>1, <2>2
  <1>12. /\ Making(c)' /\ call'[c].start = starts + 1
         /\ \A d \in Calls \ {c} : Making(d)' => Making(d) /\ call'[d] = call[d]
    BY <1>5, <1>8 DEF Making
  <1>13. OneStart'
    <2> SUFFICES ASSUME NEW e \in Calls, Making(e)'
                 PROVE  /\ \A d \in Calls :
                               Making(d)' => e = d \/ call'[d].start \in raced'
                        /\ closing' # "open" => call'[e].start \in raced'
      BY <1>4 DEF OneStart
    <2>1. CASE e = c
      BY <1>11, <1>12, <2>1
    <2>2. CASE e # c
      <3>1. Making(e) /\ call'[e] = call[e]
        BY <1>12, <2>2
      <3>2. starts + 1 \in raced' /\ call[e].start \in raced'
        BY <1>11, <3>1
      <3>3. \A d \in Calls : Making(d)' => call'[d].start \in raced'
        BY <1>11, <1>12, <3>2
      <3> QED BY <3>1, <3>2, <3>3
    <2> QED BY <2>1, <2>2
  <1>14. NoStray'
    BY <1>4, <1>11 DEF ProviderInv, NoStray, Alive
  <1> QED
    BY <1>9, <1>10, <1>13, <1>14 DEF ProviderInv

\* What else is managed when a child is spawned has raced.
LEMMA MadeKeeps ==
    ASSUME ProviderInv, NEW c \in Calls, Made(c)
    PROVE  ProviderInv'
  <1>1. PICK s : s = call[c] /\ s \in CallType /\ CallOK(s)
    BY CallTyped
  <1>2. s.at = "making" /\ s.start \in Starts /\ ~s.job /\ s.last \notin Terminal
    BY <1>1 DEF Made, CallOK, CallType
  <1>3. UNCHANGED <<starts, killed, server, closing, raced>>
    BY DEF Made, serverVars, restVars
  <1>4. CASE Answers(c, "failed") /\ UNCHANGED <<process, managedChild>>
    <2>1. PICK k : Becomes(c, k) /\ k.at = "done" /\ k.job = s.job /\ k.last = s.last
      BY <1>1, <1>4, AnswersMakes
    <2>2. CallOK(k)
      BY <1>2, <2>1 DEF CallOK, CallType
    <2> QED
      BY <1>3, <1>4, <2>1, <2>2, CallFrame
  <1>5. CASE /\ process' = [process EXCEPT ![s.start] = "starting"] /\ managedChild' = s.start
             /\ Goes(c, "polling")
    <2>1. PICK k : Becomes(c, k) /\ k.at = "polling" /\ k.job = s.job /\ k.last = s.last
      BY <1>1, <1>5, GoesMakes DEF Places
    <2>2. CallOK(k)
      BY <1>2, <2>1 DEF CallOK, CallType
    <2>3. /\ call' \in [Calls -> CallType] /\ call'[c] = k
          /\ \A d \in Calls \ {c} : call'[d] = call[d]
      BY <2>1 DEF Becomes, ProviderInv, ProviderTypes
    <2>4. ProviderTypes'
      BY <1>2, <1>3, <1>5, <2>3 DEF ProviderInv, ProviderTypes
    <2>5. \A d \in Calls : CallOK(call'[d])
      BY <2>2, <2>3 DEF ProviderInv
    <2>6. /\ OneStart /\ Making(c) /\ call[c].start = s.start
          /\ \A d \in Calls : Making(d)' => Making(d) /\ d # c /\ call'[d] = call[d]
      BY <1>1, <1>2, <2>1, <2>3 DEF ProviderInv, Making
    <2>7. OneStart'
      BY <1>3, <1>5, <2>6 DEF OneStart
    <2>8. ASSUME NEW n \in Starts \ raced, Alive(n)'
          PROVE  (n = managedChild' /\ closing' = "open") \/ n \in killed'
      <3>1. CASE n = s.start
        BY <1>3, <1>5, <2>6, <2>8, <3>1 DEF OneStart
      <3>2. CASE n # s.start
        <4>1. Alive(n)
          BY <1>5, <2>8, <3>2 DEF Alive, ProviderInv, ProviderTypes
        <4>2. n # None
          BY ProviderAssumption DEF Starts
        <4>3. n # managedChild
          BY <2>6, <2>8, <4>2 DEF OneStart
        <4> QED
          BY <1>3, <2>8, <4>1, <4>3 DEF ProviderInv, NoStray
      <3> QED
        BY <3>1, <3>2
    <2>9. NoStray'
      BY <1>3, <2>8 DEF NoStray
    <2> QED
      BY <2>4, <2>5, <2>7, <2>9 DEF ProviderInv
  <1> QED
    BY <1>1, <1>4, <1>5 DEF Made

\* The adapter's part of a call.  A cancellation may find a call before it knows
\* its prompt's identity, when there is nothing to be observed.
LEMMA RunStartsKeeps ==
    ASSUME ProviderInv, NEW c \in Calls,
           RunStarts(c) \/ Abort(c) \/ Accepts(c) \/ SocketProgress(c)
    PROVE  ProviderInv'
  <1>1. UNCHANGED <<managedChild, starts, process, killed, server, closing, raced>>
    BY DEF RunStarts, Abort, Accepts, SocketProgress, managedVars, serverVars,
       restVars
  <1>2. PICK s : s = call[c] /\ s \in CallType /\ CallOK(s)
    BY CallTyped
  <1>4. /\ s.at \in Places /\ s.job \in BOOLEAN
        /\ s.last \in {"none", "accepted", "progress"} \union Terminal
    BY <1>2 DEF CallType
  <1>5. CASE RunStarts(c)
    <2>1. PICK k : k \in CallType /\ k.at = "socket" /\ k.job = s.job /\ k.last = s.last
                   /\ call' = [call EXCEPT ![c] = k]
      <3>1. CASE managedChild # None
        <4>1. PICK k : k = [s EXCEPT !.at = "socket", !.allow = TRUE]
          OBVIOUS
        <4>2. k \in CallType /\ k.at = "socket" /\ k.job = s.job /\ k.last = s.last
          BY ZenonT(60), <1>2, <4>1 DEF CallType, Places
        <4>3. call' = [call EXCEPT ![c].at = "socket", ![c].allow = TRUE]
          <5>1. (managedChild # None) = TRUE
            BY <3>1
          <5> QED
            BY <1>5, <5>1 DEF RunStarts
        <4>4. call' = [call EXCEPT ![c] = k]
          BY <1>2, <4>1, <4>3 DEF ProviderInv, ProviderTypes
        <4> QED
          BY <4>2, <4>4
      <3>2. CASE managedChild = None
        <4>1. PICK k : k = [s EXCEPT !.at = "socket", !.allow = FALSE]
          OBVIOUS
        <4>2. k \in CallType /\ k.at = "socket" /\ k.job = s.job /\ k.last = s.last
          <5>1. s \in CallType
            BY <1>2
          <5>2. FALSE \in BOOLEAN /\ "socket" \in Places
            BY DEF Places
          <5>3. k \in CallType
            BY ONLY <4>1, <5>1, <5>2 DEF CallType
          <5>4. k.at = "socket" /\ k.job = s.job /\ k.last = s.last
            BY ONLY <4>1, <5>1 DEF CallType
          <5> QED
            BY <5>3, <5>4
        <4>3. call' = [call EXCEPT ![c].at = "socket", ![c].allow = FALSE]
          <5>1. ~(managedChild # None)
            BY <3>2
          <5>2. call' = [call EXCEPT ![c].at = "socket", ![c].allow = (managedChild # None)]
            BY <1>5 DEF RunStarts
          <5>3. (managedChild # None) = FALSE
            BY <5>1
          <5> QED
            BY <5>2, <5>3
        <4>4. call' = [call EXCEPT ![c] = k]
          BY <1>2, <4>1, <4>3 DEF ProviderInv, ProviderTypes
        <4> QED
          BY <4>2, <4>4
      <3> QED
        BY <3>1, <3>2
    <2>2. s.at = "ready"
      BY <1>2, <1>5 DEF RunStarts
    <2>3. Becomes(c, k) /\ CallOK(k)
      BY <1>2, <2>1, <2>2 DEF Becomes, CallOK
    <2> QED
      BY <1>1, <2>1, <2>3, CallFrame
  <1>6. CASE Abort(c)
    <2>1. PICK k : k = [s EXCEPT !.aborted = TRUE]
      OBVIOUS
    <2>2. /\ k \in CallType /\ k.at = s.at /\ k.job = s.job /\ k.last = s.last
          /\ k.ending = s.ending /\ k.answer = s.answer /\ k.start = s.start
      BY <1>2, <2>1 DEF CallType
    <2>3. s.at \in AdapterPlaces /\ call' = [call EXCEPT ![c] = k]
      BY <1>2, <1>6, <2>1 DEF Abort, ProviderInv, ProviderTypes
    <2>4. s.at \notin {"done", "making"}
      BY <2>3 DEF AdapterPlaces
    <2>5. CallOK(k) /\ k.at # "making"
      BY <1>2, <2>2, <2>4 DEF CallOK
    <2>6. Becomes(c, k)
      BY <2>2, <2>3 DEF Becomes
    <2> QED
      BY <1>1, <2>5, <2>6, CallFrame
  <1>7. CASE Accepts(c)
    <2>1. PICK k : k = [s EXCEPT !.sent = TRUE]
      OBVIOUS
    <2>2. /\ k \in CallType /\ k.at = s.at /\ k.job = s.job /\ k.last = s.last
      BY <1>2, <2>1 DEF CallType
    <2>3. s.at = "posting" /\ call' = [call EXCEPT ![c] = k]
      BY <1>2, <1>7, <2>1 DEF Accepts, ProviderInv, ProviderTypes
    <2>4. Becomes(c, k) /\ CallOK(k) /\ k.at # "making"
      BY <1>2, <2>2, <2>3 DEF Becomes, CallOK
    <2> QED
      BY <1>1, <2>4, CallFrame
  <1>8. CASE SocketProgress(c)
    <2>1. PICK k : k = [s EXCEPT !.last = "progress"]
      OBVIOUS
    <2>2. /\ k \in CallType /\ k.at = s.at /\ k.job = s.job /\ k.last = "progress"
          /\ k.ending = s.ending
      BY <1>2, <2>1 DEF CallType
    <2>3. /\ s.at \in {"asking", "viewing", "pausing", "cancelling"}
          /\ call' = [call EXCEPT ![c] = k]
      BY <1>2, <1>8, <2>1 DEF SocketProgress, Listening, ProviderInv, ProviderTypes
    <2>4. Becomes(c, k) /\ CallOK(k) /\ k.at # "making"
      BY <1>2, <2>2, <2>3 DEF Becomes, CallOK, Terminal
    <2> QED
      BY <1>1, <2>4, CallFrame
  <1> QED
    BY <1>5, <1>6, <1>7, <1>8

\* A look at the top of the loop, which learns the identity of the prompt when it
\* is the first.
LEMMA IterateMakes ==
    ASSUME ProviderInv, NEW c \in Calls, Iterate(c),
           call[c].at \in {"posting", "pausing"}
    PROVE  \E k : Becomes(c, k) /\ CallOK(k) /\ k.at \in {"asking", "cancelling"}
  <1>1. PICK s : s = call[c] /\ s \in CallType /\ CallOK(s)
    BY CallTyped
  <1>2. PICK last : last = IF s.job THEN s.last ELSE "accepted"
    OBVIOUS
  <1>3. last \in {"none", "accepted", "progress"}
    BY <1>1, <1>2 DEF CallOK, CallType
  <1>4. PICK i : i = [s EXCEPT !.job = TRUE, !.last = last]
    OBVIOUS
  <1>5. i \in CallType /\ i.job = TRUE /\ i.last = last /\ i.polls = s.polls
    BY <1>1, <1>3, <1>4 DEF CallType
  <1>6. PICK known : known = [call EXCEPT ![c] = i]
    OBVIOUS
  <1>7. known \in [Calls -> CallType] /\ known[c] = i
    BY <1>5, <1>6 DEF ProviderInv, ProviderTypes
  <1>8. known = [call EXCEPT ![c].job = TRUE, ![c].last = IF call[c].job THEN @ ELSE "accepted"]
    BY <1>1, <1>2, <1>4, <1>6 DEF ProviderInv, ProviderTypes
  <1>9. \/ \E e \in {"cancelled", "failed"} :
              call' = [known EXCEPT ![c].at = "cancelling", ![c].ending = e]
        \/ /\ call[c].polls < MaxPolls
           /\ call' = [known EXCEPT ![c].at = "asking", ![c].polls = @ + 1]
    BY <1>8 DEF Iterate
  <1>10. \A k : [known EXCEPT ![c] = k] = [call EXCEPT ![c] = k]
    BY <1>6 DEF ProviderInv, ProviderTypes
  <1>11. ASSUME NEW e \in {"cancelled", "failed"},
                call' = [known EXCEPT ![c].at = "cancelling", ![c].ending = e]
         PROVE  \E k : Becomes(c, k) /\ CallOK(k) /\ k.at \in {"asking", "cancelling"}
    <2>1. PICK k : k = [i EXCEPT !.at = "cancelling", !.ending = e]
      OBVIOUS
    <2>2. k \in CallType /\ k.at = "cancelling" /\ k.ending = e /\ k.last = last
      BY <1>5, <2>1 DEF CallType, Places
    <2>3. call' = [known EXCEPT ![c] = k]
      BY <1>7, <1>11, <2>1
    <2>4. Becomes(c, k) /\ CallOK(k)
      BY <1>3, <1>10, <2>2, <2>3 DEF Becomes, CallOK, Terminal
    <2> QED
      BY <2>2, <2>4
  <1>12. CASE /\ call[c].polls < MaxPolls
              /\ call' = [known EXCEPT ![c].at = "asking", ![c].polls = @ + 1]
    <2>1. PICK k : k = [i EXCEPT !.at = "asking", !.polls = @ + 1]
      OBVIOUS
    <2>2. i.polls + 1 \in 0 .. MaxPolls
      BY ProviderAssumption, <1>1, <1>5, <1>12 DEF CallType
    <2>3. k \in CallType /\ k.at = "asking" /\ k.last = last
      BY <1>5, <2>1, <2>2 DEF CallType, Places
    <2>4. call' = [known EXCEPT ![c] = k]
      BY <1>7, <1>12, <2>1
    <2>5. Becomes(c, k) /\ CallOK(k)
      BY <1>3, <1>10, <2>3, <2>4 DEF Becomes, CallOK, Terminal
    <2> QED
      BY <2>3, <2>5
  <1> QED
    BY <1>9, <1>11, <1>12

\* The end of a run whose prompt is known is what it observes last.
LEMMA EndsKeeps ==
    ASSUME ProviderInv, NEW c \in Calls, NEW terminal \in Terminal,
           Ends(c, terminal),
           UNCHANGED <<managedChild, starts, process, killed, server, closing, raced>>
    PROVE  ProviderInv'
  <1>1. PICK said : said = IF terminal = "completed" THEN "ok" ELSE terminal
    OBVIOUS
  <1>2. said \in {"ok", "failed", "cancelled"} /\ (said = "ok" <=> terminal = "completed")
        /\ (said # "ok" => said = terminal)
    BY <1>1 DEF Terminal
  <1>3. Over(c, said, terminal)
    BY <1>1 DEF Ends
  <1>4. PICK k : Becomes(c, k) /\ k.at = "done" /\ k.last = terminal /\ k.answer = said
    <2>1. terminal \in {"none", "accepted", "progress"} \union Terminal
      OBVIOUS
    <2>2. \E k : /\ Becomes(c, k)
                 /\ k.at = "done" /\ k.job = call[c].job /\ k.last = terminal
                 /\ k.answer = said
      BY <1>2, <1>3, <2>1, OverMakes
    <2> QED
      BY <2>2
  <1>5. CallOK(k)
    BY <1>2, <1>4 DEF CallOK
  <1> QED
    BY <1>4, <1>5, CallFrame

\* The catch block of a run observes the end before it answers.
LEMMA CaughtKeeps ==
    ASSUME ProviderInv, NEW c \in Calls, Caught(c),
           call[c].at \in {"asking", "viewing"},
           UNCHANGED <<managedChild, starts, process, killed, server, closing, raced>>
    PROVE  ProviderInv'
  <1>1. PICK s : s = call[c] /\ s \in CallType /\ CallOK(s)
    BY CallTyped
  <1>2. CASE Ends(c, "failed")
    <2>1. "failed" \in Terminal
      BY DEF Terminal
    <2> QED
      BY <1>2, <2>1, EndsKeeps
  <1>3. CASE call' = [call EXCEPT ![c].at = "cancelling", ![c].ending = "cancelled"]
    <2>1. PICK k : k = [s EXCEPT !.at = "cancelling", !.ending = "cancelled"]
      OBVIOUS
    <2>2. /\ k \in CallType /\ k.at = "cancelling" /\ k.ending = "cancelled"
          /\ k.last = s.last
      BY <1>1, <2>1 DEF CallType, Places
    <2>3. s.at \in {"asking", "viewing"} /\ call' = [call EXCEPT ![c] = k]
      BY <1>1, <1>3, <2>1 DEF ProviderInv, ProviderTypes
    <2>4. s.last \notin Terminal
      BY <1>1, <2>3 DEF CallOK
    <2>5. Becomes(c, k) /\ CallOK(k)
      BY <2>2, <2>3, <2>4 DEF Becomes, CallOK
    <2> QED
      BY <2>2, <2>5, CallFrame
  <1> QED
    BY <1>2, <1>3 DEF Caught

\* The steps of a run between its POST and its end.
LEMMA AdapterKeeps ==
    ASSUME ProviderInv, NEW c \in Calls,
           \/ SocketSettles(c) \/ PostSettles(c) \/ HistorySettles(c)
           \/ ViewSettles(c) \/ PauseEnds(c)
    PROVE  ProviderInv'
  <1>1. UNCHANGED <<managedChild, starts, process, killed, server, closing, raced>>
    BY DEF SocketSettles, PostSettles, HistorySettles, ViewSettles, PauseEnds,
       managedVars,
           serverVars, restVars
  <1>2. PICK s : s = call[c] /\ s \in CallType /\ CallOK(s)
    BY CallTyped
  <1>3. s.job \in BOOLEAN
    BY <1>2 DEF CallType
  <1>4. ASSUME s.at \in {"socket", "posting"}, NEW reason \in {"failed", "cancelled"},
               Answers(c, reason)
        PROVE  ProviderInv'
    <2>1. ~s.job /\ s.last \notin Terminal
      BY <1>2, <1>3, <1>4 DEF CallOK
    <2>2. PICK k : Becomes(c, k) /\ k.at = "done" /\ k.job = s.job /\ k.last = s.last
      <3>1. reason \in {"ok", "failed", "cancelled"}
        OBVIOUS
      <3>2. \E k : /\ Becomes(c, k)
                   /\ k.at = "done" /\ k.job = call[c].job /\ k.last = call[c].last
                   /\ k.answer = reason
        BY <1>4, <3>1, AnswersMakes
      <3> QED
        BY <1>2, <3>2
    <2>3. CallOK(k)
      BY <2>1, <2>2 DEF CallOK
    <2> QED
      BY <1>1, <2>2, <2>3, CallFrame
  <1>5. CASE SocketSettles(c)
    <2>1. s.at = "socket" /\ (Goes(c, "posting") \/ SocketRejected(c))
      BY <1>2, <1>5 DEF SocketSettles
    <2>2. CASE Goes(c, "posting")
      <3>1. PICK k : /\ Becomes(c, k) /\ k.at = "posting" /\ k.job = s.job /\ k.last = s.last
        BY <1>2, <2>2, GoesMakes DEF Places
      <3>2. CallOK(k)
        BY <1>2, <2>1, <3>1 DEF CallOK
      <3> QED
        BY <1>1, <3>1, <3>2, CallFrame
    <2>3. CASE SocketRejected(c)
      <3>1. Answers(c, "cancelled") \/ Answers(c, "failed")
        BY <2>3 DEF SocketRejected
      <3> QED
        BY <1>4, <2>1, <3>1
    <2> QED
      BY <2>1, <2>2, <2>3
  <1>6. CASE PostSettles(c)
    <2>1. /\ s.at = "posting"
          /\ Iterate(c) \/ \E reason \in {"failed", "cancelled"} : Answers(c, reason)
      BY <1>2, <1>6 DEF PostSettles, Rejections
    <2>2. CASE Iterate(c)
      <3>1. PICK k : Becomes(c, k) /\ CallOK(k) /\ k.at \in {"asking", "cancelling"}
        BY <1>2, <2>1, <2>2, IterateMakes
      <3> QED
        BY <1>1, <3>1, CallFrame
    <2> QED
      BY <1>4, <2>1, <2>2
  <1>7. CASE PauseEnds(c)
    <2>1. PICK k : Becomes(c, k) /\ CallOK(k) /\ k.at \in {"asking", "cancelling"}
      BY <1>7, IterateMakes DEF PauseEnds
    <2> QED
      BY <1>1, <2>1, CallFrame
  <1>8. CASE HistorySettles(c)
    <2>1. /\ s.at = "asking"
          /\ \/ Caught(c) \/ Ends(c, "failed") \/ Goes(c, "viewing")
             \/ call' = [call EXCEPT ![c].at = "pausing", ![c].last = "progress"]
      BY <1>2, <1>8 DEF HistorySettles
    <2>2. CASE Caught(c)
      BY <1>1, <1>2, <2>1, <2>2, CaughtKeeps
    <2>3. CASE Ends(c, "failed")
      <3>1. "failed" \in Terminal
        BY DEF Terminal
      <3> QED
        BY <1>1, <2>3, <3>1, EndsKeeps
    <2>4. CASE Goes(c, "viewing")
      <3>1. PICK k : /\ Becomes(c, k) /\ k.at = "viewing" /\ k.job = s.job /\ k.last = s.last
        BY <1>2, <2>4, GoesMakes DEF Places
      <3>2. CallOK(k)
        BY <1>2, <2>1, <3>1 DEF CallOK
      <3> QED
        BY <1>1, <3>1, <3>2, CallFrame
    <2>5. CASE call' = [call EXCEPT ![c].at = "pausing", ![c].last = "progress"]
      <3>1. PICK k : k = [s EXCEPT !.at = "pausing", !.last = "progress"]
        OBVIOUS
      <3>2. k \in CallType /\ k.at = "pausing" /\ k.last = "progress"
        BY ZenonT(60), <1>2, <3>1 DEF CallType, Places
      <3>3. call' = [call EXCEPT ![c] = k]
        BY <1>2, <2>5, <3>1 DEF ProviderInv, ProviderTypes
      <3>4. Becomes(c, k) /\ CallOK(k)
        BY <3>2, <3>3 DEF Becomes, CallOK, Terminal
      <3> QED
        BY <1>1, <3>2, <3>4, CallFrame
    <2> QED
      BY <2>1, <2>2, <2>3, <2>4, <2>5
  <1>9. CASE ViewSettles(c)
    <2>1. s.at = "viewing" /\ (Caught(c) \/ Ends(c, "completed"))
      BY <1>2, <1>9 DEF ViewSettles
    <2>2. "completed" \in Terminal
      BY DEF Terminal
    <2> QED
      BY <1>1, <1>2, <2>1, <2>2, CaughtKeeps, EndsKeeps
  <1> QED
    BY <1>5, <1>6, <1>7, <1>8, <1>9

\* The cancel request settles; what the server was running is no call's business.
LEMMA CancelSettlesKeeps ==
    ASSUME ProviderInv, NEW c \in Calls, CancelSettles(c)
    PROVE  ProviderInv'
  <1>1. PICK s : s = call[c] /\ s \in CallType /\ CallOK(s)
    BY CallTyped
  <1>2. UNCHANGED <<managedChild, starts, process, killed, server, closing, raced>>
    BY DEF CancelSettles, managedVars
  <1>3. PICK terminal : terminal = s.ending
    OBVIOUS
  <1>4. terminal \in Terminal
    BY <1>1, <1>3 DEF CancelSettles, CallOK, CallType, Terminal
  <1>5. Ends(c, terminal)
    BY <1>1, <1>3 DEF CancelSettles
  <1> QED
    BY <1>2, <1>4, <1>5, EndsKeeps

\* A step that no call takes.
LEMMA ProcessFrame ==
    ASSUME ProviderInv, UNCHANGED <<starts, call>>,
           managedChild' \in {managedChild, None},
           process' \in [Starts -> {"none", "starting", "serving", "exited"}],
           server' \in Starts \union {None, User},
           raced \subseteq raced',
           closing' # "open" => closing # "open" \/ MakingNow \subseteq raced',
           \A n \in Starts :
              Alive(n)' => Alive(n) /\ (n = managedChild /\ closing = "open" =>
                  (n = managedChild' /\ closing' = "open") \/ n \in killed'),
           killed \subseteq killed'
    PROVE  ProviderInv'
  <1>1. ProviderTypes'
    BY DEF ProviderInv, ProviderTypes
  <1>2. \A c \in Calls : CallOK(call'[c])
    BY DEF ProviderInv
  <1>3. OneStart'
    <2>1. \A c \in Calls : Making(c) => call[c].start \in MakingNow
      BY DEF Making, MakingNow
    <2> QED BY <2>1 DEF ProviderInv, OneStart, Making
  <1>4. NoStray'
    BY DEF ProviderInv, NoStray
  <1> QED
    BY <1>1, <1>2, <1>3, <1>4 DEF ProviderInv

\* Processes start serving and exit by themselves.
LEMMA ProcessesKeep ==
    ASSUME ProviderInv,
           \/ \E n \in Starts : Bind(n) \/ Exits(n)
           \/ UserServer \/ Works \/ Close \/ KillSettles \/ Quit
    PROVE  ProviderInv'
  <1>1. ASSUME NEW n \in Starts, Bind(n) PROVE ProviderInv'
    <2>1. /\ UNCHANGED <<managedChild, starts, killed, call, closing, raced>>
          /\ process[n] = "starting" /\ process' = [process EXCEPT ![n] = "serving"]
          /\ server' = n
      BY <1>1 DEF Bind, restVars
    <2>2. \A m \in Starts : Alive(m)' => Alive(m)
      BY <2>1 DEF Alive, ProviderInv, ProviderTypes
    <2> QED
      BY <2>1, <2>2, ProcessFrame DEF ProviderInv, ProviderTypes
  <1>2. ASSUME NEW n \in Starts, Exits(n) PROVE ProviderInv'
    <2>1. /\ UNCHANGED <<starts, killed, call, closing, raced>>
          /\ process' = [process EXCEPT ![n] = "exited"]
          /\ managedChild' = IF managedChild = n THEN None ELSE managedChild
          /\ server' \in {server, None}
      BY <1>2 DEF Exits, restVars, serverVars
    <2>2. /\ process' \in [Starts -> {"none", "starting", "serving", "exited"}]
          /\ server' \in Starts \union {None, User}
      BY <2>1 DEF ProviderInv, ProviderTypes
    <2>3. \A m \in Starts : Alive(m)' => Alive(m) /\ m # n
      BY <2>1 DEF Alive, ProviderInv, ProviderTypes
    <2> QED
      BY <2>1, <2>2, <2>3, ProcessFrame
  <1>3. CASE Close
    <2>1. /\ UNCHANGED <<starts, process, server, call>> /\ managedChild' = None
          /\ raced' = raced \union MakingNow
          /\ managedChild # None => killed' = killed \union {managedChild}
          /\ managedChild = None => killed' = killed
      BY <1>3 DEF Close, serverVars
    <2>2. \A n \in Starts : n # None
      BY ProviderAssumption DEF Starts
    <2>3. \A n \in Starts : Alive(n)' => Alive(n) /\ (n = managedChild => n \in killed')
      BY <2>1, <2>2 DEF Alive
    <2>4. killed \subseteq killed'
      BY <2>1
    <2>5. raced \subseteq raced' /\ MakingNow \subseteq raced'
      BY <2>1
    <2> QED
      BY <2>1, <2>3, <2>4, <2>5, ProcessFrame DEF ProviderInv, ProviderTypes
  <1>4. CASE UserServer \/ Works \/ KillSettles \/ Quit
    <2>1. /\ UNCHANGED <<managedChild, starts, process, killed, call, raced>>
          /\ server' \in {server, User}
          /\ closing' = "open" <=> closing = "open"
      BY <1>4
         DEF UserServer, Works, KillSettles, Quit, managedVars, serverVars,
             restVars
    <2>2. \A n \in Starts : Alive(n)' => Alive(n)
      BY <2>1 DEF Alive
    <2> QED
      BY <2>1, <2>2, ProcessFrame DEF ProviderInv, ProviderTypes
  <1> QED
    BY <1>1, <1>2, <1>3, <1>4

\* What every state of the provider satisfies.
THEOREM Inductive == Spec => []ProviderInv
  <1>1. Init => ProviderInv
    <2> SUFFICES ASSUME Init PROVE ProviderInv
      OBVIOUS
    <2>1. NewCall \in CallType /\ CallOK(NewCall) /\ NewCall.at = "idle"
      <3>1. 0 \in 0 .. MaxStarts /\ 0 \in 0 .. MaxPolls
        BY ProviderAssumption
      <3> QED
        BY <3>1 DEF NewCall, CallType, Places, CallOK, Terminal
    <2>2. \A c \in Calls : call[c] = NewCall
      BY DEF Init
    <2>3. ProviderTypes
      BY ProviderAssumption, <2>1 DEF Init, ProviderTypes
    <2>4. OneStart /\ NoStray /\ \A c \in Calls : CallOK(call[c])
      BY <2>1, <2>2 DEF Init, OneStart, Making, NoStray, Alive
    <2> QED
      BY <2>3, <2>4 DEF ProviderInv
  <1>2. ProviderInv /\ [Next]_(vars) => ProviderInv'
    <2> SUFFICES ASSUME ProviderInv, [Next]_(vars) PROVE ProviderInv'
      OBVIOUS
    <2>1. ASSUME NEW c \in Calls,
                 Step(c) \/ Abort(c) \/ Accepts(c) \/ SocketProgress(c)
          PROVE  ProviderInv'
      BY <2>1, InspectKeeps, ProbeStartsKeeps, MadeKeeps, RunStartsKeeps, AdapterKeeps,
         CancelSettlesKeeps
         DEF Step
    <2>2. CASE \/ \E n \in Starts : Bind(n) \/ Exits(n)
               \/ UserServer \/ Works \/ Close \/ KillSettles \/ Quit
      BY <2>2, ProcessesKeep
    <2>3. CASE UNCHANGED vars
      BY <2>3 DEF vars, ProviderInv, ProviderTypes, OneStart, Making, NoStray, Alive
    <2> QED
      BY <2>1, <2>2, <2>3 DEF Next
  <1> QED
    BY <1>1, <1>2, PTL DEF Spec

\* The provider's variables keep their types: never more children than starts, never
\* a poll after the last.
THEOREM TypeCorrect == Spec => []TypeOK
  <1>1. ProviderInv => TypeOK
    BY DEF ProviderInv, ProviderTypes, TypeOK
  <1> QED
    BY <1>1, Inductive, PTL

\* A run whose prompt was accepted observes its end once, last, and as its caller
\* is answered, whatever messages, cancellations and servers race.
THEOREM EndIsObserved == Spec => []EndObserved
  <1>1. ProviderInv => EndObserved
    BY DEF ProviderInv, CallOK, EndObserved
  <1> QED
    BY <1>1, Inductive, PTL

\* A child that lives is known or was killed, and killed from close on, unless its
\* own start overlapped another one or close.
THEOREM NoneStray == Spec => []NoStray
  <1>1. ProviderInv => NoStray
    BY DEF ProviderInv
  <1> QED
    BY <1>1, Inductive, PTL
=============================================================================
