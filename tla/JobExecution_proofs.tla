------------------------ MODULE JobExecution_proofs ------------------------
(***************************************************************************)
(* Proofs about the scheduler and the supervisor of the Utility Process,   *)
(* for any number of jobs, direct calls, Utility processes and faults, any *)
(* queue limit and any numbers the Utility may report.  First about the    *)
(* scheduler with an open answer (JobScheduler), then about both together  *)
(* (JobExecution): the calls, the processes, their inboxes and outboxes.   *)
(***************************************************************************)
EXTENDS JobExecution, SequenceTheorems, FiniteSetTheorems, TLAPS

SnapshotType == [state : JobStates, progress : ProgressType,
                 finished : BOOLEAN, result : BOOLEAN, error : BOOLEAN]

-----------------------------------------------------------------------------
(* What the updates of a record return.                                     *)

\* #progress() returns a record, and never moves the phase or the units back.
LEMMA ProgressedRecord ==
    ASSUME NEW r \in RecordType, NEW p \in Phases, NEW u \in 0..100
    PROVE  /\ Progressed(r, p, u) \in RecordType
           /\ Progressed(r, p, u).state = r.state
           /\ Progressed(r, p, u).finished = r.finished
           /\ Progressed(r, p, u).result = r.result
           /\ Progressed(r, p, u).error = r.error
           /\ Progressed(r, p, u).completion = r.completion
           /\ Progressed(r, p, u).progress.sequence = r.progress.sequence + 1
           /\ Progressed(r, p, u).progress.units >= r.progress.units
  BY DEF Progressed, RecordType, ProgressType

\* #fail() returns a failed record, its error and its completion set.
LEMMA FailedRecord ==
    ASSUME NEW r \in RecordType
    PROVE  /\ Failed(r) \in RecordType
           /\ Failed(r).state = "failed"
           /\ Failed(r).finished /\ Failed(r).error
           /\ Failed(r).result = r.result
           /\ Failed(r).completion = r.completion
  <1> DEFINE s == [r EXCEPT !.state = "failed", !.error = TRUE, !.finished = TRUE]
  <1>1. /\ s \in RecordType
        /\ s.state = "failed" /\ s.finished /\ s.error
        /\ s.result = r.result /\ s.completion = r.completion
    BY DEF RecordType, JobStates
  <1>2. "complete" \in Phases /\ 100 \in 0..100
    BY DEF Phases
  <1>3. Failed(r) = Progressed(s, "complete", 100)
    BY DEF Failed
  <1> HIDE DEF s
  <1> s \in RecordType
    BY <1>1
  <1>4. /\ Progressed(s, "complete", 100) \in RecordType
        /\ Progressed(s, "complete", 100).state = s.state
        /\ Progressed(s, "complete", 100).finished = s.finished
        /\ Progressed(s, "complete", 100).result = s.result
        /\ Progressed(s, "complete", 100).error = s.error
        /\ Progressed(s, "complete", 100).completion = s.completion
    BY <1>2, ProgressedRecord
  <1> QED BY <1>1, <1>3, <1>4

\* A cancelled record is terminal, without an error, and still a record.
LEMMA CancelledRecord ==
    ASSUME NEW r \in RecordType
    PROVE  /\ Cancelled(r) \in RecordType
           /\ Cancelled(r).state = "cancelled"
           /\ Cancelled(r).finished
           /\ Cancelled(r).error = r.error
           /\ Cancelled(r).result = r.result
           /\ Cancelled(r).completion = r.completion
  <1> DEFINE s == [r EXCEPT !.state = "cancelled", !.finished = TRUE]
  <1>1. /\ s \in RecordType
        /\ s.state = "cancelled" /\ s.finished /\ s.error = r.error
        /\ s.result = r.result /\ s.completion = r.completion
    BY DEF RecordType, JobStates
  <1>2. "complete" \in Phases /\ 100 \in 0..100
    BY DEF Phases
  <1>3. Cancelled(r) = Progressed(s, "complete", 100)
    BY DEF Cancelled
  <1> HIDE DEF s
  <1> s \in RecordType
    BY <1>1
  <1>4. /\ Progressed(s, "complete", 100) \in RecordType
        /\ Progressed(s, "complete", 100).state = s.state
        /\ Progressed(s, "complete", 100).finished = s.finished
        /\ Progressed(s, "complete", 100).result = s.result
        /\ Progressed(s, "complete", 100).error = s.error
        /\ Progressed(s, "complete", 100).completion = s.completion
    BY <1>2, ProgressedRecord
  <1> QED BY <1>1, <1>3, <1>4

\* A published record is succeeded, at the last phase, and still a record.
LEMMA SucceededRecord ==
    ASSUME NEW r \in RecordType
    PROVE  /\ Succeeded(r) \in RecordType
           /\ Succeeded(r).state = "succeeded"
           /\ Succeeded(r).finished /\ Succeeded(r).result
           /\ Succeeded(r).error = r.error
           /\ Succeeded(r).completion = r.completion
  <1> DEFINE s == [r EXCEPT !.state = "succeeded", !.result = TRUE,
                            !.finished = TRUE]
  <1>1. /\ s \in RecordType
        /\ s.state = "succeeded" /\ s.finished /\ s.result
        /\ s.error = r.error /\ s.completion = r.completion
    BY DEF RecordType, JobStates
  <1>2. "complete" \in Phases /\ 100 \in 0..100
    BY DEF Phases
  <1>3. Succeeded(r) = Progressed(s, "complete", 100)
    BY DEF Succeeded
  <1> HIDE DEF s
  <1> s \in RecordType
    BY <1>1
  <1>4. /\ Progressed(s, "complete", 100) \in RecordType
        /\ Progressed(s, "complete", 100).state = s.state
        /\ Progressed(s, "complete", 100).finished = s.finished
        /\ Progressed(s, "complete", 100).result = s.result
        /\ Progressed(s, "complete", 100).error = s.error
        /\ Progressed(s, "complete", 100).completion = s.completion
    BY <1>2, ProgressedRecord
  <1> QED BY <1>1, <1>3, <1>4

\* Resolving the completion changes nothing a subscriber is shown.
LEMMA CompletedRecord ==
    ASSUME NEW r \in RecordType, r.state \in Terminal
    PROVE  /\ Completed(r) \in RecordType
           /\ Completed(r).completion = r.state
           /\ Snapshot(Completed(r)) = Snapshot(r)
  BY DEF Completed, RecordType, Snapshot

\* What #snapshot() returns of a record is a valid snapshot.
LEMMA SnapshotOfRecord ==
    ASSUME NEW r \in RecordType
    PROVE  Snapshot(r) \in SnapshotType
  BY DEF Snapshot, RecordType, SnapshotType

\* The record of a job never enqueued is of the records' type.
LEMMA NoRecordIsRecord == NoRecord \in RecordType
  BY DEF NoRecord, RecordType, JobStates, ProgressType, Phases

\* What leaves the queue on a cancel is the cancelled job and nothing else.
LEMMA WithoutQueue ==
    ASSUME NEW s \in Seq(Jobs), NEW j \in Jobs,
           \A m, n \in DOMAIN s : s[m] = s[n] => m = n
    PROVE  /\ Without(s, j) \in Seq(Jobs)
           /\ Len(Without(s, j)) <= Len(s)
           /\ Elements(Without(s, j)) = Elements(s) \ {j}
           /\ \A m, n \in DOMAIN Without(s, j) :
                 Without(s, j)[m] = Without(s, j)[n] => m = n
  <1>1. CASE j \notin Elements(s)
    BY <1>1 DEF Without
  <1>2. CASE j \in Elements(s)
    <2> DEFINE i == CHOOSE n \in DOMAIN s : s[n] = j
               t == [n \in 1 .. Len(s) - 1 |-> IF n < i THEN s[n] ELSE s[n + 1]]
    <2>1. /\ i \in 1 .. Len(s) /\ s[i] = j /\ DOMAIN s = 1 .. Len(s)
          /\ Len(s) \in Nat
      BY <1>2 DEF Elements
    <2>2. Without(s, j) = t
      BY <1>2 DEF Without
    <2> HIDE DEF i
    <2>3. t \in Seq(Jobs) /\ Len(t) = Len(s) - 1 /\ DOMAIN t = 1 .. Len(s) - 1
      <3>1. Len(s) - 1 \in Nat
        BY <2>1
      <3>2. \A n \in 1 .. Len(s) - 1 : t[n] \in Jobs
        BY <2>1
      <3>3. t \in [1 .. Len(s) - 1 -> Jobs]
        BY <3>2
      <3> QED BY <3>1, <3>3
    <2>4. \A m, n \in DOMAIN t : t[m] = t[n] => m = n
      BY <2>1, <2>3
    <2>5. Elements(t) = Elements(s) \ {j}
      <3>1. \A n \in DOMAIN t : t[n] \in Elements(s) \ {j}
        BY <2>1, <2>3 DEF Elements
      <3>2. ASSUME NEW n \in DOMAIN s, s[n] # j
            PROVE  s[n] \in Elements(t)
        <4>1. CASE n < i
          BY <4>1, <2>1, <2>3 DEF Elements
        <4>2. CASE n > i
          <5>1. n - 1 \in DOMAIN t /\ t[n - 1] = s[n]
            BY <4>2, <2>1, <2>3
          <5> QED BY <5>1 DEF Elements
        <4> QED BY <4>1, <4>2, <3>2, <2>1
      <3> QED BY <3>1, <3>2 DEF Elements
    <2> QED BY <2>1, <2>2, <2>3, <2>4, <2>5
  <1> QED BY <1>1, <1>2

\* ... and what stays is in the order it was in.
LEMMA WithoutSorted ==
    ASSUME NEW s \in Seq(Jobs), NEW j \in Jobs, NEW rank \in [Jobs -> Nat],
           \A m, n \in DOMAIN s : m < n => rank[s[m]] < rank[s[n]]
    PROVE  \A m, n \in DOMAIN Without(s, j) :
               m < n => rank[Without(s, j)[m]] < rank[Without(s, j)[n]]
  <1>1. CASE j \notin Elements(s)
    BY <1>1 DEF Without
  <1>2. CASE j \in Elements(s)
    <2> DEFINE i == CHOOSE n \in DOMAIN s : s[n] = j
               t == [n \in 1 .. Len(s) - 1 |-> IF n < i THEN s[n] ELSE s[n + 1]]
    <2>1. /\ i \in 1 .. Len(s) /\ s[i] = j /\ DOMAIN s = 1 .. Len(s)
          /\ Len(s) \in Nat
      BY <1>2 DEF Elements
    <2>2. Without(s, j) = t
      BY <1>2 DEF Without
    <2> HIDE DEF i
    <2>3. \A m, n \in 1 .. Len(s) - 1 : m < n => rank[t[m]] < rank[t[n]]
      <3> SUFFICES ASSUME NEW m \in 1 .. Len(s) - 1, NEW n \in 1 .. Len(s) - 1, m < n
                   PROVE  rank[t[m]] < rank[t[n]]
        OBVIOUS
      <3> DEFINE p == IF m < i THEN m ELSE m + 1
                 q == IF n < i THEN n ELSE n + 1
      <3>1. p \in DOMAIN s /\ q \in DOMAIN s /\ p < q
        BY <2>1
      <3>2. t[m] = s[p] /\ t[n] = s[q]
        BY <2>1
      <3> HIDE DEF p, q, t
      <3> QED BY <3>1, <3>2
    <2> QED BY <2>2, <2>3
  <1> QED BY <1>1, <1>2

-----------------------------------------------------------------------------
(* The inductive invariant.                                                 *)

\* A record as every action leaves it.
GoodRecord(r) ==
    /\ r.finished <=> r.state \in Terminal
    /\ r.result <=> r.state = "succeeded"
    /\ r.error <=> r.state = "failed"
    /\ r.completion = IF r.state \in Terminal THEN r.state ELSE "pending"

\* A progress callback keeps a record's error and completion consistent.
LEMMA ProgressedGood ==
    ASSUME NEW r \in RecordType, GoodRecord(r), NEW p \in Phases, NEW u \in 0..100
    PROVE  GoodRecord(Progressed(r, p, u))
  <1> DEFINE t == Progressed(r, p, u)
  <1>1. /\ t.state = r.state /\ t.finished = r.finished /\ t.result = r.result
        /\ t.error = r.error /\ t.completion = r.completion
    BY ProgressedRecord
  <1> HIDE DEF t
  <1>2. GoodRecord(t)
    BY <1>1 DEF GoodRecord
  <1> QED BY <1>2 DEF t

RecordsOK ==
    \A j \in Jobs : /\ GoodRecord(job[j])
                    /\ lastEvent[j] = Snapshot(job[j])
                    /\ job[j].state = "succeeded" <=> j \in results

\* The queue holds the queued jobs, oldest first, each once.
QueueOK ==
    /\ Elements(queue) = {j \in Jobs : job[j].state = "queued"}
    /\ \A m, n \in DOMAIN queue : m < n => ticket[queue[m]] < ticket[queue[n]]
    /\ \A j \in Jobs : ticket[j] <= accepted

IInv == /\ TypeOK
        /\ RecordsOK
        /\ SingleRunning
        /\ QueueOK
        /\ DispatchOrder
        /\ NoLostWakeup

\* Setting and emitting one record shows its snapshot, and touches no other.
LEMMA Updated ==
    ASSUME job \in [Jobs -> RecordType], lastEvent \in [Jobs -> SnapshotType],
           NEW j \in Jobs, NEW r \in RecordType, SetAndEmit(j, r)
    PROVE  /\ job' \in [Jobs -> RecordType]
           /\ lastEvent' \in [Jobs -> SnapshotType]
           /\ job'[j] = r /\ lastEvent'[j] = Snapshot(r)
           /\ \A k \in Jobs \ {j} : job'[k] = job[k] /\ lastEvent'[k] = lastEvent[k]
  BY SnapshotOfRecord DEF SetAndEmit

\* A new scheduler satisfies the inductive invariant.
LEMMA InitIInv == Init => IInv
  <1> SUFFICES ASSUME Init PROVE IInv
    OBVIOUS
  <1>1. TypeOK
    BY NoRecordIsRecord, SnapshotOfRecord, SchedulerAssumption
    DEF Init, TypeOK, SnapshotType
  <1>2. RecordsOK
    BY DEF Init, RecordsOK, GoodRecord, NoRecord, Terminal
  <1>3. SingleRunning
    BY SchedulerAssumption DEF Init, SingleRunning, NoRecord, Active
  <1>4. QueueOK /\ DispatchOrder
    BY DEF Init, QueueOK, DispatchOrder, NoRecord, Active, Elements
  <1>5. NoLostWakeup
    BY DEF Init, NoLostWakeup
  <1> QED BY <1>1, <1>2, <1>3, <1>4, <1>5 DEF IInv

\* enqueue() preserves the invariant: it queues last and schedules a pump.
LEMMA EnqueueStep ==
    ASSUME IInv, NEW j \in Jobs, Enqueue(j)
    PROVE  IInv'
  <1> DEFINE r == [NoRecord EXCEPT
            !.state = "queued",
            !.progress = [sequence |-> 1, phase |-> "queued", units |-> 10]]
  <1>1. /\ r \in RecordType /\ GoodRecord(r) /\ r.state = "queued"
    <2>1. r \in RecordType
      <3>1. [sequence |-> 1, phase |-> "queued", units |-> 10] \in ProgressType
        BY DEF ProgressType, Phases
      <3>2. "queued" \in JobStates
        BY DEF JobStates
      <3> QED BY <3>1, <3>2, NoRecordIsRecord DEF RecordType
    <2>2. GoodRecord(r) /\ r.state = "queued"
      BY DEF GoodRecord, NoRecord, Terminal
    <2> QED BY <2>1, <2>2
  <1> USE DEF IInv
  <1>2. SetAndEmit(j, r)
    BY DEF Enqueue
  <1> HIDE DEF r
  <1>3. /\ job' \in [Jobs -> RecordType]
        /\ lastEvent' \in [Jobs -> SnapshotType]
        /\ job'[j] = r /\ lastEvent'[j] = Snapshot(r)
        /\ \A k \in Jobs \ {j} : job'[k] = job[k] /\ lastEvent'[k] = lastEvent[k]
    BY <1>1, <1>2, Updated DEF TypeOK, SnapshotType
  <1>4. TypeOK'
    <2>1. queue' \in Seq(Jobs) /\ Len(queue') <= MaxQueuedJobs
      BY SchedulerAssumption DEF TypeOK, Enqueue
    <2>2. accepted' \in Nat /\ ticket' \in [Jobs -> Nat] /\ pumps' \in Nat
      BY DEF TypeOK, Enqueue
    <2> QED BY <1>3, <2>1, <2>2 DEF TypeOK, Enqueue, SnapshotType
  <1>5. RecordsOK'
    BY <1>1, <1>3 DEF RecordsOK, GoodRecord, Enqueue
  <1>6. SingleRunning'
    BY <1>1, <1>3 DEF SingleRunning, Enqueue, Active
  <1>7. /\ DOMAIN queue' = 1 .. Len(queue) + 1
        /\ \A n \in DOMAIN queue : queue'[n] = queue[n]
        /\ queue'[Len(queue) + 1] = j
        /\ DOMAIN queue = 1 .. Len(queue) /\ Len(queue) \in Nat
        /\ \A n \in DOMAIN queue : queue[n] \in Jobs
    BY DEF TypeOK, Enqueue
  <1>8. \A n \in DOMAIN queue : queue[n] # j
    BY DEF QueueOK, Elements, Enqueue
  <1>9. /\ ticket'[j] = accepted + 1 /\ accepted' = accepted + 1
        /\ accepted \in Nat
        /\ \A k \in Jobs : ticket[k] \in Nat
        /\ \A k \in Jobs \ {j} : ticket'[k] = ticket[k]
    BY DEF TypeOK, Enqueue
  <1>10. QueueOK'
    <2>1. Elements(queue') = Elements(queue) \union {j}
      BY <1>7 DEF Elements
    <2>2. Elements(queue)' = {k \in Jobs : job'[k].state = "queued"}
      BY <2>1, <1>1, <1>3 DEF QueueOK, Elements
    <2>3. \A m, n \in DOMAIN queue' :
             m < n => ticket'[queue'[m]] < ticket'[queue'[n]]
      BY <1>7, <1>8, <1>9 DEF QueueOK
    <2>4. \A k \in Jobs : ticket'[k] <= accepted'
      BY <1>9 DEF QueueOK
    <2> QED BY <2>2, <2>3, <2>4 DEF QueueOK
  <1>11. DispatchOrder'
    <2> j \notin Elements(dispatched)
      BY DEF DispatchOrder, Enqueue, Active
    <2>1. /\ \A n \in DOMAIN dispatched : dispatched[n] \in Jobs /\ dispatched[n] # j
          /\ dispatched' = dispatched
      BY DEF TypeOK, Elements, Enqueue
    <2>2. \A m \in DOMAIN dispatched, n \in DOMAIN queue' :
             ticket'[dispatched[m]] < ticket'[queue'[n]]
      BY <2>1, <1>7, <1>8, <1>9 DEF DispatchOrder, QueueOK
    <2>3. \A k \in Jobs : k \in Elements(dispatched) <=>
             job'[k].state \in Active \union {"succeeded", "failed"}
      BY <2>1, <1>1, <1>3 DEF DispatchOrder, Elements, Active, Enqueue
    <2> QED BY <2>1, <2>2, <2>3, <1>9 DEF DispatchOrder
  <1>12. NoLostWakeup'
    BY DEF NoLostWakeup, Enqueue, TypeOK
  <1> QED BY <1>4, <1>5, <1>6, <1>10, <1>11, <1>12

\* The steps that leave the running job running: a recorded cancel request, a
\* progress callback, the start of the publication.
LEMMA ActiveStays ==
    ASSUME IInv, NEW j \in Jobs, NEW r \in RecordType,
           job[j].state \in Active, r.state \in Active, GoodRecord(r),
           SetAndEmit(j, r),
           UNCHANGED <<queue, running, pumps, results, accepted, ticket, dispatched>>,
           stage' \in {"idle", "executing", "publishing"},
           (stage' = "idle") <=> (stage = "idle")
    PROVE  IInv'
  <1> USE DEF IInv
  <1>1. /\ job' \in [Jobs -> RecordType]
        /\ lastEvent' \in [Jobs -> SnapshotType]
        /\ job'[j] = r /\ lastEvent'[j] = Snapshot(r)
        /\ \A k \in Jobs \ {j} : job'[k] = job[k] /\ lastEvent'[k] = lastEvent[k]
    BY Updated DEF TypeOK, SnapshotType
  <1>2. TypeOK'
    BY <1>1 DEF TypeOK, SnapshotType
  <1>3. RecordsOK'
    BY <1>1 DEF RecordsOK, Active
  <1>4. SingleRunning'
    BY <1>1 DEF SingleRunning
  <1>5. /\ \A k \in Jobs : job'[k].state = "queued" <=> job[k].state = "queued"
        /\ \A k \in Jobs : job'[k].state \in Active \union {"succeeded", "failed"}
                       <=> job[k].state \in Active \union {"succeeded", "failed"}
    BY <1>1 DEF Active
  <1>6. QueueOK' /\ DispatchOrder'
    BY <1>5 DEF QueueOK, DispatchOrder, Elements
  <1>7. NoLostWakeup'
    BY DEF NoLostWakeup
  <1> QED BY <1>2, <1>3, <1>4, <1>6, <1>7

\* cancel() of a running job preserves the invariant.
LEMMA RequestCancelStep ==
    ASSUME IInv, NEW o \in Owners, NEW j \in Jobs, RequestCancel(o, j)
    PROVE  IInv'
  <1> DEFINE s == [job[j] EXCEPT !.state = "cancel_requested"]
             r == Progressed(s, "native-execution", job[j].progress.units)
  <1>1. /\ job[j] \in RecordType /\ job[j].state = "running"
        /\ job[j].progress.units \in 0..100 /\ GoodRecord(job[j])
    BY DEF IInv, TypeOK, RecordsOK, RequestCancel, RecordType, ProgressType
  <1>2. /\ s \in RecordType /\ s.state = "cancel_requested" /\ GoodRecord(s)
    BY <1>1 DEF RecordType, JobStates, GoodRecord, Terminal
  <1>3. "native-execution" \in Phases
    BY DEF Phases
  <1>4. SetAndEmit(j, r)
    BY DEF RequestCancel
  <1> HIDE DEF s
  <1>5. r \in RecordType /\ r.state = "cancel_requested" /\ GoodRecord(r)
    BY <1>1, <1>2, <1>3, ProgressedRecord, ProgressedGood
  <1> HIDE DEF r
  <1>6. stage \in {"idle", "executing", "publishing"}
    BY DEF IInv, TypeOK
  <1> QED BY <1>1, <1>4, <1>5, <1>6, ActiveStays DEF RequestCancel, Active

\* While a pump waits, the running job is an active one.
LEMMA RunningIsActive ==
    ASSUME IInv, stage # "idle"
    PROVE  /\ running \in Jobs
           /\ job[running] \in RecordType
           /\ job[running].state \in Active
           /\ GoodRecord(job[running])
  BY DEF IInv, SingleRunning, TypeOK, RecordsOK

\* A progress message of the Utility preserves the invariant.
LEMMA UtilityProgressStep ==
    ASSUME IInv, NEW seq \in UtilitySequences, NEW units \in UtilityUnits,
           UtilityProgress(seq, units)
    PROVE  IInv'
  <1> DEFINE s == [job[running] EXCEPT !.lastUtilitySequence = seq]
             r == Progressed(s, "native-execution", units)
  <1>1. /\ running \in Jobs /\ job[running] \in RecordType
        /\ job[running].state \in Active /\ GoodRecord(job[running])
    BY RunningIsActive DEF UtilityProgress
  <1>2. /\ s \in RecordType /\ s.state = job[running].state /\ GoodRecord(s)
    BY <1>1, SchedulerAssumption DEF RecordType, GoodRecord
  <1>3. "native-execution" \in Phases /\ units \in 0..100
    BY SchedulerAssumption DEF Phases
  <1>4. SetAndEmit(running, r)
    BY DEF UtilityProgress
  <1> HIDE DEF s
  <1>5. r \in RecordType /\ r.state = job[running].state /\ GoodRecord(r)
    BY <1>2, <1>3, ProgressedRecord, ProgressedGood
  <1> HIDE DEF r
  <1> QED BY <1>1, <1>4, <1>5, ActiveStays DEF UtilityProgress

\* A Utility result that starts the publication preserves the invariant.
LEMMA ExecuteSucceedsStep ==
    ASSUME IInv, ExecuteSucceeds
    PROVE  IInv'
  <1> DEFINE r == Progressed(job[running], "result-publication", 90)
  <1>1. /\ running \in Jobs /\ job[running] \in RecordType
        /\ job[running].state \in Active /\ GoodRecord(job[running])
    BY RunningIsActive DEF ExecuteSucceeds
  <1>2. "result-publication" \in Phases /\ 90 \in 0..100
    BY DEF Phases
  <1>3. SetAndEmit(running, r)
    BY DEF ExecuteSucceeds
  <1>4. r \in RecordType /\ r.state = job[running].state /\ GoodRecord(r)
    BY ZenonT(60), <1>1, <1>2, ProgressedRecord, ProgressedGood
  <1> HIDE DEF r
  <1> QED BY <1>1, <1>3, <1>4, ActiveStays DEF ExecuteSucceeds

\* The end of a pump, with a record that has ended in success or failure.
LEMMA PumpEndsStep ==
    ASSUME IInv, stage # "idle", NEW r \in RecordType,
           r.state \in {"succeeded", "failed"},
           r.finished, r.result <=> r.state = "succeeded",
           r.error <=> r.state = "failed",
           results' = IF r.state = "succeeded" THEN results \union {running}
                                               ELSE results,
           PumpEnds(r)
    PROVE  IInv'
  <1> DEFINE j == running
             c == Completed(r)
  <1>1. j \in Jobs /\ job[j].state \in Active /\ running # NoJob
    BY RunningIsActive DEF IInv, SingleRunning
  <1> USE DEF IInv
  <1>2. /\ c \in RecordType /\ c.state = r.state
        /\ c.state \in {"succeeded", "failed"} /\ GoodRecord(c)
    BY CompletedRecord DEF Completed, GoodRecord, Terminal, RecordType
  <1>3. SetAndEmit(j, c)
    BY DEF PumpEnds
  <1> HIDE DEF c
  <1>4. /\ job' \in [Jobs -> RecordType]
        /\ lastEvent' \in [Jobs -> SnapshotType]
        /\ job'[j] = c /\ lastEvent'[j] = Snapshot(c)
        /\ \A k \in Jobs \ {j} : job'[k] = job[k] /\ lastEvent'[k] = lastEvent[k]
    BY <1>1, <1>2, <1>3, Updated DEF TypeOK, SnapshotType
  <1>5. TypeOK'
    BY <1>1, <1>4 DEF TypeOK, SnapshotType, PumpEnds
  <1>6. RecordsOK'
    BY <1>1, <1>2, <1>4 DEF RecordsOK, Active
  <1>7. SingleRunning'
    BY <1>1, <1>2, <1>4, SchedulerAssumption DEF SingleRunning, PumpEnds, Active
  <1>8. /\ \A k \in Jobs : job'[k].state = "queued" <=> job[k].state = "queued"
        /\ \A k \in Jobs : job'[k].state \in Active \union {"succeeded", "failed"}
                       <=> job[k].state \in Active \union {"succeeded", "failed"}
    BY <1>1, <1>2, <1>4 DEF Active
  <1>9. QueueOK' /\ DispatchOrder'
    BY <1>8 DEF QueueOK, DispatchOrder, Elements, PumpEnds
  <1>10. NoLostWakeup'
    BY DEF NoLostWakeup, PumpEnds, TypeOK
  <1> QED BY <1>5, <1>6, <1>7, <1>9, <1>10

\* A Utility failure ends the pump and preserves the invariant.
LEMMA ExecuteFailsStep ==
    ASSUME IInv, ExecuteFails \/ PublishFails
    PROVE  IInv'
  <1> DEFINE r == Failed(job[running])
  <1>1. /\ stage # "idle" /\ PumpEnds(r) /\ results' = results
    BY DEF ExecuteFails, PublishFails
  <1>2. /\ job[running] \in RecordType /\ GoodRecord(job[running])
        /\ job[running].state \in Active
    BY <1>1, RunningIsActive
  <1>3. /\ r \in RecordType /\ r.state = "failed" /\ r.finished /\ r.error
        /\ ~r.result
    BY <1>2, FailedRecord DEF GoodRecord, Active
  <1> HIDE DEF r
  <1> QED BY <1>1, <1>3, PumpEndsStep

\* A finished publication ends the pump and preserves the invariant.
LEMMA PublishSucceedsStep ==
    ASSUME IInv, PublishSucceeds
    PROVE  IInv'
  <1> DEFINE r == Succeeded(job[running])
  <1>1. /\ stage # "idle" /\ PumpEnds(r) /\ results' = results \union {running}
    BY DEF PublishSucceeds
  <1>2. /\ job[running] \in RecordType /\ GoodRecord(job[running])
        /\ job[running].state \in Active
    BY <1>1, RunningIsActive
  <1>3. /\ r \in RecordType /\ r.state = "succeeded" /\ r.finished /\ ~r.error
        /\ r.result
    BY <1>2, SucceededRecord DEF GoodRecord, Active
  <1> HIDE DEF r
  <1> QED BY <1>1, <1>3, PumpEndsStep

\* What a cancelled job's record is, from a queued one.
LEMMA CancelledGood ==
    ASSUME NEW r \in RecordType, GoodRecord(r), r.state = "queued"
    PROVE  /\ Completed(Cancelled(r)) \in RecordType
           /\ Completed(Cancelled(r)).state = "cancelled"
           /\ GoodRecord(Completed(Cancelled(r)))
  <1> DEFINE t == Cancelled(r)
  <1>1. /\ t \in RecordType /\ t.state = "cancelled" /\ t.finished
        /\ ~t.error /\ ~t.result
    BY CancelledRecord DEF GoodRecord
  <1> HIDE DEF t
  <1>2. /\ Completed(t) \in RecordType /\ Completed(t).state = "cancelled"
        /\ Completed(t).completion = "cancelled"
    BY <1>1, CompletedRecord DEF Completed, Terminal, RecordType
  <1>3. /\ Completed(t).finished = t.finished /\ Completed(t).error = t.error
        /\ Completed(t).result = t.result
    BY <1>1 DEF Completed, RecordType
  <1>4. GoodRecord(Completed(t))
    BY <1>1, <1>2, <1>3 DEF GoodRecord, Terminal
  <1> QED BY <1>2, <1>4 DEF t

\* cancel() of a queued job takes it from the queue for good.
LEMMA CancelQueuedStep ==
    ASSUME IInv, NEW o \in Owners, NEW j \in Jobs, CancelQueued(o, j)
    PROVE  IInv'
  <1> DEFINE r == Completed(Cancelled(job[j]))
  <1> USE DEF IInv
  <1>1. job[j] \in RecordType /\ GoodRecord(job[j]) /\ job[j].state = "queued"
    BY DEF TypeOK, RecordsOK, CancelQueued
  <1>2. SetAndEmit(j, r) /\ r \in RecordType /\ r.state = "cancelled" /\ GoodRecord(r)
    BY <1>1, CancelledGood DEF CancelQueued
  <1> HIDE DEF r
  <1>3. /\ job' \in [Jobs -> RecordType]
        /\ lastEvent' \in [Jobs -> SnapshotType]
        /\ job'[j] = r /\ lastEvent'[j] = Snapshot(r)
        /\ \A k \in Jobs \ {j} : job'[k] = job[k] /\ lastEvent'[k] = lastEvent[k]
    BY <1>2, Updated DEF TypeOK, SnapshotType
  <1>4. /\ queue \in Seq(Jobs) /\ DOMAIN queue = 1 .. Len(queue) /\ Len(queue) \in Nat
        /\ \A n \in DOMAIN queue : queue[n] \in Jobs
        /\ \A n \in DOMAIN queue : ticket[queue[n]] \in Nat
    BY DEF TypeOK
  <1>5. \A m, n \in DOMAIN queue : queue[m] = queue[n] => m = n
    BY <1>4 DEF QueueOK
  <1>6. /\ queue' \in Seq(Jobs) /\ Len(queue') <= Len(queue)
        /\ Elements(queue') = Elements(queue) \ {j}
    BY <1>4, <1>5, WithoutQueue DEF CancelQueued
  <1>7. TypeOK'
    <2>1. Len(queue') <= MaxQueuedJobs
      BY <1>4, <1>6, LenProperties, SchedulerAssumption DEF TypeOK
    <2> QED BY <1>3, <1>6, <2>1 DEF TypeOK, SnapshotType, CancelQueued
  <1>8. RecordsOK'
    BY <1>1, <1>2, <1>3 DEF RecordsOK, CancelQueued
  <1>9. SingleRunning'
    BY <1>1, <1>2, <1>3 DEF SingleRunning, CancelQueued, Active
  <1>10. \A m, n \in DOMAIN queue' : m < n => ticket[queue'[m]] < ticket[queue'[n]]
    BY <1>4, WithoutSorted DEF QueueOK, CancelQueued, TypeOK
  <1>11. QueueOK'
    <2>1. Elements(queue)' = {k \in Jobs : job'[k].state = "queued"}
      BY <1>2, <1>3, <1>6 DEF QueueOK, Elements
    <2> QED BY <2>1, <1>10 DEF QueueOK, CancelQueued
  <1>12. DispatchOrder'
    <2>1. /\ \A k \in Jobs : job'[k].state \in Active \union {"succeeded", "failed"}
                       <=> job[k].state \in Active \union {"succeeded", "failed"}
      BY <1>1, <1>2, <1>3 DEF Active
    <2>2. \A n \in DOMAIN queue' : \E m \in DOMAIN queue : queue'[n] = queue[m]
      BY <1>6 DEF Elements
    <2>3. \A m \in DOMAIN dispatched, n \in DOMAIN queue' :
             ticket[dispatched[m]] < ticket[queue'[n]]
      BY <2>2 DEF DispatchOrder
    <2> QED BY <2>1, <2>3 DEF DispatchOrder, Elements, CancelQueued
  <1>13. NoLostWakeup'
    <2>1. queue' # <<>> => queue # <<>>
      BY <1>4, <1>6 DEF Elements
    <2> QED BY <2>1 DEF NoLostWakeup, CancelQueued
  <1> QED BY <1>7, <1>8, <1>9, <1>11, <1>12, <1>13

\* shutdown() cancels what is queued and preserves the invariant.
LEMMA ShutdownStep ==
    ASSUME IInv, Shutdown
    PROVE  IInv'
  <1> USE DEF IInv
  <1> DEFINE r(j) == Completed(Cancelled(job[j]))
  <1>1. \A j \in Elements(queue) : /\ j \in Jobs
                                   /\ r(j) \in RecordType
                                   /\ r(j).state = "cancelled"
                                   /\ GoodRecord(r(j))
    BY CancelledGood DEF TypeOK, RecordsOK, QueueOK
  <1>2. \A j \in Elements(queue) : job'[j] = r(j) /\ lastEvent'[j] = Snapshot(r(j))
    BY <1>1 DEF Shutdown
  <1>3. \A j \in Jobs \ Elements(queue) : job'[j] = job[j] /\ lastEvent'[j] = lastEvent[j]
    BY DEF Shutdown
  <1>4. DOMAIN job' = Jobs /\ DOMAIN lastEvent' = Jobs
    BY DEF Shutdown
  <1>5. queue' = <<>>
    BY DEF Shutdown
  <1>6. job' = [j \in Jobs |-> job'[j]] /\ lastEvent' = [j \in Jobs |-> lastEvent'[j]]
    BY DEF Shutdown
  <1> HIDE DEF r
  <1>7. TypeOK'
    <2>1. ASSUME NEW j \in Jobs PROVE job'[j] \in RecordType
      <3>1. CASE j \in Elements(queue)
        BY <3>1, <1>1, <1>2
      <3>2. CASE j \notin Elements(queue)
        BY <3>2, <1>3 DEF TypeOK
      <3> QED BY <3>1, <3>2
    <2>2. \A j \in Jobs : lastEvent'[j] \in SnapshotType
      BY <1>1, <1>2, <1>3, SnapshotOfRecord DEF TypeOK, SnapshotType
    <2>3. job' \in [Jobs -> RecordType] /\ lastEvent' \in [Jobs -> SnapshotType]
      BY <1>6, <2>1, <2>2
    <2>4. queue' \in Seq(Jobs) /\ Len(queue') <= MaxQueuedJobs
      BY <1>5, SchedulerAssumption
    <2> QED BY <2>3, <2>4 DEF TypeOK, SnapshotType, Shutdown
  <1>8. \A j \in Jobs :
            \/ job'[j] = job[j] /\ job[j].state # "queued"
            \/ job[j].state = "queued" /\ job'[j].state = "cancelled"
    BY <1>1, <1>2, <1>3 DEF QueueOK
  <1>9. RecordsOK'
    <2>1. ASSUME NEW j \in Jobs
          PROVE  /\ GoodRecord(job'[j])
                 /\ lastEvent'[j] = Snapshot(job'[j])
      BY <1>1, <1>2, <1>3 DEF RecordsOK
    <2>2. \A j \in Jobs : job'[j].state = "succeeded" <=> j \in results'
      BY <1>8 DEF RecordsOK, Shutdown
    <2> QED BY <2>1, <2>2 DEF RecordsOK
  <1>10. SingleRunning'
    BY <1>8 DEF SingleRunning, Active, Shutdown
  <1>11. QueueOK' /\ DispatchOrder'
    <2>1. Elements(queue') = {} /\ DOMAIN queue' = {}
      BY <1>5 DEF Elements
    <2>2. {j \in Jobs : job'[j].state = "queued"} = {}
      BY <1>8
    <2>3. QueueOK'
      BY <2>1, <2>2 DEF QueueOK, Elements, Shutdown
    <2>4. \A k \in Jobs : job'[k].state \in Active \union {"succeeded", "failed"}
                       <=> job[k].state \in Active \union {"succeeded", "failed"}
      BY <1>8 DEF Active
    <2>5. DispatchOrder'
      BY <2>1, <2>4 DEF DispatchOrder, Elements, Shutdown
    <2> QED BY <2>3, <2>5
  <1>12. NoLostWakeup'
    BY <1>5 DEF NoLostWakeup
  <1> QED BY <1>7, <1>9, <1>10, <1>11, <1>12

\* A pump that finds work running, or none, preserves the invariant.
LEMMA PumpReturnsStep ==
    ASSUME IInv, PumpReturns
    PROVE  IInv'
  <1> USE DEF IInv
  <1>1. TypeOK'
    BY DEF TypeOK, PumpReturns
  <1>2. NoLostWakeup'
    BY DEF NoLostWakeup, PumpReturns
  <1>3. RecordsOK' /\ SingleRunning'
    BY DEF RecordsOK, SingleRunning, PumpReturns
  <1>4. QueueOK' /\ DispatchOrder'
    BY DEF QueueOK, DispatchOrder, Elements, PumpReturns
  <1> QED BY <1>1, <1>2, <1>3, <1>4

\* A pump that starts the first queued job preserves the invariant.
LEMMA PumpStartsStep ==
    ASSUME IInv, PumpStarts
    PROVE  IInv'
  <1> DEFINE j == Head(queue)
             s == [job[j] EXCEPT !.state = "running"]
             r == Progressed(s, "utility-startup", 20)
  <1> USE DEF IInv
  <1>1. /\ queue \in Seq(Jobs) /\ queue # <<>> /\ Len(queue) \in Nat \ {0}
        /\ DOMAIN queue = 1 .. Len(queue) /\ j = queue[1] /\ j \in Jobs
        /\ \A n \in DOMAIN queue : queue[n] \in Jobs
    BY DEF TypeOK, PumpStarts
  <1>2. /\ queue' \in Seq(Jobs) /\ DOMAIN queue' = 1 .. Len(queue) - 1
        /\ Len(queue') = Len(queue) - 1
        /\ \A n \in 1 .. Len(queue) - 1 : queue'[n] = queue[n + 1]
    BY <1>1 DEF PumpStarts
  <1>3. /\ dispatched \in Seq(Jobs) /\ Len(dispatched) \in Nat
        /\ DOMAIN dispatched = 1 .. Len(dispatched)
        /\ DOMAIN dispatched' = 1 .. Len(dispatched) + 1
        /\ dispatched' \in Seq(Jobs)
        /\ \A n \in DOMAIN dispatched : dispatched'[n] = dispatched[n]
        /\ dispatched'[Len(dispatched) + 1] = j
    BY <1>1 DEF TypeOK, PumpStarts
  <1>4. j \in Elements(queue)
    BY <1>1 DEF Elements
  <1>5. job[j] \in RecordType /\ GoodRecord(job[j]) /\ job[j].state = "queued"
    BY <1>1, <1>4 DEF TypeOK, RecordsOK, QueueOK
  <1>6. /\ s \in RecordType /\ s.state = "running" /\ GoodRecord(s)
    BY <1>5 DEF RecordType, JobStates, GoodRecord, Terminal
  <1>7. "utility-startup" \in Phases /\ 20 \in 0..100
    BY DEF Phases
  <1>8. SetAndEmit(j, r) /\ running = NoJob /\ running' = j
    BY DEF PumpStarts
  <1> HIDE DEF s, j
  <1>9. r \in RecordType /\ r.state = "running" /\ GoodRecord(r)
    BY <1>6, <1>7, ProgressedRecord, ProgressedGood
  <1> HIDE DEF r
  <1>10. /\ job' \in [Jobs -> RecordType]
         /\ lastEvent' \in [Jobs -> SnapshotType]
         /\ job'[j] = r /\ lastEvent'[j] = Snapshot(r)
         /\ \A k \in Jobs \ {j} : job'[k] = job[k] /\ lastEvent'[k] = lastEvent[k]
    BY <1>1, <1>8, <1>9, Updated DEF TypeOK, SnapshotType
  <1>11. TypeOK'
    <2>1. Len(queue') <= MaxQueuedJobs
      BY <1>1, <1>2, SchedulerAssumption DEF TypeOK
    <2>2. pumps' \in Nat
      BY DEF TypeOK, PumpStarts
    <2> QED BY <1>1, <1>2, <1>3, <1>8, <1>10, <2>1, <2>2
            DEF TypeOK, SnapshotType, PumpStarts
  <1>12. RecordsOK'
    BY <1>1, <1>5, <1>9, <1>10 DEF RecordsOK, PumpStarts
  <1>13. SingleRunning'
    <2>1. \A k \in Jobs : job[k].state \notin Active
      BY <1>8, SchedulerAssumption DEF SingleRunning
    <2>2. \A k \in Jobs : job'[k].state \in Active <=> running' = k
      BY <2>1, <1>8, <1>9, <1>10 DEF Active
    <2> QED BY <2>2, <1>1, <1>8, SchedulerAssumption DEF SingleRunning, PumpStarts
  <1>14. /\ \A m, n \in DOMAIN queue : m < n => ticket[queue[m]] < ticket[queue[n]]
         /\ \A k \in Jobs : ticket[k] \in Nat
         /\ UNCHANGED <<ticket, accepted>>
    BY DEF QueueOK, TypeOK, PumpStarts
  <1>15. \A n \in DOMAIN queue' : ticket[j] < ticket[queue'[n]] /\ queue'[n] # j
    <2> SUFFICES ASSUME NEW n \in DOMAIN queue'
                 PROVE  ticket[j] < ticket[queue'[n]] /\ queue'[n] # j
      OBVIOUS
    <2>1. /\ 1 \in DOMAIN queue /\ n + 1 \in DOMAIN queue /\ 1 < n + 1
          /\ queue'[n] = queue[n + 1]
      BY <1>1, <1>2
    <2>2. ticket[queue[1]] < ticket[queue[n + 1]]
      BY <2>1, <1>14
    <2>3. ticket[j] < ticket[queue'[n]]
      BY <2>1, <2>2, <1>1
    <2> QED BY <2>3, <1>1, <1>14
  <1>16. QueueOK'
    <2>1. Elements(queue') = Elements(queue) \ {j}
      <3>1. \A n \in DOMAIN queue' : queue'[n] \in Elements(queue) \ {j}
        BY SMTT(30), <1>1, <1>2, <1>15 DEF Elements
      <3>2. ASSUME NEW n \in DOMAIN queue, queue[n] # j
            PROVE  queue[n] \in Elements(queue')
        <4>1. n - 1 \in DOMAIN queue' /\ queue'[n - 1] = queue[n]
          BY <3>2, <1>1, <1>2
        <4> QED BY <4>1 DEF Elements
      <3> QED BY <3>1, <3>2 DEF Elements
    <2>2. Elements(queue)' = {k \in Jobs : job'[k].state = "queued"}
      BY <2>1, <1>9, <1>10 DEF QueueOK, Elements
    <2>3. \A m, n \in DOMAIN queue' :
             m < n => ticket[queue'[m]] < ticket[queue'[n]]
      <3> SUFFICES ASSUME NEW m \in DOMAIN queue', NEW n \in DOMAIN queue', m < n
                   PROVE  ticket[queue'[m]] < ticket[queue'[n]]
        OBVIOUS
      <3>1. /\ m + 1 \in DOMAIN queue /\ n + 1 \in DOMAIN queue /\ m + 1 < n + 1
            /\ queue'[m] = queue[m + 1] /\ queue'[n] = queue[n + 1]
        BY <1>1, <1>2
      <3> QED BY <3>1, <1>14
    <2> QED BY <2>2, <2>3, <1>14 DEF QueueOK
  <1>17. DispatchOrder'
    <2>1. \A m \in DOMAIN dispatched, n \in DOMAIN queue :
             ticket[dispatched[m]] < ticket[queue[n]]
      BY DEF DispatchOrder
    <2>2. \A m, n \in DOMAIN dispatched' :
             m < n => ticket[dispatched'[m]] < ticket[dispatched'[n]]
      BY <1>1, <1>3, <2>1 DEF DispatchOrder
    <2>3. \A m \in DOMAIN dispatched', n \in DOMAIN queue' :
             ticket[dispatched'[m]] < ticket[queue'[n]]
      <3> SUFFICES ASSUME NEW m \in DOMAIN dispatched', NEW n \in DOMAIN queue'
                   PROVE  ticket[dispatched'[m]] < ticket[queue'[n]]
        OBVIOUS
      <3>1. CASE m = Len(dispatched) + 1
        BY <3>1, <1>3, <1>15
      <3>2. CASE m \in DOMAIN dispatched
        <4>1. n + 1 \in DOMAIN queue /\ queue'[n] = queue[n + 1]
          BY <1>1, <1>2
        <4> QED BY <3>2, <4>1, <1>3, <2>1
      <3> QED BY <3>1, <3>2, <1>3
    <2>4. Elements(dispatched') = Elements(dispatched) \union {j}
      BY <1>3 DEF Elements
    <2>5. \A k \in Jobs : k \in Elements(dispatched)' <=>
             job'[k].state \in Active \union {"succeeded", "failed"}
      BY <2>4, <1>1, <1>9, <1>10 DEF DispatchOrder, Active, Elements
    <2> QED BY <2>2, <2>3, <2>5, <1>14 DEF DispatchOrder
  <1>18. NoLostWakeup'
    BY <1>1, <1>8, SchedulerAssumption DEF NoLostWakeup
  <1> QED BY <1>11, <1>12, <1>13, <1>16, <1>17, <1>18

\* Every step of the scheduler preserves the inductive invariant.
LEMMA IInvStep == IInv /\ [Next]_vars => IInv'
  <1> SUFFICES ASSUME IInv, [Next]_vars PROVE IInv'
    OBVIOUS
  <1>1. CASE UNCHANGED vars
    BY <1>1 DEF IInv, vars, TypeOK, RecordsOK, SingleRunning, QueueOK,
                DispatchOrder, NoLostWakeup, Elements
  <1>2. CASE Client
    BY <1>2, EnqueueStep, CancelQueuedStep, RequestCancelStep, ShutdownStep
    DEF Client
  <1>3. CASE Progress
    BY <1>3, UtilityProgressStep DEF Progress
  <1>4. CASE PumpReturns
    BY <1>4, PumpReturnsStep
  <1>5. CASE PumpStarts
    BY <1>5, PumpStartsStep
  <1>6. CASE ExecuteReturns \/ PublishReturns
    BY <1>6, ExecuteFailsStep, ExecuteSucceedsStep, PublishSucceedsStep
    DEF ExecuteReturns, PublishReturns
  <1> QED BY <1>1, <1>2, <1>3, <1>4, <1>5, <1>6 DEF Next

\* The inductive invariant holds in every reachable state.
LEMMA Inductive == Spec => []IInv
  BY InitIInv, IInvStep, PTL DEF Spec

-----------------------------------------------------------------------------
(* What follows for the properties.                                         *)

\* Every variable of the scheduler keeps its type, and the queue its limit.
THEOREM TypeCorrect == Spec => []TypeOK
  <1>1. IInv => TypeOK
    BY DEF IInv
  <1> QED BY <1>1, Inductive, PTL

\* A waiting job is never left behind without a scheduled pump.
THEOREM WakeupNeverLost == Spec => []NoLostWakeup
  <1>1. IInv => NoLostWakeup
    BY DEF IInv
  <1> QED BY <1>1, Inductive, PTL

\* One job at a time is running, and it is the one in #running.
THEOREM OneRunning == Spec => []SingleRunning
  <1>1. IInv => SingleRunning
    BY DEF IInv
  <1> QED BY <1>1, Inductive, PTL

\* Jobs are dispatched in order, at most once, and never after a cancel.
THEOREM InOrderDispatch == Spec => []DispatchOrder
  <1>1. IInv => DispatchOrder
    BY DEF IInv
  <1> QED BY <1>1, Inductive, PTL

\* Subscribers always hold a valid and current snapshot of every job.
THEOREM Truthful == Spec => []SubscribersSeeTheJob
  <1>1. ASSUME IInv, NEW j \in Jobs
        PROVE  /\ lastEvent[j] = Snapshot(job[j])
               /\ ValidSnapshot(lastEvent[j])
               /\ lastEvent[j].result <=> j \in results
    <2>1. GoodRecord(job[j]) /\ lastEvent[j] = Snapshot(job[j])
      BY <1>1 DEF IInv, RecordsOK
    <2>2. /\ lastEvent[j].state = job[j].state
          /\ lastEvent[j].finished = job[j].finished
          /\ lastEvent[j].result = job[j].result
          /\ lastEvent[j].error = job[j].error
      BY <2>1 DEF Snapshot
    <2>3. ValidSnapshot(lastEvent[j])
      BY <2>1, <2>2 DEF GoodRecord, ValidSnapshot
    <2>4. lastEvent[j].result <=> j \in results
      BY <1>1, <2>1, <2>2 DEF IInv, RecordsOK, GoodRecord
    <2> QED BY <2>1, <2>3, <2>4
  <1>2. IInv => SubscribersSeeTheJob
    BY <1>1 DEF SubscribersSeeTheJob
  <1> QED BY <1>2, Inductive, PTL

\* The completion promise is resolved exactly at the end of the job.
THEOREM CompletionCorrect == Spec => []CompletionIsTheEnd
  <1>1. IInv => CompletionIsTheEnd
    BY DEF IInv, RecordsOK, GoodRecord, CompletionIsTheEnd, WaitAnswer, Terminal
  <1> QED BY <1>1, Inductive, PTL

-----------------------------------------------------------------------------
(* The scheduler implements JobLifecycle.                                   *)

states == [j \in Jobs |-> job[j].state]

\* A step that replaces the record of one job maps to a change of its phase.
LEMMA PhaseChange ==
    ASSUME TypeOK, NEW j \in Jobs, NEW r, SetAndEmit(j, r)
    PROVE  states' = [states EXCEPT ![j] = r.state]
  BY DEF states, SetAndEmit, TypeOK

\* Every step of the scheduler is a step of the lifecycle, or a stutter.
LEMMA LifecycleStep == IInv /\ [Next]_vars => [Lifecycle!Next]_states
  <1> SUFFICES ASSUME IInv, [Next]_vars
               PROVE  Lifecycle!Next \/ states' = states
    OBVIOUS
  <1>0. TypeOK /\ \A j \in Jobs : states[j] = job[j].state /\ job[j] \in RecordType
    BY DEF IInv, TypeOK, states
  <1>1. CASE UNCHANGED vars \/ PumpReturns
    BY <1>1 DEF vars, PumpReturns, states
  <1>2. ASSUME NEW j \in Jobs, Enqueue(j) PROVE Lifecycle!Submit(j)
    <2> DEFINE r == [NoRecord EXCEPT
            !.state = "queued",
            !.progress = [sequence |-> 1, phase |-> "queued", units |-> 10]]
    <2>1. SetAndEmit(j, r)
      BY <1>2 DEF Enqueue
    <2>2. r.state = "queued"
      BY DEF NoRecord
    <2> HIDE DEF r
    <2>4. states' = [states EXCEPT ![j] = "queued"]
      BY <1>0, <2>1, <2>2, PhaseChange
    <2>3. job[j].state = "absent"
      BY <1>2 DEF Enqueue
    <2> QED BY <1>0, <2>3, <2>4 DEF Lifecycle!Submit, states
  <1>3. ASSUME NEW o \in Owners, NEW j \in Jobs, CancelQueued(o, j)
        PROVE  Lifecycle!CancelQueued({j})
    <2>1. job[j].state = "queued" /\ GoodRecord(job[j])
      BY <1>3 DEF CancelQueued, IInv, RecordsOK
    <2>2. states' = [states EXCEPT ![j] = "cancelled"]
      BY <1>0, <1>3, <2>1, PhaseChange, CancelledGood DEF CancelQueued
    <2> QED BY <1>0, <2>1, <2>2 DEF Lifecycle!CancelQueued, states
  <1>4. ASSUME NEW o \in Owners, NEW j \in Jobs, RequestCancel(o, j)
        PROVE  Lifecycle!RequestCancel(j)
    <2> DEFINE r == [job[j] EXCEPT !.state = "cancel_requested"]
               q == Progressed(r, "native-execution", job[j].progress.units)
    <2>1. r.state = "cancel_requested" /\ q.state = r.state
      BY <1>0 DEF RecordType, Progressed
    <2>2. SetAndEmit(j, q) /\ job[j].state = "running"
      BY <1>4 DEF RequestCancel
    <2> HIDE DEF r, q
    <2>3. states' = [states EXCEPT ![j] = "cancel_requested"]
      BY <1>0, <2>1, <2>2, PhaseChange
    <2> QED BY <1>0, <2>2, <2>3 DEF Lifecycle!RequestCancel, states
  <1>5. CASE Shutdown
    <2>1. \A j \in Elements(queue) : /\ job[j].state = "queued"
                                     /\ Completed(Cancelled(job[j])).state = "cancelled"
                                     /\ j \in Jobs
      BY CancelledGood, <1>0 DEF IInv, QueueOK, RecordsOK
    <2>2. states' = [j \in Jobs |-> IF j \in Elements(queue) THEN "cancelled"
                                                            ELSE states[j]]
      BY <1>0, <1>5, <2>1 DEF Shutdown, states
    <2>3. PICK S \in SUBSET Jobs : S = Elements(queue)
      BY <2>1
    <2>4. Lifecycle!CancelQueued(S)
      BY <2>1, <2>2, <2>3 DEF Lifecycle!CancelQueued, states
    <2> QED BY <2>4 DEF Lifecycle!Next
  <1>6. CASE PumpStarts
    <2>0. Head(queue) \in Jobs /\ Head(queue) \in Elements(queue)
      BY <1>6, <1>0 DEF PumpStarts, TypeOK, Elements
    <2>1. PICK j \in Jobs : j = Head(queue) /\ j \in Elements(queue)
      BY <2>0
    <2>2. job[j].state = "queued"
      BY <2>1 DEF IInv, QueueOK
    <2>3. \A k \in Jobs : states[k] \notin Active
      BY <1>0, <1>6, SchedulerAssumption DEF IInv, SingleRunning, PumpStarts
    <2>4. states' = [states EXCEPT ![j] = "running"]
      <3> DEFINE r == [job[j] EXCEPT !.state = "running"]
                 q == Progressed(r, "utility-startup", 20)
      <3>1. r.state = "running" /\ q.state = r.state
        BY <1>0 DEF RecordType, Progressed
      <3>2. SetAndEmit(j, q)
        BY <1>6, <2>1 DEF PumpStarts
      <3> HIDE DEF r, q
      <3> QED BY <1>0, <3>1, <3>2, PhaseChange
    <2>5. Lifecycle!Start(j)
      BY <1>0, <2>1, <2>2, <2>3, <2>4
      DEF Lifecycle!Start, Lifecycle!Active, Active, states
    <2> QED BY <2>1, <2>5 DEF Lifecycle!Next
  <1>7. CASE Progress \/ ExecuteSucceeds
    <2>1. /\ running \in Jobs /\ job[running] \in RecordType
      BY <1>7, RunningIsActive DEF Progress, UtilityProgress, ExecuteSucceeds
    <2>2. states' = [states EXCEPT ![running] = job[running].state]
      BY <1>0, <1>7, <2>1, PhaseChange
      DEF Progress, UtilityProgress, ExecuteSucceeds, Progressed, RecordType
    <2> QED BY <1>0, <2>1, <2>2 DEF states
  <1>8. CASE ExecuteFails \/ PublishFails \/ PublishSucceeds
    <2>1. /\ running \in Jobs /\ job[running] \in RecordType
          /\ job[running].state \in Active
      BY <1>8, RunningIsActive DEF ExecuteFails, PublishFails, PublishSucceeds
    <2>2. PICK s \in {"succeeded", "failed"} :
             states' = [states EXCEPT ![running] = s]
      <3>1. CASE ExecuteFails \/ PublishFails
        <4>1. PumpEnds(Failed(job[running]))
          BY <3>1 DEF ExecuteFails, PublishFails
        <4>2. Completed(Failed(job[running])).state = "failed"
          BY <2>1, FailedRecord DEF Completed, RecordType
        <4> QED BY <4>1, <4>2, <1>0, <2>1, PhaseChange DEF PumpEnds
      <3>2. CASE PublishSucceeds
        <4>1. PumpEnds(Succeeded(job[running]))
          BY <3>2 DEF PublishSucceeds
        <4>2. Completed(Succeeded(job[running])).state = "succeeded"
          BY <2>1, SucceededRecord DEF Completed, RecordType
        <4> QED BY <4>1, <4>2, <1>0, <2>1, PhaseChange DEF PumpEnds
      <3> QED BY <3>1, <3>2, <1>8
    <2>3. Lifecycle!Finish(running, s)
      BY <1>0, <2>1, <2>2 DEF Lifecycle!Finish, Lifecycle!Active, Active, states
    <2> QED BY <2>1, <2>3 DEF Lifecycle!Next
  <1>9. \/ UNCHANGED vars \/ PumpReturns
        \/ \E j \in Jobs : Enqueue(j)
        \/ \E o \in Owners, j \in Jobs : CancelQueued(o, j) \/ RequestCancel(o, j)
        \/ Shutdown \/ PumpStarts \/ Progress \/ ExecuteSucceeds
        \/ ExecuteFails \/ PublishFails \/ PublishSucceeds
    BY DEF Next, Client, ExecuteReturns, PublishReturns
  <1>10. CASE \E j \in Jobs : Enqueue(j)
    BY <1>10, <1>2 DEF Lifecycle!Next
  <1>11. CASE \E o \in Owners, j \in Jobs : CancelQueued(o, j) \/ RequestCancel(o, j)
    <2>1. PICK o \in Owners, j \in Jobs : CancelQueued(o, j) \/ RequestCancel(o, j)
      BY <1>11
    <2>2. {j} \in SUBSET Jobs
      OBVIOUS
    <2> QED BY <2>1, <2>2, <1>3, <1>4 DEF Lifecycle!Next
  <1> QED BY <1>1, <1>5, <1>6, <1>7, <1>8, <1>9, <1>10, <1>11

\* Every behaviour of the scheduler is one the lifecycle of a job allows.
THEOREM Implementation == Spec => Lifecycle!SafeSpec
  <1>1. Init => Lifecycle!Init
    BY DEF Init, NoRecord, Lifecycle!Init
  <1>2. IInv /\ [Next]_vars => [Lifecycle!Next]_states
    BY LifecycleStep
  <1>3. IInv /\ [Next]_vars => [Lifecycle!Next]_([j \in Jobs |-> job[j].state])
    BY <1>2 DEF states
  <1> QED BY <1>1, <1>3, Inductive, PTL DEF Spec, Lifecycle!SafeSpec

-----------------------------------------------------------------------------
(***************************************************************************)
(* The supervisor and its Utilities, for any number of calls and processes. *)
(***************************************************************************)
AllCalls == Jobs \cup DirectCalls

UtilityType == [U!Children -> [life : U!Lives, killed : BOOLEAN, work : AllCalls \cup {NoJob},
                               inbox : Seq(U!ToChild), outbox : Seq(U!ToMain)]]

\* The shape of the supervisor's variables.
Shape ==
    /\ child \in 0 .. forks /\ forks \in 0 .. MaxForks
    /\ health \in U!Healths /\ discovered \in BOOLEAN
    /\ starting \in {0, child} /\ stopping \in 0 .. forks /\ quit \in BOOLEAN /\ closing \in BOOLEAN
    /\ pending \subseteq AllCalls
    /\ call \in [AllCalls -> U!Places] /\ outcome \in [AllCalls -> U!Outcomes]
    /\ utility \in UtilityType
    /\ begun \in [AllCalls -> Nat] /\ done \subseteq AllCalls

\* A call that was never posted: execute has not come to it, or has refused it.
Refused == {"JOB_TRANSITION_INVALID", "UTILITY_MESSAGE_INVALID", "UTILITY_HANDSHAKE_FAILED"}
NotSent(c) == call[c] \in {"idle", "starting", "resumed"} \/ outcome[c] \in Refused

\* The places of the execute messages that a process has not read.
Orders(k) == {n \in 1 .. Len(utility[k].inbox) : utility[k].inbox[n].type = "execute"}
Ordered(k, n) == utility[k].inbox[n].id

\* A call is in one inbox at most, once, and then it has not begun.
OrdersOK ==
    /\ \A k \in U!Children : \A n \in Orders(k) :
          ~NotSent(Ordered(k, n)) /\ begun[Ordered(k, n)] = 0
    /\ \A k, l \in U!Children : \A n \in Orders(k), m \in Orders(l) :
          Ordered(k, n) = Ordered(l, m) => k = l /\ n = m

\* What has begun was posted, what is done has begun, and what a busy process
\* works on has begun.
BegunOK ==
    /\ \A c \in AllCalls : begun[c] \in {0, 1} /\ (begun[c] = 1 => ~NotSent(c))
    /\ \A c \in done : begun[c] = 1
    /\ \A k \in U!Children : utility[k].life = "busy" =>
          utility[k].work \in AllCalls /\ begun[utility[k].work] = 1

\* The entries of #pending are the calls that wait for an answer, and a call has
\* no outcome before it is over.
CallsOK ==
    \A c \in AllCalls :
        /\ c \in pending <=> call[c] = "posted"
        /\ call[c] \in {"idle", "starting", "resumed", "posted"} => outcome[c] = "none"

\* A result is only sent, and data only given, for what is done.
ResultsOK ==
    /\ \A k \in U!Children : \A n \in 1 .. Len(utility[k].outbox) :
          utility[k].outbox[n].type = "result" => utility[k].outbox[n].id \in done
    /\ \A c \in AllCalls : outcome[c] = "data" => c \in done

\* The processes are forked one by one, and nothing is sent to one that is not there.
ForksOK ==
    \A k \in U!Children :
        /\ utility[k].life = "unborn" <=> k > forks
        /\ utility[k].life \in {"unborn", "dead", "gone"} => utility[k].inbox = <<>>

Quiet(k) == utility[k].life # "busy" /\ Orders(k) = {}

\* Before a shutdown only the current process, once it is healthy, has anything to
\* do; what it was sent and nobody waits for, it was told to die for.
LoneChild ==
    ~quit =>
        /\ stopping = 0 /\ ~closing
        /\ discovered <=> health = "healthy"
        /\ health = "healthy" => child # 0
        /\ \A k \in U!Children : k # child \/ health # "healthy" => Quiet(k)
        /\ \A k \in U!Children : \A n \in Orders(k) :
              Ordered(k, n) \notin pending => utility[k].killed

SInv == Shape /\ OrdersOK /\ BegunOK /\ CallsOK /\ ResultsOK /\ ForksOK /\ LoneChild

\* Where the call of a job is, by the state of the job.
JobsAndCalls ==
    \A j \in Jobs :
        /\ job[j].state \in {"absent", "queued", "cancelled"} => call[j] = "idle"
        /\ job[j].state = "failed" => call[j] = "settled"
        /\ job[j].state = "succeeded" \/ (running = j /\ stage = "publishing") =>
              call[j] = "settled" /\ outcome[j] = "data"

EInv == IInv /\ SInv /\ JobsAndCalls
-----------------------------------------------------------------------------
(* What the operators on the processes do.                                  *)

\* What Main's side may do to the processes without touching what they work on.
SameWork(u, v) ==
    \A l \in U!Children : /\ v[l].life = u[l].life /\ v[l].work = u[l].work /\ v[l].inbox = u[l].inbox
                          /\ u[l].killed => v[l].killed

LEMMA KillFacts ==
    ASSUME NEW u \in UtilityType, NEW k \in U!Children \cup {0}
    PROVE  /\ U!Killed(u, k) \in UtilityType
           /\ SameWork(u, U!Killed(u, k))
           /\ \A l \in U!Children : U!Killed(u, k)[l].outbox = u[l].outbox
           /\ k \in U!Children => U!Killed(u, k)[k].killed
  <1>1. CASE k = 0
    <2>1. U!Killed(u, k) = u /\ 0 \notin U!Children
      BY <1>1 DEF U!Killed, U!Children
    <2> QED
      BY <1>1, <2>1 DEF SameWork
  <1>2. CASE k # 0
    <2>1. U!Killed(u, k) = [u EXCEPT ![k].killed = TRUE]
      BY <1>2 DEF U!Killed
    <2>2. k \in U!Children
      BY <1>2
    <2> DEFINE s == u[k]
               r == [s EXCEPT !.killed = TRUE]
    <2>3. /\ s \in [life : U!Lives, killed : BOOLEAN, work : AllCalls \cup {NoJob},
                    inbox : Seq(U!ToChild), outbox : Seq(U!ToMain)]
          /\ U!Killed(u, k) = [u EXCEPT ![k] = r]
      BY <2>1, <2>2 DEF UtilityType
    <2> HIDE DEF s
    <2>4. /\ r \in [life : U!Lives, killed : BOOLEAN, work : AllCalls \cup {NoJob},
                    inbox : Seq(U!ToChild), outbox : Seq(U!ToMain)]
          /\ r.life = s.life /\ r.inbox = s.inbox /\ r.outbox = s.outbox /\ r.work = s.work
          /\ r.killed = TRUE
      BY <2>3
    <2> HIDE DEF r
    <2>5. U!Killed(u, k) \in UtilityType
      BY <2>2, <2>3, <2>4 DEF UtilityType
    <2>6. U!Killed(u, k)[k] = r /\ \A l \in U!Children : l # k => U!Killed(u, k)[l] = u[l]
      BY <2>2, <2>3 DEF UtilityType
    <2> QED
      BY <2>2, <2>4, <2>5, <2>6 DEF SameWork, s
  <1> QED
    BY <1>1, <1>2

LEMMA HeardFacts ==
    ASSUME NEW u \in UtilityType, NEW k \in U!Children, u[k].outbox # <<>>
    PROVE  /\ U!Heard(u, k) \in UtilityType
           /\ SameWork(u, U!Heard(u, k))
           /\ \A l \in U!Children : U!Heard(u, k)[l].outbox = IF l = k THEN Tail(u[k].outbox) ELSE u[l].outbox
           /\ \A l \in U!Children : U!Heard(u, k)[l].killed = u[l].killed
  <1>1. u[k].outbox \in Seq(U!ToMain) /\ Tail(u[k].outbox) \in Seq(U!ToMain)
    BY DEF UtilityType
  <1> QED
    BY <1>1 DEF U!Heard, UtilityType, SameWork

LEMMA SaysFacts ==
    ASSUME NEW u \in UtilityType, NEW k \in U!Children, NEW m \in U!ToMain
    PROVE  /\ U!Says(u, k, m) \in UtilityType
           /\ U!Says(u, k, m)[k].life = u[k].life /\ U!Says(u, k, m)[k].work = u[k].work
           /\ U!Says(u, k, m)[k].inbox = u[k].inbox /\ U!Says(u, k, m)[k].killed = u[k].killed
           /\ U!Says(u, k, m)[k].outbox = Append(u[k].outbox, m)
           /\ \A l \in U!Children \ {k} : U!Says(u, k, m)[l] = u[l]
  <1>1. u[k].outbox \in Seq(U!ToMain) /\ Append(u[k].outbox, m) \in Seq(U!ToMain)
    BY DEF UtilityType
  <1> QED
    BY <1>1 DEF U!Says, UtilityType

LEMMA PostFacts ==
    ASSUME NEW u \in UtilityType, NEW k \in U!Children, NEW m \in U!ToChild
    PROVE  /\ U!Posted(u, k, m) \in UtilityType
           /\ \A l \in U!Children :
                 /\ U!Posted(u, k, m)[l].life = u[l].life /\ U!Posted(u, k, m)[l].work = u[l].work
                 /\ U!Posted(u, k, m)[l].killed = u[l].killed
                 /\ U!Posted(u, k, m)[l].outbox = u[l].outbox
                 /\ U!Posted(u, k, m)[l].inbox =
                       IF l = k /\ u[k].life \notin {"dead", "gone"} THEN Append(u[k].inbox, m) ELSE u[l].inbox
  <1>1. u[k].inbox \in Seq(U!ToChild) /\ Append(u[k].inbox, m) \in Seq(U!ToChild)
    BY DEF UtilityType
  <1> QED
    BY <1>1 DEF U!Posted, UtilityType

LEMMA DeadFacts ==
    ASSUME NEW u \in UtilityType, NEW k \in U!Children
    PROVE  /\ U!Dead(u, k) \in UtilityType
           /\ U!Dead(u, k)[k].life = "dead" /\ U!Dead(u, k)[k].inbox = <<>>
           /\ \A l \in U!Children \ {k} : U!Dead(u, k)[l] = u[l]
           /\ \A l \in U!Children : U!Dead(u, k)[l].outbox = u[l].outbox /\ U!Dead(u, k)[l].killed = u[l].killed
  <1> DEFINE r == [u[k] EXCEPT !.life = "dead", !.work = NoJob, !.inbox = <<>>]
  <1>1. /\ r \in [life : U!Lives, killed : BOOLEAN, work : AllCalls \cup {NoJob},
                  inbox : Seq(U!ToChild), outbox : Seq(U!ToMain)]
        /\ r.life = "dead" /\ r.inbox = <<>> /\ r.outbox = u[k].outbox /\ r.killed = u[k].killed
    <2> DEFINE s == u[k]
    <2>1. s \in [life : U!Lives, killed : BOOLEAN, work : AllCalls \cup {NoJob},
                 inbox : Seq(U!ToChild), outbox : Seq(U!ToMain)]
      BY DEF UtilityType
    <2>2. <<>> \in Seq(U!ToChild) /\ "dead" \in U!Lives
      BY DEF U!Lives
    <2> HIDE DEF s
    <2>3. r = [s EXCEPT !.life = "dead", !.work = NoJob, !.inbox = <<>>]
      BY DEF s
    <2>4. /\ r \in [life : U!Lives, killed : BOOLEAN, work : AllCalls \cup {NoJob},
                    inbox : Seq(U!ToChild), outbox : Seq(U!ToMain)]
          /\ r.life = "dead" /\ r.inbox = <<>> /\ r.outbox = s.outbox /\ r.killed = s.killed
      BY <2>1, <2>2, <2>3
    <2> QED
      BY <2>4 DEF s
  <1>2. U!Dead(u, k) = [u EXCEPT ![k] = r]
    BY DEF U!Dead, UtilityType
  <1> HIDE DEF r
  <1> QED
    BY <1>1, <1>2 DEF UtilityType

-----------------------------------------------------------------------------
(* The parts of the invariant.                                              *)

\* No process is given anything to do.
NoNewOrders ==
    \E d \in [U!Children -> {0, 1}] :
        \A k \in U!Children : \A n \in Orders(k)' :
            n + d[k] \in Orders(k) /\ utility'[k].inbox[n] = utility[k].inbox[n + d[k]]

LEMMA OrderTypes ==
    ASSUME Shape, NEW k \in U!Children, NEW n \in Orders(k)
    PROVE  Ordered(k, n) \in AllCalls /\ n \in Nat \ {0} /\ utility[k].inbox # <<>>
  <1>1. utility[k].inbox \in Seq(U!ToChild) /\ n \in 1 .. Len(utility[k].inbox)
    BY DEF Shape, UtilityType, Orders
  <1>2. utility[k].inbox[n] \in U!ToChild /\ utility[k].inbox[n].type = "execute"
    BY <1>1 DEF Orders
  <1>3. Ordered(k, n) \in AllCalls
    BY <1>2 DEF U!ToChild, Ordered, AllCalls
  <1> QED
    BY <1>1, <1>3

LEMMA SameOrders ==
    ASSUME \A k \in U!Children : utility'[k].inbox = utility[k].inbox \/ utility'[k].inbox = <<>>
    PROVE  NoNewOrders /\ \A k \in U!Children : Orders(k)' \subseteq Orders(k)
  <1>1. \A k \in U!Children : \A n \in Orders(k)' :
           n \in Nat /\ n \in Orders(k) /\ utility'[k].inbox[n] = utility[k].inbox[n]
    BY DEF Orders
  <1> DEFINE d == [k \in U!Children |-> 0]
  <1>2. d \in [U!Children -> {0, 1}] /\ \A k \in U!Children : d[k] = 0
    OBVIOUS
  <1> HIDE DEF d
  <1>3. \A k \in U!Children : \A n \in Orders(k)' :
            n + d[k] \in Orders(k) /\ utility'[k].inbox[n] = utility[k].inbox[n + d[k]]
    BY <1>1, <1>2
  <1> QED
    BY <1>1, <1>2, <1>3 DEF NoNewOrders

\* The invariants of the orders, when nothing is ordered and nothing begins.
LEMMA OrdersStay ==
    ASSUME SInv, NoNewOrders, begun' = begun,
           \A c \in AllCalls : NotSent(c)' => NotSent(c),
           \A c \in done' : c \in done \/ \E k \in U!Children : utility[k].life = "busy" /\ utility[k].work = c,
           \A k \in U!Children : utility'[k].life = "busy" =>
               utility[k].life = "busy" /\ utility'[k].work = utility[k].work
    PROVE  OrdersOK' /\ BegunOK'
  <1>1. Shape /\ OrdersOK /\ BegunOK
    BY DEF SInv
  <1>2. PICK d \in [U!Children -> {0, 1}] :
           \A k \in U!Children : \A n \in Orders(k)' :
               n + d[k] \in Orders(k) /\ utility'[k].inbox[n] = utility[k].inbox[n + d[k]]
    BY DEF NoNewOrders
  <1>3. \A k \in U!Children : \A n \in Orders(k)' :
           n \in Nat /\ n + d[k] \in Orders(k) /\ Ordered(k, n)' = Ordered(k, n + d[k])
    BY <1>2 DEF Ordered, Orders
  <1>4. \A k \in U!Children : \A n \in Orders(k)' :
          ~NotSent(Ordered(k, n))' /\ begun'[Ordered(k, n)'] = 0
    <2> SUFFICES ASSUME NEW k \in U!Children, NEW n \in Orders(k)'
                 PROVE  ~NotSent(Ordered(k, n))' /\ begun'[Ordered(k, n)'] = 0
      OBVIOUS
    <2> DEFINE m == n + d[k]
    <2>1. m \in Orders(k) /\ Ordered(k, n)' = Ordered(k, m)
      BY <1>3
    <2>2. PICK c \in AllCalls : c = Ordered(k, m) /\ ~NotSent(c) /\ begun[c] = 0
      BY <1>1, <2>1, OrderTypes DEF OrdersOK
    <2>3. ~NotSent(c)' /\ begun'[c] = 0
      BY <2>2
    <2>4. Ordered(k, n)' = c
      BY <2>1, <2>2
    <2> QED
      BY <2>3, <2>4 DEF NotSent
  <1>5. \A k, l \in U!Children : \A n \in Orders(k)', m \in Orders(l)' :
          Ordered(k, n)' = Ordered(l, m)' => k = l /\ n = m
    <2> SUFFICES ASSUME NEW k \in U!Children, NEW l \in U!Children, NEW n \in Orders(k)', NEW m \in Orders(l)',
                        Ordered(k, n)' = Ordered(l, m)'
                 PROVE  k = l /\ n = m
      OBVIOUS
    <2>1. /\ n \in Nat /\ n + d[k] \in Orders(k) /\ Ordered(k, n)' = Ordered(k, n + d[k])
          /\ m \in Nat /\ m + d[l] \in Orders(l) /\ Ordered(l, m)' = Ordered(l, m + d[l])
      BY <1>3
    <2>2. k = l /\ n + d[k] = m + d[l]
      BY ZenonT(60), <1>1, <2>1 DEF OrdersOK
    <2> QED
      BY <2>1, <2>2
  <1>6. OrdersOK'
    BY <1>4, <1>5 DEF OrdersOK
  <1>7. \A c \in done' : begun[c] = 1
    BY <1>1 DEF BegunOK
  <1>8. BegunOK'
    BY <1>1, <1>7 DEF BegunOK
  <1> QED
    BY <1>6, <1>8

LEMMA ResultsStay ==
    ASSUME SInv, done \subseteq done',
           \A k \in U!Children :
              \/ utility'[k].outbox \in {utility[k].outbox, <<>>}
              \/ utility[k].outbox # <<>> /\ utility'[k].outbox = Tail(utility[k].outbox)
              \/ \E m \in U!ToMain : /\ utility'[k].outbox = Append(utility[k].outbox, m)
                                     /\ m.type = "result" => m.id \in done',
           \A c \in AllCalls : outcome'[c] = "data" => outcome[c] = "data" \/ c \in done'
    PROVE  ResultsOK'
  <1>1. ASSUME NEW k \in U!Children, NEW n \in 1 .. Len(utility'[k].outbox),
               utility'[k].outbox[n].type = "result"
        PROVE  utility'[k].outbox[n].id \in done'
    <2> DEFINE old == utility[k].outbox
               new == utility'[k].outbox
    <2>1. /\ old \in Seq(U!ToMain)
          /\ \A i \in 1 .. Len(old) : old[i].type = "result" => old[i].id \in done'
      BY DEF SInv, Shape, UtilityType, ResultsOK
    <2>2. /\ n \in 1 .. Len(new) /\ new[n].type = "result"
          /\ \/ new = old \/ new = <<>> \/ (old # <<>> /\ new = Tail(old))
             \/ \E m \in U!ToMain : new = Append(old, m) /\ (m.type = "result" => m.id \in done')
      BY <1>1
    <2> HIDE DEF old, new
    <2>3. CASE new = old
      BY <2>1, <2>2, <2>3 DEF new
    <2>4. CASE new = <<>>
      BY <2>2, <2>4
    <2>5. CASE old # <<>> /\ new = Tail(old)
      <3>1. n + 1 \in 1 .. Len(old) /\ new[n] = old[n + 1]
        BY <2>1, <2>2, <2>5
      <3> QED
        BY <2>1, <2>2, <3>1 DEF new
    <2>6. ASSUME NEW m \in U!ToMain, new = Append(old, m), m.type = "result" => m.id \in done'
          PROVE  new[n].id \in done'
      <3>1. new[n] = IF n <= Len(old) THEN old[n] ELSE m
        BY <2>1, <2>2, <2>6
      <3> QED
        BY <2>1, <2>2, <2>6, <3>1
    <2>7. new[n].id \in done'
      BY <2>2, <2>3, <2>4, <2>5, <2>6 DEF new
    <2> QED
      BY <2>7 DEF new
  <1>2. \A c \in AllCalls : outcome'[c] = "data" => c \in done'
    BY DEF SInv, ResultsOK
  <1> QED
    BY <1>1, <1>2 DEF ResultsOK

LEMMA LoneStays ==
    ASSUME SInv, UNCHANGED <<child, health, discovered, stopping, closing, quit>>,
           \A k \in U!Children : utility'[k].life = "busy" => ~Quiet(k),
           \A k \in U!Children : utility[k].killed => utility'[k].killed,
           \A k \in U!Children : \A n \in Orders(k)' : \E m \in Orders(k) : Ordered(k, n)' = Ordered(k, m),
           ~quit => \A k \in U!Children : \A n \in Orders(k) :
                       Ordered(k, n) \in pending \ pending' => utility'[k].killed
    PROVE  LoneChild'
  <1> SUFFICES ASSUME ~quit PROVE LoneChild'
    BY DEF LoneChild
  <1>1. /\ stopping = 0 /\ ~closing /\ (discovered <=> health = "healthy")
        /\ health = "healthy" => child # 0
        /\ \A k \in U!Children : k # child \/ health # "healthy" => Quiet(k)
        /\ \A k \in U!Children : \A n \in Orders(k) :
              Ordered(k, n) \notin pending => utility[k].killed
    BY DEF SInv, LoneChild
  <1>2. \A k \in U!Children : Quiet(k) => Quiet(k)'
    BY DEF Quiet
  <1>3. \A k \in U!Children : \A n \in Orders(k)' :
              Ordered(k, n)' \notin pending' => utility'[k].killed
    <2> SUFFICES ASSUME NEW k \in U!Children, NEW n \in Orders(k)', Ordered(k, n)' \notin pending'
                 PROVE  utility'[k].killed
      OBVIOUS
    <2>1. PICK m \in Orders(k) : Ordered(k, n)' = Ordered(k, m)
      OBVIOUS
    <2>2. CASE Ordered(k, m) \in pending
      BY <2>1, <2>2
    <2>3. CASE Ordered(k, m) \notin pending
      BY <1>1, <2>3
    <2> QED
      BY <2>2, <2>3
  <1> QED
    BY <1>1, <1>2, <1>3 DEF LoneChild

\* What happens to the calls of the others, or to a call that goes on: none is
\* undone, and what was answered stays.
CallsGoOn ==
    \A c \in AllCalls :
        /\ NotSent(c)' => NotSent(c)
        /\ call[c] = "settled" => call'[c] = "settled" /\ outcome'[c] = outcome[c]

\* Main's side of the world: the processes have the same to do as before.
LEMMA MainKeeps ==
    ASSUME SInv, SameWork(utility, utility'), UNCHANGED <<forks, begun, done>>,
           Shape', CallsGoOn, CallsOK',
           \A k \in U!Children :
              \/ utility'[k].outbox = utility[k].outbox
              \/ utility[k].outbox # <<>> /\ utility'[k].outbox = Tail(utility[k].outbox),
           \A c \in AllCalls : outcome'[c] = "data" => outcome[c] = "data" \/ c \in done,
           LoneChild'
    PROVE  SInv'
  <1>1. NoNewOrders
    BY SameOrders DEF SameWork
  <1>2. OrdersOK' /\ BegunOK'
    BY <1>1, OrdersStay DEF SameWork, CallsGoOn
  <1>3. ResultsOK'
    BY ResultsStay
  <1>4. ForksOK'
    BY DEF SInv, ForksOK, SameWork
  <1> QED
    BY <1>2, <1>3, <1>4 DEF SInv

\* The same, when what is current, and its health, stay.
LEMMA MainLone ==
    ASSUME SInv, SameWork(utility, utility'), UNCHANGED <<child, health, discovered, stopping, closing, quit>>,
           ~quit => \A k \in U!Children : \A n \in Orders(k) :
                       Ordered(k, n) \in pending \ pending' => utility'[k].killed
    PROVE  LoneChild'
  <1>1. \A k \in U!Children : Orders(k)' = Orders(k) /\ \A n \in Orders(k) : Ordered(k, n)' = Ordered(k, n)
    BY DEF Orders, Ordered, SameWork
  <1>2. \A k \in U!Children : \A n \in Orders(k)' : \E m \in Orders(k) : Ordered(k, n)' = Ordered(k, m)
    BY <1>1
  <1>3. /\ \A k \in U!Children : utility'[k].life = "busy" => ~Quiet(k)
        /\ \A k \in U!Children : utility[k].killed => utility'[k].killed
    BY DEF SameWork, Quiet
  <1> QED
    BY <1>2, <1>3, LoneStays

-----------------------------------------------------------------------------
(* The steps of Main.                                                       *)

LEMMA SameMain ==
    ASSUME SInv, utility' = utility
    PROVE  /\ SameWork(utility, utility')
           /\ \A k \in U!Children : utility'[k].outbox = utility[k].outbox
  BY DEF SameWork

LEMMA ExecuteWaits ==
    ASSUME SInv, NEW c \in AllCalls, U!ExecuteHealthy(c) \/ U!ExecuteJoins(c)
    PROVE  SInv' /\ CallsGoOn /\ \A b \in AllCalls \ {c} : call'[b] = call[b]
  <1>1. PICK place \in {"resumed", "starting"} :
           /\ call[c] = "idle" /\ call' = [call EXCEPT ![c] = place]
           /\ UNCHANGED <<child, forks, health, discovered, starting, pending, closing, stopping,
                          outcome, utility, begun, done, quit>>
    BY DEF U!ExecuteHealthy, U!ExecuteJoins
  <1>2. Shape /\ CallsOK
    BY DEF SInv
  <1>3. Shape'
    BY <1>1, <1>2 DEF Shape, U!Places
  <1>4. CallsGoOn
    BY <1>1, <1>2 DEF Shape, CallsGoOn, NotSent
  <1>5. CallsOK'
    BY <1>1, <1>2 DEF Shape, CallsOK
  <1>6. LoneChild'
    BY <1>1, SameMain, MainLone
  <1>7. SInv'
    BY <1>1, <1>3, <1>4, <1>5, <1>6, SameMain, MainKeeps
  <1> QED
    BY <1>1, <1>2, <1>4, <1>7 DEF Shape

\* A fork: nothing is left to do anywhere, or a shutdown has been called.
LEMMA ExecuteForksKeeps ==
    ASSUME SInv, NEW c \in AllCalls, U!ExecuteForks(c)
    PROVE  SInv' /\ CallsGoOn /\ \A b \in AllCalls \ {c} : call'[b] = call[b]
  <1> DEFINE new == forks + 1
  <1>1. /\ call[c] = "idle" /\ call' = [call EXCEPT ![c] = "starting"]
        /\ ~(health = "healthy" /\ discovered) /\ starting = 0 /\ forks < MaxForks
        /\ forks' = new /\ child' = new /\ starting' = new /\ closing' = FALSE
        /\ health' \in {"starting", "restarting"}
        /\ utility' = [utility EXCEPT ![new].life = "booting"]
        /\ UNCHANGED <<discovered, pending, stopping, outcome, begun, done, quit>>
    BY DEF U!ExecuteForks
  <1>2. Shape /\ CallsOK /\ ForksOK /\ LoneChild
    BY DEF SInv
  <1>3. forks \in Nat /\ MaxForks \in Nat /\ new \in Nat /\ new \in U!Children /\ child \in Nat /\ child \in 0 .. new
    BY <1>1, <1>2, ExecutionAssumption DEF Shape, U!Children
  <1> HIDE DEF new
  <1>4. /\ utility' \in UtilityType /\ utility'[new].life = "booting"
        /\ \A k \in U!Children \ {new} : utility'[k] = utility[k]
        /\ \A k \in U!Children : /\ utility'[k].inbox = utility[k].inbox
                                 /\ utility'[k].outbox = utility[k].outbox
                                 /\ utility'[k].killed = utility[k].killed
    <2> DEFINE s == utility[new]
               r == [s EXCEPT !.life = "booting"]
    <2>1. s \in [life : U!Lives, killed : BOOLEAN, work : AllCalls \cup {NoJob},
                 inbox : Seq(U!ToChild), outbox : Seq(U!ToMain)]
      BY <1>2, <1>3 DEF Shape, UtilityType
    <2>2. utility' = [utility EXCEPT ![new] = r]
      BY <1>1
    <2> HIDE DEF s
    <2>3. /\ r \in [life : U!Lives, killed : BOOLEAN, work : AllCalls \cup {NoJob},
                    inbox : Seq(U!ToChild), outbox : Seq(U!ToMain)]
          /\ r.life = "booting" /\ r.inbox = s.inbox /\ r.outbox = s.outbox /\ r.killed = s.killed
      BY <2>1 DEF U!Lives
    <2> HIDE DEF r
    <2>4. utility' \in UtilityType /\ utility'[new] = r /\ \A k \in U!Children \ {new} : utility'[k] = utility[k]
      BY <1>2, <1>3, <2>2, <2>3 DEF Shape, UtilityType
    <2> QED
      BY <2>3, <2>4 DEF s
  <1>5. Shape'
    <2>1. child' \in 0 .. forks' /\ forks' \in 0 .. MaxForks /\ starting' \in {0, child'} /\ stopping' \in 0 .. forks'
      <3>1. new \in 0 .. new /\ new \in 0 .. MaxForks
        BY <1>1, <1>3 DEF U!Children
      <3>2. stopping \in 0 .. new
        BY <1>2, <1>3 DEF Shape, new
      <3> QED
        BY <1>1, <3>1, <3>2
    <2>2. health' \in U!Healths
      BY <1>1 DEF U!Healths
    <2>3. call' \in [AllCalls -> U!Places]
      BY <1>1, <1>2 DEF Shape, U!Places
    <2> QED
      BY <1>1, <1>2, <1>4, <2>1, <2>2, <2>3 DEF Shape
  <1>6. CallsGoOn
    BY <1>1, <1>2 DEF Shape, CallsGoOn, NotSent
  <1>7. CallsOK'
    BY <1>1, <1>2 DEF Shape, CallsOK
  <1>8. NoNewOrders /\ \A k \in U!Children : Orders(k)' \subseteq Orders(k)
    BY <1>4, SameOrders
  <1>9. OrdersOK' /\ BegunOK'
    <2>1. \A k \in U!Children : utility'[k].life = "busy" =>
               utility[k].life = "busy" /\ utility'[k].work = utility[k].work
      BY <1>4
    <2> QED
      BY <1>1, <1>6, <1>8, <2>1, OrdersStay DEF CallsGoOn
  <1>10. ResultsOK'
    BY <1>1, <1>4, ResultsStay
  <1>11. ForksOK'
    <2> SUFFICES ASSUME NEW k \in U!Children
                 PROVE  /\ utility'[k].life = "unborn" <=> k > new
                        /\ utility'[k].life \in {"unborn", "dead", "gone"} => utility'[k].inbox = <<>>
      BY <1>1 DEF ForksOK
    <2>1. CASE k = new
      BY <1>3, <1>4, <2>1
    <2>2. CASE k # new
      <3>1. k \in Nat /\ (k > new <=> k > forks)
        BY <1>2, <1>3, <2>2 DEF U!Children, new
      <3> QED
        BY <1>2, <1>4, <2>2, <3>1 DEF ForksOK
    <2> QED
      BY <2>1, <2>2
  <1>12. LoneChild'
    <2> SUFFICES ASSUME ~quit PROVE LoneChild'
      BY <1>1 DEF LoneChild
    <2>1. \A k \in U!Children : Quiet(k)
      BY <1>1, <1>2 DEF LoneChild
    <2>2. \A k \in U!Children : Quiet(k)'
      BY <1>4, <1>8, <2>1 DEF Quiet
    <2>3. \A k \in U!Children : Orders(k)' = {}
      BY <2>2 DEF Quiet
    <2>4. stopping' = 0 /\ ~closing' /\ health' # "healthy" /\ ~discovered'
      BY <1>1, <1>2 DEF LoneChild
    <2> QED
      BY <2>2, <2>3, <2>4 DEF LoneChild
  <1>13. SInv'
    BY <1>5, <1>7, <1>9, <1>10, <1>11, <1>12 DEF SInv
  <1> QED
    BY <1>1, <1>2, <1>6, <1>13 DEF Shape

IdleStay == \A c \in AllCalls : call[c] = "idle" => call'[c] = "idle"

LEMMA ExecuteRefusesKeeps ==
    ASSUME SInv, NEW c \in AllCalls, U!ExecuteRefuses(c)
    PROVE  SInv' /\ CallsGoOn /\ IdleStay
  <1>1. PICK r \in {"UTILITY_PROCESS_LOST", "JOB_TRANSITION_INVALID", "UTILITY_MESSAGE_INVALID"} :
           /\ call[c] = "resumed" /\ call' = [call EXCEPT ![c] = "settled"]
           /\ outcome' = [outcome EXCEPT ![c] = r]
           /\ UNCHANGED <<child, forks, health, discovered, starting, pending, closing, stopping,
                          utility, begun, done, quit>>
    BY DEF U!ExecuteRefuses, U!Refusals, U!Settle
  <1>2. Shape /\ CallsOK
    BY DEF SInv
  <1>3. Shape'
    BY <1>1, <1>2 DEF Shape, U!Places, U!Outcomes
  <1>4. CallsGoOn /\ IdleStay
    BY <1>1, <1>2 DEF Shape, CallsGoOn, IdleStay, NotSent
  <1>5. CallsOK'
    BY <1>1, <1>2 DEF Shape, CallsOK
  <1>6. LoneChild'
    BY <1>1, SameMain, MainLone
  <1>7. \A b \in AllCalls : outcome'[b] = "data" => outcome[b] = "data"
    BY <1>1, <1>2 DEF Shape
  <1> QED
    BY <1>1, <1>3, <1>4, <1>5, <1>6, <1>7, SameMain, MainKeeps

LEMMA CleanupEndsKeeps ==
    ASSUME SInv, NEW c \in AllCalls, U!CleanupEnds(c)
    PROVE  SInv' /\ CallsGoOn /\ IdleStay
  <1>1. /\ call[c] = "cleanup" /\ call' = [call EXCEPT ![c] = "settled"]
        /\ UNCHANGED <<child, forks, health, discovered, starting, pending, closing, stopping,
                       outcome, utility, begun, done, quit>>
    BY DEF U!CleanupEnds
  <1>2. Shape /\ CallsOK
    BY DEF SInv
  <1>3. Shape'
    BY <1>1, <1>2 DEF Shape, U!Places
  <1>4. CallsGoOn /\ IdleStay
    BY <1>1, <1>2 DEF Shape, CallsGoOn, IdleStay, NotSent
  <1>5. CallsOK'
    BY <1>1, <1>2 DEF Shape, CallsOK
  <1>6. LoneChild'
    BY <1>1, SameMain, MainLone
  <1> QED
    BY <1>1, <1>3, <1>4, <1>5, <1>6, SameMain, MainKeeps

LEMMA ChildFacts ==
    ASSUME Shape
    PROVE  {child, starting, stopping} \subseteq U!Children \cup {0}
  <1>1. MaxForks \in Nat /\ forks \in 0 .. MaxForks /\ child \in 0 .. forks /\ stopping \in 0 .. forks
    BY ExecutionAssumption DEF Shape
  <1>2. {child, stopping} \subseteq U!Children \cup {0}
    BY <1>1 DEF U!Children
  <1> QED
    BY <1>2 DEF Shape

\* The child that is killed is the one that holds the order.
LEMMA OperationTimeoutKeeps ==
    ASSUME SInv, NEW c \in AllCalls, U!OperationTimeout(c)
    PROVE  SInv' /\ CallsGoOn /\ IdleStay
  <1>1. /\ c \in pending /\ pending' = pending \ {c} /\ utility' = U!Killed(utility, child)
        /\ call' = [call EXCEPT ![c] = "cleanup"] /\ outcome' = [outcome EXCEPT ![c] = "JOB_TIMEOUT"]
        /\ UNCHANGED <<child, forks, health, discovered, starting, closing, stopping, begun, done, quit>>
    BY DEF U!OperationTimeout
  <1>2. Shape /\ CallsOK /\ LoneChild
    BY DEF SInv
  <1>3. child \in U!Children \cup {0} /\ utility \in UtilityType
    BY <1>2, ChildFacts DEF Shape
  <1>4. /\ utility' \in UtilityType /\ SameWork(utility, utility')
        /\ \A k \in U!Children : utility'[k].outbox = utility[k].outbox
        /\ child \in U!Children => utility'[child].killed
    BY <1>1, <1>3, KillFacts
  <1>5. Shape'
    BY <1>1, <1>2, <1>4 DEF Shape, U!Places, U!Outcomes
  <1>6. CallsGoOn /\ IdleStay
    BY <1>1, <1>2 DEF Shape, CallsGoOn, CallsOK, IdleStay, NotSent, Refused
  <1>7. CallsOK'
    BY <1>1, <1>2 DEF Shape, CallsOK
  <1>8. LoneChild'
    <2>1. ~quit => \A k \in U!Children : \A n \in Orders(k) : k = child
      BY <1>2 DEF LoneChild, Quiet
    <2> QED
      BY <1>1, <1>4, <2>1, MainLone
  <1>9. \A b \in AllCalls : outcome'[b] = "data" => outcome[b] = "data"
    BY <1>1, <1>2 DEF Shape
  <1> QED
    BY <1>1, <1>4, <1>5, <1>6, <1>7, <1>8, <1>9, MainKeeps

\* A start promise that settles moves those that await it, and no one else.
LEMMA StartFacts ==
    ASSUME Shape, CallsOK, NEW ok \in BOOLEAN, U!StartSettles(ok), pending' = pending
    PROVE  /\ starting' = 0
           /\ call' \in [AllCalls -> U!Places] /\ outcome' \in [AllCalls -> U!Outcomes]
           /\ CallsGoOn /\ IdleStay /\ CallsOK'
           /\ \A c \in AllCalls : outcome'[c] = "data" => outcome[c] = "data"
  <1>1. /\ starting' = 0
        /\ call' = [c \in AllCalls |-> IF call[c] # "starting" THEN call[c]
                                       ELSE IF ok THEN "resumed" ELSE "settled"]
        /\ outcome' = [c \in AllCalls |-> IF call[c] = "starting" /\ ~ok
                                          THEN "UTILITY_HANDSHAKE_FAILED" ELSE outcome[c]]
    BY DEF U!StartSettles, AllCalls
  <1>2. call' \in [AllCalls -> U!Places] /\ outcome' \in [AllCalls -> U!Outcomes]
    BY <1>1 DEF Shape, U!Places, U!Outcomes
  <1>3. CallsGoOn /\ IdleStay
    BY <1>1 DEF CallsGoOn, IdleStay, NotSent
  <1>4. CallsOK'
    BY <1>1 DEF CallsOK
  <1>5. \A c \in AllCalls : outcome'[c] = "data" => outcome[c] = "data"
    BY <1>1
  <1> QED
    BY <1>1, <1>2, <1>3, <1>4, <1>5

LEMMA HandshakeTimeoutKeeps ==
    ASSUME SInv, U!HandshakeTimeout
    PROVE  SInv' /\ CallsGoOn /\ IdleStay
  <1>1. /\ utility' = U!Killed(utility, starting) /\ U!StartSettles(FALSE)
        /\ UNCHANGED <<child, forks, health, discovered, pending, closing, stopping, begun, done, quit>>
    BY DEF U!HandshakeTimeout
  <1>2. Shape /\ CallsOK
    BY DEF SInv
  <1>3. starting \in U!Children \cup {0} /\ utility \in UtilityType
    BY <1>2, ChildFacts DEF Shape
  <1>4. /\ utility' \in UtilityType /\ SameWork(utility, utility')
        /\ \A k \in U!Children : utility'[k].outbox = utility[k].outbox
    BY <1>1, <1>3, KillFacts
  <1>5. /\ starting' = 0 /\ call' \in [AllCalls -> U!Places] /\ outcome' \in [AllCalls -> U!Outcomes]
        /\ CallsGoOn /\ IdleStay /\ CallsOK'
        /\ \A c \in AllCalls : outcome'[c] = "data" => outcome[c] = "data"
    BY <1>1, <1>2, StartFacts
  <1>6. Shape'
    BY <1>1, <1>2, <1>4, <1>5 DEF Shape
  <1>7. LoneChild'
    BY <1>1, <1>4, MainLone
  <1> QED
    BY <1>1, <1>4, <1>5, <1>6, <1>7, MainKeeps

-----------------------------------------------------------------------------
(* Messages and exits.                                                      *)

\* What Main does when it takes a message, whatever the message does to calls.
LEMMA HearsFacts ==
    ASSUME Shape, NEW k \in U!Children, NEW type, U!Hears(k, type)
    PROVE  /\ utility \in UtilityType /\ utility[k].outbox # <<>>
           /\ Head(utility[k].outbox) \in U!ToMain /\ Head(utility[k].outbox).type = type
           /\ Head(utility[k].outbox) = utility[k].outbox[1] /\ 1 \in 1 .. Len(utility[k].outbox)
           /\ k \in U!Children \cup {0}
  <1>1. utility[k].outbox \in Seq(U!ToMain) /\ utility[k].outbox # <<>>
    BY DEF Shape, UtilityType, U!Hears
  <1> QED
    BY <1>1 DEF U!Hears, Shape

LEMMA HeardKilled ==
    ASSUME NEW u \in UtilityType, NEW k \in U!Children, u[k].outbox # <<>>
    PROVE  /\ U!Killed(U!Heard(u, k), k) \in UtilityType
           /\ SameWork(u, U!Killed(U!Heard(u, k), k))
           /\ \A l \in U!Children : U!Killed(U!Heard(u, k), k)[l].outbox =
                                       IF l = k THEN Tail(u[k].outbox) ELSE u[l].outbox
  <1> DEFINE v == U!Heard(u, k)
             w == U!Killed(v, k)
  <1>1. /\ v \in UtilityType /\ SameWork(u, v)
        /\ \A l \in U!Children : v[l].outbox = IF l = k THEN Tail(u[k].outbox) ELSE u[l].outbox
    BY HeardFacts
  <1> HIDE DEF v
  <1>2. w \in UtilityType /\ SameWork(v, w) /\ \A l \in U!Children : w[l].outbox = v[l].outbox
    BY <1>1, KillFacts
  <1> HIDE DEF w
  <1>3. SameWork(u, w)
    BY <1>1, <1>2 DEF SameWork
  <1>4. w \in UtilityType /\ \A l \in U!Children : w[l].outbox = IF l = k THEN Tail(u[k].outbox) ELSE u[l].outbox
    BY <1>1, <1>2
  <1> QED
    BY <1>3, <1>4 DEF v, w

\* A message that only the processes are changed by.
LEMMA MessageOnlyKeeps ==
    ASSUME SInv, NEW k \in U!Children, utility[k].outbox # <<>>,
           utility' \in {U!Heard(utility, k), U!Killed(U!Heard(utility, k), k)},
           UNCHANGED <<child, forks, health, discovered, starting, pending, closing, stopping,
                       call, outcome, begun, done, quit>>
    PROVE  SInv' /\ CallsGoOn /\ IdleStay
  <1>1. Shape /\ CallsOK /\ utility \in UtilityType
    BY DEF SInv, Shape
  <1>2. /\ utility' \in UtilityType /\ SameWork(utility, utility')
        /\ \A l \in U!Children : utility'[l].outbox = IF l = k THEN Tail(utility[k].outbox) ELSE utility[l].outbox
    BY <1>1, HeardFacts, HeardKilled
  <1>3. Shape'
    BY <1>1, <1>2 DEF Shape
  <1>4. CallsGoOn /\ IdleStay /\ CallsOK'
    BY <1>1 DEF CallsGoOn, IdleStay, NotSent, CallsOK
  <1>5. LoneChild'
    BY <1>2, MainLone
  <1> QED
    BY <1>2, <1>3, <1>4, <1>5, MainKeeps

LEMMA InvalidMessageKeeps ==
    ASSUME SInv, NEW k \in U!Children, U!InvalidMessage(k)
    PROVE  SInv' /\ CallsGoOn /\ IdleStay
  <1>1. /\ utility[k].outbox # <<>> /\ utility' = U!Killed(U!Heard(utility, k), k) /\ U!StartSettles(FALSE)
        /\ UNCHANGED <<child, forks, health, discovered, pending, closing, stopping, begun, done, quit>>
    BY DEF U!InvalidMessage, U!Hears
  <1>2. Shape /\ CallsOK /\ utility \in UtilityType
    BY DEF SInv, Shape
  <1>3. /\ utility' \in UtilityType /\ SameWork(utility, utility')
        /\ \A l \in U!Children : utility'[l].outbox = IF l = k THEN Tail(utility[k].outbox) ELSE utility[l].outbox
    BY <1>1, <1>2, HeardKilled
  <1>4. /\ starting' = 0 /\ call' \in [AllCalls -> U!Places] /\ outcome' \in [AllCalls -> U!Outcomes]
        /\ CallsGoOn /\ IdleStay /\ CallsOK'
        /\ \A c \in AllCalls : outcome'[c] = "data" => outcome[c] = "data"
    BY <1>1, <1>2, StartFacts
  <1>5. Shape'
    BY <1>1, <1>2, <1>3, <1>4 DEF Shape
  <1>6. LoneChild'
    BY <1>1, <1>3, MainLone
  <1> QED
    BY <1>1, <1>3, <1>4, <1>5, <1>6, MainKeeps

LEMMA ReadyMessageKeeps ==
    ASSUME SInv, NEW k \in U!Children, U!ReadyMessage(k)
    PROVE  SInv' /\ CallsGoOn /\ IdleStay
  <1>1. /\ k = child /\ utility[k].outbox # <<>> /\ utility' = U!Heard(utility, k) /\ U!StartSettles(TRUE)
        /\ discovered' = TRUE /\ health' = "healthy"
        /\ UNCHANGED <<child, forks, pending, closing, stopping, begun, done, quit>>
    BY DEF U!ReadyMessage, U!Hears
  <1>2. Shape /\ CallsOK /\ LoneChild /\ utility \in UtilityType
    BY DEF SInv, Shape
  <1>3. /\ utility' \in UtilityType /\ SameWork(utility, utility')
        /\ \A l \in U!Children : utility'[l].outbox = IF l = k THEN Tail(utility[k].outbox) ELSE utility[l].outbox
    BY <1>1, <1>2, HeardFacts
  <1>4. /\ starting' = 0 /\ call' \in [AllCalls -> U!Places] /\ outcome' \in [AllCalls -> U!Outcomes]
        /\ CallsGoOn /\ IdleStay /\ CallsOK'
        /\ \A c \in AllCalls : outcome'[c] = "data" => outcome[c] = "data"
    BY <1>1, <1>2, StartFacts
  <1>5. Shape'
    BY <1>1, <1>2, <1>3, <1>4 DEF Shape, U!Healths
  <1>6. LoneChild'
    <2> SUFFICES ASSUME ~quit PROVE LoneChild'
      BY <1>1 DEF LoneChild
    <2>1. \A l \in U!Children : Orders(l)' = Orders(l) /\ \A n \in Orders(l) : Ordered(l, n)' = Ordered(l, n)
      BY <1>3 DEF Orders, Ordered, SameWork
    <2>2. /\ stopping = 0 /\ ~closing
          /\ \A l \in U!Children : l # child => Quiet(l)
          /\ \A l \in U!Children : \A n \in Orders(l) : Ordered(l, n) \notin pending => utility[l].killed
      BY <1>2 DEF LoneChild
    <2>3. \A l \in U!Children : l # child' => Quiet(l)'
      BY <1>1, <1>3, <2>1, <2>2 DEF Quiet, SameWork
    <2>4. \A l \in U!Children : \A n \in Orders(l)' : Ordered(l, n)' \notin pending' => utility'[l].killed
      BY <1>1, <1>3, <2>1, <2>2 DEF SameWork
    <2>5. child' # 0
      BY <1>1 DEF U!Children
    <2> QED
      BY <1>1, <2>2, <2>3, <2>4, <2>5 DEF LoneChild
  <1> QED
    BY <1>1, <1>3, <1>4, <1>5, <1>6, MainKeeps

LEMMA ResultMessageKeeps ==
    ASSUME SInv, NEW k \in U!Children, U!ResultMessage(k)
    PROVE  SInv' /\ CallsGoOn /\ IdleStay
  <1> DEFINE c == Head(utility[k].outbox).id
  <1>1. /\ U!Hears(k, "result") /\ c \in pending /\ pending' = pending \ {c}
        /\ call' = [call EXCEPT ![c] = "settled"] /\ outcome' = [outcome EXCEPT ![c] = "data"]
        /\ utility' = U!Heard(utility, k)
        /\ UNCHANGED <<child, forks, health, discovered, starting, closing, stopping, begun, done, quit>>
    BY DEF U!ResultMessage, U!Settle
  <1>2. Shape /\ OrdersOK /\ BegunOK /\ CallsOK /\ ResultsOK /\ utility \in UtilityType
    BY DEF SInv, Shape
  <1>3. c \in done /\ c \in AllCalls /\ utility[k].outbox # <<>>
    BY <1>1, <1>2, HearsFacts DEF ResultsOK, Shape
  <1> HIDE DEF c
  <1>4. /\ utility' \in UtilityType /\ SameWork(utility, utility')
        /\ \A l \in U!Children : utility'[l].outbox = IF l = k THEN Tail(utility[k].outbox) ELSE utility[l].outbox
    BY <1>1, <1>2, <1>3, HeardFacts
  <1>5. Shape'
    BY <1>1, <1>2, <1>4 DEF Shape, U!Places, U!Outcomes
  <1>6. CallsGoOn /\ IdleStay
    BY <1>1, <1>2 DEF Shape, CallsGoOn, CallsOK, IdleStay, NotSent, Refused
  <1>7. CallsOK'
    BY <1>1, <1>2 DEF Shape, CallsOK
  <1>8. LoneChild'
    <2>1. \A l \in U!Children : \A n \in Orders(l) : Ordered(l, n) # c
      BY <1>2, <1>3 DEF OrdersOK, BegunOK
    <2> QED
      BY <1>1, <1>4, <2>1, MainLone
  <1>9. \A b \in AllCalls : outcome'[b] = "data" => outcome[b] = "data" \/ b \in done
    BY <1>1, <1>2, <1>3 DEF Shape
  <1> QED
    BY <1>1, <1>3, <1>4, <1>5, <1>6, <1>7, <1>8, <1>9, MainKeeps

LEMMA MessageKeeps ==
    ASSUME SInv, NEW k \in U!Children, U!Message(k)
    PROVE  SInv' /\ CallsGoOn /\ IdleStay
  <1>1. CASE U!IgnoredMessage(k)
    BY <1>1, MessageOnlyKeeps DEF U!IgnoredMessage, U!mainVars
  <1>2. CASE U!OversizedMessage(k)
    BY <1>2, MessageOnlyKeeps DEF U!OversizedMessage, U!Hears, U!mainVars
  <1>3. CASE U!UnknownJobMessage(k)
    BY <1>3, MessageOnlyKeeps DEF U!UnknownJobMessage, U!Hears, U!mainVars
  <1> QED
    BY <1>1, <1>2, <1>3, ReadyMessageKeeps, InvalidMessageKeeps, ResultMessageKeeps DEF U!Message

LEMMA ExitKeeps ==
    ASSUME SInv, NEW k \in U!Children, U!Exit(k)
    PROVE  SInv' /\ CallsGoOn /\ IdleStay
  <1>1. /\ utility[k].life = "dead"
        /\ utility' = [utility EXCEPT ![k].life = "gone", ![k].outbox = <<>>]
        /\ stopping' = IF stopping = k THEN 0 ELSE stopping
        /\ health' = U!HealthAfterExit(k)
        /\ UNCHANGED <<forks, closing, begun, done, quit>>
    BY DEF U!Exit
  <1>2. Shape /\ OrdersOK /\ BegunOK /\ CallsOK /\ ForksOK /\ LoneChild
    BY DEF SInv
  <1>3. /\ utility' \in UtilityType /\ utility'[k].life = "gone" /\ utility'[k].outbox = <<>>
        /\ \A l \in U!Children \ {k} : utility'[l] = utility[l]
        /\ \A l \in U!Children : /\ utility'[l].inbox = utility[l].inbox
                                 /\ utility'[l].killed = utility[l].killed
                                 /\ utility'[l].work = utility[l].work
    <2> DEFINE s == utility[k]
               r == [s EXCEPT !.life = "gone", !.outbox = <<>>]
    <2>1. s \in [life : U!Lives, killed : BOOLEAN, work : AllCalls \cup {NoJob},
                 inbox : Seq(U!ToChild), outbox : Seq(U!ToMain)]
      BY <1>2 DEF Shape, UtilityType
    <2>2. utility' = [utility EXCEPT ![k] = r]
      BY <1>1, <1>2 DEF Shape, UtilityType
    <2> HIDE DEF s
    <2>3. <<>> \in Seq(U!ToMain) /\ "gone" \in U!Lives
      BY DEF U!Lives
    <2>4. /\ r \in [life : U!Lives, killed : BOOLEAN, work : AllCalls \cup {NoJob},
                    inbox : Seq(U!ToChild), outbox : Seq(U!ToMain)]
          /\ r.life = "gone" /\ r.outbox = <<>> /\ r.inbox = s.inbox /\ r.killed = s.killed /\ r.work = s.work
      BY <2>1, <2>3
    <2> HIDE DEF r
    <2>5. utility' \in UtilityType /\ utility'[k] = r /\ \A l \in U!Children \ {k} : utility'[l] = utility[l]
      BY <1>2, <2>2, <2>4 DEF Shape, UtilityType
    <2> QED
      BY <2>4, <2>5 DEF s
  <1>4. /\ child' \in {child, 0} /\ discovered' \in BOOLEAN /\ starting' \in {0, child'}
        /\ pending' \subseteq AllCalls
        /\ call' \in [AllCalls -> U!Places] /\ outcome' \in [AllCalls -> U!Outcomes]
        /\ CallsGoOn /\ IdleStay /\ CallsOK'
        /\ \A c \in AllCalls : outcome'[c] = "data" => outcome[c] = "data"
        /\ child = k => child' = 0 /\ ~discovered' /\ pending' = {}
        /\ child # k => UNCHANGED <<child, discovered, pending>>
    <2>1. CASE child = k
      <3>1. /\ child' = 0 /\ discovered' = FALSE /\ starting' = 0 /\ pending' = {}
            /\ call' = [c \in AllCalls |-> IF call[c] = "starting" THEN "settled"
                                           ELSE IF c \in pending THEN "cleanup" ELSE call[c]]
            /\ outcome' = [c \in AllCalls |->
                  IF call[c] = "starting" THEN "UTILITY_HANDSHAKE_FAILED"
                  ELSE IF c \in pending THEN "UTILITY_PROCESS_LOST"
                  ELSE outcome[c]]
        BY <2>1 DEF U!Exit, U!CallAfterExit, AllCalls
      <3>2. call' \in [AllCalls -> U!Places] /\ outcome' \in [AllCalls -> U!Outcomes]
        BY <1>2, <3>1 DEF Shape, U!Places, U!Outcomes
      <3>3. CallsGoOn /\ IdleStay
        BY <1>2, <3>1 DEF CallsGoOn, IdleStay, NotSent, CallsOK, Refused
      <3>4. CallsOK'
        BY <1>2, <3>1 DEF CallsOK
      <3> QED
        BY <2>1, <3>1, <3>2, <3>3, <3>4
    <2>2. CASE child # k
      <3>1. UNCHANGED <<child, discovered, starting, pending, call, outcome>>
        BY <2>2 DEF U!Exit
      <3> QED
        BY <1>2, <2>2, <3>1 DEF Shape, CallsGoOn, IdleStay, NotSent, CallsOK
    <2> QED
      BY <2>1, <2>2
  <1>5. health' \in U!Healths
    BY <1>1, <1>2 DEF Shape, U!Healths, U!HealthAfterExit
  <1>6. Shape'
    <2>1. child' \in 0 .. forks' /\ stopping' \in 0 .. forks'
      BY <1>1, <1>2, <1>4 DEF Shape
    <2> QED
      BY <1>1, <1>2, <1>3, <1>4, <1>5, <2>1 DEF Shape
  <1>7. NoNewOrders /\ \A l \in U!Children : Orders(l)' = Orders(l) /\ \A n \in Orders(l) : Ordered(l, n)' = Ordered(l, n)
    BY <1>3, SameOrders DEF Orders, Ordered
  <1>8. \A l \in U!Children : utility'[l].life = "busy" =>
            utility[l].life = "busy" /\ utility'[l].work = utility[l].work
    BY <1>3
  <1>9. OrdersOK' /\ BegunOK'
    BY <1>1, <1>4, <1>7, <1>8, OrdersStay DEF CallsGoOn
  <1>10. ResultsOK'
    <2>1. \A l \in U!Children : utility'[l].outbox \in {utility[l].outbox, <<>>}
      BY <1>3
    <2> QED
      BY <1>1, <1>4, <2>1, ResultsStay
  <1>11. ForksOK'
    BY <1>1, <1>2, <1>3 DEF ForksOK
  <1>12. LoneChild'
    <2> SUFFICES ASSUME ~quit PROVE LoneChild'
      BY <1>1 DEF LoneChild
    <2>1. /\ stopping = 0 /\ ~closing /\ (discovered <=> health = "healthy")
          /\ health = "healthy" => child # 0
          /\ \A l \in U!Children : l # child \/ health # "healthy" => Quiet(l)
          /\ \A l \in U!Children : \A n \in Orders(l) : Ordered(l, n) \notin pending => utility[l].killed
      BY <1>2 DEF LoneChild
    <2>2. \A l \in U!Children : Quiet(l) => Quiet(l)'
      BY <1>7, <1>8 DEF Quiet
    <2>3. stopping' = 0 /\ ~closing' /\ k # 0
      BY <1>1, <2>1 DEF U!Children
    <2>4. CASE child # k
      <3>1. health' = health /\ UNCHANGED <<child, discovered, pending>>
        BY <1>1, <1>4, <2>1, <2>3, <2>4 DEF U!HealthAfterExit
      <3> QED
        BY <1>3, <1>7, <2>1, <2>2, <2>3, <3>1 DEF LoneChild
    <2>5. CASE child = k
      <3>1. health' = "failed" /\ ~discovered' /\ child' = 0
        BY <1>1, <1>4, <2>1, <2>3, <2>5 DEF U!HealthAfterExit
      <3>2. Orders(k) = {} /\ Quiet(k)'
        <4>1. utility[k].inbox = <<>> /\ Len(<<>>) = 0
          BY <1>1, <1>2 DEF ForksOK
        <4>2. Orders(k) = {}
          BY <4>1 DEF Orders
        <4> QED
          BY <1>3, <1>7, <4>2 DEF Quiet
      <3>3. \A l \in U!Children : Quiet(l)'
        BY <2>1, <2>2, <2>5, <3>2
      <3>4. \A l \in U!Children : Orders(l)' = {}
        BY <3>3 DEF Quiet
      <3> QED
        BY <2>3, <3>1, <3>3, <3>4 DEF LoneChild
    <2> QED
      BY <2>4, <2>5
  <1> QED
    BY <1>4, <1>6, <1>9, <1>10, <1>11, <1>12 DEF SInv

\* A message that orders nothing.
LEMMA NoOrderPosted ==
    ASSUME SInv, \A l \in U!Children :
              \/ utility'[l].inbox = utility[l].inbox
              \/ utility'[l].inbox = Append(utility[l].inbox, [type |-> "shutdown"])
    PROVE  NoNewOrders /\ \A l \in U!Children : Orders(l)' \subseteq Orders(l)
  <1>1. \A l \in U!Children : \A n \in Orders(l)' :
           n \in Nat /\ n \in Orders(l) /\ utility'[l].inbox[n] = utility[l].inbox[n]
    <2> SUFFICES ASSUME NEW l \in U!Children, NEW n \in Orders(l)'
                 PROVE  n \in Nat /\ n \in Orders(l) /\ utility'[l].inbox[n] = utility[l].inbox[n]
      OBVIOUS
    <2> DEFINE old == utility[l].inbox
               new == utility'[l].inbox
               m == [type |-> "shutdown"]
    <2>1. /\ old \in Seq(U!ToChild) /\ n \in 1 .. Len(new) /\ new[n].type = "execute"
          /\ new = old \/ new = Append(old, m)
      BY DEF SInv, Shape, UtilityType, Orders
    <2>2. m.type = "shutdown" /\ m \in U!ToChild
      BY DEF U!ToChild
    <2> HIDE DEF old, new, m
    <2>3. n \in 1 .. Len(old) /\ new[n] = old[n]
      <3>1. CASE new = old
        BY <2>1, <3>1
      <3>2. CASE new = Append(old, m)
        <4>1. Len(new) = Len(old) + 1 /\ new[Len(old) + 1] = m /\ \A i \in 1 .. Len(old) : new[i] = old[i]
          BY <2>1, <2>2, <3>2
        <4> QED
          BY <2>1, <2>2, <4>1
      <3> QED
        BY <2>1, <3>1, <3>2
    <2> QED
      BY <2>1, <2>3 DEF Orders, old, new
  <1> DEFINE d == [l \in U!Children |-> 0]
  <1>2. d \in [U!Children -> {0, 1}] /\ \A l \in U!Children : d[l] = 0
    OBVIOUS
  <1> HIDE DEF d
  <1>3. \A l \in U!Children : \A n \in Orders(l)' :
            n + d[l] \in Orders(l) /\ utility'[l].inbox[n] = utility[l].inbox[n + d[l]]
    BY <1>1, <1>2
  <1> QED
    BY <1>1, <1>2, <1>3 DEF NoNewOrders

LEMMA ShutdownKeeps ==
    ASSUME SInv, U!Shutdown
    PROVE  SInv' /\ CallsGoOn /\ IdleStay
  <1>1. /\ quit' = TRUE /\ closing' = TRUE
        /\ UNCHANGED <<child, forks, discovered, starting, pending, call, outcome, begun, done>>
    BY DEF U!Shutdown
  <1>2. Shape /\ CallsOK /\ ForksOK
    BY DEF SInv
  <1>3. /\ utility' \in UtilityType /\ health' \in U!Healths /\ stopping' \in 0 .. forks
        /\ \A l \in U!Children :
              /\ utility'[l].life = utility[l].life /\ utility'[l].work = utility[l].work
              /\ utility'[l].outbox = utility[l].outbox
              /\ \/ utility'[l].inbox = utility[l].inbox
                 \/ /\ utility'[l].inbox = Append(utility[l].inbox, [type |-> "shutdown"])
                    /\ l = child /\ utility[l].life \notin {"dead", "gone"}
    <2>1. CASE child = 0
      BY <1>2, <2>1 DEF U!Shutdown, Shape, U!Healths
    <2>2. CASE child # 0
      <3>1. /\ stopping' = child /\ health' = health
            /\ utility' = U!Posted(utility, child, [type |-> "shutdown"])
        BY <2>2 DEF U!Shutdown
      <3>2. child \in U!Children /\ [type |-> "shutdown"] \in U!ToChild /\ utility \in UtilityType
        <4>1. [type |-> "shutdown"] \in U!ToChild
          BY DEF U!ToChild
        <4> QED
          BY <1>2, <2>2, <4>1, ChildFacts DEF Shape
      <3>3. /\ utility' \in UtilityType
            /\ \A l \in U!Children :
                  /\ utility'[l].life = utility[l].life /\ utility'[l].work = utility[l].work
                  /\ utility'[l].outbox = utility[l].outbox
                  /\ utility'[l].inbox =
                       IF l = child /\ utility[child].life \notin {"dead", "gone"}
                       THEN Append(utility[child].inbox, [type |-> "shutdown"]) ELSE utility[l].inbox
        BY <3>1, <3>2, PostFacts
      <3>4. stopping' \in 0 .. forks /\ health' \in U!Healths
        BY <1>2, <3>1 DEF Shape
      <3> QED
        BY <3>3, <3>4
    <2> QED
      BY <2>1, <2>2
  <1>4. Shape'
    BY <1>1, <1>2, <1>3 DEF Shape
  <1>5. CallsGoOn /\ IdleStay /\ CallsOK'
    BY <1>1, <1>2 DEF CallsGoOn, IdleStay, NotSent, CallsOK
  <1>6. NoNewOrders
    BY <1>3, NoOrderPosted
  <1>7. OrdersOK' /\ BegunOK'
    BY <1>1, <1>3, <1>5, <1>6, OrdersStay DEF CallsGoOn
  <1>8. ResultsOK'
    BY <1>1, <1>3, ResultsStay
  <1>9. ForksOK'
    <2> SUFFICES ASSUME NEW l \in U!Children
                 PROVE  /\ utility'[l].life = "unborn" <=> l > forks
                        /\ utility'[l].life \in {"unborn", "dead", "gone"} => utility'[l].inbox = <<>>
      BY <1>1 DEF ForksOK
    <2>1. l = child => ~(l > forks)
      BY <1>2, ExecutionAssumption DEF Shape
    <2> QED
      BY <1>2, <1>3, <2>1 DEF ForksOK
  <1>10. LoneChild'
    BY <1>1 DEF LoneChild
  <1> QED
    BY <1>4, <1>5, <1>7, <1>8, <1>9, <1>10 DEF SInv

LEMMA ShutdownTimeoutKeeps ==
    ASSUME SInv, U!ShutdownTimeout
    PROVE  SInv' /\ CallsGoOn /\ IdleStay
  <1>1. /\ stopping # 0 /\ utility' = U!Killed(utility, stopping) /\ stopping' = 0 /\ health' = "stopped"
        /\ UNCHANGED <<child, forks, discovered, starting, pending, closing, call, outcome, begun, done, quit>>
    BY DEF U!ShutdownTimeout
  <1>2. Shape /\ CallsOK /\ LoneChild
    BY DEF SInv
  <1>3. stopping \in U!Children \cup {0} /\ utility \in UtilityType
    BY <1>2, ChildFacts DEF Shape
  <1>4. /\ utility' \in UtilityType /\ SameWork(utility, utility')
        /\ \A k \in U!Children : utility'[k].outbox = utility[k].outbox
    BY <1>1, <1>3, KillFacts
  <1>5. Shape'
    BY <1>1, <1>2, <1>4, ExecutionAssumption DEF Shape, U!Healths
  <1>6. CallsGoOn /\ IdleStay /\ CallsOK'
    BY <1>1, <1>2 DEF CallsGoOn, IdleStay, NotSent, CallsOK
  <1>7. LoneChild'
    BY <1>1, <1>2 DEF LoneChild
  <1> QED
    BY <1>1, <1>4, <1>5, <1>6, <1>7, MainKeeps


\* The call that is posted is in no inbox before, and was never begun.
LEMMA ExecutePostsKeeps ==
    ASSUME SInv, NEW c \in AllCalls, U!ExecutePosts(c)
    PROVE  SInv' /\ CallsGoOn /\ IdleStay
  <1> DEFINE m == [type |-> "execute", id |-> c]
  <1>1. /\ call[c] = "resumed" /\ child # 0 /\ health = "healthy" /\ pending = {}
        /\ pending' = pending \cup {c} /\ call' = [call EXCEPT ![c] = "posted"]
        /\ utility' = U!Posted(utility, child, m)
        /\ UNCHANGED <<child, forks, health, discovered, starting, closing, stopping, outcome, begun, done, quit>>
    BY DEF U!ExecutePosts
  <1>2. Shape /\ OrdersOK /\ BegunOK /\ CallsOK /\ ForksOK /\ LoneChild
    BY DEF SInv
  <1>3. m \in U!ToChild /\ m.type = "execute" /\ m.id = c
    BY DEF U!ToChild, AllCalls
  <1> HIDE DEF m
  <1>4. child \in U!Children /\ utility \in UtilityType /\ utility[child].inbox \in Seq(U!ToChild)
    <2>1. child \in U!Children /\ utility \in UtilityType
      BY <1>1, <1>2, ChildFacts DEF Shape
    <2> QED
      BY <2>1 DEF UtilityType
  <1>5. /\ utility' \in UtilityType
        /\ \A l \in U!Children :
              /\ utility'[l].life = utility[l].life /\ utility'[l].work = utility[l].work
              /\ utility'[l].killed = utility[l].killed /\ utility'[l].outbox = utility[l].outbox
              /\ utility'[l].inbox = IF l = child /\ utility[child].life \notin {"dead", "gone"}
                                     THEN Append(utility[child].inbox, m) ELSE utility[l].inbox
    BY <1>1, <1>3, <1>4, PostFacts
  <1>6. Shape'
    BY <1>1, <1>2, <1>5 DEF Shape, U!Places
  <1>7. outcome[c] = "none" /\ NotSent(c) /\ ~NotSent(c)'
    BY <1>1, <1>2 DEF CallsOK, NotSent, Shape, Refused
  <1>8. CallsGoOn /\ IdleStay
    BY <1>1, <1>2, <1>7 DEF Shape, CallsGoOn, IdleStay, NotSent
  <1>9. CallsOK'
    BY <1>1, <1>2 DEF Shape, CallsOK
  <1>10. \A l \in U!Children : \A n \in Orders(l)' :
            \/ n \in Orders(l) /\ Ordered(l, n)' = Ordered(l, n)
            \/ l = child /\ n = Len(utility[child].inbox) + 1 /\ Ordered(l, n)' = c
    <2> SUFFICES ASSUME NEW l \in U!Children, NEW n \in Orders(l)'
                 PROVE  \/ n \in Orders(l) /\ Ordered(l, n)' = Ordered(l, n)
                        \/ l = child /\ n = Len(utility[child].inbox) + 1 /\ Ordered(l, n)' = c
      OBVIOUS
    <2>1. n \in 1 .. Len(utility'[l].inbox) /\ utility'[l].inbox[n].type = "execute"
      BY DEF Orders
    <2>2. CASE utility'[l].inbox = utility[l].inbox
      BY <2>1, <2>2 DEF Orders, Ordered
    <2>3. CASE l = child /\ utility'[l].inbox = Append(utility[child].inbox, m)
      <3>1. /\ Len(utility'[l].inbox) = Len(utility[child].inbox) + 1
            /\ utility'[l].inbox[Len(utility[child].inbox) + 1] = m
            /\ \A i \in 1 .. Len(utility[child].inbox) : utility'[l].inbox[i] = utility[child].inbox[i]
        BY <1>3, <1>4, <2>3
      <3>2. n \in 1 .. Len(utility[child].inbox) \/ n = Len(utility[child].inbox) + 1
        BY <1>4, <2>1, <3>1
      <3> QED
        BY <1>3, <2>1, <2>3, <3>1, <3>2 DEF Orders, Ordered
    <2> QED
      BY <1>5, <2>2, <2>3
  <1>11. OrdersOK'
    <2>1. \A l \in U!Children : \A n \in Orders(l) :
             /\ Ordered(l, n) \in AllCalls /\ Ordered(l, n) # c
             /\ ~NotSent(Ordered(l, n)) /\ begun[Ordered(l, n)] = 0
      BY <1>2, <1>7, OrderTypes DEF OrdersOK
    <2>2. begun[c] = 0
      BY <1>2, <1>7 DEF BegunOK
    <2>3. \A l \in U!Children : \A n \in Orders(l)' : ~NotSent(Ordered(l, n))' /\ begun'[Ordered(l, n)'] = 0
      <3> SUFFICES ASSUME NEW l \in U!Children, NEW n \in Orders(l)'
                   PROVE  ~NotSent(Ordered(l, n))' /\ begun'[Ordered(l, n)'] = 0
        OBVIOUS
      <3>1. PICK b \in AllCalls : b = Ordered(l, n)' /\ ~NotSent(b)' /\ begun[b] = 0
        BY <1>7, <1>8, <1>10, <2>1, <2>2 DEF CallsGoOn
      <3> QED
        BY <1>1, <3>1 DEF NotSent
    <2>4. \A k, l \in U!Children : \A n \in Orders(k)', i \in Orders(l)' :
             Ordered(k, n)' = Ordered(l, i)' => k = l /\ n = i
      <3> SUFFICES ASSUME NEW k \in U!Children, NEW l \in U!Children, NEW n \in Orders(k)', NEW i \in Orders(l)',
                          Ordered(k, n)' = Ordered(l, i)'
                   PROVE  k = l /\ n = i
        OBVIOUS
      <3>1. /\ \/ n \in Orders(k) /\ Ordered(k, n)' = Ordered(k, n)
               \/ k = child /\ n = Len(utility[child].inbox) + 1 /\ Ordered(k, n)' = c
            /\ \/ i \in Orders(l) /\ Ordered(l, i)' = Ordered(l, i)
               \/ l = child /\ i = Len(utility[child].inbox) + 1 /\ Ordered(l, i)' = c
        BY <1>10
      <3>2. CASE n \in Orders(k) /\ Ordered(k, n)' = Ordered(k, n) /\ i \in Orders(l) /\ Ordered(l, i)' = Ordered(l, i)
        BY <1>2, <3>2 DEF OrdersOK
      <3> QED
        BY <2>1, <3>1, <3>2
    <2> QED
      BY <2>3, <2>4 DEF OrdersOK
  <1>12. BegunOK'
    BY <1>1, <1>2, <1>5, <1>8 DEF BegunOK, CallsGoOn
  <1>13. ResultsOK'
    BY <1>1, <1>5, ResultsStay
  <1>14. ForksOK'
    <2> SUFFICES ASSUME NEW l \in U!Children
                 PROVE  /\ utility'[l].life = "unborn" <=> l > forks
                        /\ utility'[l].life \in {"unborn", "dead", "gone"} => utility'[l].inbox = <<>>
      BY <1>1 DEF ForksOK
    <2>1. l = child => ~(l > forks)
      BY <1>2, ExecutionAssumption DEF Shape
    <2> QED
      BY <1>2, <1>5, <2>1 DEF ForksOK
  <1>15. LoneChild'
    <2> SUFFICES ASSUME ~quit PROVE LoneChild'
      BY <1>1 DEF LoneChild
    <2>1. /\ stopping = 0 /\ ~closing /\ discovered
          /\ \A l \in U!Children : l # child => Quiet(l)
          /\ \A l \in U!Children : \A n \in Orders(l) : utility[l].killed
      BY <1>1, <1>2 DEF LoneChild
    <2>2. \A l \in U!Children : l # child => Quiet(l)'
      BY <1>5, <1>10, <2>1 DEF Quiet
    <2>3. \A l \in U!Children : \A n \in Orders(l)' : Ordered(l, n)' \notin pending' => utility'[l].killed
      BY <1>1, <1>5, <1>10, <2>1
    <2> QED
      BY <1>1, <2>1, <2>2, <2>3 DEF LoneChild
  <1> QED
    BY <1>6, <1>8, <1>9, <1>11, <1>12, <1>13, <1>14, <1>15 DEF SInv

-----------------------------------------------------------------------------
(* The steps of the processes.                                              *)

\* A process goes on to another state of its life, with some work or none.
Become(u, k, life, work) == [u EXCEPT ![k].life = life, ![k].work = work]

LEMMA BecomeFacts ==
    ASSUME NEW u \in UtilityType, NEW k \in U!Children, NEW life \in U!Lives, NEW work \in AllCalls \cup {NoJob}
    PROVE  /\ Become(u, k, life, work) \in UtilityType
           /\ Become(u, k, life, work)[k].life = life
           /\ Become(u, k, life, work)[k].inbox = u[k].inbox
           /\ Become(u, k, life, work)[k].outbox = u[k].outbox
           /\ Become(u, k, life, work)[k].killed = u[k].killed
           /\ \A l \in U!Children \ {k} : Become(u, k, life, work)[l] = u[l]
  <1> DEFINE s == u[k]
             r == [s EXCEPT !.life = life, !.work = work]
  <1>1. s \in [life : U!Lives, killed : BOOLEAN, work : AllCalls \cup {NoJob},
               inbox : Seq(U!ToChild), outbox : Seq(U!ToMain)]
    BY DEF UtilityType
  <1> DEFINE v == Become(u, k, life, work)
  <1>2. v = [u EXCEPT ![k] = r]
    BY DEF UtilityType, Become
  <1> HIDE DEF s, v
  <1>3. /\ r \in [life : U!Lives, killed : BOOLEAN, work : AllCalls \cup {NoJob},
                  inbox : Seq(U!ToChild), outbox : Seq(U!ToMain)]
        /\ r.life = life /\ r.work = work
        /\ r.inbox = s.inbox /\ r.outbox = s.outbox /\ r.killed = s.killed
    BY <1>1
  <1> HIDE DEF r
  <1>4. v \in UtilityType /\ v[k] = r /\ \A l \in U!Children \ {k} : v[l] = u[l]
    BY <1>2, <1>3 DEF UtilityType
  <1> QED
    BY <1>3, <1>4 DEF s, v

\* A process changes what it does without taking an order.
LEMMA ProcessKeeps ==
    ASSUME SInv, UNCHANGED U!mainVars, begun' = begun, utility' \in UtilityType,
           NEW k \in U!Children,
           \A l \in U!Children \ {k} : utility'[l] = utility[l],
           utility[k].life \in {"booting", "idle", "busy"}, utility'[k].life \in {"idle", "busy", "dead"},
           utility'[k].life = "busy" => utility[k].life = "busy" /\ utility'[k].work = utility[k].work,
           utility'[k].inbox \in {utility[k].inbox, <<>>},
           utility'[k].life = "dead" => utility'[k].inbox = <<>>,
           utility'[k].killed = utility[k].killed,
           done' = done \/ (utility[k].life = "busy" /\ done' = done \cup {utility[k].work}),
           \/ utility'[k].outbox = utility[k].outbox
           \/ \E m \in U!ToMain : /\ utility'[k].outbox = Append(utility[k].outbox, m)
                                  /\ m.type = "result" => m.id \in done'
    PROVE  SInv' /\ CallsGoOn /\ IdleStay
  <1>1. Shape /\ BegunOK /\ CallsOK /\ ForksOK
    BY DEF SInv
  <1>2. UNCHANGED <<child, forks, health, discovered, starting, pending, closing, stopping, call, outcome, quit>>
    BY DEF U!mainVars
  <1>3. done' \subseteq AllCalls /\ done \subseteq done'
    BY <1>1 DEF Shape, BegunOK
  <1>4. Shape'
    BY <1>1, <1>2, <1>3 DEF Shape
  <1>5. CallsGoOn /\ IdleStay /\ CallsOK'
    BY <1>1, <1>2 DEF CallsGoOn, IdleStay, NotSent, CallsOK
  <1>6. NoNewOrders /\ \A l \in U!Children : Orders(l)' \subseteq Orders(l)
    BY SameOrders
  <1>7. \A l \in U!Children : \A n \in Orders(l)' : Ordered(l, n)' = Ordered(l, n)
    <2>1. \A l \in U!Children : utility'[l].inbox = utility[l].inbox \/ utility'[l].inbox = <<>>
      OBVIOUS
    <2>2. \A l \in U!Children : utility'[l].inbox = <<>> => Orders(l)' = {}
      BY DEF Orders
    <2> QED
      BY <2>1, <2>2 DEF Ordered
  <1>8. OrdersOK' /\ BegunOK'
    <2>1. \A l \in U!Children : utility'[l].life = "busy" =>
               utility[l].life = "busy" /\ utility'[l].work = utility[l].work
      OBVIOUS
    <2>2. \A c \in done' : c \in done \/ \E l \in U!Children : utility[l].life = "busy" /\ utility[l].work = c
      OBVIOUS
    <2> QED
      BY <1>5, <1>6, <2>1, <2>2, OrdersStay DEF CallsGoOn
  <1>9. ResultsOK'
    BY <1>2, <1>3, ResultsStay
  <1>10. ForksOK'
    BY <1>1, <1>2 DEF ForksOK
  <1>11. LoneChild'
    <2>1. /\ \A l \in U!Children : utility'[l].life = "busy" => ~Quiet(l)
          /\ \A l \in U!Children : utility[l].killed => utility'[l].killed
      BY DEF Quiet
    <2>2. \A l \in U!Children : \A n \in Orders(l)' : \E i \in Orders(l) : Ordered(l, n)' = Ordered(l, i)
      BY <1>6, <1>7
    <2> QED
      BY <1>2, <2>1, <2>2, LoneStays
  <1> QED
    BY <1>4, <1>5, <1>8, <1>9, <1>10, <1>11 DEF SInv

LEMMA BootKeeps ==
    ASSUME SInv, NEW k \in U!Children, utility[k].life = "booting",
           NEW type \in {"ready", "incompatible"},
           utility' = U!Says([utility EXCEPT ![k].life = "idle"], k, [type |-> type]),
           UNCHANGED U!mainVars, UNCHANGED <<begun, done>>
    PROVE  SInv' /\ CallsGoOn /\ IdleStay
  <1> DEFINE v == [utility EXCEPT ![k].life = "idle"]
             m == [type |-> type]
  <1>1. utility' = U!Says(v, k, m)
    OBVIOUS
  <1>2. utility \in UtilityType /\ m \in U!ToMain /\ m.type # "result"
    BY DEF SInv, Shape, U!ToMain
  <1>3. v = Become(utility, k, "idle", utility[k].work)
    BY <1>2 DEF UtilityType, Become
  <1>4. "idle" \in U!Lives /\ utility[k].work \in AllCalls \cup {NoJob}
    BY <1>2 DEF U!Lives, UtilityType
  <1> HIDE DEF v, m
  <1>5. /\ v \in UtilityType
        /\ v[k].life = "idle" /\ v[k].inbox = utility[k].inbox /\ v[k].outbox = utility[k].outbox
        /\ v[k].killed = utility[k].killed
        /\ \A l \in U!Children \ {k} : v[l] = utility[l]
    BY <1>2, <1>3, <1>4, BecomeFacts
  <1>6. /\ utility' \in UtilityType
        /\ utility'[k].life = "idle" /\ utility'[k].inbox = utility[k].inbox
        /\ utility'[k].killed = utility[k].killed /\ utility'[k].outbox = Append(utility[k].outbox, m)
        /\ \A l \in U!Children \ {k} : utility'[l] = utility[l]
    <2>1. /\ U!Says(v, k, m) \in UtilityType
          /\ U!Says(v, k, m)[k].life = v[k].life /\ U!Says(v, k, m)[k].inbox = v[k].inbox
          /\ U!Says(v, k, m)[k].killed = v[k].killed
          /\ U!Says(v, k, m)[k].outbox = Append(v[k].outbox, m)
          /\ \A l \in U!Children \ {k} : U!Says(v, k, m)[l] = v[l]
      BY <1>2, <1>5, SaysFacts
    <2> QED
      BY <1>1, <1>5, <2>1
  <1> QED
    BY <1>2, <1>6, ProcessKeeps

\* A process falls silent: it exits, or it dies.
LEMMA DeadKeeps ==
    ASSUME SInv, NEW k \in U!Children, utility[k].life \in {"booting", "idle", "busy"},
           utility' = U!Dead(utility, k), UNCHANGED U!mainVars, UNCHANGED <<begun, done>>
    PROVE  SInv' /\ CallsGoOn /\ IdleStay
  <1>1. utility \in UtilityType
    BY DEF SInv, Shape
  <1>2. /\ utility' \in UtilityType
        /\ utility'[k].life = "dead" /\ utility'[k].inbox = <<>>
        /\ \A l \in U!Children \ {k} : utility'[l] = utility[l]
        /\ utility'[k].outbox = utility[k].outbox /\ utility'[k].killed = utility[k].killed
    BY <1>1, DeadFacts
  <1> QED
    BY <1>2, ProcessKeeps

\* The native operation is over, and its result is sent or refused by send().
LEMMA FinishKeeps ==
    ASSUME SInv, NEW k \in U!Children, utility[k].life = "busy", U!Executed(k),
           \/ utility' = Become(utility, k, "idle", NoJob)
           \/ utility' = U!Says(Become(utility, k, "idle", NoJob), k, [type |-> "result", id |-> utility[k].work]),
           UNCHANGED U!mainVars, begun' = begun
    PROVE  SInv' /\ CallsGoOn /\ IdleStay
  <1> DEFINE v == Become(utility, k, "idle", NoJob)
             m == [type |-> "result", id |-> utility[k].work]
  <1>1. done' = done \cup {utility[k].work}
    BY DEF U!Executed
  <1>2. utility \in UtilityType /\ utility[k].work \in AllCalls
    BY DEF SInv, Shape, BegunOK
  <1>3. m \in U!ToMain /\ m.id = utility[k].work
    BY <1>2 DEF U!ToMain, AllCalls
  <1>4. (utility' = v \/ utility' = U!Says(v, k, m)) /\ "idle" \in U!Lives
    BY DEF U!Lives
  <1> HIDE DEF m
  <1>5. /\ v \in UtilityType
        /\ v[k].life = "idle" /\ v[k].inbox = utility[k].inbox /\ v[k].outbox = utility[k].outbox
        /\ v[k].killed = utility[k].killed
        /\ \A l \in U!Children \ {k} : v[l] = utility[l]
    BY <1>2, <1>4, BecomeFacts
  <1> HIDE DEF v
  <1>6. /\ utility' \in UtilityType
        /\ utility'[k].life = "idle" /\ utility'[k].inbox = utility[k].inbox
        /\ utility'[k].killed = utility[k].killed
        /\ utility'[k].outbox = utility[k].outbox \/ utility'[k].outbox = Append(utility[k].outbox, m)
        /\ \A l \in U!Children \ {k} : utility'[l] = utility[l]
    <2>1. CASE utility' = v
      BY <1>5, <2>1
    <2>2. CASE utility' = U!Says(v, k, m)
      <3>1. /\ U!Says(v, k, m) \in UtilityType
            /\ U!Says(v, k, m)[k].life = v[k].life /\ U!Says(v, k, m)[k].inbox = v[k].inbox
            /\ U!Says(v, k, m)[k].killed = v[k].killed
            /\ U!Says(v, k, m)[k].outbox = Append(v[k].outbox, m)
            /\ \A l \in U!Children \ {k} : U!Says(v, k, m)[l] = v[l]
        BY <1>3, <1>5, SaysFacts
      <3> QED
        BY <1>5, <2>2, <3>1
    <2> QED
      BY <1>4, <2>1, <2>2
  <1>7. \/ utility'[k].outbox = utility[k].outbox
        \/ \E n \in U!ToMain : /\ utility'[k].outbox = Append(utility[k].outbox, n)
                               /\ n.type = "result" => n.id \in done'
    BY <1>1, <1>3, <1>6
  <1> QED
    BY <1>1, <1>6, <1>7, ProcessKeeps

\* A message that answers nothing.
LEMMA SpeakKeeps ==
    ASSUME SInv, NEW k \in U!Children, utility[k].life \in {"idle", "busy"},
           NEW m \in U!ToMain, m.type # "result", utility' = U!Says(utility, k, m),
           UNCHANGED U!mainVars, UNCHANGED <<begun, done>>
    PROVE  SInv' /\ CallsGoOn /\ IdleStay
  <1>1. utility \in UtilityType
    BY DEF SInv, Shape
  <1>2. /\ utility' \in UtilityType
        /\ utility'[k].life = utility[k].life /\ utility'[k].work = utility[k].work
        /\ utility'[k].inbox = utility[k].inbox
        /\ utility'[k].killed = utility[k].killed /\ utility'[k].outbox = Append(utility[k].outbox, m)
        /\ \A l \in U!Children \ {k} : utility'[l] = utility[l]
    BY <1>1, SaysFacts
  <1> QED
    BY <1>2, ProcessKeeps

LEMMA MisbehaveKeeps ==
    ASSUME SInv, NEW k \in U!Children, U!Misbehave(k)
    PROVE  SInv' /\ CallsGoOn /\ IdleStay
  <1>1. UNCHANGED U!mainVars /\ begun' = begun
    BY DEF U!Misbehave
  <1>2. CASE /\ utility[k].life = "booting" /\ done' = done
             /\ utility' = U!Says([utility EXCEPT ![k].life = "idle"], k, [type |-> "incompatible"])
    BY <1>1, <1>2, BootKeeps
  <1>3. ASSUME utility[k].life \in {"idle", "busy"}, done' = done, NEW t \in {"malformed", "oversized"},
               utility' = U!Says(utility, k, [type |-> t])
        PROVE  SInv' /\ CallsGoOn /\ IdleStay
    <2> DEFINE m == [type |-> t]
    <2>1. m \in U!ToMain /\ m.type # "result"
      BY <1>3 DEF U!ToMain
    <2> QED
      BY <1>1, <1>3, <2>1, SpeakKeeps
  <1>4. CASE /\ utility[k].life = "busy" /\ done' = done
             /\ utility' = U!Says(utility, k, [type |-> "flood", id |-> utility[k].work])
    <2> DEFINE m == [type |-> "flood", id |-> utility[k].work]
    <2>1. utility[k].work \in AllCalls
      BY <1>4 DEF SInv, BegunOK
    <2>2. m \in U!ToMain /\ m.type # "result"
      BY <2>1 DEF U!ToMain, AllCalls
    <2> QED
      BY <1>1, <1>4, <2>2, SpeakKeeps
  <1>5. CASE /\ utility[k].life = "busy" /\ U!Executed(k)
             /\ utility' = [utility EXCEPT ![k].life = "idle", ![k].work = NoJob]
    <2>1. utility' = Become(utility, k, "idle", NoJob)
      BY <1>5 DEF Become
    <2> QED
      BY <1>1, <1>5, <2>1, FinishKeeps
  <1> QED
    BY <1>2, <1>3, <1>4, <1>5 DEF U!Misbehave

\* The order at the head of the inbox was never begun, and no other inbox holds it.
LEMMA ReceiveKeeps ==
    ASSUME SInv, NEW k \in U!Children, U!Receive(k)
    PROVE  SInv' /\ CallsGoOn /\ IdleStay
  <1> DEFINE c == Head(utility[k].inbox).id
             v == [utility EXCEPT ![k].life = "busy", ![k].work = c]
  <1>1. /\ utility[k].life = "idle" /\ utility[k].inbox # <<>> /\ Head(utility[k].inbox).type = "execute"
        /\ utility' = [utility EXCEPT ![k].life = "busy", ![k].work = c, ![k].inbox = Tail(@)]
        /\ begun' = [begun EXCEPT ![c] = @ + 1]
        /\ done' = done
        /\ UNCHANGED <<child, forks, health, discovered, starting, pending, closing, stopping, call, outcome, quit>>
    BY DEF U!Receive, U!mainVars
  <1>2. Shape /\ OrdersOK /\ BegunOK /\ CallsOK /\ ForksOK
    BY DEF SInv
  <1>3. utility \in UtilityType /\ utility[k].inbox \in Seq(U!ToChild)
    BY <1>2 DEF Shape, UtilityType
  <1>4. 1 \in Orders(k) /\ Ordered(k, 1) = c
    BY <1>1, <1>3 DEF Orders, Ordered
  <1>5. c \in AllCalls /\ ~NotSent(c) /\ begun[c] = 0
    BY <1>2, <1>4, OrderTypes DEF OrdersOK
  <1>6. /\ utility' \in UtilityType
        /\ utility'[k].life = "busy" /\ utility'[k].work = c /\ utility'[k].inbox = Tail(utility[k].inbox)
        /\ utility'[k].outbox = utility[k].outbox /\ utility'[k].killed = utility[k].killed
        /\ \A l \in U!Children \ {k} : utility'[l] = utility[l]
    <2> DEFINE s == utility[k]
               r == [s EXCEPT !.life = "busy", !.work = c, !.inbox = Tail(s.inbox)]
    <2>1. s \in [life : U!Lives, killed : BOOLEAN, work : AllCalls \cup {NoJob},
                 inbox : Seq(U!ToChild), outbox : Seq(U!ToMain)]
      BY <1>3 DEF UtilityType
    <2>2. utility' = [utility EXCEPT ![k] = r]
      BY <1>1, <1>3 DEF UtilityType
    <2>3. Tail(s.inbox) \in Seq(U!ToChild) /\ "busy" \in U!Lives
      BY <1>1, <1>3 DEF U!Lives
    <2> HIDE DEF s, c
    <2>4. /\ r \in [life : U!Lives, killed : BOOLEAN, work : AllCalls \cup {NoJob},
                    inbox : Seq(U!ToChild), outbox : Seq(U!ToMain)]
          /\ r.life = "busy" /\ r.work = c /\ r.inbox = Tail(s.inbox)
          /\ r.outbox = s.outbox /\ r.killed = s.killed
      BY <1>5, <2>1, <2>3
    <2> HIDE DEF r
    <2>5. utility' \in UtilityType /\ utility'[k] = r /\ \A l \in U!Children \ {k} : utility'[l] = utility[l]
      BY <1>3, <2>2, <2>4 DEF UtilityType
    <2> QED
      BY <2>4, <2>5 DEF s
  <1>7. begun' \in [AllCalls -> Nat] /\ begun'[c] = 1 /\ \A b \in AllCalls \ {c} : begun'[b] = begun[b]
    BY <1>1, <1>2, <1>5 DEF Shape
  <1> HIDE DEF c
  <1>8. Shape'
    BY <1>1, <1>2, <1>6, <1>7 DEF Shape
  <1>9. CallsGoOn /\ IdleStay /\ CallsOK' /\ \A b \in AllCalls : NotSent(b)' = NotSent(b)
    BY <1>1, <1>2 DEF CallsGoOn, IdleStay, NotSent, CallsOK
  <1>10. \A l \in U!Children : \A n \in Orders(l)' :
            LET i == IF l = k THEN n + 1 ELSE n IN
               n \in Nat /\ i \in Orders(l) /\ Ordered(l, n)' = Ordered(l, i) /\ ~(l = k /\ i = 1)
    <2> SUFFICES ASSUME NEW l \in U!Children, NEW n \in Orders(l)'
                 PROVE  LET i == IF l = k THEN n + 1 ELSE n IN
                           n \in Nat /\ i \in Orders(l) /\ Ordered(l, n)' = Ordered(l, i) /\ ~(l = k /\ i = 1)
      OBVIOUS
    <2>1. n \in 1 .. Len(utility'[l].inbox) /\ utility'[l].inbox[n].type = "execute"
      BY DEF Orders
    <2>2. CASE l # k
      BY <1>6, <2>1, <2>2 DEF Orders, Ordered
    <2>3. CASE l = k
      <3> DEFINE old == utility[k].inbox
      <3>1. old \in Seq(U!ToChild) /\ old # <<>> /\ n \in 1 .. Len(Tail(old)) /\ Tail(old)[n].type = "execute"
        BY <1>1, <1>3, <1>6, <2>1, <2>3
      <3>2. Ordered(k, n)' = Tail(old)[n].id
        BY <1>6 DEF Ordered
      <3> HIDE DEF old
      <3>3. n \in Nat /\ n + 1 \in 1 .. Len(old) /\ Tail(old)[n] = old[n + 1] /\ n + 1 # 1
        BY <3>1
      <3>4. n + 1 \in Orders(k) /\ Ordered(k, n + 1) = old[n + 1].id
        BY <3>1, <3>3 DEF Orders, Ordered, old
      <3> QED
        BY <2>3, <3>2, <3>3, <3>4
    <2> QED
      BY <2>2, <2>3
  <1>11. \A l \in U!Children : \A n \in Orders(l)' : \E i \in Orders(l) :
            Ordered(l, n)' = Ordered(l, i) /\ (l = k => i # 1)
    BY <1>10
  <1>12. OrdersOK'
    <2>1. \A l \in U!Children : \A n \in Orders(l)' : ~NotSent(Ordered(l, n))' /\ begun'[Ordered(l, n)'] = 0
      <3> SUFFICES ASSUME NEW l \in U!Children, NEW n \in Orders(l)'
                   PROVE  ~NotSent(Ordered(l, n))' /\ begun'[Ordered(l, n)'] = 0
        OBVIOUS
      <3>1. PICK i \in Orders(l) : Ordered(l, n)' = Ordered(l, i) /\ (l = k => i # 1)
        BY <1>11
      <3>2. PICK b \in AllCalls : b = Ordered(l, i) /\ ~NotSent(b) /\ begun[b] = 0 /\ b # c
        BY <1>2, <1>4, <3>1, OrderTypes DEF OrdersOK
      <3>3. ~NotSent(b)' /\ begun'[b] = 0
        BY <1>7, <1>9, <3>2
      <3>4. Ordered(l, n)' = b
        BY <3>1, <3>2
      <3> QED
        BY <3>3, <3>4 DEF NotSent
    <2>2. \A l, a \in U!Children : \A n \in Orders(l)', i \in Orders(a)' :
             Ordered(l, n)' = Ordered(a, i)' => l = a /\ n = i
      BY <1>2, <1>10 DEF OrdersOK
    <2> QED
      BY <2>1, <2>2 DEF OrdersOK
  <1>13. BegunOK'
    <2>1. \A b \in AllCalls : begun'[b] \in {0, 1} /\ (begun'[b] = 1 => ~NotSent(b)')
      BY <1>2, <1>5, <1>7, <1>9 DEF BegunOK
    <2>2. \A b \in done' : begun'[b] = 1
      BY <1>1, <1>2, <1>7 DEF BegunOK, Shape
    <2>3. \A l \in U!Children : utility'[l].life = "busy" =>
             utility'[l].work \in AllCalls /\ begun'[utility'[l].work] = 1
      BY <1>2, <1>5, <1>6, <1>7 DEF BegunOK
    <2> QED
      BY <2>1, <2>2, <2>3 DEF BegunOK
  <1>14. ResultsOK'
    BY <1>1, <1>6, ResultsStay
  <1>15. ForksOK'
    BY <1>1, <1>2, <1>6 DEF ForksOK
  <1>16. LoneChild'
    <2>1. /\ \A l \in U!Children : utility'[l].life = "busy" => ~Quiet(l)
          /\ \A l \in U!Children : utility[l].killed => utility'[l].killed
      BY <1>4, <1>6 DEF Quiet
    <2>2. \A l \in U!Children : \A n \in Orders(l)' : \E i \in Orders(l) : Ordered(l, n)' = Ordered(l, i)
      BY <1>11
    <2> QED
      BY <1>1, <2>1, <2>2, LoneStays
  <1> QED
    BY <1>8, <1>9, <1>12, <1>13, <1>14, <1>15, <1>16 DEF SInv

-----------------------------------------------------------------------------
(* All the steps of the supervisor.                                         *)

LEMMA InternalKeeps ==
    ASSUME SInv, U!Internal
    PROVE  SInv' /\ CallsGoOn /\ IdleStay
  <1>1. ASSUME NEW c \in AllCalls, U!Resume(c) \/ U!OperationTimeout(c) \/ U!CleanupEnds(c)
        PROVE  SInv' /\ CallsGoOn /\ IdleStay
    BY <1>1, ExecuteRefusesKeeps, ExecutePostsKeeps, OperationTimeoutKeeps, CleanupEndsKeeps DEF U!Resume
  <1>2. ASSUME NEW k \in U!Children, U!Process(k)
        PROVE  SInv' /\ CallsGoOn /\ IdleStay
    <2>1. CASE U!Boot(k)
      BY <2>1, BootKeeps DEF U!Boot
    <2>2. CASE U!ReceiveAndExit(k)
      BY <2>2, DeadKeeps DEF U!ReceiveAndExit
    <2>3. CASE U!Finish(k)
      <3>1. /\ utility[k].life = "busy" /\ U!Executed(k) /\ UNCHANGED U!mainVars /\ begun' = begun
            /\ utility' = U!Says(Become(utility, k, "idle", NoJob), k, [type |-> "result", id |-> utility[k].work])
        BY <2>3 DEF U!Finish, Become
      <3> QED
        BY <3>1, FinishKeeps
    <2> QED
      BY <1>2, <2>1, <2>2, <2>3, ReceiveKeeps DEF U!Process
  <1>3. ASSUME NEW k \in U!Children, U!Die(k)
        PROVE  SInv' /\ CallsGoOn /\ IdleStay
    BY <1>3, DeadKeeps DEF U!Die, U!Alive
  <1> QED
    BY <1>1, <1>2, <1>3, HandshakeTimeoutKeeps, ShutdownTimeoutKeeps, MessageKeeps, ExitKeeps, MisbehaveKeeps
    DEF U!Internal, AllCalls

LEMMA ExecuteKeeps ==
    ASSUME SInv, NEW c \in AllCalls, U!Execute(c)
    PROVE  SInv' /\ CallsGoOn /\ \A b \in AllCalls \ {c} : call'[b] = call[b]
  BY ExecuteWaits, ExecuteForksKeeps DEF U!Execute

LEMMA SameSupervisor ==
    ASSUME SInv, UNCHANGED supervisor
    PROVE  SInv' /\ CallsGoOn /\ IdleStay
  <1>1. UNCHANGED <<child, forks, health, discovered, starting, pending, closing, stopping, call, outcome,
                    utility, begun, done, quit>>
    BY DEF supervisor
  <1>2. Shape' /\ CallsOK' /\ CallsGoOn /\ IdleStay
    BY <1>1 DEF SInv, Shape, CallsOK, CallsGoOn, IdleStay, NotSent
  <1>3. LoneChild'
    BY <1>1, SameMain, MainLone
  <1> QED
    BY <1>1, <1>2, <1>3, SameMain, MainKeeps

LEMMA InitSInv == U!Init => SInv
  <1> SUFFICES ASSUME U!Init PROVE SInv
    OBVIOUS
  <1>1. /\ child = 0 /\ forks = 0 /\ health = "stopped" /\ discovered = FALSE /\ starting = 0 /\ pending = {}
        /\ closing = FALSE /\ stopping = 0 /\ done = {} /\ quit = FALSE
        /\ call = [c \in AllCalls |-> "idle"] /\ outcome = [c \in AllCalls |-> "none"]
        /\ begun = [c \in AllCalls |-> 0]
        /\ utility = [k \in U!Children |-> U!NoUtility]
    BY DEF U!Init, AllCalls
  <1>2. U!NoUtility \in [life : U!Lives, killed : BOOLEAN, work : AllCalls \cup {NoJob},
                         inbox : Seq(U!ToChild), outbox : Seq(U!ToMain)]
    <2>1. <<>> \in Seq(U!ToChild) /\ <<>> \in Seq(U!ToMain) /\ "unborn" \in U!Lives
      BY DEF U!Lives
    <2> QED
      BY <2>1 DEF U!NoUtility
  <1>3. Shape
    <2>1. utility \in UtilityType
      BY <1>1, <1>2 DEF UtilityType
    <2>2. child \in 0 .. forks /\ forks \in 0 .. MaxForks /\ stopping \in 0 .. forks
      BY <1>1, ExecutionAssumption
    <2>3. health \in U!Healths
      BY <1>1 DEF U!Healths
    <2>4. call \in [AllCalls -> U!Places] /\ outcome \in [AllCalls -> U!Outcomes]
      BY <1>1 DEF U!Places, U!Outcomes
    <2> QED
      BY <1>1, <2>1, <2>2, <2>3, <2>4 DEF Shape
  <1>4. \A k \in U!Children : utility[k].life = "unborn" /\ utility[k].inbox = <<>> /\ utility[k].outbox = <<>>
    BY <1>1 DEF U!NoUtility
  <1>5. \A k \in U!Children : Orders(k) = {} /\ Quiet(k)
    <2>1. Len(<<>>) = 0
      OBVIOUS
    <2> QED
      BY <1>4, <2>1 DEF Orders, Quiet
  <1>6. OrdersOK
    BY <1>5 DEF OrdersOK
  <1>7. BegunOK
    BY <1>1, <1>4 DEF BegunOK
  <1>8. CallsOK
    BY <1>1 DEF CallsOK
  <1>9. ResultsOK
    <2>1. \A k \in U!Children : 1 .. Len(utility[k].outbox) = {}
      BY <1>4
    <2> QED
      BY <1>1, <2>1 DEF ResultsOK
  <1>10. ForksOK
    BY <1>1, <1>4 DEF ForksOK, U!Children
  <1>11. LoneChild
    BY <1>1, <1>5 DEF LoneChild
  <1> QED
    BY <1>3, <1>6, <1>7, <1>8, <1>9, <1>10, <1>11 DEF SInv

-----------------------------------------------------------------------------
(* The scheduler and the supervisor together.                               *)

\* Each step is one of the scheduler, or nothing to it.
LEMMA SchedulerStep ==
    ASSUME ExecutionNext
    PROVE  [Next]_vars
  <1>1. ASSUME NEW j \in Jobs, Submit(j) \/ CancelJob(j)
        PROVE  Next
    BY <1>1 DEF Submit, CancelJob, Next, Client
  <1>2. CASE Dispatch \/ Answer \/ Publish \/ Idle
    BY <1>2 DEF Dispatch, Answer, Publish, Idle, Next, ExecuteReturns
  <1>3. CASE Quit
    BY <1>3 DEF Quit, Next, Client
  <1>4. CASE Supervise \/ \E c \in DirectCalls : Direct(c)
    BY <1>4 DEF Supervise, Direct
  <1> QED
    BY <1>1, <1>2, <1>3, <1>4 DEF ExecutionNext

\* How the state of a job may change.
LEMMA StateChanges ==
    ASSUME IInv, [Next]_vars, NEW j \in Jobs
    PROVE  \/ job'[j].state = job[j].state
           \/ job[j].state = "absent" /\ job'[j].state = "queued"
           \/ job[j].state = "queued" /\ job'[j].state \in {"running", "cancelled"}
           \/ job[j].state = "running" /\ job'[j].state = "cancel_requested"
           \/ running = j /\ job'[j].state \in {"succeeded", "failed"}
  <1>1. [Lifecycle!Next]_states
    BY LifecycleStep
  <1>2. states[j] = job[j].state /\ states'[j] = job'[j].state /\ states \in [Jobs -> {states[i] : i \in Jobs}]
    BY DEF states
  <1>3. job[j].state \in Active => running = j
    BY DEF IInv, SingleRunning
  <1> QED
    BY <1>1, <1>2, <1>3
    DEF Lifecycle!Next, Lifecycle!Submit, Lifecycle!Start, Lifecycle!RequestCancel, Lifecycle!Finish,
        Lifecycle!CancelQueued, Lifecycle!Active, Active, states

\* What a step has to see to of the calls of jobs: only a job that starts begins
\* a call, and the slot is freed, or publishing begins, when the call is settled.
LEMMA JobsAndCallsStep ==
    ASSUME IInv, [Next]_vars, JobsAndCalls, CallsGoOn,
           \A j \in Jobs : call[j] = "idle" /\ call'[j] # "idle" =>
                              job'[j].state \notin {"absent", "queued", "cancelled"},
           \/ running' = running \/ running = NoJob
           \/ call[running] = "settled" /\ (results' = results \/ outcome[running] = "data"),
           stage' = "publishing" =>
              /\ running' = running
              /\ stage = "publishing" \/ (call[running] = "settled" /\ outcome[running] = "data")
    PROVE  JobsAndCalls'
  <1>1. IInv'
    BY IInvStep
  <1> SUFFICES ASSUME NEW j \in Jobs
               PROVE  /\ job'[j].state \in {"absent", "queued", "cancelled"} => call'[j] = "idle"
                      /\ job'[j].state = "failed" => call'[j] = "settled"
                      /\ job'[j].state = "succeeded" \/ (running' = j /\ stage' = "publishing") =>
                            call'[j] = "settled" /\ outcome'[j] = "data"
    BY DEF JobsAndCalls
  <1>2. /\ job[j].state \in {"absent", "queued", "cancelled"} => call[j] = "idle"
        /\ job[j].state = "failed" => call[j] = "settled"
        /\ job[j].state = "succeeded" \/ (running = j /\ stage = "publishing") =>
              call[j] = "settled" /\ outcome[j] = "data"
        /\ call[j] = "settled" => call'[j] = "settled" /\ outcome'[j] = outcome[j]
    BY DEF JobsAndCalls, CallsGoOn, AllCalls
  <1>3. \/ job'[j].state = job[j].state
        \/ job[j].state = "absent" /\ job'[j].state = "queued"
        \/ job[j].state = "queued" /\ job'[j].state \in {"running", "cancelled"}
        \/ job[j].state = "running" /\ job'[j].state = "cancel_requested"
        \/ running = j /\ job'[j].state \in {"succeeded", "failed"}
    BY StateChanges
  <1>4. /\ running = j => job[j].state \in Active /\ j \notin results
        /\ running' = j => job'[j].state \in Active
        /\ job'[j].state = "succeeded" => j \in results'
        /\ NoJob # j
    BY <1>1, SchedulerAssumption DEF IInv, SingleRunning, RecordsOK, Active
  <1>5. CASE job'[j].state \in {"absent", "queued", "cancelled"}
    BY <1>2, <1>3, <1>4, <1>5 DEF Active
  <1>6. CASE job'[j].state = "failed"
    BY <1>2, <1>3, <1>4, <1>6 DEF Active
  <1>7. CASE job'[j].state = "succeeded"
    BY <1>2, <1>3, <1>4, <1>7 DEF Active
  <1>8. CASE running' = j /\ stage' = "publishing"
    BY <1>2, <1>4, <1>8 DEF Active
  <1> QED
    BY <1>5, <1>6, <1>7, <1>8

\* The inductive invariant of the scheduler and the supervisor together.
LEMMA EInvStep == EInv /\ [ExecutionNext]_allvars => EInv' /\ CallsGoOn
  <1> SUFFICES ASSUME EInv, [ExecutionNext]_allvars PROVE EInv' /\ CallsGoOn
    OBVIOUS
  <1>1. IInv /\ SInv /\ JobsAndCalls
    BY DEF EInv
  <1>2. [Next]_vars
    BY SchedulerStep DEF allvars
  <1>3. IInv'
    BY <1>1, <1>2, IInvStep
  <1>4. CASE IdleStay /\ CallsGoOn /\ SInv' /\ UNCHANGED <<running, stage>>
    <2>1. \A j \in Jobs : ~(call[j] = "idle" /\ call'[j] # "idle")
      BY <1>4 DEF IdleStay, AllCalls
    <2>2. JobsAndCalls'
      BY <1>1, <1>2, <1>4, <2>1, JobsAndCallsStep
    <2> QED
      BY <1>3, <1>4, <2>2 DEF EInv
  <1>5. CASE UNCHANGED allvars
    BY <1>1, <1>4, <1>5, SameSupervisor DEF allvars, vars
  <1>6. ASSUME NEW j \in Jobs, Submit(j) \/ CancelJob(j) PROVE EInv' /\ CallsGoOn
    <2>1. UNCHANGED supervisor /\ UNCHANGED <<running, stage>>
      BY <1>6 DEF Submit, CancelJob, Enqueue, CancelQueued, RequestCancel
    <2> QED
      BY <1>1, <1>4, <2>1, SameSupervisor
  <1>7. CASE Idle
    BY <1>1, <1>4, <1>7, SameSupervisor DEF Idle, PumpReturns
  <1>8. CASE Supervise
    BY <1>1, <1>4, <1>8, InternalKeeps DEF Supervise, vars
  <1>9. CASE Quit
    BY <1>1, <1>4, <1>9, ShutdownKeeps DEF Quit, Shutdown, vars
  <1>10. ASSUME NEW c \in DirectCalls, Direct(c) PROVE EInv' /\ CallsGoOn
    <2>1. c \in AllCalls /\ U!Execute(c) /\ UNCHANGED <<running, stage>>
      BY <1>10 DEF Direct, AllCalls, vars
    <2>2. SInv' /\ CallsGoOn /\ \A b \in AllCalls \ {c} : call'[b] = call[b]
      BY <1>1, <2>1, ExecuteKeeps
    <2>3. \A j \in Jobs : ~(call[j] = "idle" /\ call'[j] # "idle")
      BY <2>2, ExecutionAssumption DEF AllCalls
    <2>4. JobsAndCalls'
      BY <1>1, <1>2, <2>1, <2>2, <2>3, JobsAndCallsStep
    <2> QED
      BY <1>3, <2>2, <2>4 DEF EInv
  <1>11. CASE Dispatch
    <2>1. PumpStarts /\ U!Execute(Head(queue)) /\ running = NoJob /\ stage' = "executing" /\ running' = Head(queue)
      BY <1>11 DEF Dispatch, PumpStarts
    <2>2. PICK i \in Jobs : i = Head(queue)
      BY <1>1, <2>1 DEF PumpStarts, IInv, TypeOK
    <2>3. i \in AllCalls /\ U!Execute(i)
      BY <2>1, <2>2 DEF AllCalls
    <2>4. SInv' /\ CallsGoOn /\ \A b \in AllCalls \ {i} : call'[b] = call[b]
      BY <1>1, <2>3, ExecuteKeeps
    <2>5. job'[i].state \in Active
      BY <1>3, <2>1, <2>2 DEF IInv, SingleRunning
    <2>6. \A j \in Jobs : call[j] = "idle" /\ call'[j] # "idle" =>
                              job'[j].state \notin {"absent", "queued", "cancelled"}
      BY <2>4, <2>5 DEF AllCalls, Active
    <2>7. JobsAndCalls'
      BY <1>1, <1>2, <2>1, <2>4, <2>6, JobsAndCallsStep
    <2> QED
      BY <1>3, <2>4, <2>7 DEF EInv
  <1>12. CASE Answer
    <2>1. SInv' /\ CallsGoOn /\ IdleStay
      BY <1>1, <1>12, SameSupervisor DEF Answer
    <2>2. \A j \in Jobs : ~(call[j] = "idle" /\ call'[j] # "idle")
      BY <2>1 DEF IdleStay, AllCalls
    <2>3. /\ call[running] = "settled"
          /\ \/ results' = results /\ stage' = "idle"
             \/ outcome[running] = "data" /\ running' = running
      BY <1>12 DEF Answer, ExecuteFails, PumpEnds, ExecuteSucceeds
    <2>4. JobsAndCalls'
      BY <1>1, <1>2, <2>1, <2>2, <2>3, JobsAndCallsStep
    <2> QED
      BY <1>3, <2>1, <2>4 DEF EInv
  <1>13. CASE Publish
    <2>1. SInv' /\ CallsGoOn /\ IdleStay
      BY <1>1, <1>13, SameSupervisor DEF Publish
    <2>2. \A j \in Jobs : ~(call[j] = "idle" /\ call'[j] # "idle")
      BY <2>1 DEF IdleStay, AllCalls
    <2>3. stage = "publishing" /\ stage' = "idle"
      BY <1>13 DEF Publish, PublishReturns, PublishSucceeds, PublishFails, PumpEnds
    <2>4. running \in Jobs /\ call[running] = "settled" /\ outcome[running] = "data"
      BY <1>1, <2>3, RunningIsActive DEF JobsAndCalls
    <2>5. JobsAndCalls'
      BY <1>1, <1>2, <2>1, <2>2, <2>3, <2>4, JobsAndCallsStep
    <2> QED
      BY <1>3, <2>1, <2>5 DEF EInv
  <1> QED
    BY <1>5, <1>6, <1>7, <1>8, <1>9, <1>10, <1>11, <1>12, <1>13 DEF ExecutionNext

LEMMA InitEInv == ExecutionInit => EInv
  <1> SUFFICES ASSUME Init, U!Init PROVE EInv
    BY DEF ExecutionInit
  <1>1. IInv /\ SInv
    BY InitIInv, InitSInv
  <1>2. JobsAndCalls
    BY SchedulerAssumption DEF JobsAndCalls, Init, U!Init, NoRecord
  <1> QED
    BY <1>1, <1>2 DEF EInv

LEMMA ExecutionInductive == ExecutionSpec => []EInv
  BY InitEInv, EInvStep, PTL DEF ExecutionSpec

-----------------------------------------------------------------------------
(* What follows for the properties.                                         *)

\* A native operation begins at most once: its one order leaves an inbox when it
\* begins, and nothing posts it again, whatever is lost, killed or restarted.
THEOREM NeverReplayed == ExecutionSpec => []NoReplay
  <1>1. EInv => NoReplay
    BY DEF EInv, SInv, BegunOK, NoReplay, U!NoReplay, AllCalls
  <1> QED
    BY <1>1, ExecutionInductive, PTL

\* Data is given only for finished operations, a refused or cancelled call never
\* began, and a succeeded job has the data of its own call.
THEOREM TrueAnswers == ExecutionSpec => []AnswersAreTrue
  <1>1. ASSUME EInv PROVE AnswersAreTrue
    <2>1. BegunOK /\ ResultsOK /\ CallsOK /\ JobsAndCalls
      BY <1>1 DEF EInv, SInv
    <2>2. \A c \in AllCalls : NotSent(c) => begun[c] = 0
      BY <2>1 DEF BegunOK
    <2>3. U!AnswersAreTrue
      BY <2>1, <2>2 DEF U!AnswersAreTrue, ResultsOK, NotSent, Refused, AllCalls
    <2>4. ASSUME NEW j \in Jobs
          PROVE  /\ job[j].state = "succeeded" => j \in done /\ outcome[j] = "data"
                 /\ job[j].state = "cancelled" => begun[j] = 0
      BY <2>1, <2>2 DEF JobsAndCalls, ResultsOK, NotSent, AllCalls
    <2> QED
      BY <2>3, <2>4 DEF AnswersAreTrue
  <1> QED
    BY <1>1, ExecutionInductive, PTL

\* No two Utilities execute at once: a new one is forked only when the last one is
\* gone, or while nothing was left to do in any.
THEOREM OneWriter == ExecutionSpec => []SingleWriter
  <1>1. ASSUME EInv PROVE SingleWriter
    <2> SUFFICES ASSUME ~quit
                 PROVE  Cardinality({k \in U!Children : utility[k].life = "busy"}) <= 1
      <3>1. U!Cardinality({k \in U!Children : utility[k].life = "busy"}) =
               Cardinality({k \in U!Children : utility[k].life = "busy"})
        BY DEF U!Cardinality, Cardinality
      <3> QED
        BY <3>1 DEF SingleWriter, U!SingleWriter
    <2> DEFINE B == {k \in U!Children : utility[k].life = "busy"}
    <2>1. B \subseteq {child}
      BY <1>1 DEF EInv, SInv, LoneChild, Quiet
    <2>2. IsFiniteSet({child}) /\ Cardinality({child}) = 1
      BY FS_Singleton
    <2> HIDE DEF B
    <2>3. Cardinality(B) <= Cardinality({child})
      BY <2>1, <2>2, FS_Subset
    <2> QED
      BY <2>2, <2>3 DEF B
  <1> QED
    BY <1>1, ExecutionInductive, PTL

\* Only a process that takes an order begins an operation.
LEMMA BegunByReceive ==
    ASSUME [ExecutionNext]_allvars, begun' # begun
    PROVE  \E k \in U!Children : U!Receive(k)
  <1>1. \/ \E c \in AllCalls : U!Execute(c)
        \/ U!Shutdown \/ U!Internal
    <2>1. ~ UNCHANGED supervisor
      BY DEF supervisor
    <2>2. CASE Dispatch
      BY <2>2 DEF Dispatch, U!Execute, U!ExecuteHealthy, U!ExecuteJoins, U!ExecuteForks
    <2> QED
      BY <2>1, <2>2 DEF ExecutionNext, allvars, Submit, CancelJob, Direct, Answer, Publish, Idle, Quit,
                        Supervise, AllCalls
  <1>2. U!Internal
    BY <1>1 DEF U!Execute, U!ExecuteHealthy, U!ExecuteJoins, U!ExecuteForks, U!Shutdown
  <1>3. ASSUME NEW c \in AllCalls, U!Resume(c) \/ U!OperationTimeout(c) \/ U!CleanupEnds(c)
        PROVE  begun' = begun
    BY <1>3 DEF U!Resume, U!ExecuteRefuses, U!ExecutePosts, U!OperationTimeout, U!CleanupEnds
  <1>4. ~U!HandshakeTimeout /\ ~U!ShutdownTimeout
    BY DEF U!HandshakeTimeout, U!ShutdownTimeout
  <1>5. ASSUME NEW k \in U!Children, U!Message(k) \/ U!Exit(k)
        PROVE  begun' = begun
    BY <1>5 DEF U!Message, U!Exit, U!IgnoredMessage, U!ReadyMessage, U!InvalidMessage, U!OversizedMessage,
                U!UnknownJobMessage, U!ResultMessage
  <1>6. ASSUME NEW k \in U!Children, U!Boot(k) \/ U!ReceiveAndExit(k) \/ U!Finish(k) \/ U!Die(k) \/ U!Misbehave(k)
        PROVE  begun' = begun
    BY <1>6 DEF U!Boot, U!ReceiveAndExit, U!Finish, U!Die, U!Misbehave
  <1> QED
    BY <1>2, <1>3, <1>4, <1>5, <1>6 DEF U!Internal, U!Process, AllCalls

\* What has ended begins no more, except in a Utility that was told to die: an
\* order that nobody waits for any more is in the inbox of such a one.
THEOREM EndIsFinal == ExecutionSpec => EndedStaysEnded
  <1>1. ASSUME EInv, [ExecutionNext]_allvars, NEW j \in Jobs,
               job[j].state \in Terminal, begun'[j] # begun[j], ~quit
        PROVE  \E k \in U!Children : utility'[k].work = j /\ utility[k].killed
    <2>1. PICK k \in U!Children : U!Receive(k)
      BY <1>1, BegunByReceive
    <2>2. Shape /\ OrdersOK /\ CallsOK /\ LoneChild /\ JobsAndCalls
      BY <1>1 DEF EInv, SInv
    <2> DEFINE c == Head(utility[k].inbox).id
    <2>3. /\ utility[k].inbox # <<>> /\ Head(utility[k].inbox).type = "execute"
          /\ utility' = [utility EXCEPT ![k].life = "busy", ![k].work = c, ![k].inbox = Tail(@)]
          /\ begun' = [begun EXCEPT ![c] = @ + 1]
      BY <2>1 DEF U!Receive
    <2>4. utility \in UtilityType /\ utility[k].inbox \in Seq(U!ToChild) /\ begun \in [AllCalls -> Nat]
      BY <2>2 DEF Shape, UtilityType
    <2>5. c = j
      BY <1>1, <2>3, <2>4 DEF AllCalls
    <2>6. 1 \in Orders(k) /\ Ordered(k, 1) = j
      BY <2>3, <2>4, <2>5 DEF Orders, Ordered
    <2>7. utility'[k].work = j
      BY <2>3, <2>4, <2>5 DEF UtilityType
    <2>8. ~NotSent(j)
      BY <2>2, <2>6 DEF OrdersOK
    <2>9. call[j] # "idle"
      BY <2>8 DEF NotSent
    <2>10. call[j] = "settled"
      BY <1>1, <2>2, <2>9 DEF JobsAndCalls, Terminal
    <2>11. j \notin pending
      BY <2>2, <2>10 DEF CallsOK, AllCalls
    <2>12. utility[k].killed
      BY <1>1, <2>2, <2>6, <2>11 DEF LoneChild
    <2> QED
      BY <2>7, <2>12
  <1>2. EInv /\ [ExecutionNext]_allvars =>
           [\A j \in Jobs :
              job[j].state \in Terminal /\ begun'[j] # begun[j] /\ ~quit =>
                  \E k \in U!Children : utility'[k].work = j /\ utility[k].killed]_allvars
    BY <1>1
  <1> QED
    BY <1>2, ExecutionInductive, PTL DEF ExecutionSpec, EndedStaysEnded


\* The scheduler with its supervisor does what the scheduler with an open answer
\* may do: what is proved of the latter, up to the life cycle of a job that
\* clients are promised, holds of the former.
THEOREM ExecutionImplements == ExecutionSpec => Spec /\ Lifecycle!SafeSpec
  <1>1. ExecutionInit => Init
    BY DEF ExecutionInit
  <1>2. [ExecutionNext]_allvars => [Next]_vars
    BY SchedulerStep DEF allvars
  <1> QED
    BY <1>1, <1>2, Implementation, PTL DEF ExecutionSpec, Spec


-----------------------------------------------------------------------------
(* Events of a job only go forward.                                         *)

Further(r, s) == /\ s.progress.sequence > r.progress.sequence
                 /\ s.progress.units >= r.progress.units

LEMMA ProgressedFurther ==
    ASSUME NEW r \in RecordType, NEW q \in RecordType, q.progress = r.progress,
           NEW p \in Phases, NEW u \in 0..100
    PROVE  Further(r, Progressed(q, p, u))
  <1>1. /\ Progressed(q, p, u).progress.sequence = q.progress.sequence + 1
        /\ Progressed(q, p, u).progress.units >= q.progress.units
    BY ProgressedRecord
  <1>2. q.progress.sequence \in Nat
    BY DEF RecordType, ProgressType
  <1> QED
    BY <1>1, <1>2 DEF Further

\* The end of a job is an event of its own.
LEMMA EndsFurther ==
    ASSUME NEW r \in RecordType
    PROVE  \A s \in {Failed(r), Cancelled(r), Succeeded(r)} :
              /\ Further(r, s) /\ s \in RecordType /\ Completed(s).progress = s.progress
  <1>1. "complete" \in Phases /\ 100 \in 0..100
    BY DEF Phases
  <1>2. Further(r, Failed(r))
    <2> DEFINE q == [r EXCEPT !.state = "failed", !.error = TRUE, !.finished = TRUE]
    <2>1. q \in RecordType /\ q.progress = r.progress
      BY DEF RecordType, JobStates
    <2>2. Failed(r) = Progressed(q, "complete", 100)
      BY DEF Failed
    <2> HIDE DEF q
    <2> QED
      BY <1>1, <2>1, <2>2, ProgressedFurther
  <1>3. Further(r, Cancelled(r))
    <2> DEFINE q == [r EXCEPT !.state = "cancelled", !.finished = TRUE]
    <2>1. q \in RecordType /\ q.progress = r.progress
      BY DEF RecordType, JobStates
    <2>2. Cancelled(r) = Progressed(q, "complete", 100)
      BY DEF Cancelled
    <2> HIDE DEF q
    <2> QED
      BY <1>1, <2>1, <2>2, ProgressedFurther
  <1>4. Further(r, Succeeded(r))
    <2> DEFINE q == [r EXCEPT !.state = "succeeded", !.result = TRUE, !.finished = TRUE]
    <2>1. q \in RecordType /\ q.progress = r.progress
      BY DEF RecordType, JobStates
    <2>2. Succeeded(r) = Progressed(q, "complete", 100)
      BY DEF Succeeded
    <2> HIDE DEF q
    <2> QED
      BY <1>1, <2>1, <2>2, ProgressedFurther
  <1>5. \A s \in RecordType : Completed(s).progress = s.progress
    BY DEF Completed, RecordType
  <1> QED
    BY <1>2, <1>3, <1>4, <1>5, FailedRecord, CancelledRecord, SucceededRecord

\* How the record of a job may change.
LEMMA RecordChanges ==
    ASSUME IInv, [Next]_vars, NEW j \in Jobs
    PROVE  \/ job'[j] = job[j]
           \/ job[j].state # "absent" /\ Further(job[j], job'[j])
           \/ /\ job[j].state = "absent" /\ job'[j].state = "queued"
              /\ job'[j].progress.sequence = 1 /\ job'[j].progress.units = 10
  <1> DEFINE Goes == \/ job'[j] = job[j]
                     \/ job[j].state # "absent" /\ Further(job[j], job'[j])
                     \/ /\ job[j].state = "absent" /\ job'[j].state = "queued"
                        /\ job'[j].progress.sequence = 1 /\ job'[j].progress.units = 10
  <1> SUFFICES Goes
    OBVIOUS
  <1>0. job \in [Jobs -> RecordType]
    BY DEF IInv, TypeOK
  <1>1. ASSUME NEW i \in Jobs, NEW r, SetAndEmit(i, r), job[i].state # "absent", Further(job[i], r)
        PROVE  Goes
    BY <1>0, <1>1 DEF SetAndEmit
  <1> HIDE DEF Goes
  <1>2. ASSUME NEW i \in Jobs, NEW q \in RecordType, q.progress = job[i].progress,
               NEW p \in Phases, NEW u \in 0..100,
               SetAndEmit(i, Progressed(q, p, u)), job[i].state # "absent"
        PROVE  Goes
    <2>1. Further(job[i], Progressed(q, p, u))
      BY <1>0, <1>2, ProgressedFurther
    <2> QED
      BY <1>1, <1>2, <2>1
  <1>3. ASSUME NEW i \in Jobs, NEW s \in {Failed(job[i]), Cancelled(job[i]), Succeeded(job[i])},
               SetAndEmit(i, Completed(s)), job[i].state # "absent"
        PROVE  Goes
    <2>1. Further(job[i], Completed(s))
      BY <1>0, <1>3, EndsFurther DEF Further
    <2> QED
      BY <1>1, <1>3, <2>1
  <1>4. CASE UNCHANGED vars \/ PumpReturns
    BY <1>4 DEF vars, PumpReturns, Goes
  <1>5. ASSUME NEW i \in Jobs, Enqueue(i) PROVE Goes
    <2> DEFINE r == [NoRecord EXCEPT
            !.state = "queued",
            !.progress = [sequence |-> 1, phase |-> "queued", units |-> 10]]
    <2>1. r.state = "queued" /\ r.progress.sequence = 1 /\ r.progress.units = 10
      BY DEF NoRecord
    <2>2. job' = [job EXCEPT ![i] = r] /\ job[i].state = "absent"
      BY <1>5 DEF Enqueue, SetAndEmit
    <2> HIDE DEF r
    <2> QED
      BY <1>0, <2>1, <2>2 DEF Goes
  <1>6. ASSUME NEW o \in Owners, NEW i \in Jobs, CancelQueued(o, i) PROVE Goes
    BY <1>3, <1>6 DEF CancelQueued
  <1>7. ASSUME NEW o \in Owners, NEW i \in Jobs, RequestCancel(o, i) PROVE Goes
    <2> DEFINE q == [job[i] EXCEPT !.state = "cancel_requested"]
    <2>1. q \in RecordType /\ q.progress = job[i].progress /\ job[i].progress.units \in 0..100
      <3>1. job[i].progress \in ProgressType
        BY <1>0 DEF RecordType
      <3>2. job[i].progress.units \in 0..100
        BY <3>1 DEF ProgressType
      <3>3. q \in RecordType /\ q.progress = job[i].progress
        BY <1>0 DEF RecordType, JobStates
      <3> QED
        BY <3>2, <3>3
    <2>2. /\ SetAndEmit(i, Progressed(q, "native-execution", job[i].progress.units))
          /\ job[i].state # "absent" /\ "native-execution" \in Phases
      BY <1>7 DEF RequestCancel, Phases
    <2> HIDE DEF q
    <2> QED
      BY <1>2, <2>1, <2>2
  <1>8. CASE Shutdown
    <2>1. CASE j \in Elements(queue)
      <3>1. job'[j] = Completed(Cancelled(job[j]))
        BY <1>8, <2>1 DEF Shutdown
      <3>2. job[j].state = "queued"
        BY <2>1 DEF IInv, QueueOK
      <3> QED
        BY <1>0, <3>1, <3>2, EndsFurther DEF Goes, Further
    <2>2. CASE j \notin Elements(queue)
      BY <1>8, <2>2 DEF Shutdown, Goes
    <2> QED
      BY <2>1, <2>2
  <1>9. CASE PumpStarts
    <2>1. Head(queue) \in Jobs /\ Head(queue) \in Elements(queue)
      BY <1>9 DEF PumpStarts, IInv, TypeOK, Elements
    <2>2. PICK i \in Jobs : i = Head(queue) /\ job[i].state = "queued"
      BY <2>1 DEF IInv, QueueOK
    <2> DEFINE q == [job[i] EXCEPT !.state = "running"]
    <2>3. q \in RecordType /\ q.progress = job[i].progress
      BY <1>0 DEF RecordType, JobStates
    <2>4. SetAndEmit(i, Progressed(q, "utility-startup", 20)) /\ "utility-startup" \in Phases /\ 20 \in 0..100
      BY <1>9, <2>2 DEF PumpStarts, Phases
    <2> HIDE DEF q
    <2> QED
      BY <1>2, <2>2, <2>3, <2>4
  <1>10. ASSUME stage # "idle" PROVE running \in Jobs /\ job[running] \in RecordType /\ job[running].state # "absent"
    BY <1>10, RunningIsActive DEF Active
  <1>11. CASE Progress
    <2>1. PICK seq \in UtilitySequences, units \in UtilityUnits : UtilityProgress(seq, units)
      BY <1>11 DEF Progress
    <2> DEFINE q == [job[running] EXCEPT !.lastUtilitySequence = seq]
    <2>2. running \in Jobs /\ job[running].state # "absent" /\ q \in RecordType /\ q.progress = job[running].progress
      BY <1>10, <2>1, SchedulerAssumption DEF UtilityProgress, RecordType
    <2>3. SetAndEmit(running, Progressed(q, "native-execution", units)) /\ "native-execution" \in Phases /\ units \in 0..100
      BY <2>1, SchedulerAssumption DEF UtilityProgress, Phases
    <2> HIDE DEF q
    <2> QED
      BY <1>2, <2>2, <2>3
  <1>12. CASE ExecuteReturns \/ PublishReturns
    <2>1. CASE ExecuteSucceeds
      <3>1. SetAndEmit(running, Progressed(job[running], "result-publication", 90)) /\ stage # "idle"
        BY <2>1 DEF ExecuteSucceeds
      <3>2. "result-publication" \in Phases /\ 90 \in 0..100
        BY DEF Phases
      <3> QED
        BY <1>2, <1>10, <3>1, <3>2
    <2>2. CASE ExecuteFails \/ PublishFails \/ PublishSucceeds
      BY <1>3, <1>10, <2>2 DEF ExecuteFails, PublishFails, PublishSucceeds, PumpEnds
    <2> QED
      BY <1>12, <2>1, <2>2 DEF ExecuteReturns, PublishReturns
  <1> QED
    BY <1>4, <1>5, <1>6, <1>7, <1>8, <1>9, <1>11, <1>12 DEF Next, Client

\* A job that was not submitted has not made any progress.
NewOK == \A j \in Jobs : job[j].state = "absent" =>
            job[j].progress.sequence = 0 /\ job[j].progress.units = 0

\* The events of a job have growing numbers, and units that never go back.
THEOREM EventsGrow == Spec => ProgressMonotone
  <1>1. Init => NewOK
    BY DEF Init, NewOK, NoRecord
  <1>2. ASSUME IInv, NewOK, [Next]_vars PROVE NewOK'
    <2> SUFFICES ASSUME NEW j \in Jobs, job'[j].state = "absent"
                 PROVE  job'[j].progress.sequence = 0 /\ job'[j].progress.units = 0
      BY DEF NewOK
    <2>1. job[j].state = "absent"
      BY <1>2, StateChanges
    <2> QED
      BY <1>2, <2>1, RecordChanges DEF NewOK
  <1>3. ASSUME IInv, NewOK, [Next]_vars, NEW j \in Jobs, lastEvent'[j] # lastEvent[j]
        PROVE  /\ lastEvent'[j].progress.sequence > lastEvent[j].progress.sequence
               /\ lastEvent'[j].progress.units >= lastEvent[j].progress.units
    <2>1. lastEvent[j] = Snapshot(job[j]) /\ lastEvent'[j] = Snapshot(job'[j])
      BY <1>3, IInvStep DEF IInv, RecordsOK
    <2>2. lastEvent[j].progress = job[j].progress /\ lastEvent'[j].progress = job'[j].progress
      BY <2>1 DEF Snapshot
    <2>3. job'[j] # job[j]
      BY <1>3, <2>1
    <2>4. \/ Further(job[j], job'[j])
          \/ job[j].state = "absent" /\ job'[j].progress.sequence = 1 /\ job'[j].progress.units = 10
      BY <1>3, <2>3, RecordChanges
    <2> QED
      BY <1>3, <2>2, <2>4 DEF NewOK, Further
  <1>4. IInv /\ NewOK /\ [Next]_vars =>
           [\A j \in Jobs : lastEvent'[j] # lastEvent[j] =>
               /\ lastEvent'[j].progress.sequence > lastEvent[j].progress.sequence
               /\ lastEvent'[j].progress.units >= lastEvent[j].progress.units]_vars
    BY <1>3
  <1>5. IInv /\ NewOK /\ [Next]_vars => NewOK'
    BY <1>2
  <1> QED
    BY <1>1, <1>4, <1>5, Inductive, PTL DEF Spec, ProgressMonotone
=============================================================================
