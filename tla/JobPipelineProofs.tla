-------------------------- MODULE JobPipelineProofs -------------------------
(***************************************************************************)
(* What JobPipeline guarantees for any number of jobs, schedulers and      *)
(* workers, any retry limit and any bound on the stream and the faults.    *)
(***************************************************************************)
EXTENDS JobPipeline, SequenceTheorems, TLAPS

\* Every statement on the jobs table turns a row into a row.
LEMMA RowStatements ==
    ASSUME NEW row \in Row, NEW next \in {"never", "future", "due"}
    PROVE  /\ Locked(row) \in Row /\ Unlocked(row) \in Row
           /\ CronCompleted(row, next) \in Row /\ OneTimeCompleted(row) \in Row
           /\ RetryScheduled(row) \in Row /\ FailedPermanently(row) \in Row
           /\ Fired(row) \in Row /\ Aged(row) \in Row
<1>1. OneMore(row.retryCount) \in 0..MaxRetries
  BY MaxRetriesAssumption DEF Row, OneMore
<1>3. Locked(row) \in Row /\ Unlocked(row) \in Row
  BY DEF Row, Locked, Unlocked
<1>4. CronCompleted(row, next) \in Row
  <2>1. 0 \in 0..MaxRetries
    BY MaxRetriesAssumption
  <2> QED
    BY <2>1 DEF Row, CronCompleted, Update
<1>5. OneTimeCompleted(row) \in Row
  BY DEF Row, OneTimeCompleted, Update
<1>6. RetryScheduled(row) \in Row
  BY <1>1 DEF Row, RetryScheduled, Update
<1>7. FailedPermanently(row) \in Row
  BY <1>1 DEF Row, FailedPermanently, Update
<1>8. Fired(row) \in Row /\ Aged(row) \in Row
  BY DEF Row, Fired, Aged
<1> QED
  BY <1>3, <1>4, <1>5, <1>6, <1>7, <1>8

\* The statements that no input decides.
LEMMA PlainStatements ==
    ASSUME NEW row \in Row
    PROVE  /\ Locked(row) \in Row /\ Unlocked(row) \in Row
           /\ RetryScheduled(row) \in Row /\ FailedPermanently(row) \in Row
           /\ Fired(row) \in Row /\ Aged(row) \in Row
<1>1. "due" \in {"never", "future", "due"}
  OBVIOUS
<1> QED
  BY <1>1, RowStatements

\* A snapshot becomes a message, a message a pending entry, and entries stay
\* entries when a worker abandons its own.
LEMMA MessageTypes ==
    /\ \A snap \in Snapshot : MessageOf(snap) \in Message
    /\ \A j \in Jobs : rows[j] \in Row => SnapshotOf(j) \in Snapshot
    /\ \A m \in Message, w \in Workers \cup {Nobody} : Delivered(m, w) \in Pending
    /\ \A m \in Message : KeyOf(m) \in Key
    /\ \A entries \in SUBSET Pending, w \in Workers :
          Abandon(entries, w) \subseteq Pending
<1>1. \A snap \in Snapshot : MessageOf(snap) \in Message
  BY MaxRetriesAssumption DEF Snapshot, Message, MessageOf
<1>2. /\ \A m \in Message, w \in Workers \cup {Nobody} : Delivered(m, w) \in Pending
      /\ \A m \in Message : KeyOf(m) \in Key
  BY DEF Message, Pending, Delivered, Key, KeyOf
<1>4. \A j \in Jobs : rows[j] \in Row => SnapshotOf(j) \in Snapshot
  BY DEF SnapshotOf, Snapshot, Row
<1>3. ASSUME NEW entries \in SUBSET Pending, NEW w \in Workers
      PROVE  Abandon(entries, w) \subseteq Pending
  BY DEF Abandon, Pending
<1> QED
  BY <1>1, <1>2, <1>3, <1>4

\* Reading from a nonempty stream yields a message and a stream.
LEMMA StreamTypes ==
    ASSUME NEW s \in Seq(Message)
    PROVE  /\ \A m \in Message : Append(s, m) \in Seq(Message)
           /\ s # <<>> => Head(s) \in Message /\ Tail(s) \in Seq(Message)
BY HeadTailProperties, AppendProperties

LEMMA TypeInit == Init => TypeOK
<1> SUFFICES ASSUME Init PROVE TypeOK
  OBVIOUS
<1>1. rows \in [Jobs -> Row]
  <2>1. PICK next \in [Jobs -> {"future", "due"}], limit \in [Jobs -> Limits] :
           rows = [j \in Jobs |-> Created(next[j], limit[j])]
    BY DEF Init
  <2> QED
    BY <2>1, MaxRetriesAssumption DEF Created, Row
<1> QED
  BY <1>1, PipelineAssumption
  DEF Init, TypeOK, WorkerStep

LEMMA TypeScheduler ==
    ASSUME TypeOK, NEW s \in Schedulers, SchedulerStep(s) \/ SchedulerTrouble(s)
    PROVE  TypeOK'
<1> USE PlainStatements, MessageTypes, StreamTypes, NoMsgAssumption,
        PipelineAssumption
    DEF TypeOK, dbVars, redisVars, schedulerVars, workerVars, AfterJob
<1>1. CASE GetDueJobs(s)
  BY <1>1 DEF GetDueJobs, DueJobs
<1>2. CASE LockJob(s)
  <2>1. PICK snap \in batch[s] :
           /\ rows' = [rows EXCEPT ![snap.job] = Locked(@)]
           /\ batch' = [batch EXCEPT ![s] = @ \ {snap}]
           /\ cur' = [cur EXCEPT ![s] = snap]
    BY <1>2 DEF LockJob
  <2>2. snap \in Snapshot /\ snap.job \in Jobs
    BY DEF Snapshot
  <2>3. rows' \in [Jobs -> Row]
    BY <2>1, <2>2
  <2>4. cur' \in [Schedulers -> Snapshot \cup {NoMsg}]
        /\ batch' \in [Schedulers -> SUBSET Snapshot]
    BY <2>1, <2>2
  <2> QED
    BY <1>2, <2>1, <2>2, <2>3, <2>4 DEF LockJob
<1>3. CASE SkipLocked(s)
  BY <1>3 DEF SkipLocked
<1>4. CASE Publish(s)
  BY <1>4 DEF Publish
<1>5. CASE UnlockJob(s)
  <2>1. cur[s] \in Snapshot /\ cur[s].job \in Jobs
    BY <1>5 DEF UnlockJob, Snapshot
  <2>4. rows[cur[s].job] \in Row
    BY <2>1
  <2>5. Unlocked(rows[cur[s].job]) \in Row
    BY <2>4
  <2>6. rows' \in {rows, [rows EXCEPT ![cur[s].job] = Unlocked(@)]}
    BY <1>5 DEF UnlockJob
  <2>2. rows' \in [Jobs -> Row]
    BY <2>1, <2>5, <2>6
  <2>3. faults' \in 0..MaxFaults
    BY <1>5 DEF UnlockJob, Fault
  <2> QED
    BY <1>5, <2>2, <2>3 DEF UnlockJob
<1>6. CASE LockJobThrows(s)
  <2>1. PICK snap \in batch[s] :
           /\ rows' \in {rows, [rows EXCEPT ![snap.job] = Locked(@)]}
           /\ batch' = [batch EXCEPT ![s] = @ \ {snap}]
           /\ cur' = [cur EXCEPT ![s] = snap]
    BY <1>6 DEF LockJobThrows
  <2>2. snap \in Snapshot /\ snap.job \in Jobs
    BY DEF Snapshot
  <2>3. rows' \in [Jobs -> Row]
    BY <2>1, <2>2
  <2>4. cur' \in [Schedulers -> Snapshot \cup {NoMsg}]
        /\ batch' \in [Schedulers -> SUBSET Snapshot]
    BY <2>1, <2>2
  <2>5. faults' \in 0..MaxFaults
    BY <1>6 DEF LockJobThrows, Fault
  <2> QED
    BY <1>6, <2>1, <2>2, <2>3, <2>4, <2>5 DEF LockJobThrows
<1>7. CASE PublishThrows(s)
  <2>1. MessageOf(cur[s]) \in Message
    BY <1>7 DEF PublishThrows
  <2>2. stream' \in Seq(Message)
    <3>1. Append(stream, MessageOf(cur[s])) \in Seq(Message)
      BY <2>1
    <3>2. stream' \in {stream, Append(stream, MessageOf(cur[s]))}
      BY <1>7 DEF PublishThrows
    <3> QED
      BY <3>1, <3>2
  <2> QED
    BY <1>7, <2>2 DEF PublishThrows, Fault
<1>8. CASE SchedulerCrash(s)
  BY <1>8 DEF SchedulerCrash, Fault
<1> QED
  BY <1>1, <1>2, <1>3, <1>4, <1>5, <1>6, <1>7, <1>8
  DEF SchedulerStep, SchedulerTrouble

LEMMA TypeReclaim == TypeOK /\ Reclaim => TypeOK'
BY DEF TypeOK, Reclaim, Pending, dbVars, schedulerVars, workerVars

LEMMA TypeClock ==
    ASSUME TypeOK, NEW j \in Jobs, Clock(j)
    PROVE  TypeOK'
<1> USE RowStatements DEF TypeOK, dbVars, redisVars, schedulerVars, workerVars
<1>1. CASE Fires(j)
  BY <1>1 DEF Fires
<1>2. CASE Ages(j)
  BY <1>2 DEF Ages
<1>3. CASE Expire(j)
  BY <1>3 DEF Expire
<1> QED
  BY <1>1, <1>2, <1>3 DEF Clock

\* A worker in hand of a message: what the type invariant says of it.
LEMMA InHand ==
    ASSUME TypeOK, NEW w \in Workers, pc[w] # "idle"
    PROVE  msg[w] \in Message /\ JobOf(w) \in Jobs
BY DEF TypeOK, JobOf, Message

\* The two ends of a call inside try and catch keep the worker busy.
LEMMA TypeProceed ==
    ASSUME TypeOK, NEW w \in Workers, NEW next \in WorkerStep \ {"idle"},
           Proceed(w, next)
    PROVE  /\ pc' \in [Workers -> WorkerStep] /\ pc'[w] # "idle"
           /\ \A v \in Workers : v # w => pc'[v] = pc[v]
           /\ faults' \in 0..MaxFaults
BY PipelineAssumption DEF TypeOK, Proceed, Fault, OnError, WorkerStep, Try, Catch

LEMMA TypeLeave ==
    ASSUME TypeOK, NEW w \in Workers, Leave(w), pel' = Abandon(pel, w)
    PROVE  /\ pc' \in [Workers -> WorkerStep]
           /\ msg' \in [Workers -> Message \cup {NoMsg}]
           /\ exec' \in [Workers -> {"none", "running", "success", "failed",
                                     "dlq"}]
           /\ pel' \subseteq Pending
           /\ \A v \in Workers : msg'[v] = NoMsg <=> pc'[v] = "idle"
BY MessageTypes DEF TypeOK, Leave, WorkerStep

LEMMA TypeWorkerAction ==
    ASSUME TypeOK, NEW w \in Workers, WorkerAction(w)
    PROVE  TypeOK'
<1> USE RowStatements, MessageTypes, InHand, NoMsgAssumption
    DEF TypeOK, dbVars, redisVars, schedulerVars, workerVars
<1>1. CASE Consume(w)
  <2>1. Head(stream) \in Message /\ stream' \in Seq(Message)
    BY <1>1, StreamTypes DEF Consume
  <2>2. pel' \subseteq Pending
    BY <1>1, <2>1 DEF Consume
  <2> QED
    BY <1>1, <2>1, <2>2 DEF Consume, WorkerStep
<1>2. CASE Acquire(w)
  BY <1>2 DEF Acquire, WorkerStep, Try
<1>3. CASE AcquireRefused(w)
  BY <1>3 DEF AcquireRefused, WorkerStep
<1>4. CASE Drop(w)
  <2>1. pel' \subseteq Pending
    BY <1>4 DEF Drop, Acknowledged
  <2> QED
    BY <1>4, <2>1 DEF Drop, Leave, WorkerStep
<1>5. CASE HandlerMissing(w)
  BY <1>5 DEF HandlerMissing, OnError, WorkerStep, Catch, Try
<1>6. CASE RecordStart(w)
  <2>1. "run" \in WorkerStep \ {"idle"}
    BY DEF WorkerStep, Try
  <2>2. pc[w] # "idle" /\ Proceed(w, "run")
    BY <1>6 DEF RecordStart
  <2> QED
    BY <1>6, <2>1, <2>2, TypeProceed DEF RecordStart
<1>7. CASE DuplicateStart(w)
  BY <1>7 DEF DuplicateStart, WorkerStep, Try
<1>8. CASE HandlerEnds(w)
  <2>1. pc[w] = "run" /\ pc' \in [Workers -> WorkerStep] /\ pc'[w] # "idle"
        /\ \A v \in Workers : v # w => pc'[v] = pc[v]
    BY <1>8 DEF HandlerEnds, HandlerResolves, HandlerRejects, HandlerTimesOut,
                OnError, WorkerStep, Catch, Try
  <2>2. zombies' \in [Jobs -> SUBSET Workers]
    BY <1>8 DEF HandlerEnds, HandlerResolves, HandlerRejects, HandlerTimesOut
  <2> QED
    BY <1>8, <2>1, <2>2
    DEF HandlerEnds, HandlerResolves, HandlerRejects, HandlerTimesOut
<1>9. CASE RecordSuccess(w)
  <2>1. pc[w] # "idle" /\ \E next \in WorkerStep \ {"idle"} : Proceed(w, next)
    BY <1>9 DEF RecordSuccess, WorkerStep, Try, Catch
  <2> QED
    BY <1>9, <2>1, TypeProceed DEF RecordSuccess
<1>10. CASE CompleteExecution(w)
  <2>1. pc[w] # "idle" /\ \E next \in WorkerStep \ {"idle"} : Proceed(w, next)
    BY <1>10 DEF CompleteExecution, WorkerStep, Try, Catch
  <2>2. rows' \in [Jobs -> Row]
    <3>1. NextFire \subseteq {"never", "future", "due"}
      BY DEF NextFire
    <3> QED
      BY <1>10, <2>1, <3>1 DEF CompleteExecution
  <2> QED
    BY <1>10, <2>1, <2>2, TypeProceed DEF CompleteExecution
<1>11. CASE Acknowledge(w)
  <2>1. pc[w] # "idle" /\ \E next \in WorkerStep \ {"idle"} : Proceed(w, next)
    BY <1>11 DEF Acknowledge, WorkerStep, Try, Catch
  <2> QED
    BY <1>11, <2>1, TypeProceed DEF Acknowledge, Acknowledged
<1>12. CASE RecordFailure(w)
  <2>1. pc[w] # "idle" /\ \E next \in WorkerStep \ {"idle"} : Proceed(w, next)
    BY <1>12 DEF RecordFailure, WorkerStep, Try, Catch
  <2> QED
    BY <1>12, <2>1, TypeProceed DEF RecordFailure
<1>13. CASE FailWithRetry(w)
  <2>1. pc[w] # "idle" /\ \E next \in WorkerStep \ {"idle"} : Proceed(w, next)
    BY <1>13 DEF FailWithRetry, WorkerStep, Try, Catch
  <2>2. rows' \in [Jobs -> Row]
    BY <1>13, <2>1 DEF FailWithRetry
  <2> QED
    BY <1>13, <2>1, <2>2, TypeProceed DEF FailWithRetry
<1>14. CASE FailPermanently(w)
  <2>1. pc[w] # "idle" /\ \E next \in WorkerStep \ {"idle"} : Proceed(w, next)
    BY <1>14 DEF FailPermanently, WorkerStep, Try, Catch
  <2>2. rows' \in [Jobs -> Row]
    BY <1>14, <2>1 DEF FailPermanently
  <2> QED
    BY <1>14, <2>1, <2>2, TypeProceed DEF FailPermanently
<1>15. CASE SendToDLQ(w)
  <2>1. pc[w] # "idle" /\ \E next \in WorkerStep \ {"idle"} : Proceed(w, next)
    BY <1>15 DEF SendToDLQ, WorkerStep, Try, Catch
  <2> QED
    BY <1>15, <2>1, TypeProceed DEF SendToDLQ
<1>16. CASE WriteToDLQTable(w)
  <2>1. pc[w] # "idle" /\ \E next \in WorkerStep \ {"idle"} : Proceed(w, next)
    BY <1>16 DEF WriteToDLQTable, WorkerStep, Try, Catch
  <2> QED
    BY <1>16, <2>1, TypeProceed DEF WriteToDLQTable
<1>17. CASE RecordDLQ(w)
  <2>1. pc[w] # "idle" /\ \E next \in WorkerStep \ {"idle"} : Proceed(w, next)
    BY <1>17 DEF RecordDLQ, WorkerStep, Try, Catch
  <2> QED
    BY <1>17, <2>1, TypeProceed DEF RecordDLQ
<1>18. CASE Release(w)
  <2>1. lock' \in [Jobs -> Workers \cup {Nobody}] /\ faults' \in 0..MaxFaults
    BY <1>18, PipelineAssumption DEF Release, Released, Fault
  <2>2. Leave(w) /\ pel' = Abandon(pel, w)
    BY <1>18 DEF Release
  <2> QED
    BY <1>18, <2>1, <2>2, TypeLeave DEF Release
<1> QED
  BY <1>1, <1>2, <1>3, <1>4, <1>5, <1>6, <1>7, <1>8, <1>9, <1>10, <1>11, <1>12, <1>13, <1>14, <1>15, <1>16, <1>17, <1>18
  DEF WorkerAction

LEMMA TypeWorkerTrouble ==
    ASSUME TypeOK, NEW w \in Workers, WorkerTrouble(w)
    PROVE  TypeOK'
<1> USE MessageTypes, InHand, NoMsgAssumption, PipelineAssumption
    DEF TypeOK, dbVars, redisVars, schedulerVars, workerVars, Fault
<1>1. CASE Throws(w)
  BY <1>1 DEF Throws, OnError, WorkerStep, Try, Catch
<1>2. CASE ConsumeLost(w)
  <2>1. Head(stream) \in Message /\ stream' \in Seq(Message)
    BY <1>2, StreamTypes DEF ConsumeLost
  <2>2. pel' \subseteq Pending
    BY <1>2, <2>1 DEF ConsumeLost
  <2> QED
    BY <1>2, <2>1, <2>2 DEF ConsumeLost
<1>3. CASE AcquireReplyLost(w)
  <2>1. lock' \in [Jobs -> Workers \cup {Nobody}]
    BY <1>3 DEF AcquireReplyLost
  <2>2. CASE Leave(w) /\ pel' = Abandon(pel, w)
    BY <1>3, <2>1, <2>2, TypeLeave DEF AcquireReplyLost
  <2>3. CASE pc' = [pc EXCEPT ![w] = "drop"] /\ UNCHANGED <<pel, msg, exec>>
    BY <1>3, <2>1, <2>3 DEF AcquireReplyLost, WorkerStep
  <2> QED
    BY <1>3, <2>2, <2>3 DEF AcquireReplyLost
<1>4. CASE LoopError(w)
  BY <1>4, TypeLeave DEF LoopError
<1>5. CASE WorkerCrash(w)
  BY <1>5, TypeLeave DEF WorkerCrash
<1>6. CASE ZombieEnds(w)
  BY <1>6 DEF ZombieEnds
<1> QED
  BY <1>1, <1>2, <1>3, <1>4, <1>5, <1>6 DEF WorkerTrouble

LEMMA TypeStep == TypeOK /\ [Next]_vars => TypeOK'
<1> SUFFICES ASSUME TypeOK, [Next]_vars PROVE TypeOK'
  OBVIOUS
<1>1. CASE UNCHANGED vars
  BY <1>1 DEF TypeOK, vars, dbVars, redisVars, schedulerVars, workerVars
<1>2. CASE Next
  BY <1>2, TypeScheduler, TypeReclaim, TypeWorkerAction, TypeWorkerTrouble,
     TypeClock DEF Next
<1> QED
  BY <1>1, <1>2

\* The state of the pipeline keeps its types, and a process that has a message
\* or a snapshot in hand is never taken for an idle one.
THEOREM TypeCorrect == Spec => []TypeOK
BY TypeInit, TypeStep, PTL DEF Spec

-----------------------------------------------------------------------------
(* The job lock.  LockHeld is inductive on top of the types: the lock is   *)
(* set only where it is free, removed only by its owner, and not expired   *)
(* under an executing worker unless "lease" is among the events.           *)

\* A step that leaves the locks alone and in which no worker begins to execute
\* or changes its message.
Steady ==
    /\ lock' = lock
    /\ \A v \in Workers : Executing(v)' => Executing(v) /\ msg'[v] = msg[v]

LEMMA SteadyKeepsLocks == LockHeld /\ Steady => LockHeld'
BY DEF LockHeld, Steady, JobOf

LEMMA ProceedIsSteady ==
    ASSUME TypeOK, NEW w \in Workers, Executing(w), UNCHANGED <<lock, msg>>,
           \A v \in Workers : v # w => pc'[v] = pc[v]
    PROVE  Steady
BY DEF Steady, Executing

LEMMA LeaveIsSteady ==
    ASSUME TypeOK, NEW w \in Workers, Leave(w), lock' = lock
    PROVE  Steady
BY DEF TypeOK, Steady, Leave, Executing, Try, Catch

LEMMA LockHeldWorkerAction ==
    ASSUME TypeOK, LockHeld, NEW w \in Workers, WorkerAction(w)
    PROVE  LockHeld'
<1> USE SteadyKeepsLocks DEF dbVars, redisVars
<1>1. CASE Consume(w)
  <2>1. Steady
    BY <1>1 DEF Consume, Steady, Executing, Try, Catch, TypeOK
  <2> QED
    BY <2>1
<1>2. CASE Acquire(w)
  <2> SUFFICES ASSUME NEW v \in Workers, Executing(v)'
               PROVE  lock'[JobOf(v)'] = v
    BY DEF LockHeld
  <2>1. JobOf(v)' = JobOf(v) /\ lock' = [lock EXCEPT ![JobOf(w)] = w]
    BY <1>2 DEF Acquire, JobOf
  <2>2. CASE v = w
    BY <1>2, <2>1, <2>2, InHand DEF Acquire, TypeOK
  <2>3. CASE v # w
    <3>1. Executing(v)
      BY <1>2, <2>3 DEF Acquire, Executing, TypeOK
    <3>2. lock[JobOf(v)] = v
      BY <3>1 DEF LockHeld
    <3>3. JobOf(v) # JobOf(w)
      BY <1>2, <3>2, PipelineAssumption DEF Acquire
    <3> QED
      BY <2>1, <3>2, <3>3
  <2> QED
    BY <2>2, <2>3
<1>3. CASE AcquireRefused(w)
  <2>1. Steady
    BY <1>3 DEF AcquireRefused, Steady, Executing, Try, Catch, TypeOK
  <2> QED
    BY <2>1
<1>4. CASE Drop(w)
  BY <1>4, LeaveIsSteady DEF Drop
<1>5. CASE Release(w)
  <2> SUFFICES ASSUME NEW v \in Workers, Executing(v)'
               PROVE  lock'[JobOf(v)'] = v
    BY DEF LockHeld
  <2>1. v # w /\ Executing(v) /\ JobOf(v)' = JobOf(v)
    BY <1>5 DEF Release, Leave, Executing, Try, Catch, TypeOK, JobOf
  <2>2. lock[JobOf(v)] = v
    BY <2>1 DEF LockHeld
  <2>3. lock'[JobOf(v)] = lock[JobOf(v)]
    <3>1. Released(w)[JobOf(v)] = lock[JobOf(v)]
      BY <2>1, <2>2 DEF Released, TypeOK
    <3>2. lock' = lock \/ lock' = Released(w)
      BY <1>5 DEF Release
    <3> QED
      BY <3>1, <3>2
  <2> QED
    BY <2>1, <2>2, <2>3
<1>6. CASE HandlerMissing(w) \/ DuplicateStart(w) \/ HandlerEnds(w)
  <2>1. Executing(w) /\ UNCHANGED <<lock, msg>>
        /\ \A v \in Workers : v # w => pc'[v] = pc[v]
    BY <1>6 DEF HandlerMissing, DuplicateStart, HandlerEnds,
                HandlerResolves, HandlerRejects, HandlerTimesOut, Executing,
                Try, Catch, TypeOK
  <2> QED
    BY <2>1, ProceedIsSteady
<1>7. CASE RecordStart(w) \/ RecordSuccess(w) \/ CompleteExecution(w)
           \/ Acknowledge(w) \/ RecordFailure(w) \/ FailWithRetry(w)
           \/ FailPermanently(w) \/ SendToDLQ(w) \/ WriteToDLQTable(w)
           \/ RecordDLQ(w)
  <2>1. Executing(w) /\ UNCHANGED <<lock, msg>>
    BY <1>7 DEF RecordStart, RecordSuccess, CompleteExecution, Acknowledge,
                RecordFailure, FailWithRetry, FailPermanently, SendToDLQ,
                WriteToDLQTable, RecordDLQ, Executing, Try, Catch
  <2>2. \E next : Proceed(w, next)
    BY <1>7 DEF RecordStart, RecordSuccess, CompleteExecution, Acknowledge,
                RecordFailure, FailWithRetry, FailPermanently, SendToDLQ,
                WriteToDLQTable, RecordDLQ
  <2>3. \A v \in Workers : v # w => pc'[v] = pc[v]
    BY <2>2 DEF Proceed, TypeOK
  <2> QED
    BY <2>1, <2>3, ProceedIsSteady
<1> QED
  BY <1>1, <1>2, <1>3, <1>4, <1>5, <1>6, <1>7 DEF WorkerAction

LEMMA LockHeldWorkerTrouble ==
    ASSUME TypeOK, LockHeld, NEW w \in Workers, WorkerTrouble(w)
    PROVE  LockHeld'
<1> USE SteadyKeepsLocks DEF dbVars, redisVars, workerVars
<1>1. CASE Throws(w)
  BY <1>1, ProceedIsSteady DEF Throws, Executing, TypeOK
<1>2. CASE ConsumeLost(w) \/ ZombieEnds(w)
  BY <1>2 DEF ConsumeLost, ZombieEnds, Steady, Executing
<1>3. CASE AcquireReplyLost(w)
  <2> SUFFICES ASSUME NEW v \in Workers, Executing(v)'
               PROVE  lock'[JobOf(v)'] = v
    BY DEF LockHeld
  <2>1. v # w /\ Executing(v) /\ JobOf(v)' = JobOf(v)
    BY <1>3 DEF AcquireReplyLost, Leave, Executing, Try, Catch, TypeOK, JobOf
  <2>2. lock[JobOf(v)] = v
    BY <2>1 DEF LockHeld
  <2>3. JobOf(v) # JobOf(w) /\ lock' = [lock EXCEPT ![JobOf(w)] = w]
    BY <1>3, <2>2, PipelineAssumption DEF AcquireReplyLost
  <2> QED
    BY <2>1, <2>2, <2>3
<1>4. CASE LoopError(w)
  BY <1>4, LeaveIsSteady DEF LoopError
<1>5. CASE WorkerCrash(w)
  BY <1>5, LeaveIsSteady DEF WorkerCrash
<1> QED
  BY <1>1, <1>2, <1>3, <1>4, <1>5 DEF WorkerTrouble

LEMMA LockHeldStep ==
    ASSUME "lease" \notin Events, TypeOK, LockHeld, [Next]_vars
    PROVE  LockHeld'
<1> USE DEF dbVars, redisVars, schedulerVars, workerVars
<1>1. CASE UNCHANGED vars
  BY <1>1 DEF vars, LockHeld, Executing, JobOf
<1>2. ASSUME NEW s \in Schedulers, SchedulerStep(s) \/ SchedulerTrouble(s)
      PROVE  LockHeld'
  <2>1. Steady
    BY <1>2 DEF SchedulerStep, GetDueJobs, LockJob, SkipLocked, Publish,
        UnlockJob, SchedulerTrouble, LockJobThrows, PublishThrows,
        SchedulerCrash, Steady, Executing
  <2> QED
    BY <2>1, SteadyKeepsLocks
<1>3. CASE Reclaim
  BY <1>3, SteadyKeepsLocks DEF Reclaim, Steady, Executing
<1>4. ASSUME NEW j \in Jobs, Fires(j) \/ Ages(j)
      PROVE  LockHeld'
  BY <1>4, SteadyKeepsLocks DEF Fires, Ages, Steady, Executing
<1>5. ASSUME NEW j \in Jobs, Expire(j)
      PROVE  LockHeld'
  <2> SUFFICES ASSUME NEW v \in Workers, Executing(v)
               PROVE  lock'[JobOf(v)] = v
    BY <1>5 DEF Expire, LockHeld, Executing, JobOf
  <2>1. lock[JobOf(v)] = v
    BY DEF LockHeld
  <2>2. JobOf(v) # j
    BY <1>5, <2>1 DEF Expire, KeepsLock
  <2> QED
    BY <1>5, <2>1, <2>2 DEF Expire
<1> QED
  BY <1>1, <1>2, <1>3, <1>4, <1>5, LockHeldWorkerAction, LockHeldWorkerTrouble
  DEF Next, Clock

\* Whoever executes a job holds its lock, for any number of workers, crashes
\* and failing calls, as long as no lock expires under a stalled holder.
THEOREM LockIsHeld ==
    ASSUME "lease" \notin Events
    PROVE  Spec => []LockHeld
<1>1. Init => LockHeld
  BY DEF Init, LockHeld, Executing, Try, Catch
<1>2. TypeOK /\ LockHeld /\ [Next]_vars => LockHeld'
  BY LockHeldStep
<1> QED
  BY <1>1, <1>2, TypeCorrect, PTL DEF Spec

NoZombie == zombies = [j \in Jobs |-> {}]

LEMMA NoZombieStep ==
    ASSUME "timeout" \notin Events, TypeOK, NoZombie, [Next]_vars
    PROVE  NoZombie'
<1> USE DEF NoZombie, dbVars, redisVars, schedulerVars, workerVars
<1>1. CASE UNCHANGED vars
  BY <1>1 DEF vars
<1>2. ASSUME NEW s \in Schedulers, SchedulerStep(s) \/ SchedulerTrouble(s)
      PROVE  NoZombie'
  BY <1>2 DEF SchedulerStep, GetDueJobs, LockJob, SkipLocked, Publish,
      UnlockJob, SchedulerTrouble, LockJobThrows, PublishThrows,
      SchedulerCrash
<1>3. CASE Reclaim
  BY <1>3 DEF Reclaim
<1>4. ASSUME NEW j \in Jobs, Clock(j) PROVE NoZombie'
  BY <1>4 DEF Clock, Fires, Ages, Expire
<1>5. ASSUME NEW w \in Workers, WorkerAction(w) PROVE NoZombie'
  BY <1>5 DEF WorkerAction, Consume, Acquire, AcquireRefused, Drop,
      HandlerMissing, RecordStart, DuplicateStart, HandlerEnds,
      HandlerResolves, HandlerRejects, HandlerTimesOut, RecordSuccess,
      CompleteExecution, Acknowledge, RecordFailure, FailWithRetry,
      FailPermanently, SendToDLQ, WriteToDLQTable, RecordDLQ, Release
<1>6. ASSUME NEW w \in Workers, WorkerTrouble(w) PROVE NoZombie'
  BY <1>6 DEF WorkerTrouble, Throws, ConsumeLost, AcquireReplyLost,
      LoopError, WorkerCrash, ZombieEnds
<1> QED
  BY <1>1, <1>2, <1>3, <1>4, <1>5, <1>6 DEF Next

LEMMA NoZombies ==
    ASSUME "timeout" \notin Events
    PROVE  Spec => []NoZombie
<1>1. Init => NoZombie
  BY DEF Init, NoZombie
<1>2. TypeOK /\ NoZombie /\ [Next]_vars => NoZombie'
  BY NoZombieStep
<1> QED
  BY <1>1, <1>2, TypeCorrect, PTL DEF Spec

LEMMA HolderRunsAlone == LockHeld /\ NoZombie => HandlerExclusion
<1> SUFFICES ASSUME LockHeld, NoZombie PROVE HandlerExclusion
  OBVIOUS
<1>1. ASSUME NEW w \in Workers, pc[w] = "run" PROVE lock[JobOf(w)] = w
  BY <1>1 DEF LockHeld, Executing, Try
<1> QED
  BY <1>1 DEF HandlerExclusion, Running, NoZombie

\* No two workers run the handler of one job at a time: the holder of its lock
\* is unique.  Handlers that outlive their timeout are excluded, see the
\* counterexample of the run timeout_overlap.
THEOREM HandlersExclude ==
    ASSUME "lease" \notin Events, "timeout" \notin Events
    PROVE  Spec => []HandlerExclusion
BY HolderRunsAlone, LockIsHeld, NoZombies, PTL

LEMMA ReleaseStep == ASSUME TypeOK, Next PROVE OnlyOwnerReleases
<1> SUFFICES ASSUME NEW j \in Jobs, NEW w \in Workers,
                    lock[j] = w, lock'[j] # w
             PROVE  /\ lock'[j] = Nobody
                    /\ \/ pc' = pc
                       \/ /\ pc[w] = "release" /\ JobOf(w) = j
                          /\ pc'[w] = "idle"
  BY DEF OnlyOwnerReleases
<1> USE PipelineAssumption
    DEF dbVars, redisVars, schedulerVars, workerVars, TypeOK
<1>1. ASSUME NEW s \in Schedulers, SchedulerStep(s) \/ SchedulerTrouble(s)
      PROVE  FALSE
  BY <1>1 DEF SchedulerStep, GetDueJobs, LockJob, SkipLocked, Publish,
      UnlockJob, SchedulerTrouble, LockJobThrows, PublishThrows,
      SchedulerCrash
<1>2. ASSUME Reclaim PROVE FALSE
  BY <1>2 DEF Reclaim
<1>3. ASSUME NEW v \in Workers, WorkerTrouble(v) PROVE FALSE
  BY <1>3, InHand DEF WorkerTrouble, Throws, ConsumeLost, AcquireReplyLost,
      LoopError, WorkerCrash, ZombieEnds
<1>4. ASSUME NEW v \in Workers, WorkerAction(v) PROVE Release(v)
  BY <1>4, InHand DEF WorkerAction, Consume, Acquire, AcquireRefused, Drop,
      HandlerMissing, RecordStart, DuplicateStart, HandlerEnds,
      HandlerResolves, HandlerRejects, HandlerTimesOut, RecordSuccess,
      CompleteExecution, Acknowledge, RecordFailure, FailWithRetry,
      FailPermanently, SendToDLQ, WriteToDLQTable, RecordDLQ
<1>5. ASSUME NEW v \in Workers, Release(v)
      PROVE  /\ lock'[j] = Nobody
             /\ pc[w] = "release" /\ JobOf(w) = j /\ pc'[w] = "idle"
  <2>1. lock' = lock \/ lock' = Released(v)
    BY <1>5 DEF Release
  <2>2. JobOf(v) = j /\ v = w /\ lock'[j] = Nobody
    BY <2>1 DEF Released
  <2> QED
    BY <1>5, <2>2 DEF Release, Leave
<1>6. ASSUME NEW k \in Jobs, Clock(k) PROVE lock'[j] = Nobody /\ pc' = pc
  BY <1>6 DEF Clock, Fires, Ages, Expire
<1> QED
  BY <1>1, <1>2, <1>3, <1>4, <1>5, <1>6 DEF Next

\* "Safe release: only the holder can release", also when locks expire under
\* their holders: a token is deleted by its expiry or by its own worker, never
\* by a worker that lost the lock to it.
THEOREM ReleaseIsSafe == Spec => SafeRelease
BY ReleaseStep, TypeCorrect, PTL DEF Spec, SafeRelease

-----------------------------------------------------------------------------
(* The job locks refine ExclusiveLock: a grant is an acquire, whether the  *)
(* reply arrives or not, and a lock is finished with when the worker goes  *)
(* on to its next message, or dies.                                        *)

\* A step in which no lock changes and nobody begins or ends to execute.
Quiet ==
    /\ lock' = lock
    /\ \A v \in Workers : /\ Executing(v)' <=> Executing(v)
                          /\ Executing(v) => msg'[v] = msg[v]

Unconcerned(w) ==
    \A v \in Workers : v # w => pc'[v] = pc[v] /\ msg'[v] = msg[v]

LEMMA QuietStutters == Quiet => UNCHANGED JobLock!vars
BY DEF Quiet, JobLock!vars, JobOf

LEMMA LockGranted ==
    ASSUME TypeOK, NEW w \in Workers, NEW j \in Jobs, Unconcerned(w),
           ~ Executing(w), lock[j] = Nobody, lock' = [lock EXCEPT ![j] = w],
           Executing(w)' => JobOf(w)' = j
    PROVE  JobLock!Next
<1> DEFINE Users == [k \in Jobs |-> {v \in Workers : Executing(v) /\ JobOf(v) = k}]
<1>1. \A v \in Workers : v # w => (Executing(v)' <=> Executing(v)) /\ JobOf(v)' = JobOf(v)
  BY DEF Unconcerned, Executing, JobOf
<1>2. CASE Executing(w)'
  <2>1. Users' = [Users EXCEPT ![j] = @ \cup {w}]
    BY <1>1, <1>2
  <2>2. JobLock!AddUser(j, w)
    BY <2>1 DEF JobLock!AddUser
  <2> QED
    BY <2>2 DEF JobLock!Grant, JobLock!Next
<1>3. CASE ~ Executing(w)'
  <2>1. Users' = Users
    BY <1>1, <1>3
  <2> QED
    BY <2>1 DEF JobLock!Grant, JobLock!Next
<1> QED
  BY <1>2, <1>3

LEMMA LockFinished ==
    ASSUME TypeOK, NEW w \in Workers, Unconcerned(w),
           Executing(w), ~ Executing(w)', lock' \in {lock, Released(w)}
    PROVE  JobLock!Next
<1> DEFINE Users == [k \in Jobs |-> {v \in Workers : Executing(v) /\ JobOf(v) = k}]
<1>1. \A v \in Workers : v # w => (Executing(v)' <=> Executing(v)) /\ JobOf(v)' = JobOf(v)
  BY DEF Unconcerned, Executing, JobOf
<1>2. PICK job \in Jobs : job = JobOf(w)
  BY InHand DEF Executing, Try, Catch
<1>3. w \in Users[job] /\ Users' = [Users EXCEPT ![job] = @ \ {w}]
  BY <1>1, <1>2
<1>4. \/ UNCHANGED lock
      \/ lock[job] = w /\ lock' = [lock EXCEPT ![job] = Nobody]
  BY <1>2 DEF Released
<1>5. JobLock!Finish(job, w)
  BY <1>3, <1>4 DEF JobLock!Finish
<1> QED
  BY <1>5 DEF JobLock!Next

LEMMA LockLapses == ASSUME NEW j \in Jobs, Expire(j) PROVE JobLock!Next
<1>1. "lease" \in Events \/ lock[j] \notin {w \in Workers : Executing(w) /\ JobOf(w) = j}
  BY DEF Expire, KeepsLock
<1>2. UNCHANGED <<pc, msg>>
  BY DEF Expire, workerVars
<1>3. JobLock!Lapse(j)
  BY <1>1, <1>2 DEF Expire, JobLock!Lapse, Executing, JobOf
<1> QED
  BY <1>3 DEF JobLock!Next

LEMMA MapLocksWorker ==
    ASSUME TypeOK, NEW w \in Workers, WorkerAction(w)
    PROVE  [JobLock!Next]_(JobLock!vars)
<1> USE DEF dbVars, redisVars, schedulerVars, workerVars
<1>1. CASE Consume(w) \/ AcquireRefused(w) \/ Drop(w)
  <2>1. /\ lock' = lock /\ Unconcerned(w)
        /\ ~ Executing(w) /\ ~ Executing(w)'
    BY <1>1 DEF Consume, AcquireRefused, Drop, Leave, Unconcerned, Executing,
                Try, Catch, TypeOK
  <2>2. Quiet
    BY <2>1 DEF Quiet, Unconcerned, Executing
  <2> QED
    BY <2>2, QuietStutters
<1>2. CASE Acquire(w)
  <2>1. /\ ~ Executing(w) /\ Unconcerned(w) /\ JobOf(w) \in Jobs
        /\ JobOf(w)' = JobOf(w)
    BY <1>2, InHand DEF Acquire, Unconcerned, Executing, Try, Catch, JobOf, TypeOK
  <2>2. PICK j \in Jobs : j = JobOf(w)
    BY <2>1
  <2> QED
    BY <1>2, <2>1, <2>2, LockGranted DEF Acquire
<1>3. CASE Release(w)
  <2>1. Executing(w) /\ ~ Executing(w)' /\ Unconcerned(w)
    BY <1>3 DEF Release, Leave, Executing, Try, Catch, Unconcerned, TypeOK
  <2>2. lock' \in {lock, Released(w)}
    BY <1>3 DEF Release
  <2> QED
    BY <2>1, <2>2, LockFinished
<1>4. CASE HandlerMissing(w) \/ DuplicateStart(w) \/ HandlerEnds(w)
  <2>1. /\ Executing(w) /\ Executing(w)' /\ UNCHANGED <<lock, msg>>
        /\ \A v \in Workers : v # w => pc'[v] = pc[v]
    BY <1>4 DEF HandlerMissing, DuplicateStart, HandlerEnds, HandlerResolves,
       HandlerRejects, HandlerTimesOut, OnError, Executing, Try, Catch, TypeOK
  <2>2. Quiet
    BY <2>1 DEF Quiet, Executing
  <2> QED
    BY <2>2, QuietStutters
<1>5. CASE RecordStart(w) \/ RecordSuccess(w) \/ CompleteExecution(w)
           \/ Acknowledge(w) \/ RecordFailure(w) \/ FailWithRetry(w)
           \/ FailPermanently(w) \/ SendToDLQ(w) \/ WriteToDLQTable(w)
           \/ RecordDLQ(w)
  <2>1. Executing(w) /\ UNCHANGED <<lock, msg>>
    BY <1>5 DEF RecordStart, RecordSuccess, CompleteExecution, Acknowledge,
       RecordFailure, FailWithRetry, FailPermanently, SendToDLQ,
       WriteToDLQTable, RecordDLQ, Executing, Try, Catch
  <2>2. \E next \in Try \cup Catch \cup {"release"} : Proceed(w, next)
    BY <1>5 DEF RecordStart, RecordSuccess, CompleteExecution, Acknowledge,
       RecordFailure, FailWithRetry, FailPermanently, SendToDLQ,
       WriteToDLQTable, RecordDLQ, Try, Catch
  <2>3. Executing(w)' /\ \A v \in Workers : v # w => pc'[v] = pc[v]
    BY <2>2 DEF Proceed, OnError, Executing, Try, Catch, TypeOK
  <2>4. Quiet
    BY <2>1, <2>3 DEF Quiet, Executing
  <2> QED
    BY <2>4, QuietStutters
<1> QED
  BY <1>1, <1>2, <1>3, <1>4, <1>5 DEF WorkerAction

LEMMA MapLocksTrouble ==
    ASSUME TypeOK, NEW w \in Workers, WorkerTrouble(w)
    PROVE  [JobLock!Next]_(JobLock!vars)
<1> USE DEF dbVars, redisVars, schedulerVars, workerVars
<1>1. CASE Throws(w)
  <2>1. /\ Executing(w) /\ Executing(w)' /\ UNCHANGED <<lock, msg>>
        /\ \A v \in Workers : v # w => pc'[v] = pc[v]
    BY <1>1 DEF Throws, OnError, Executing, Try, Catch, TypeOK
  <2>2. Quiet
    BY <2>1 DEF Quiet, Executing
  <2> QED
    BY <2>2, QuietStutters
<1>2. CASE ConsumeLost(w) \/ ZombieEnds(w)
  BY <1>2, QuietStutters DEF ConsumeLost, ZombieEnds, Quiet, Executing
<1>3. CASE AcquireReplyLost(w)
  <2>1. /\ ~ Executing(w) /\ ~ Executing(w)' /\ Unconcerned(w)
        /\ JobOf(w) \in Jobs
    BY <1>3, InHand DEF AcquireReplyLost, Leave, Unconcerned, Executing, Try,
       Catch, TypeOK
  <2>2. PICK j \in Jobs : j = JobOf(w)
    BY <2>1
  <2> QED
    BY <1>3, <2>1, <2>2, LockGranted DEF AcquireReplyLost
<1>4. CASE LoopError(w) \/ WorkerCrash(w)
  <2>1. lock' = lock /\ Unconcerned(w) /\ ~ Executing(w)'
    BY <1>4 DEF LoopError, WorkerCrash, Leave, Unconcerned, Executing, Try,
       Catch, TypeOK
  <2>2. CASE Executing(w)
    BY <2>1, <2>2, LockFinished
  <2>3. CASE ~ Executing(w)
    <3>1. Quiet
      BY <2>1, <2>3 DEF Quiet, Unconcerned, Executing
    <3> QED
      BY <3>1, QuietStutters
  <2> QED
    BY <2>2, <2>3
<1> QED
  BY <1>1, <1>2, <1>3, <1>4 DEF WorkerTrouble

LEMMA MapLocksStep ==
    ASSUME TypeOK, [Next]_vars
    PROVE  [JobLock!Next]_(JobLock!vars)
<1> USE DEF dbVars, redisVars, schedulerVars, workerVars
<1>1. CASE UNCHANGED vars
  BY <1>1, QuietStutters DEF vars, Quiet, Executing
<1>2. ASSUME NEW s \in Schedulers, SchedulerStep(s) \/ SchedulerTrouble(s)
      PROVE  UNCHANGED JobLock!vars
  <2>1. Quiet
    BY <1>2 DEF SchedulerStep, GetDueJobs, LockJob, SkipLocked, Publish,
        UnlockJob, SchedulerTrouble, LockJobThrows, PublishThrows,
        SchedulerCrash, Quiet, Executing
  <2> QED
    BY <2>1, QuietStutters
<1>3. ASSUME NEW j \in Jobs, Fires(j) \/ Ages(j)
      PROVE  UNCHANGED JobLock!vars
  BY <1>3, QuietStutters DEF Fires, Ages, Quiet, Executing
<1>4. CASE Reclaim
  BY <1>4, QuietStutters DEF Reclaim, Quiet, Executing
<1> QED
  BY <1>1, <1>2, <1>3, <1>4, MapLocksWorker, MapLocksTrouble, LockLapses
  DEF Next, Clock

LEMMA MapLocksInit == Init => JobLock!Init
BY DEF Init, JobLock!Init, Executing, Try, Catch

\* Under all events the workers use the job locks the way ExclusiveLock says,
\* for any number of jobs and workers: every step that touches a lock is the
\* grant, the use, the return or the lapse of one.
THEOREM JobLocksRefine == Spec => RefinesLock
<1>1. TypeOK /\ [Next]_vars => [JobLock!Next]_(JobLock!vars)
  BY MapLocksStep
<1> QED
  BY <1>1, MapLocksInit, TypeCorrect, PTL DEF Spec, RefinesLock, JobLock!Spec

-----------------------------------------------------------------------------
(* The statements on the jobs table                                        *)

\* What a step may do to the row of a job.
Statement(new, row, job) ==
    \/ Lockable(row) /\ new = Locked(row)
    \/ new \in {Unlocked(row), Fired(row), Aged(row), OneTimeCompleted(row),
                RetryScheduled(row)}
    \/ job \in CronJobs /\ \E next : new = CronCompleted(row, next)
    \/ /\ new = FailedPermanently(row)
       /\ \E w \in Workers : FailPermanently(w) /\ job = JobOf(w)

OneStatement ==
    \E job \in Jobs : \E new :
       /\ rows' = [rows EXCEPT ![job] = new]
       /\ Statement(new, rows[job], job)

LEMMA WorkerStatements ==
    ASSUME TypeOK, NEW w \in Workers,
           CompleteExecution(w) \/ FailWithRetry(w) \/ FailPermanently(w)
    PROVE  OneStatement
<1> DEFINE r == rows[JobOf(w)]
<1>1. JobOf(w) \in Jobs
  BY InHand DEF CompleteExecution, FailWithRetry, FailPermanently
<1>2. CASE CompleteExecution(w)
  <2>1. PICK next : rows' = [rows EXCEPT ![JobOf(w)] =
                       IF JobOf(w) \in CronJobs THEN CronCompleted(r, next)
                                                ELSE OneTimeCompleted(r)]
    BY <1>2 DEF CompleteExecution
  <2> QED
    BY <1>1, <2>1 DEF OneStatement, Statement
<1>3. CASE FailWithRetry(w)
  <2>1. rows' = [rows EXCEPT ![JobOf(w)] = RetryScheduled(r)]
    BY <1>3 DEF FailWithRetry
  <2> QED
    BY <1>1, <2>1 DEF OneStatement, Statement
<1>4. CASE FailPermanently(w)
  <2>1. rows' = [rows EXCEPT ![JobOf(w)] = FailedPermanently(r)]
    BY <1>4 DEF FailPermanently
  <2>2. Statement(FailedPermanently(r), r, JobOf(w))
    BY <1>4 DEF Statement
  <2> QED
    BY <1>1, <2>1, <2>2 DEF OneStatement
<1> QED
  BY <1>2, <1>3, <1>4

\* Every step of the pipeline leaves the table as it is, or executes one
\* statement on one row.
LEMMA OneAtATime ==
    ASSUME TypeOK, [Next]_vars
    PROVE  rows' = rows \/ OneStatement
<1> USE DEF dbVars
<1>1. ASSUME NEW s \in Schedulers, SchedulerStep(s) \/ SchedulerTrouble(s)
      PROVE  rows' = rows \/ OneStatement
  <2>1. CASE LockJob(s) \/ LockJobThrows(s)
    <3>1. PICK snap \in batch[s] :
             \/ rows' = rows
             \/ /\ Lockable(rows[snap.job])
                /\ rows' = [rows EXCEPT ![snap.job] = Locked(rows[snap.job])]
      BY <2>1 DEF LockJob, LockJobThrows
    <3>2. snap.job \in Jobs
      BY DEF TypeOK, Snapshot
    <3> QED
      BY <3>1, <3>2 DEF OneStatement, Statement
  <2>2. CASE UnlockJob(s)
    <3>1. cur[s].job \in Jobs
      BY <2>2 DEF UnlockJob, TypeOK, Snapshot
    <3>2. rows' \in {rows, [rows EXCEPT ![cur[s].job] = Unlocked(rows[cur[s].job])]}
      BY <2>2 DEF UnlockJob
    <3> QED
      BY <3>1, <3>2 DEF OneStatement, Statement
  <2> QED
    BY <1>1, <2>1, <2>2 DEF SchedulerStep, SchedulerTrouble, GetDueJobs,
       SkipLocked, Publish, PublishThrows, SchedulerCrash
<1>2. ASSUME NEW j \in Jobs, Clock(j) PROVE rows' = rows \/ OneStatement
  <2>1. rows' \in {rows, [rows EXCEPT ![j] = Fired(rows[j])],
                   [rows EXCEPT ![j] = Aged(rows[j])]}
    BY <1>2 DEF Clock, Fires, Ages, Expire
  <2> QED
    BY <2>1 DEF OneStatement, Statement
<1>3. ASSUME NEW w \in Workers, WorkerAction(w)
      PROVE  rows' = rows \/ OneStatement
  <2>1. CASE UNCHANGED rows
    BY <2>1
  <2> QED
    BY <1>3, <2>1, WorkerStatements
    DEF WorkerAction, Consume, Acquire, AcquireRefused, Drop, HandlerMissing,
        RecordStart, DuplicateStart, HandlerEnds, HandlerResolves,
        HandlerRejects, HandlerTimesOut, RecordSuccess, Acknowledge,
        RecordFailure, SendToDLQ, WriteToDLQTable, RecordDLQ, Release
<1>4. ASSUME NEW w \in Workers, WorkerTrouble(w) PROVE rows' = rows
  BY <1>4 DEF WorkerTrouble, Throws, ConsumeLost, AcquireReplyLost, LoopError,
     WorkerCrash, ZombieEnds
<1> QED
  BY <1>1, <1>2, <1>3, <1>4 DEF Next, vars, Reclaim

\* None of these statements changes max_retries, or finds a deleted row.
RowsPersist ==
    \A j \in Jobs :
       /\ rows'[j].maxRetries = rows[j].maxRetries
       /\ rows[j].status = "deleted" => rows'[j].status = "deleted"

LEMMA RowsDoPersist ==
    ASSUME TypeOK, [Next]_vars
    PROVE  RowsPersist
<1>1. ASSUME NEW row \in Row, NEW new, NEW job, Statement(new, row, job)
      PROVE  /\ new.maxRetries = row.maxRetries
             /\ row.status = "deleted" => new.status = "deleted"
  BY <1>1 DEF Statement, Row, Lockable, Locked, Unlocked, Fired, Aged,
     OneTimeCompleted, RetryScheduled, CronCompleted, FailedPermanently, Update
<1>2. CASE rows' = rows
  BY <1>2 DEF RowsPersist
<1>3. CASE OneStatement
  <2>1. PICK job \in Jobs : \E new : /\ rows' = [rows EXCEPT ![job] = new]
                                     /\ Statement(new, rows[job], job)
    BY <1>3 DEF OneStatement
  <2>2. PICK new : /\ rows' = [rows EXCEPT ![job] = new]
                   /\ Statement(new, rows[job], job)
    BY <2>1
  <2>3. /\ new.maxRetries = rows[job].maxRetries
        /\ rows[job].status = "deleted" => new.status = "deleted"
    BY <1>1, <2>2 DEF TypeOK
  <2> QED
    BY <2>2, <2>3 DEF RowsPersist, TypeOK
<1> QED
  BY <1>2, <1>3, OneAtATime

-----------------------------------------------------------------------------
(* Pending messages.  A message goes from the pending list by the hand of  *)
(* its worker alone.  That the worker which loses it too early had to do   *)
(* with a recorded execution needs the order of its own steps.             *)

Known(w) == KeyOf(msg[w]) \in started \/ rows[JobOf(w)].status = "deleted"

InOrder(w) ==
    /\ pc[w] \in {"idle", "acquire", "drop", "start", "duplicate"} =>
          exec[w] = "none"
    /\ pc[w] \in {"complete", "ack"} => exec[w] = "success"
    /\ pc[w] \in {"duplicate", "run", "success", "complete", "ack"} => Known(w)

StaysPending(w) ==
    pc[w] \in BeforeOutcome \cup {"ack"} =>
       PendingUnder(msg[w], w) \/ AcknowledgeThrew(w)

PendingInv == \A w \in Workers : InOrder(w) /\ StaysPending(w)

\* A record goes only with its job, and an event that has happened stays so.
KeysKept ==
    /\ \A k \in Key : k \in started =>
                         k \in started' \/ rows'[k.job].status = "deleted"
    /\ \A j \in Jobs : rows[j].status = "deleted" => rows'[j].status = "deleted"
    /\ faults' \in {faults, faults + 1}

LEMMA KnownStays ==
    ASSUME TypeOK, KeysKept, NEW w \in Workers, msg'[w] = msg[w],
           msg[w] # NoMsg, Known(w)
    PROVE  Known(w)'
<1>1. /\ msg[w] \in Message /\ KeyOf(msg[w]) \in Key
      /\ KeyOf(msg[w]).job = JobOf(w) /\ JobOf(w) \in Jobs
  BY DEF TypeOK, Message, Key, KeyOf, JobOf
<1> QED
  BY <1>1 DEF Known, KeysKept, KeyOf, JobOf

\* What a worker has in hand stays pending under it.
Held(v) == PendingUnder(msg[v], v) =>
              \E p \in pel' : p.message = msg[v] /\ p.reader = v

LEMMA Untouched ==
    ASSUME TypeOK, KeysKept, NEW v \in Workers, pc'[v] = pc[v],
           msg'[v] = msg[v], exec'[v] = exec[v], Held(v),
           InOrder(v), StaysPending(v)
    PROVE  InOrder(v)' /\ StaysPending(v)'
<1>1. pc[v] # "idle" => msg[v] # NoMsg
  BY DEF TypeOK
<1>2. pc[v] # "idle" /\ Known(v) => Known(v)'
  BY <1>1, KnownStays
<1>3. InOrder(v)'
  BY <1>2 DEF InOrder
<1>4. PendingUnder(msg[v], v) => PendingUnder(msg[v], v)'
  BY DEF Held, PendingUnder
<1>5. pc[v] \in BeforeOutcome /\ AcknowledgeThrew(v) => AcknowledgeThrew(v)'
  <2>1. faults > 0 => faults' > 0
    BY PipelineAssumption DEF KeysKept, TypeOK
  <2> QED
    BY <1>2, <2>1 DEF AcknowledgeThrew, Known, BeforeOutcome
<1>6. StaysPending(v)'
  BY <1>4, <1>5 DEF StaysPending, AcknowledgeThrew, BeforeOutcome
<1> QED
  BY <1>3, <1>6

\* What a worker abandons or acknowledges is pending under its own name.
LEMMA OthersStayPending ==
    ASSUME NEW w \in Workers, NEW v \in Workers, v # w,
           pel' \in {pel, Abandon(pel, w), Acknowledged(w)}
    PROVE  Held(v)
<1> SUFFICES ASSUME NEW p \in pel, p.message = msg[v], p.reader = v
             PROVE  p \in pel' \/ \E q \in pel' : q.message = msg[v] /\ q.reader = v
  BY DEF Held, PendingUnder
<1>1. CASE pel' = Abandon(pel, w)
  <2> DEFINE q == [p EXCEPT !.reader = IF @ = w THEN Nobody ELSE @]
  <2>1. q \in pel'
    BY <1>1 DEF Abandon
  <2>2. q = [p EXCEPT !.reader = p.reader]
    OBVIOUS
  <2>3. q.message = msg[v] /\ q.reader = v
    BY <2>2
  <2> QED
    BY <2>1, <2>3
<1> QED
  BY <1>1 DEF Acknowledged

\* One worker moves: what is to be shown of it alone.
LEMMA OneWorkerMoves ==
    ASSUME TypeOK, PendingInv, KeysKept, NEW w \in Workers,
           \A v \in Workers : v # w => /\ pc'[v] = pc[v] /\ msg'[v] = msg[v]
                                       /\ exec'[v] = exec[v],
           pel' \in {pel, Abandon(pel, w), Acknowledged(w)},
           InOrder(w)', StaysPending(w)'
    PROVE  PendingInv'
BY Untouched, OthersStayPending DEF PendingInv

LEMMA NobodyMoves ==
    ASSUME TypeOK, PendingInv, KeysKept, UNCHANGED <<pc, msg, exec>>,
           \A v \in Workers : Held(v)
    PROVE  PendingInv'
BY Untouched DEF PendingInv

\* A call throws, or is refused, before it had an effect.
LEMMA ErrsWithoutEffect ==
    ASSUME TypeOK, PendingInv, KeysKept, NEW w \in Workers,
           pc[w] \in Try \cup Catch,
           pc' = [pc EXCEPT ![w] = OnError(w)], UNCHANGED <<pel, msg, exec>>
    PROVE  PendingInv'
<1>1. /\ pc'[w] = OnError(w) /\ msg'[w] = msg[w]
      /\ pc'[w] \in {"fail", "recordFailure", "release"}
      /\ \A v \in Workers : v # w => pc'[v] = pc[v]
  BY DEF TypeOK, OnError
<1>2. InOrder(w)'
  BY <1>1 DEF InOrder
<1>3. StaysPending(w)'
  <2>1. CASE pc[w] \in Try
    <3>1. PendingUnder(msg[w], w)
      BY <2>1 DEF PendingInv, StaysPending, AcknowledgeThrew, BeforeOutcome, Try
    <3> QED
      BY <3>1 DEF StaysPending, PendingUnder
  <2>2. CASE pc[w] \in Catch
    BY <1>1, <2>2 DEF OnError, StaysPending, BeforeOutcome
  <2> QED
    BY <2>1, <2>2
<1> QED
  BY <1>1, <1>2, <1>3, OneWorkerMoves

LEMMA PendingConsume ==
    ASSUME TypeOK, PendingInv, KeysKept, NEW w \in Workers,
           Consume(w) \/ ConsumeLost(w)
    PROVE  PendingInv'
<1>1. CASE Consume(w)
  <2>1. /\ pc'[w] = "acquire" /\ exec' = exec /\ pc[w] = "idle"
        /\ msg'[w] = Head(stream)
        /\ pel' = pel \cup {Delivered(Head(stream), w)}
        /\ \A v \in Workers : v # w => pc'[v] = pc[v] /\ msg'[v] = msg[v]
    BY <1>1 DEF Consume, TypeOK
  <2>2. InOrder(w)'
    BY <2>1 DEF PendingInv, InOrder
  <2>4. StaysPending(w)'
    <3> DEFINE p == Delivered(Head(stream), w)
    <3>1. p \in pel' /\ p.message = msg'[w] /\ p.reader = w
      BY <2>1 DEF Delivered
    <3> QED
      BY <3>1 DEF StaysPending, PendingUnder
  <2>3. \A v \in Workers : Held(v)
    BY <2>1 DEF Held, PendingUnder
  <2> QED
    BY <2>1, <2>2, <2>3, <2>4, Untouched DEF PendingInv
<1>2. CASE ConsumeLost(w)
  <2>1. UNCHANGED <<pc, msg, exec>> /\ \A v \in Workers : Held(v)
    BY <1>2 DEF ConsumeLost, workerVars, Held, PendingUnder
  <2> QED
    BY <2>1, NobodyMoves
<1> QED
  BY <1>1, <1>2

LEMMA PendingLeaves ==
    ASSUME TypeOK, PendingInv, KeysKept, NEW w \in Workers, Leave(w),
           pel' \in {Abandon(pel, w), Acknowledged(w)}
    PROVE  PendingInv'
<1>1. /\ pc'[w] = "idle" /\ exec'[w] = "none"
      /\ \A v \in Workers : v # w => /\ pc'[v] = pc[v] /\ msg'[v] = msg[v]
                                     /\ exec'[v] = exec[v]
  BY DEF Leave, TypeOK
<1>2. InOrder(w)' /\ StaysPending(w)'
  BY <1>1 DEF InOrder, StaysPending, BeforeOutcome
<1> QED
  BY <1>1, <1>2, OneWorkerMoves

\* A worker goes on with the message it has in hand.
LEMMA PendingGoesOn ==
    ASSUME TypeOK, PendingInv, KeysKept, NEW w \in Workers,
           UNCHANGED <<pel, msg>>, InOrder(w)',
           \A v \in Workers : v # w => pc'[v] = pc[v] /\ exec'[v] = exec[v],
           \/ pc[w] \in (BeforeOutcome \ {"recordFailure", "fail"}) \cup {"ack"}
           \/ pc'[w] \notin BeforeOutcome \cup {"ack"}
    PROVE  PendingInv'
<1>1. pc[w] \in (BeforeOutcome \ {"recordFailure", "fail"}) \cup {"ack"}
         => PendingUnder(msg[w], w)
  BY DEF PendingInv, StaysPending, AcknowledgeThrew
<1>2. PendingUnder(msg[w], w) => PendingUnder(msg[w], w)'
  BY DEF PendingUnder
<1>3. StaysPending(w)'
  BY <1>1, <1>2 DEF StaysPending
<1> QED
  BY <1>3, OneWorkerMoves

LEMMA PendingAcknowledge ==
    ASSUME TypeOK, PendingInv, KeysKept, NEW w \in Workers, Acknowledge(w)
    PROVE  PendingInv'
<1>1. /\ pel' = Acknowledged(w) /\ UNCHANGED <<rows, started, msg, exec>>
      /\ pc[w] \in {"ack", "duplicate", "ackFailed"}
      /\ \A v \in Workers : v # w => pc'[v] = pc[v]
      /\ \/ pc'[w] = "release"
         \/ pc'[w] = OnError(w) /\ "error" \in Events /\ faults' = faults + 1
  BY DEF Acknowledge, Proceed, Fault, TypeOK, dbVars
<1>2. \/ pc'[w] = "release"
      \/ pc[w] = "ack" /\ pc'[w] = "recordFailure" /\ exec[w] = "success"
      \/ pc[w] = "duplicate" /\ pc'[w] = "fail"
  BY <1>1 DEF OnError, Catch, PendingInv, InOrder
<1>3. InOrder(w)'
  BY <1>2 DEF InOrder
<1>4. pc'[w] # "release" => AcknowledgeThrew(w)'
  <2> SUFFICES ASSUME pc'[w] # "release" PROVE AcknowledgeThrew(w)'
    OBVIOUS
  <2>1. Known(w)
    BY <1>2 DEF PendingInv, InOrder
  <2>2. "error" \in Events /\ faults' > 0
    <3>1. "error" \in Events /\ faults' = faults + 1
      BY <1>1
    <3> QED
      BY <3>1, PipelineAssumption DEF TypeOK
  <2> QED
    BY <1>1, <1>2, <2>1, <2>2 DEF AcknowledgeThrew, Known, JobOf
<1>5. StaysPending(w)'
  BY <1>2, <1>4 DEF StaysPending, BeforeOutcome
<1> QED
  BY <1>1, <1>3, <1>5, OneWorkerMoves

LEMMA PendingFailure ==
    ASSUME TypeOK, PendingInv, KeysKept, NEW w \in Workers, RecordFailure(w)
    PROVE  PendingInv'
<1>1. /\ pc[w] = "recordFailure" /\ UNCHANGED <<rows, started, pel, msg>>
      /\ \A v \in Workers : v # w => pc'[v] = pc[v] /\ exec'[v] = exec[v]
      /\ pc'[w] \in {"fail", "release"} /\ msg[w] # NoMsg
  BY DEF RecordFailure, Proceed, OnError, Catch, TypeOK, dbVars, redisVars
<1>2. InOrder(w)'
  BY <1>1 DEF InOrder
<1>3. CASE PendingUnder(msg[w], w)
  <2>1. StaysPending(w)'
    BY <1>1, <1>3 DEF StaysPending, PendingUnder
  <2> QED
    BY <1>1, <1>2, <2>1, OneWorkerMoves
<1>4. CASE AcknowledgeThrew(w)
  <2>1. faults' > 0
    BY <1>4, PipelineAssumption DEF AcknowledgeThrew, KeysKept, TypeOK
  <2>2. StaysPending(w)'
    BY <1>1, <1>4, <2>1
    DEF StaysPending, AcknowledgeThrew, JobOf, BeforeOutcome
  <2> QED
    BY <1>1, <1>2, <2>2, OneWorkerMoves
<1> QED
  BY <1>1, <1>3, <1>4 DEF PendingInv, StaysPending, BeforeOutcome

LEMMA PendingWorkerAction ==
    ASSUME TypeOK, PendingInv, KeysKept, NEW w \in Workers, WorkerAction(w)
    PROVE  PendingInv'
<1> USE DEF dbVars, redisVars
<1>0. InOrder(w) /\ (pc[w] # "idle" => msg[w] # NoMsg)
  BY DEF PendingInv, TypeOK
<1>1. CASE Drop(w) \/ Release(w)
  BY <1>1, PendingLeaves DEF Drop, Release
<1>2. CASE Acquire(w) \/ AcquireRefused(w) \/ DuplicateStart(w)
           \/ HandlerResolves(w)
  <2>1. /\ UNCHANGED <<rows, started, pel, msg, exec>>
        /\ pc[w] \in {"acquire", "start", "run"}
        /\ \A v \in Workers : v # w => pc'[v] = pc[v]
        /\ \/ pc[w] = "acquire" /\ pc'[w] \in {"start", "drop"}
           \/ pc[w] = "start" /\ pc'[w] = "duplicate" /\ Known(w)
           \/ pc[w] = "run" /\ pc'[w] = "success"
    BY <1>2 DEF Acquire, AcquireRefused, DuplicateStart, HandlerResolves,
                Known, TypeOK
  <2>2. Known(w) => Known(w)'
    BY <2>1 DEF Known, JobOf
  <2>3. InOrder(w)'
    BY <1>0, <2>1, <2>2 DEF InOrder
  <2> QED
    BY <2>1, <2>3, PendingGoesOn DEF BeforeOutcome
<1>3. CASE HandlerMissing(w) \/ HandlerRejects(w) \/ HandlerTimesOut(w)
  <2>1. /\ pc[w] \in Try \cup Catch /\ UNCHANGED <<pel, msg, exec>>
        /\ pc' = [pc EXCEPT ![w] = OnError(w)]
    BY <1>3 DEF HandlerMissing, HandlerRejects, HandlerTimesOut, Try
  <2> QED
    BY <2>1, ErrsWithoutEffect
<1>4. CASE RecordStart(w)
  <2>1. /\ pc[w] = "start" /\ UNCHANGED <<pel, msg>>
        /\ KeyOf(msg[w]) \in started'
        /\ \A v \in Workers : v # w => pc'[v] = pc[v] /\ exec'[v] = exec[v]
        /\ pc'[w] \in {"run", "fail", "recordFailure"}
    BY <1>4 DEF RecordStart, Proceed, OnError, Catch, TypeOK
  <2>2. InOrder(w)'
    BY <2>1 DEF InOrder, Known
  <2> QED
    BY <2>1, <2>2, PendingGoesOn DEF BeforeOutcome
<1>5. CASE RecordSuccess(w) \/ CompleteExecution(w)
  <2>1. /\ pc[w] \in {"success", "complete"} /\ UNCHANGED <<pel, msg>>
        /\ \A v \in Workers : v # w => pc'[v] = pc[v] /\ exec'[v] = exec[v]
        /\ \/ pc'[w] \in {"fail", "recordFailure"}
           \/ pc'[w] \in {"complete", "ack"} /\ exec'[w] = "success"
    BY <1>0, <1>5 DEF RecordSuccess, CompleteExecution, Proceed, OnError,
                      Catch, TypeOK, InOrder
  <2>2. Known(w)'
    BY <1>0, <2>1, KnownStays DEF InOrder
  <2>3. InOrder(w)'
    BY <2>1, <2>2 DEF InOrder
  <2> QED
    BY <2>1, <2>3, PendingGoesOn DEF BeforeOutcome
<1>6. CASE FailWithRetry(w) \/ FailPermanently(w) \/ SendToDLQ(w)
           \/ WriteToDLQTable(w) \/ RecordDLQ(w)
  <2>1. /\ UNCHANGED <<pel, msg>>
        /\ \A v \in Workers : v # w => exec'[v] = exec[v]
        /\ pc[w] \in Catch
        /\ \E next \in {"ackFailed", "toDLQStream", "toDLQTable",
                        "recordDLQ"} : Proceed(w, next)
    BY <1>6 DEF FailWithRetry, FailPermanently, SendToDLQ, WriteToDLQTable,
                RecordDLQ, TypeOK, Catch
  <2>2. /\ pc'[w] \in {"ackFailed", "toDLQStream", "toDLQTable", "recordDLQ",
                       "release"}
        /\ \A v \in Workers : v # w => pc'[v] = pc[v]
    BY <2>1 DEF Proceed, OnError, TypeOK
  <2>3. InOrder(w)'
    BY <2>2 DEF InOrder
  <2> QED
    BY <2>1, <2>2, <2>3, PendingGoesOn DEF BeforeOutcome
<1> QED
  BY <1>1, <1>2, <1>3, <1>4, <1>5, <1>6, PendingConsume, PendingAcknowledge,
     PendingFailure DEF WorkerAction, HandlerEnds

LEMMA PendingWorkerTrouble ==
    ASSUME TypeOK, PendingInv, KeysKept, NEW w \in Workers, WorkerTrouble(w)
    PROVE  PendingInv'
<1> USE DEF redisVars, workerVars
<1>1. CASE Throws(w)
  <2>1. pc[w] \in Try \cup Catch
    BY <1>1 DEF Throws
  <2> QED
    BY <1>1, <2>1, ErrsWithoutEffect DEF Throws
<1>2. CASE ZombieEnds(w)
  <2>1. UNCHANGED <<pc, msg, exec>> /\ \A v \in Workers : Held(v)
    BY <1>2 DEF ZombieEnds, Held, PendingUnder
  <2> QED
    BY <2>1, NobodyMoves
<1>3. CASE /\ pc[w] = "acquire" /\ pc' = [pc EXCEPT ![w] = "drop"]
           /\ UNCHANGED <<pel, msg, exec>>
  <2>1. pc'[w] = "drop" /\ \A v \in Workers : v # w => pc'[v] = pc[v]
    BY <1>3 DEF TypeOK
  <2>2. InOrder(w)'
    BY <1>3, <2>1 DEF PendingInv, InOrder
  <2> QED
    BY <1>3, <2>1, <2>2, PendingGoesOn DEF BeforeOutcome
<1>4. CASE Leave(w) /\ pel' = Abandon(pel, w)
  BY <1>4, PendingLeaves
<1> QED
  BY <1>1, <1>2, <1>3, <1>4, PendingConsume
  DEF WorkerTrouble, AcquireReplyLost, LoopError, WorkerCrash

LEMMA KeysAreKept ==
    ASSUME TypeOK, [Next]_vars
    PROVE  KeysKept
<1>1. /\ started' = started \/ \E w \in Workers : RecordStart(w)
      /\ faults' = faults \/ \E kind : Fault(kind)
  BY DEF Next, vars, dbVars, SchedulerStep, SchedulerTrouble, GetDueJobs,
     LockJob, SkipLocked, Publish, UnlockJob, LockJobThrows, PublishThrows,
     SchedulerCrash, Reclaim, Clock, Fires, Ages, Expire, WorkerAction,
     Consume, Acquire, AcquireRefused, Drop, HandlerMissing, RecordStart,
     DuplicateStart, HandlerEnds, HandlerResolves, HandlerRejects,
     HandlerTimesOut, RecordSuccess, CompleteExecution, Acknowledge,
     RecordFailure, FailWithRetry, FailPermanently, SendToDLQ,
     WriteToDLQTable, RecordDLQ, Release, Proceed, WorkerTrouble, Throws,
     ConsumeLost, AcquireReplyLost, LoopError, WorkerCrash, ZombieEnds
<1>2. started \subseteq started'
  BY <1>1 DEF RecordStart
<1>3. faults' \in {faults, faults + 1}
  BY <1>1 DEF Fault
<1> QED
  BY <1>2, <1>3, RowsDoPersist DEF KeysKept, RowsPersist

LEMMA PendingStep ==
    ASSUME TypeOK, PendingInv, [Next]_vars
    PROVE  PendingInv'
<1>0. KeysKept
  BY KeysAreKept
<1>1. CASE Reclaim
  <2>1. PICK p \in pel :
           pel' = (pel \ {p}) \cup {[p EXCEPT !.reclaimed = TRUE]}
    BY <1>1 DEF Reclaim
  <2>2. [p EXCEPT !.reclaimed = TRUE].message = p.message
        /\ [p EXCEPT !.reclaimed = TRUE].reader = p.reader
    BY DEF TypeOK, Pending
  <2>3. \A v \in Workers : Held(v)
    BY <2>1, <2>2 DEF Held, PendingUnder
  <2> QED
    BY <1>0, <1>1, <2>3, NobodyMoves DEF Reclaim, workerVars
<1>2. CASE UNCHANGED vars
           \/ (\E s \in Schedulers : SchedulerStep(s) \/ SchedulerTrouble(s))
           \/ \E j \in Jobs : Clock(j)
  <2>1. UNCHANGED <<pc, msg, exec, pel>>
    BY <1>2 DEF vars, SchedulerStep, SchedulerTrouble, GetDueJobs, LockJob,
        SkipLocked, Publish, UnlockJob, LockJobThrows, PublishThrows,
        SchedulerCrash, Clock, Fires, Ages, Expire, redisVars, workerVars
  <2>2. \A v \in Workers : Held(v)
    BY <2>1 DEF Held, PendingUnder
  <2> QED
    BY <1>0, <2>1, <2>2, NobodyMoves
<1> QED
  BY <1>0, <1>1, <1>2, PendingWorkerAction, PendingWorkerTrouble DEF Next

LEMMA PendingInit == Init => PendingInv
BY DEF Init, PendingInv, InOrder, StaysPending, BeforeOutcome

LEMMA PendingImplies == PendingInv => UnsettledStaysPending
BY DEF PendingInv, StaysPending, UnsettledStaysPending

\* From its delivery on a message is pending under its worker until the outcome
\* of its execution is in the row or the lock has refused it, whatever the
\* leader claims meanwhile; only an acknowledge that takes effect and throws,
\* of an execution that has a record, breaks this.  For any number of workers,
\* under every event of the model.
THEOREM UnsettledIsPending == Spec => []UnsettledStaysPending
<1>1. TypeOK /\ PendingInv /\ [Next]_vars => PendingInv'
  BY PendingStep
<1> QED
  BY <1>1, PendingInit, PendingImplies, TypeCorrect, PTL DEF Spec

-----------------------------------------------------------------------------
(* Tickets.  OneTicket is inductive together with TicketsHeld and the      *)
(* absence of stale locks: a row is locked only when it is free, then no   *)
(* ticket for it exists, and it is freed by the step that ends its ticket. *)
(* A deleted row is never locked again.                                    *)

NoStaleRow == \A j \in Jobs : rows[j].lock # "stale"

TicketInv == OneTicket /\ TicketsHeld /\ NoStaleRow

\* What a step of the pipeline keeps; that rows with a ticket are active holds
\* only without the requests of JobApi.
TicketsKept == TicketInv' /\ (TicketsLocked => TicketsLocked')

\* A step in which no ticket appears and none moves.
NoNewTicket ==
    /\ stream' = stream
    /\ \A s \in Schedulers, j \in Jobs : Publishing(s, j)' => Publishing(s, j)
    /\ \A w \in Workers, j \in Jobs : Settling(w, j)' => Settling(w, j)

LEMMA FewerTickets ==
    ASSUME TicketInv, NoNewTicket,
           \A j \in Jobs : /\ rows'[j].lock # "stale"
                           /\ HasTicket(j)' =>
                                 /\ rows'[j].status = rows[j].status
                                 /\ rows'[j].lock = rows[j].lock
    PROVE  TicketsKept
<1>1. \A i \in 1..Len(stream), j \in Jobs : Queued(i, j)' <=> Queued(i, j)
  BY DEF NoNewTicket, Queued
<1>2. \A j \in Jobs : HasTicket(j)' => HasTicket(j)
  BY <1>1 DEF NoNewTicket, HasTicket
<1>3. OneTicket'
  BY <1>1 DEF NoNewTicket, TicketInv, OneTicket
<1>4. TicketsHeld' /\ (TicketsLocked => TicketsLocked')
  BY <1>2 DEF TicketInv, TicketsHeld, TicketsLocked
<1> QED
  BY <1>3, <1>4 DEF TicketsKept, TicketInv, NoStaleRow

\* The step of a worker that writes an outcome ends the only ticket of its job
\* and frees that row.
LEMMA OutcomeEndsTicket ==
    ASSUME TicketInv, NoNewTicket, NEW w \in Workers, NEW job \in Jobs,
           Settling(w, job), ~ Settling(w, job)', rows'[job].lock # "stale",
           \A j \in Jobs : j # job => rows'[j] = rows[j]
    PROVE  TicketsKept
<1>1. ~ HasTicket(job)'
  <2>1. \A v \in Workers : ~ Settling(v, job)'
    BY DEF NoNewTicket, TicketInv, OneTicket
  <2>2. \A s \in Schedulers : ~ Publishing(s, job)'
    BY DEF NoNewTicket, TicketInv, OneTicket
  <2>3. \A i \in 1..Len(stream) : ~ Queued(i, job)'
    BY DEF NoNewTicket, TicketInv, OneTicket, Queued
  <2> QED
    BY <2>1, <2>2, <2>3 DEF HasTicket, NoNewTicket
<1>2. \A j \in Jobs : rows'[j].lock # "stale"
  BY DEF TicketInv, NoStaleRow
<1> QED
  BY <1>1, <1>2, FewerTickets

\* lockJob creates the ticket of a job that has none.
LEMMA TicketLockJob ==
    ASSUME TypeOK, TicketInv, NEW s \in Schedulers, LockJob(s)
    PROVE  TicketsKept
<1>1. PICK snap \in batch[s] :
         /\ Lockable(rows[snap.job])
         /\ rows' = [rows EXCEPT ![snap.job] = Locked(@)]
         /\ cur' = [cur EXCEPT ![s] = snap]
  BY DEF LockJob
<1> DEFINE job == snap.job
<1>2. job \in Jobs /\ rows[job] \in Row
  BY DEF TypeOK, Snapshot
<1>3. rows[job].lock = "free"
  BY <1>1, <1>2 DEF TicketInv, NoStaleRow, Lockable, Row
<1>4. ~ HasTicket(job)
  BY <1>1, <1>2, <1>3 DEF TicketInv, TicketsHeld, Lockable
<1>5. rows'[job].lock = "fresh" /\ rows'[job].status = "active"
  BY <1>1, <1>2 DEF Locked, Lockable, TypeOK, Row
<1>6. \A j \in Jobs : j # job => rows'[j] = rows[j]
  BY <1>1 DEF TypeOK
<1>7. stream' = stream /\ pc' = pc /\ msg' = msg
  BY DEF LockJob, redisVars, workerVars
<1>8. /\ \A i \in 1..Len(stream), j \in Jobs : Queued(i, j)' <=> Queued(i, j)
      /\ \A w \in Workers, j \in Jobs : Settling(w, j)' <=> Settling(w, j)
  BY <1>7 DEF Queued, Settling, JobOf
<1>9. \A t \in Schedulers, j \in Jobs :
         Publishing(t, j)' => Publishing(t, j) \/ (t = s /\ j = job)
  BY <1>1 DEF LockJob, Publishing, TypeOK
<1>10. OneTicket'
  BY <1>4, <1>7, <1>8, <1>9 DEF TicketInv, OneTicket, HasTicket
<1>11. TicketsHeld' /\ (TicketsLocked => TicketsLocked')
  <2>1. \A j \in Jobs : HasTicket(j)' => j = job \/ HasTicket(j)
    BY <1>7, <1>8, <1>9 DEF HasTicket
  <2> QED
    BY <2>1, <1>5, <1>6 DEF TicketInv, TicketsHeld, TicketsLocked
<1>12. NoStaleRow'
  BY <1>5, <1>6 DEF TicketInv, NoStaleRow
<1> QED
  BY <1>10, <1>11, <1>12 DEF TicketsKept, TicketInv

\* publish hands the scheduler's ticket to the end of the stream.
LEMMA TicketPublish ==
    ASSUME TypeOK, TicketInv, NEW s \in Schedulers, Publish(s)
    PROVE  TicketsKept
<1> DEFINE job == cur[s].job
           m == MessageOf(cur[s])
           n == Len(stream)
<1>1. cur[s] \in Snapshot /\ job \in Jobs /\ m \in Message /\ m.job = job
  BY MessageTypes DEF Publish, TypeOK, Snapshot, MessageOf
<1>2. /\ n \in Nat /\ Len(stream') = n + 1
      /\ \A i \in 1..n : stream'[i] = stream[i]
      /\ stream'[n + 1] = m
  BY <1>1, AppendProperties DEF Publish, TypeOK
<1>3. Publishing(s, job)
  BY DEF Publish, Publishing
<1>4. \A t \in Schedulers, j \in Jobs :
         Publishing(t, j)' => Publishing(t, j) /\ t # s
  BY DEF Publish, Publishing, TypeOK, AfterJob
<1>5. /\ rows' = rows
      /\ \A w \in Workers, j \in Jobs : Settling(w, j)' <=> Settling(w, j)
  BY DEF Publish, Settling, JobOf, dbVars, workerVars
<1>6. \A i \in 1..Len(stream'), j \in Jobs :
         Queued(i, j)' => \/ i \in 1..n /\ Queued(i, j)
                          \/ i = n + 1 /\ j = job
  <2> SUFFICES ASSUME NEW i \in 1..(n + 1), NEW j \in Jobs, stream'[i].job = j
               PROVE  \/ i \in 1..n /\ stream[i].job = j
                      \/ i = n + 1 /\ j = job
    BY <1>2 DEF Queued
  <2> HIDE DEF n, m, job
  <2>1. CASE i = n + 1
    BY <2>1, <1>1, <1>2
  <2>2. CASE i # n + 1
    <3>1. i \in 1..n
      BY <2>2, <1>2
    <3> QED
      BY <3>1, <1>2
  <2> QED
    BY <2>1, <2>2
<1>7. \A j \in Jobs : HasTicket(j)' => HasTicket(j)
  BY <1>3, <1>4, <1>5, <1>6 DEF HasTicket
<1>8. OneTicket'
  BY <1>1, <1>3, <1>4, <1>5, <1>6 DEF TicketInv, OneTicket
<1> QED
  BY <1>5, <1>7, <1>8
  DEF TicketsKept, TicketInv, TicketsHeld, TicketsLocked, NoStaleRow

\* consume hands the ticket at the head of the stream to a worker.
LEMMA TicketConsume ==
    ASSUME TypeOK, TicketInv, NEW w \in Workers, Consume(w)
    PROVE  TicketsKept
<1>1. /\ Head(stream) = stream[1] /\ Head(stream) \in Message
      /\ Len(stream) \in Nat /\ Len(stream) >= 1
      /\ Len(stream') = Len(stream) - 1
      /\ \A i \in 1..Len(stream') : stream'[i] = stream[i + 1]
  BY HeadTailProperties DEF Consume, TypeOK
<1>2. PICK job \in Jobs :
         job = Head(stream).job /\ Queued(1, job) /\ 1 \in 1..Len(stream)
  BY <1>1 DEF Queued, Message
<1>3. \A s \in Schedulers, j \in Jobs : Publishing(s, j)' <=> Publishing(s, j)
  BY DEF Consume, Publishing, schedulerVars
<1>4. \A v \in Workers, j \in Jobs :
         Settling(v, j)' => \/ Settling(v, j) /\ v # w
                            \/ v = w /\ j = job
  BY <1>2 DEF Consume, Settling, JobOf, TypeOK, BeforeOutcome
<1>5. \A i \in 1..Len(stream'), j \in Jobs :
         Queued(i, j)' => i + 1 \in 2..Len(stream) /\ Queued(i + 1, j)
  BY <1>1 DEF Queued
<1>6. \A j \in Jobs : HasTicket(j)' => HasTicket(j)
  BY <1>1, <1>2, <1>3, <1>4, <1>5 DEF HasTicket
<1>7. OneTicket'
  <2>1. \A i, k \in 1..Len(stream'), j \in Jobs :
           Queued(i, j)' /\ Queued(k, j)' => i = k
    BY <1>1, <1>5 DEF TicketInv, OneTicket
  <2>2. \A i \in 1..Len(stream') : ~ Queued(i, job)'
    BY <1>1, <1>2, <1>5 DEF TicketInv, OneTicket
  <2> QED
    BY <1>1, <1>2, <1>3, <1>4, <1>5, <2>1, <2>2 DEF TicketInv, OneTicket
<1> QED
  BY <1>6, <1>7
  DEF TicketsKept, TicketInv, TicketsHeld, TicketsLocked, NoStaleRow, Consume,
      dbVars

\* A worker's step between two calls: it may end its ticket, not gain one.
LEMMA WorkerKeepsTickets ==
    ASSUME TypeOK, NEW w \in Workers, UNCHANGED <<stream, spc, cur>>,
           \A v \in Workers : v # w => pc'[v] = pc[v] /\ msg'[v] = msg[v],
           pc'[w] \in BeforeOutcome =>
              pc[w] \in BeforeOutcome /\ msg'[w] = msg[w]
    PROVE  NoNewTicket
BY DEF NoNewTicket, Publishing, Settling, JobOf

\* Every statement that writes an outcome changes the row of its job alone,
\* and unlocks it if it is still there.
LEMMA OutcomeUnlocks ==
    ASSUME TypeOK, NEW w \in Workers,
           CompleteExecution(w) \/ FailWithRetry(w) \/ FailPermanently(w),
           JobOf(w) \in Jobs
    PROVE  \E row : /\ rows' = [rows EXCEPT ![JobOf(w)] = row]
                    /\ row.lock = "free" \/ row = rows[JobOf(w)]
<1> DEFINE r == rows[JobOf(w)]
<1>0. r \in Row
  BY DEF TypeOK
<1>1. CASE FailWithRetry(w)
  <2>1. rows' = [rows EXCEPT ![JobOf(w)] = RetryScheduled(r)]
    BY <1>1 DEF FailWithRetry, TypeOK
  <2>2. RetryScheduled(r).lock = "free" \/ RetryScheduled(r) = r
    BY <1>0 DEF RetryScheduled, Update, Row
  <2> QED
    BY <2>1, <2>2
<1>2. CASE FailPermanently(w)
  <2>1. rows' = [rows EXCEPT ![JobOf(w)] = FailedPermanently(r)]
    BY <1>2 DEF FailPermanently, TypeOK
  <2>2. FailedPermanently(r).lock = "free" \/ FailedPermanently(r) = r
    BY <1>0 DEF FailedPermanently, Update, Row
  <2> QED
    BY <2>1, <2>2
<1>3. CASE CompleteExecution(w)
  <2>1. PICK next : rows' = [rows EXCEPT ![JobOf(w)] =
                       IF JobOf(w) \in CronJobs THEN CronCompleted(r, next)
                                                ELSE OneTimeCompleted(r)]
    BY <1>3 DEF CompleteExecution, TypeOK
  <2>2. /\ CronCompleted(r, next).lock = "free" \/ CronCompleted(r, next) = r
        /\ OneTimeCompleted(r).lock = "free" \/ OneTimeCompleted(r) = r
    BY <1>0 DEF CronCompleted, OneTimeCompleted, Update, Row
  <2> QED
    BY <2>1, <2>2
<1> QED
  BY <1>1, <1>2, <1>3

LEMMA TicketWorkerAction ==
    ASSUME "error" \notin Events, TypeOK, TicketInv,
           NEW w \in Workers, WorkerAction(w)
    PROVE  TicketsKept
<1> USE DEF dbVars, redisVars, schedulerVars
<1>1. CASE Consume(w)
  BY <1>1, TicketConsume
<1>2. CASE CompleteExecution(w) \/ FailWithRetry(w) \/ FailPermanently(w)
  <2>1. /\ pc[w] \in {"complete", "fail"} /\ UNCHANGED <<stream, spc, cur, msg>>
        /\ \E next \in {"ack", "ackFailed", "toDLQStream"} :
              pc' = [pc EXCEPT ![w] = next]
    BY <1>2 DEF CompleteExecution, FailWithRetry, FailPermanently, Proceed,
                Fault
  <2>2. PICK job \in Jobs : job = JobOf(w)
    BY <2>1, InHand
  <2>3. PICK row : /\ rows' = [rows EXCEPT ![job] = row]
                   /\ row.lock = "free" \/ row = rows[job]
    BY <1>2, <2>2, OutcomeUnlocks
  <2>4. Settling(w, job) /\ ~ Settling(w, job)'
    BY <2>1, <2>2 DEF Settling, BeforeOutcome, TypeOK
  <2>5. NoNewTicket
    BY <2>1, WorkerKeepsTickets DEF BeforeOutcome, TypeOK
  <2>6. /\ rows'[job].lock # "stale"
        /\ \A j \in Jobs : j # job => rows'[j] = rows[j]
    BY <2>3 DEF TypeOK, TicketInv, NoStaleRow
  <2> QED
    BY <2>4, <2>5, <2>6, OutcomeEndsTicket
<1>3. CASE Drop(w) \/ Release(w)
  <2>1. Leave(w) /\ UNCHANGED <<rows, stream, spc, cur>>
    BY <1>3 DEF Drop, Release
  <2>2. NoNewTicket
    BY <2>1, WorkerKeepsTickets DEF Leave, BeforeOutcome, TypeOK
  <2> QED
    BY <2>1, <2>2, FewerTickets DEF TicketInv, NoStaleRow
<1>4. CASE Acquire(w) \/ AcquireRefused(w) \/ HandlerMissing(w)
           \/ RecordStart(w) \/ DuplicateStart(w) \/ HandlerEnds(w)
           \/ RecordSuccess(w) \/ RecordFailure(w)
  <2>1. /\ pc[w] \in BeforeOutcome /\ UNCHANGED <<rows, stream, spc, cur, msg>>
        /\ \E next : pc' = [pc EXCEPT ![w] = next]
    BY <1>4 DEF Acquire, AcquireRefused, HandlerMissing, RecordStart,
        DuplicateStart, HandlerEnds, HandlerResolves, HandlerRejects,
        HandlerTimesOut, RecordSuccess, RecordFailure, Proceed,
        BeforeOutcome
  <2>2. NoNewTicket
    BY <2>1, WorkerKeepsTickets DEF TypeOK
  <2> QED
    BY <2>1, <2>2, FewerTickets DEF TicketInv, NoStaleRow
<1>5. CASE Acknowledge(w) \/ SendToDLQ(w) \/ WriteToDLQTable(w)
           \/ RecordDLQ(w)
  <2>1. /\ UNCHANGED <<rows, stream, spc, cur, msg>>
        /\ \E next \in {"release", "toDLQTable", "recordDLQ", "ackFailed"} :
              pc' = [pc EXCEPT ![w] = next]
    BY <1>5 DEF Acknowledge, SendToDLQ, WriteToDLQTable, RecordDLQ, Proceed,
                Fault
  <2>2. NoNewTicket
    BY <2>1, WorkerKeepsTickets DEF BeforeOutcome, TypeOK
  <2> QED
    BY <2>1, <2>2, FewerTickets DEF TicketInv, NoStaleRow
<1> QED
  BY <1>1, <1>2, <1>3, <1>4, <1>5 DEF WorkerAction

NoUnlock == \A s \in Schedulers : spc[s] # "unlock"

LEMMA TicketStep ==
    ASSUME "aging" \notin Events, "error" \notin Events,
           TypeOK, NoUnlock, TicketInv, [Next]_vars
    PROVE  TicketsKept
<1> USE DEF dbVars, redisVars, schedulerVars, workerVars
<1>1. CASE UNCHANGED vars
  <2>1. NoNewTicket
    BY <1>1 DEF vars, NoNewTicket, Publishing, Settling, JobOf
  <2> QED
    BY <1>1, <2>1, FewerTickets DEF vars, TicketInv, NoStaleRow
<1>2. ASSUME NEW s \in Schedulers, SchedulerStep(s) \/ SchedulerTrouble(s)
      PROVE  TicketsKept
  <2>1. CASE GetDueJobs(s) \/ SkipLocked(s) \/ SchedulerCrash(s)
    <3>1. NoNewTicket /\ rows' = rows
      BY <2>1 DEF GetDueJobs, SkipLocked, SchedulerCrash, AfterJob,
                  NoNewTicket, Publishing, Settling, JobOf, TypeOK
    <3> QED
      BY <3>1, FewerTickets DEF TicketInv, NoStaleRow
  <2>2. CASE LockJob(s)
    BY <2>2, TicketLockJob
  <2>3. CASE Publish(s)
    BY <2>3, TicketPublish
  <2> QED
    BY <1>2, <2>1, <2>2, <2>3
    DEF SchedulerStep, SchedulerTrouble, UnlockJob, LockJobThrows,
        PublishThrows, Fault, NoUnlock
<1>3. CASE Reclaim
  <2>1. NoNewTicket /\ rows' = rows
    BY <1>3 DEF Reclaim, NoNewTicket, Publishing, Settling, JobOf
  <2> QED
    BY <2>1, FewerTickets DEF TicketInv, NoStaleRow
<1>4. ASSUME NEW j \in Jobs, Clock(j) PROVE TicketsKept
  <2>1. NoNewTicket
    BY <1>4 DEF Clock, Fires, Ages, Expire, NoNewTicket, Publishing,
                Settling, JobOf
  <2>2. \A k \in Jobs : /\ rows'[k].lock = rows[k].lock
                        /\ rows'[k].status = rows[k].status
    <3>1. CASE Expire(j)
      BY <3>1 DEF Expire
    <3>2. CASE Fires(j)
      <4>1. rows[j] \in Row /\ rows' = [rows EXCEPT ![j] = Fired(rows[j])]
        BY <3>2 DEF Fires, TypeOK
      <4>2. /\ Fired(rows[j]).lock = rows[j].lock
            /\ Fired(rows[j]).status = rows[j].status
        BY <4>1 DEF Fired, Row
      <4> QED
        BY <4>1, <4>2 DEF TypeOK
    <3> QED
      BY <1>4, <3>1, <3>2 DEF Clock, Ages
  <2> QED
    BY <2>1, <2>2, FewerTickets DEF TicketInv, NoStaleRow
<1>5. ASSUME NEW w \in Workers, WorkerTrouble(w) PROVE TicketsKept
  <2>1. UNCHANGED <<rows, stream, spc, cur>>
    BY <1>5 DEF WorkerTrouble, Throws, ConsumeLost, AcquireReplyLost,
                LoopError, WorkerCrash, ZombieEnds, Fault
  <2>2. Leave(w) \/ UNCHANGED <<pc, msg>>
    BY <1>5 DEF WorkerTrouble, Throws, ConsumeLost, AcquireReplyLost,
                LoopError, WorkerCrash, ZombieEnds, Fault
  <2>3. NoNewTicket
    BY <2>1, <2>2, WorkerKeepsTickets DEF Leave, BeforeOutcome, TypeOK
  <2> QED
    BY <2>1, <2>3, FewerTickets DEF TicketInv, NoStaleRow
<1> QED
  BY <1>1, <1>2, <1>3, <1>4, <1>5, TicketWorkerAction DEF Next

LEMMA WorkerKeepsSchedulers ==
    ASSUME NEW w \in Workers, WorkerAction(w) PROVE spc' = spc
BY DEF WorkerAction, Consume, Acquire, AcquireRefused, Drop, HandlerMissing,
       RecordStart, DuplicateStart, HandlerEnds, HandlerResolves,
       HandlerRejects, HandlerTimesOut, RecordSuccess, CompleteExecution,
       Acknowledge, RecordFailure, FailWithRetry, FailPermanently, SendToDLQ,
       WriteToDLQTable, RecordDLQ, Release, schedulerVars

LEMMA NoUnlockStep ==
    ASSUME "error" \notin Events, TypeOK, NoUnlock, [Next]_vars
    PROVE  NoUnlock'
<1> USE DEF NoUnlock
<1>1. CASE spc' = spc
  BY <1>1
<1>2. ASSUME NEW s \in Schedulers, SchedulerStep(s) \/ SchedulerTrouble(s)
      PROVE  NoUnlock'
  BY <1>2 DEF SchedulerStep, SchedulerTrouble, GetDueJobs, LockJob,
      SkipLocked, Publish, UnlockJob, LockJobThrows, PublishThrows,
      SchedulerCrash, Fault, AfterJob, TypeOK
<1>3. ASSUME NEW w \in Workers, WorkerAction(w) PROVE spc' = spc
  BY <1>3, WorkerKeepsSchedulers
<1>4. ASSUME NEW w \in Workers, WorkerTrouble(w) PROVE spc' = spc
  BY <1>4 DEF WorkerTrouble, Throws, ConsumeLost, AcquireReplyLost,
      LoopError, WorkerCrash, ZombieEnds, schedulerVars
<1>5. ASSUME NEW j \in Jobs, Clock(j) PROVE spc' = spc
  BY <1>5 DEF Clock, Fires, Ages, Expire, schedulerVars
<1> QED
  BY <1>1, <1>2, <1>3, <1>4, <1>5
  DEF Next, vars, schedulerVars, Reclaim

\* Without an error no scheduler unlocks a row it has locked.
LEMMA NeverUnlocks ==
    ASSUME "error" \notin Events PROVE Spec => []NoUnlock
<1>1. Init => NoUnlock
  BY DEF Init, NoUnlock
<1>2. NoUnlock /\ [Next]_vars /\ TypeOK => NoUnlock'
  BY NoUnlockStep
<1> QED
  BY <1>1, <1>2, TypeCorrect, PTL DEF Spec

LEMMA TicketInvariant ==
    ASSUME "aging" \notin Events, "error" \notin Events
    PROVE  Spec => [](TicketInv /\ TicketsLocked)
<1>1. Init => TicketInv /\ TicketsLocked
  BY DEF Init, TicketInv, OneTicket, TicketsHeld, TicketsLocked, NoStaleRow,
         HasTicket, Publishing, Settling, BeforeOutcome, Created
<1>2. TicketInv /\ TicketsLocked /\ TypeOK /\ NoUnlock /\ [Next]_vars
         => TicketInv' /\ TicketsLocked'
  BY TicketStep DEF TicketsKept
<1> QED
  BY <1>1, <1>2, TypeCorrect, NeverUnlocks, PTL DEF Spec

\* The right to settle a job is never duplicated, for any number of
\* schedulers, workers and jobs and through any crashes, lapsed job locks and
\* handlers given up: what can break it is a row's lock that turns stale, or
\* an error reply of a call whose effect took place.
THEOREM TicketsAreUnique ==
    ASSUME "aging" \notin Events, "error" \notin Events
    PROVE  Spec => []OneTicket
<1>1. TicketInv => OneTicket
  BY DEF TicketInv
<1> QED
  BY <1>1, TicketInvariant, PTL

\* Under the same conditions a row stays active and locked for as long as
\* anybody has the right to settle it.
THEOREM TicketsLockRows ==
    ASSUME "aging" \notin Events, "error" \notin Events
    PROVE  Spec => []TicketsLocked
BY TicketInvariant, PTL

\* A handler runs under its job's only ticket.
LEMMA TicketRunsAlone == OneTicket /\ NoZombie => HandlerExclusion
<1> SUFFICES ASSUME OneTicket, NoZombie, NEW j \in Jobs
             PROVE  /\ \A v, w \in Running(j) : v = w
                    /\ \A w \in zombies[j] : ~ (pc[w] = "run" /\ JobOf(w) = j)
  BY DEF HandlerExclusion
<1>1. \A w \in Workers : pc[w] = "run" /\ JobOf(w) = j => Settling(w, j)
  BY DEF Settling, BeforeOutcome
<1> QED
  BY <1>1 DEF OneTicket, NoZombie, Running

\* The row lock excludes a second handler by itself: also when job locks expire
\* under stalled workers, no two handlers of one job run at a time, for any
\* number of schedulers and workers and through any crashes, as long as no row
\* lock turns stale and no call throws.
THEOREM RowLockExcludes ==
    ASSUME "aging" \notin Events, "error" \notin Events,
           "timeout" \notin Events
    PROVE  Spec => []HandlerExclusion
BY TicketRunsAlone, TicketsAreUnique, NoZombies, PTL

-----------------------------------------------------------------------------
(* A one-time job stays as it ended.                                       *)

Ended(row) == row.status \in {"completed", "failed_permanent"}

\* An ended row is not waited for and not locked, so that only a ticket could
\* still change it; and a row with a ticket is active.
EndedInv ==
    \A j \in Jobs : Ended(rows[j]) =>
                      rows[j].nextRun = "never" /\ rows[j].lock = "free"

\* What a step may do to a row: end it, change it while it is active, or
\* leave it.
RowsStep ==
    \A j \in Jobs :
       \/ rows'[j] = rows[j]
       \/ /\ ~ Ended(rows[j])
          /\ Ended(rows'[j]) =>
                rows'[j].nextRun = "never" /\ rows'[j].lock = "free"

LEMMA OneRow ==
    ASSUME TypeOK, NEW j \in Jobs, NEW row, rows' = [rows EXCEPT ![j] = row],
           ~ Ended(rows[j]),
           Ended(row) => row.nextRun = "never" /\ row.lock = "free"
    PROVE  RowsStep
BY DEF RowsStep, TypeOK

LEMMA RowsWorkerAction ==
    ASSUME TypeOK, TicketsLocked, NEW w \in Workers, WorkerAction(w)
    PROVE  RowsStep
<1> DEFINE r == rows[JobOf(w)]
<1>1. CASE CompleteExecution(w) \/ FailWithRetry(w) \/ FailPermanently(w)
  <2>1. pc[w] \in {"complete", "fail"}
    BY <1>1 DEF CompleteExecution, FailWithRetry, FailPermanently
  <2>2. JobOf(w) \in Jobs /\ r \in Row
    BY <2>1, InHand DEF TypeOK
  <2>3. r.status = "active" /\ ~ Ended(r)
    BY <2>1, <2>2 DEF TicketsLocked, HasTicket, Settling, BeforeOutcome, Ended
  <2>4. CASE FailWithRetry(w)
    <3>1. rows' = [rows EXCEPT ![JobOf(w)] = RetryScheduled(r)]
      BY <2>4, <2>2 DEF FailWithRetry, TypeOK
    <3>2. ~ Ended(RetryScheduled(r))
      BY <2>2, <2>3 DEF RetryScheduled, Update, Row, Ended
    <3> QED
      BY <2>2, <2>3, <3>1, <3>2, OneRow
  <2>5. CASE FailPermanently(w)
    <3>1. rows' = [rows EXCEPT ![JobOf(w)] = FailedPermanently(r)]
      BY <2>5, <2>2 DEF FailPermanently, TypeOK
    <3>2. FailedPermanently(r).nextRun = "never" /\ FailedPermanently(r).lock = "free"
      BY <2>2, <2>3 DEF FailedPermanently, Update, Row
    <3> QED
      BY <2>2, <2>3, <3>1, <3>2, OneRow
  <2>6. CASE CompleteExecution(w)
    <3>1. PICK next : rows' = [rows EXCEPT ![JobOf(w)] =
                         IF JobOf(w) \in CronJobs THEN CronCompleted(r, next)
                                                  ELSE OneTimeCompleted(r)]
      BY <2>6, <2>2 DEF CompleteExecution, TypeOK
    <3>2. /\ ~ Ended(CronCompleted(r, next))
          /\ OneTimeCompleted(r).nextRun = "never"
          /\ OneTimeCompleted(r).lock = "free"
      BY <2>2, <2>3 DEF CronCompleted, OneTimeCompleted, Update, Row,
                          Ended
    <3> QED
      BY <2>2, <2>3, <3>1, <3>2, OneRow
  <2> QED
    BY <1>1, <2>4, <2>5, <2>6
<1>2. CASE UNCHANGED rows
  BY <1>2 DEF RowsStep
<1> QED
  BY <1>1, <1>2 DEF WorkerAction, Consume, Acquire, AcquireRefused, Drop,
     HandlerMissing, RecordStart, DuplicateStart, HandlerEnds,
     HandlerResolves, HandlerRejects, HandlerTimesOut, RecordSuccess,
     Acknowledge, RecordFailure, SendToDLQ, WriteToDLQTable, RecordDLQ,
     Release, dbVars

LEMMA RowsSteps ==
    ASSUME "aging" \notin Events, "error" \notin Events, TypeOK, NoUnlock,
           TicketsLocked, EndedInv, [Next]_vars
    PROVE  RowsStep
<1>1. ASSUME NEW s \in Schedulers, SchedulerStep(s) \/ SchedulerTrouble(s)
      PROVE  RowsStep
  <2>1. CASE LockJob(s)
    <3>1. PICK snap \in batch[s] :
             /\ Lockable(rows[snap.job])
             /\ rows' = [rows EXCEPT ![snap.job] = Locked(@)]
      BY <2>1 DEF LockJob
    <3>2. snap.job \in Jobs /\ rows[snap.job] \in Row
      BY <3>1 DEF TypeOK, Snapshot
    <3>3. ~ Ended(rows[snap.job]) /\ ~ Ended(Locked(rows[snap.job]))
      BY <3>1, <3>2 DEF Lockable, Locked, Ended, Row
    <3>4. rows' = [rows EXCEPT ![snap.job] = Locked(rows[snap.job])]
      BY <3>1
    <3> QED
      BY <3>2, <3>3, <3>4, OneRow
  <2>2. CASE UNCHANGED rows
    BY <2>2 DEF RowsStep
  <2> QED
    BY <1>1, <2>1, <2>2 DEF SchedulerStep, SchedulerTrouble, GetDueJobs,
       SkipLocked, Publish, UnlockJob, LockJobThrows, PublishThrows,
       SchedulerCrash, Fault, NoUnlock, dbVars
<1>2. ASSUME NEW j \in Jobs, Clock(j) PROVE RowsStep
  <2>1. CASE Fires(j)
    <3>1. rows[j] \in Row /\ rows' = [rows EXCEPT ![j] = Fired(rows[j])]
      BY <2>1 DEF Fires, TypeOK
    <3>2. ~ Ended(rows[j])
      BY <2>1 DEF Fires, EndedInv
    <3>3. ~ Ended(Fired(rows[j]))
      BY <3>1, <3>2 DEF Fired, Row, Ended
    <3> QED
      BY <3>1, <3>2, <3>3, OneRow
  <2> QED
    BY <1>2, <2>1 DEF Clock, Ages, Expire, dbVars, RowsStep
<1>3. ASSUME NEW w \in Workers, WorkerTrouble(w) PROVE RowsStep
  BY <1>3 DEF WorkerTrouble, Throws, ConsumeLost, AcquireReplyLost, LoopError,
     WorkerCrash, ZombieEnds, dbVars, RowsStep
<1>4. CASE Reclaim \/ UNCHANGED vars
  BY <1>4 DEF Reclaim, dbVars, vars, RowsStep
<1> QED
  BY <1>1, <1>2, <1>3, <1>4, RowsWorkerAction DEF Next

\* A completed or permanently failed one-time job is never touched again, for
\* any number of schedulers, workers and jobs, while no row lock turns stale
\* and no call throws.
THEOREM EndedIsFinal ==
    ASSUME "aging" \notin Events, "error" \notin Events
    PROVE  Spec => EndedStaysEnded
<1> DEFINE Step == \A j \in Jobs \ CronJobs :
                     rows[j].status \in {"completed", "failed_permanent"} =>
                        rows'[j] = rows[j]
<1>1. Init => EndedInv
  BY DEF Init, EndedInv, Ended, Created
<1>2. RowsStep /\ EndedInv => EndedInv' /\ Step
  BY DEF RowsStep, EndedInv, Ended
<1>3. TypeOK /\ NoUnlock /\ TicketsLocked /\ EndedInv
         /\ [Next]_vars => RowsStep
  BY RowsSteps
<1>4. EndedStaysEnded <=> [][Step]_vars
  BY DEF EndedStaysEnded
<1> HIDE DEF Step
<1> QED
  BY <1>1, <1>2, <1>3, <1>4, TypeCorrect, NeverUnlocks, TicketsLockRows, PTL
  DEF Spec

=============================================================================
