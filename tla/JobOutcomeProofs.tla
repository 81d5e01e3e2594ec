-------------------------- MODULE JobOutcomeProofs --------------------------
(***************************************************************************)
(* That the attempt numbers of the messages are those of the rows, and     *)
(* that every dead job has its dead letter.                                *)
(***************************************************************************)
EXTENDS JobPipelineProofs

\* A step in which no ticket appears, none changes hands, and each one is for
\* the message it was for.
Carried ==
    /\ stream' = stream
    /\ \A s \in Schedulers :
          spc'[s] = "publish" => spc[s] = "publish" /\ cur'[s] = cur[s]
    /\ \A w \in Workers :
          pc'[w] \in BeforeOutcome =>
             pc[w] \in BeforeOutcome /\ msg'[w] = msg[w]

\* The steps of the worker that change no row.
RowlessAction(w) ==
    \/ Acquire(w) \/ AcquireRefused(w) \/ Drop(w) \/ HandlerMissing(w)
    \/ RecordStart(w) \/ DuplicateStart(w)
    \/ HandlerEnds(w) \/ RecordSuccess(w) \/ Acknowledge(w)
    \/ RecordFailure(w) \/ SendToDLQ(w) \/ WriteToDLQTable(w)
    \/ RecordDLQ(w) \/ Release(w)

OutcomeAction(w) ==
    CompleteExecution(w) \/ FailWithRetry(w) \/ FailPermanently(w)

LEMMA WorkerActions ==
    ASSUME NEW w \in Workers, WorkerAction(w)
    PROVE  Consume(w) \/ RowlessAction(w) \/ OutcomeAction(w)
BY DEF WorkerAction, RowlessAction, OutcomeAction

\* What a worker does between Consume and the end of its message, when nothing
\* throws.
LEMMA RowlessCarries ==
    ASSUME "error" \notin Events, TypeOK, NEW w \in Workers, RowlessAction(w)
    PROVE  Carried /\ UNCHANGED <<rows, schedulerVars>>
<1>1. UNCHANGED <<rows, stream, schedulerVars>>
  BY DEF RowlessAction, Acquire, AcquireRefused, Drop, HandlerMissing,
         RecordStart, DuplicateStart, HandlerEnds,
         HandlerResolves, HandlerRejects, HandlerTimesOut, RecordSuccess,
         Acknowledge, RecordFailure, SendToDLQ, WriteToDLQTable, RecordDLQ,
         Release, dbVars, redisVars
<1>2. CASE Drop(w) \/ Release(w)
  BY <1>1, <1>2
  DEF Drop, Release, Leave, Carried, BeforeOutcome, TypeOK, schedulerVars
<1>3. CASE Acquire(w) \/ AcquireRefused(w) \/ HandlerMissing(w)
           \/ RecordStart(w) \/ DuplicateStart(w) \/ HandlerEnds(w)
           \/ RecordSuccess(w) \/ RecordFailure(w)

  <2>1. /\ pc[w] \in BeforeOutcome /\ msg' = msg
        /\ \A v \in Workers : v # w => pc'[v] = pc[v]
    BY <1>3 DEF Acquire, AcquireRefused, HandlerMissing, RecordStart,
        DuplicateStart, HandlerEnds, HandlerResolves, HandlerRejects,
        HandlerTimesOut, RecordSuccess, RecordFailure, Proceed,
        BeforeOutcome, TypeOK
  <2> QED
    BY <1>1, <2>1 DEF Carried, schedulerVars
<1>4. CASE Acknowledge(w) \/ SendToDLQ(w) \/ WriteToDLQTable(w)
           \/ RecordDLQ(w)
  <2>1. /\ msg' = msg
        /\ \E next \in {"release", "toDLQTable", "recordDLQ", "ackFailed"} :
              pc' = [pc EXCEPT ![w] = next]
    BY <1>4 DEF Acknowledge, SendToDLQ, WriteToDLQTable, RecordDLQ, Proceed,
                Fault
  <2> QED
    BY <1>1, <2>1 DEF Carried, BeforeOutcome, TypeOK, schedulerVars
<1> QED
  BY <1>2, <1>3, <1>4 DEF RowlessAction

LEMMA OutcomeCarries ==
    ASSUME "error" \notin Events, TypeOK, NEW w \in Workers, OutcomeAction(w)
    PROVE  /\ Carried /\ UNCHANGED schedulerVars
           /\ pc[w] \in {"complete", "fail"} /\ pc'[w] \notin BeforeOutcome
           /\ msg' = msg
<1>1. /\ pc[w] \in {"complete", "fail"}
      /\ UNCHANGED <<stream, schedulerVars, msg>>
      /\ \E next \in {"ack", "ackFailed", "toDLQStream"} :
            pc' = [pc EXCEPT ![w] = next]
  BY DEF OutcomeAction, CompleteExecution, FailWithRetry, FailPermanently,
         Proceed, Fault, redisVars
<1> QED
  BY <1>1 DEF Carried, BeforeOutcome, TypeOK, schedulerVars

LEMMA TroubleCarries ==
    ASSUME "error" \notin Events, TypeOK, NEW w \in Workers, WorkerTrouble(w)
    PROVE  Carried /\ UNCHANGED <<rows, schedulerVars>>
<1>1. /\ UNCHANGED <<rows, stream, schedulerVars>>
      /\ Leave(w) \/ UNCHANGED <<pc, msg>>
  BY DEF WorkerTrouble, Throws, ConsumeLost, AcquireReplyLost, LoopError,
         WorkerCrash, ZombieEnds, Fault, dbVars, redisVars
<1> QED
  BY <1>1 DEF Leave, Carried, BeforeOutcome, TypeOK, schedulerVars

-----------------------------------------------------------------------------
(* Attempt numbers.  A snapshot is as current as a message: its row is due *)
(* and free until the only scheduler locks it, and then it has a ticket.   *)

CurrentSnapshot(snap) ==
    /\ snap.retryCount = rows[snap.job].retryCount
    /\ snap.maxRetries = rows[snap.job].maxRetries
    /\ rows[snap.job].nextRun = "due" /\ rows[snap.job].status = "active"
    /\ rows[snap.job].lock = "free"

BatchCurrent == \A s \in Schedulers : \A snap \in batch[s] : CurrentSnapshot(snap)

AttemptInv == AttemptsAreCurrent /\ BatchCurrent

\* The tickets and snapshots that a step leaves are current if it does not
\* touch the rows of their jobs.
LEMMA StaysCurrent ==
    ASSUME TypeOK, AttemptInv, Carried,
           \A s \in Schedulers : batch'[s] \subseteq batch[s],
           \A j \in Jobs : HasTicket(j)' => rows'[j] = rows[j],
           \A s \in Schedulers : \A snap \in batch'[s] :
              rows'[snap.job] = rows[snap.job],
           TypeOK'
    PROVE  AttemptInv'
<1>1. BatchCurrent'
  BY DEF AttemptInv, BatchCurrent, CurrentSnapshot
<1>2. \A i \in 1..Len(stream) : CurrentAttempt(stream[i])'
  <2> TAKE i \in 1..Len(stream)
  <2>1. stream[i] \in Message /\ stream[i].job \in Jobs
    <3>1. stream[i] \in Message
      BY ElementOfSeq DEF TypeOK
    <3> QED
      BY <3>1 DEF Message
  <2>2. HasTicket(stream[i].job)'
    BY <2>1 DEF Carried, HasTicket, Queued
  <2> QED
    BY <2>1, <2>2
    DEF AttemptInv, AttemptsAreCurrent, CurrentAttempt, Carried
<1>3. ASSUME NEW s \in Schedulers, spc'[s] = "publish"
      PROVE  CurrentAttempt(MessageOf(cur[s]))' /\ cur'[s] = cur[s]
  <2>1. cur[s] \in Snapshot /\ cur[s].job \in Jobs /\ cur'[s] = cur[s]
        /\ spc[s] = "publish"
    BY <1>3 DEF TypeOK, Snapshot, Carried
  <2>2. HasTicket(cur[s].job)'
    BY <1>3, <2>1 DEF HasTicket, Publishing
  <2> QED
    BY <2>1, <2>2 DEF AttemptInv, AttemptsAreCurrent, CurrentAttempt, MessageOf
<1>4. ASSUME NEW w \in Workers, pc'[w] \in BeforeOutcome
      PROVE  CurrentAttempt(msg[w])' /\ msg'[w] = msg[w]
  <2>1. pc[w] \in BeforeOutcome /\ msg'[w] = msg[w] /\ pc[w] # "idle"
    BY <1>4 DEF Carried, BeforeOutcome
  <2>2. msg[w].job \in Jobs
    BY <2>1, InHand DEF JobOf
  <2>3. HasTicket(msg[w].job)'
    BY <1>4, <2>1, <2>2 DEF HasTicket, Settling, JobOf
  <2> QED
    BY <2>1, <2>2, <2>3 DEF AttemptInv, AttemptsAreCurrent, CurrentAttempt
<1> QED
  BY <1>1, <1>2, <1>3, <1>4 DEF AttemptInv, AttemptsAreCurrent, Carried

LEMMA AttemptScheduler ==
    ASSUME "error" \notin Events, TypeOK, TypeOK', TicketInv, NoUnlock,
           AttemptInv, \A s, t \in Schedulers : s = t,
           NEW s \in Schedulers, SchedulerStep(s) \/ SchedulerTrouble(s)
    PROVE  AttemptInv'
<1> USE DEF dbVars, redisVars, workerVars
<1>1. CASE GetDueJobs(s)
  <2>1. /\ UNCHANGED <<rows, stream, cur, pc, msg>>
        /\ \A t \in Schedulers : spc'[t] # "publish"
    BY <1>1 DEF GetDueJobs, TypeOK
  <2>2. AttemptsAreCurrent'
    BY <2>1 DEF AttemptInv, AttemptsAreCurrent, CurrentAttempt
  <2>3. PICK due \in SUBSET DueJobs :
           batch' = [batch EXCEPT ![s] = {SnapshotOf(j) : j \in due}]
    BY <1>1 DEF GetDueJobs
  <2>4. \A snap \in batch'[s] : CurrentSnapshot(snap)
    BY <2>3 DEF SnapshotOf, TypeOK, DueJobs, IsDue, Lockable, TicketInv, NoStaleRow, Row,
                CurrentSnapshot
  <2>5. BatchCurrent'
    BY <2>1, <2>4 DEF BatchCurrent, CurrentSnapshot
  <2> QED
    BY <2>2, <2>5 DEF AttemptInv
<1>2. CASE LockJob(s)
  <2>1. PICK snap \in batch[s] :
           /\ rows' = [rows EXCEPT ![snap.job] = Locked(@)]
           /\ batch' = [batch EXCEPT ![s] = @ \ {snap}]
           /\ cur' = [cur EXCEPT ![s] = snap]
    BY <1>2 DEF LockJob
  <2>2. snap \in Snapshot /\ snap.job \in Jobs /\ rows[snap.job] \in Row
        /\ CurrentSnapshot(snap)
    BY DEF TypeOK, Snapshot, AttemptInv, BatchCurrent
  <2>3. \A j \in Jobs : /\ rows'[j].retryCount = rows[j].retryCount
                        /\ rows'[j].maxRetries = rows[j].maxRetries
                        /\ rows'[j].status = rows[j].status
                        /\ rows'[j].nextRun = rows[j].nextRun
                        /\ j # snap.job => rows'[j] = rows[j]
    BY <2>1, <2>2 DEF TypeOK, Locked, Row
  <2>4. ASSUME NEW other \in batch'[s] PROVE CurrentSnapshot(other)'
    <3>1. other \in batch[s] /\ other # snap /\ other \in Snapshot
      BY <2>1 DEF TypeOK
    <3>2. CurrentSnapshot(other)
      BY <3>1 DEF AttemptInv, BatchCurrent
    <3>3. other.job # snap.job
      BY <2>2, <3>1, <3>2 DEF CurrentSnapshot, Snapshot
    <3> QED
      BY <2>3, <3>1, <3>2, <3>3 DEF CurrentSnapshot, Snapshot
  <2>5. BatchCurrent'
    BY <2>4 DEF BatchCurrent
  <2>6. UNCHANGED <<stream, pc, msg>>
    BY <1>2 DEF LockJob
  <2>7. \A m \in Message : CurrentAttempt(m) => CurrentAttempt(m)'
    BY <2>3 DEF CurrentAttempt, Message
  <2>8. CurrentAttempt(MessageOf(snap))'
    BY <2>2, <2>3 DEF CurrentAttempt, MessageOf, CurrentSnapshot
  <2>9. \A w \in Workers : pc[w] \in BeforeOutcome => msg[w] \in Message
    BY InHand DEF BeforeOutcome
  <2>10. \A i \in 1..Len(stream) : stream[i] \in Message
    BY DEF TypeOK
  <2>11. \A t \in Schedulers : cur'[t] = snap
    BY <2>1 DEF TypeOK
  <2>12. AttemptsAreCurrent'
    BY <2>6, <2>7, <2>8, <2>9, <2>10, <2>11
    DEF AttemptInv, AttemptsAreCurrent, MessageOf, CurrentAttempt
  <2> QED
    BY <2>5, <2>12 DEF AttemptInv
<1>3. CASE Publish(s)
  <2> DEFINE m == MessageOf(cur[s])
             n == Len(stream)
  <2>1. m \in Message /\ CurrentAttempt(m)
    BY <1>3, MessageTypes
    DEF Publish, TypeOK, AttemptInv, AttemptsAreCurrent
  <2> HIDE DEF m
  <2>2. stream' = Append(stream, m) /\ UNCHANGED <<rows, batch, pc, msg>>
    BY <1>3 DEF Publish, m
  <2>3. \A i \in 1..Len(stream') : stream'[i] = m
           \/ (i \in 1..Len(stream) /\ stream'[i] = stream[i])
    BY <2>1, <2>2, AppendProperties DEF TypeOK
  <2>4. \A t \in Schedulers : spc'[t] # "publish"
    BY <1>3 DEF Publish, AfterJob, TypeOK
  <2> QED
    BY <2>1, <2>2, <2>3, <2>4
    DEF AttemptInv, AttemptsAreCurrent, CurrentAttempt, BatchCurrent,
        CurrentSnapshot
<1>4. CASE SkipLocked(s) \/ SchedulerCrash(s)
  <2>1. /\ UNCHANGED <<rows, stream, pc, msg>>
        /\ \A t \in Schedulers : spc'[t] # "publish"
        /\ \A t \in Schedulers : batch'[t] \subseteq batch[t]
    BY <1>4 DEF SkipLocked, SchedulerCrash, AfterJob, TypeOK
  <2> QED
    BY <2>1, StaysCurrent DEF Carried, TypeOK
<1> QED
  BY <1>1, <1>2, <1>3, <1>4
  DEF SchedulerStep, SchedulerTrouble, UnlockJob, LockJobThrows,
      PublishThrows, Fault, NoUnlock

\* An outcome is written to a row that has only this ticket, and that is
\* locked, so that no snapshot is of it.
LEMMA AttemptOutcome ==
    ASSUME "error" \notin Events, TypeOK, TypeOK', TicketInv, TicketsLocked,
           AttemptInv, NEW w \in Workers, OutcomeAction(w)
    PROVE  AttemptInv'
<1>1. /\ Carried /\ UNCHANGED schedulerVars
      /\ pc[w] \in {"complete", "fail"} /\ pc'[w] \notin BeforeOutcome
      /\ msg' = msg
  BY OutcomeCarries
<1>2. PICK job \in Jobs : job = JobOf(w)
  BY <1>1, InHand
<1>3. \A j \in Jobs : j # job => rows'[j] = rows[j]
  BY <1>2 DEF OutcomeAction, CompleteExecution, FailWithRetry,
              FailPermanently, TypeOK
<1>4. Settling(w, job) /\ HasTicket(job)
  BY <1>1, <1>2 DEF Settling, BeforeOutcome, HasTicket
<1>5. ~ HasTicket(job)'
  <2>1. \A s \in Schedulers : ~ Publishing(s, job)'
    BY <1>1, <1>4 DEF Carried, TicketInv, OneTicket, Publishing
  <2>2. \A i \in 1..Len(stream) : ~ Queued(i, job)'
    BY <1>1, <1>4 DEF Carried, TicketInv, OneTicket, Queued
  <2>3. \A v \in Workers : ~ Settling(v, job)'
    BY <1>1, <1>2, <1>4 DEF Carried, TicketInv, OneTicket, Settling, JobOf
  <2> QED
    BY <1>1, <2>1, <2>2, <2>3 DEF HasTicket, Carried
<1>6. \A s \in Schedulers : \A snap \in batch[s] : snap.job \in Jobs \ {job}
  <2>1. rows[job].lock # "free"
    BY <1>4 DEF TicketsLocked
  <2>2. \A s \in Schedulers : \A snap \in batch[s] :
           snap.job \in Jobs /\ rows[snap.job].lock = "free"
    BY DEF TypeOK, Snapshot, AttemptInv, BatchCurrent, CurrentSnapshot
  <2> QED
    BY <2>1, <2>2
<1>7. batch' = batch
  BY <1>1 DEF schedulerVars
<1> QED
  BY <1>1, <1>3, <1>5, <1>6, <1>7, StaysCurrent

LEMMA AttemptConsume ==
    ASSUME TypeOK, AttemptInv, NEW w \in Workers, Consume(w)
    PROVE  AttemptInv'
<1>1. /\ Head(stream) = stream[1] /\ Head(stream) \in Message
      /\ Len(stream) \in Nat /\ Len(stream) >= 1
      /\ Len(stream') = Len(stream) - 1
      /\ \A i \in 1..Len(stream') : stream'[i] = stream[i + 1]
  BY HeadTailProperties DEF Consume, TypeOK
<1>2. \A m : CurrentAttempt(m)' <=> CurrentAttempt(m)
  BY DEF Consume, CurrentAttempt, dbVars
<1>3. \A i \in 1..Len(stream) : CurrentAttempt(stream[i])
  BY DEF AttemptInv, AttemptsAreCurrent
<1>4. \A i \in 1..Len(stream') : CurrentAttempt(stream'[i])
  <2> TAKE i \in 1..Len(stream')
  <2>1. i + 1 \in 1..Len(stream) /\ stream'[i] = stream[i + 1]
    BY <1>1
  <2> QED
    BY <1>3, <2>1
<1>5. \A v \in Workers : pc'[v] \in BeforeOutcome => CurrentAttempt(msg'[v])
  <2>1. CurrentAttempt(Head(stream))
    BY <1>1, <1>3
  <2> QED
    BY <2>1 DEF Consume, TypeOK, AttemptInv, AttemptsAreCurrent
<1>6. UNCHANGED <<rows, schedulerVars>>
  BY DEF Consume, dbVars
<1>7. AttemptsAreCurrent'
  BY <1>2, <1>4, <1>5, <1>6
  DEF AttemptsAreCurrent, AttemptInv, CurrentAttempt, schedulerVars
<1> QED
  BY <1>6, <1>7 DEF AttemptInv, BatchCurrent, CurrentSnapshot, schedulerVars

LEMMA AttemptStep ==
    ASSUME "aging" \notin Events, "error" \notin Events,
           \A s, t \in Schedulers : s = t,
           TypeOK, NoUnlock, TicketInv, TicketsLocked, AttemptInv, [Next]_vars
    PROVE  AttemptInv'
<1>0. TypeOK'
  BY TypeStep
<1> USE <1>0 DEF dbVars, redisVars, schedulerVars, workerVars
<1>1. CASE UNCHANGED vars \/ Reclaim
  <2>1. Carried /\ UNCHANGED <<rows, batch>>
    BY <1>1 DEF vars, Reclaim, Carried
  <2> QED
    BY <2>1, StaysCurrent
<1>2. ASSUME NEW j \in Jobs, Clock(j) PROVE AttemptInv'
  <2>1. Carried /\ batch' = batch
    BY <1>2 DEF Clock, Fires, Ages, Expire, Carried
  <2>2. CASE rows' = rows
    BY <2>1, <2>2, StaysCurrent
  <2>3. CASE Fires(j)
    <3>1. rows[j].nextRun = "future" /\ \A k \in Jobs : k # j => rows'[k] = rows[k]
      BY <2>3 DEF Fires, TypeOK
    <3>2. ~ HasTicket(j)'
      <4>1. \A s \in Schedulers : ~ Publishing(s, j)'
        BY <2>1, <3>1 DEF Carried, Publishing, AttemptInv, AttemptsAreCurrent,
                          CurrentAttempt, MessageOf
      <4>2. \A i \in 1..Len(stream) : ~ Queued(i, j)'
        BY <2>1, <3>1 DEF Carried, Queued, AttemptInv, AttemptsAreCurrent,
                          CurrentAttempt
      <4>3. \A w \in Workers : ~ Settling(w, j)'
        BY <2>1, <3>1 DEF Carried, Settling, JobOf, AttemptInv,
                          AttemptsAreCurrent, CurrentAttempt
      <4> QED
        BY <2>1, <4>1, <4>2, <4>3 DEF HasTicket, Carried
    <3>3. \A s \in Schedulers : \A snap \in batch[s] : snap.job \in Jobs \ {j}
      BY <3>1 DEF TypeOK, Snapshot, AttemptInv, BatchCurrent, CurrentSnapshot
    <3> QED
      BY <2>1, <3>1, <3>2, <3>3, StaysCurrent
  <2> QED
    BY <1>2, <2>2, <2>3 DEF Clock, Ages, Expire
<1>3. ASSUME NEW w \in Workers, WorkerAction(w) \/ WorkerTrouble(w)
      PROVE  AttemptInv'
  <2>1. CASE RowlessAction(w) \/ WorkerTrouble(w)
    BY <2>1, RowlessCarries, TroubleCarries, StaysCurrent
  <2> QED
    BY <1>3, <2>1, WorkerActions, AttemptConsume, AttemptOutcome
<1> QED
  BY <1>1, <1>2, <1>3, AttemptScheduler DEF Next

\* With one scheduler no message is out of date: it is delivered and executed
\* as the attempt that follows the retry_count of its row, through crashes,
\* lost messages and any number of workers and jobs.
THEOREM AttemptsStayCurrent ==
    ASSUME "aging" \notin Events, "error" \notin Events,
           \A s, t \in Schedulers : s = t
    PROVE  Spec => []AttemptsAreCurrent
<1>1. Init => AttemptInv
  BY DEF Init, AttemptInv, AttemptsAreCurrent, BatchCurrent, BeforeOutcome
<1>2. /\ TypeOK /\ NoUnlock /\ TicketInv /\ TicketsLocked /\ AttemptInv
      /\ [Next]_vars
      => AttemptInv'
  BY AttemptStep
<1>3. AttemptInv => AttemptsAreCurrent
  BY DEF AttemptInv
<1> QED
  BY <1>1, <1>2, <1>3, TypeCorrect, NeverUnlocks, TicketInvariant, PTL
  DEF Spec

-----------------------------------------------------------------------------
(* Dead letters.  DeadIsStored is inductive: only FailPermanently ends a   *)
(* job that way, and the worker writes the entry next.                     *)

Burying(w, j) == pc[w] \in {"toDLQStream", "toDLQTable"} /\ JobOf(w) = j

Dead(j) == rows[j].status = "failed_permanent"

LEMMA DeadIsStoredMeans ==
    DeadIsStored <=>
       \A j \in Jobs : Dead(j) <=> j \in dlqTable
                                     \/ \E w \in Workers : Burying(w, j)
BY DEF DeadIsStored, Burying, Dead

\* A step that begins no burial, ends none, and neither kills nor revives.
LEMMA NobodyDies ==
    ASSUME DeadIsStored, dlqTable' = dlqTable,
           \A j \in Jobs : Dead(j)' <=> Dead(j),
           \A w \in Workers, j \in Jobs : Burying(w, j)' <=> Burying(w, j)
    PROVE  DeadIsStored'
BY DeadIsStoredMeans DEF DeadIsStored, Burying, Dead

LEMMA DeadRowless ==
    ASSUME "error" \notin Events, TypeOK, DeadIsStored,
           NEW w \in Workers, RowlessAction(w)
    PROVE  DeadIsStored'
<1>1. rows' = rows
  BY RowlessCarries
<1>2. CASE WriteToDLQTable(w)
  <2>1. pc[w] = "toDLQTable" /\ JobOf(w) \in Jobs
    BY <1>2, InHand DEF WriteToDLQTable
  <2>2. Dead(JobOf(w))
    BY <2>1 DEF DeadIsStored, Dead
  <2>3. /\ dlqTable' = dlqTable \cup {JobOf(w)}
        /\ msg' = msg /\ \A v \in Workers : v # w => pc'[v] = pc[v]
        /\ pc'[w] \in {"ackFailed", "recordDLQ"}
    BY <1>2 DEF WriteToDLQTable, Proceed, Fault, TypeOK
  <2>4. \A v \in Workers, j \in Jobs :
           Burying(v, j)' <=> Burying(v, j) /\ v # w
    BY <2>3 DEF Burying, JobOf
  <2>5. \A j \in Jobs : Burying(w, j) => j = JobOf(w)
    BY DEF Burying
  <2>6. \A j \in Jobs : Dead(j)' <=> Dead(j)
    BY <1>1 DEF Dead
  <2>7. \A j \in Jobs : Dead(j)' <=> j \in dlqTable'
                             \/ \E v \in Workers : Burying(v, j)'
    BY <2>2, <2>3, <2>4, <2>5, <2>6, DeadIsStoredMeans
  <2> QED
    BY <2>7 DEF DeadIsStored, Burying, Dead
<1>3. CASE ~ WriteToDLQTable(w)
  <2>1. \A j \in Jobs : Dead(j)' <=> Dead(j)
    BY <1>1 DEF Dead
  <2>2. dlqTable' = dlqTable
    BY <1>3 DEF RowlessAction, Acquire, AcquireRefused, Drop, HandlerMissing,
        RecordStart, DuplicateStart, HandlerEnds, HandlerResolves,
        HandlerRejects, HandlerTimesOut, RecordSuccess, Acknowledge,
        RecordFailure, SendToDLQ, RecordDLQ, Release, dbVars
  <2>3. \A v \in Workers : v # w => pc'[v] = pc[v] /\ msg'[v] = msg[v]
    BY <1>3 DEF RowlessAction, Acquire, AcquireRefused, Drop, HandlerMissing,
        RecordStart, DuplicateStart, HandlerEnds, HandlerResolves,
        HandlerRejects, HandlerTimesOut, RecordSuccess, Acknowledge,
        RecordFailure, SendToDLQ, RecordDLQ, Release, Leave, Proceed, TypeOK
  <2>4. CASE SendToDLQ(w)
    <3>1. pc[w] = "toDLQStream" /\ pc'[w] = "toDLQTable" /\ msg' = msg
      BY <2>4 DEF SendToDLQ, Proceed, Fault, TypeOK
    <3> QED
      BY <2>1, <2>2, <2>3, <3>1, NobodyDies DEF Burying, JobOf
  <2>5. CASE ~ SendToDLQ(w)
    <3>1. /\ pc[w] \notin {"toDLQStream", "toDLQTable"}
          /\ pc'[w] \notin {"toDLQStream", "toDLQTable"}
      BY <1>3, <2>5 DEF RowlessAction, Acquire, AcquireRefused, Drop,
          HandlerMissing, RecordStart, DuplicateStart, HandlerEnds,
          HandlerResolves, HandlerRejects, HandlerTimesOut, RecordSuccess,
          Acknowledge, RecordFailure, RecordDLQ, Release, Leave, Proceed,
          OnError, Fault, TypeOK
    <3> QED
      BY <2>1, <2>2, <2>3, <3>1, NobodyDies DEF Burying, JobOf
  <2> QED
    BY <2>4, <2>5
<1> QED
  BY <1>2, <1>3

LEMMA DeadOutcome ==
    ASSUME "error" \notin Events, TypeOK, TicketsLocked, DeadIsStored,
           NEW w \in Workers, OutcomeAction(w)
    PROVE  DeadIsStored'
<1> DEFINE r == rows[JobOf(w)]
<1>1. pc[w] \in {"complete", "fail"} /\ msg' = msg
  BY OutcomeCarries
<1>2. JobOf(w) \in Jobs /\ r \in Row
  BY <1>1, InHand DEF TypeOK
<1>3. r.status = "active"
  BY <1>1, <1>2 DEF TicketsLocked, HasTicket, Settling, BeforeOutcome
<1>4. /\ \A v \in Workers : v # w => pc'[v] = pc[v]
      /\ dlqTable' = dlqTable
      /\ \A j \in Jobs : j # JobOf(w) => rows'[j] = rows[j]
  BY DEF OutcomeAction, CompleteExecution, FailWithRetry, FailPermanently,
         Proceed, TypeOK
<1>5. CASE CompleteExecution(w) \/ FailWithRetry(w)
  <2>1. pc'[w] \in {"ack", "ackFailed"}
    BY <1>5 DEF CompleteExecution, FailWithRetry, Proceed, Fault, TypeOK
  <2>2. rows'[JobOf(w)].status # "failed_permanent"
    <3>1. /\ RetryScheduled(r).status # "failed_permanent"
          /\ OneTimeCompleted(r).status # "failed_permanent"
          /\ \A next : CronCompleted(r, next).status # "failed_permanent"
      BY <1>2, <1>3 DEF RetryScheduled, OneTimeCompleted, CronCompleted,
                        Update, Row
    <3>2. \/ rows'[JobOf(w)] \in {RetryScheduled(r), OneTimeCompleted(r)}
          \/ \E next : rows'[JobOf(w)] = CronCompleted(r, next)
      BY <1>2, <1>5 DEF CompleteExecution, FailWithRetry, TypeOK
    <3> QED
      BY <3>1, <3>2
  <2> QED
    BY <1>1, <1>3, <1>4, <2>1, <2>2, NobodyDies DEF Burying, JobOf, Dead
<1>6. CASE FailPermanently(w)
  <2>1. pc'[w] = "toDLQStream"
    BY <1>6 DEF FailPermanently, Proceed, Fault, TypeOK
  <2>2. Dead(JobOf(w))'
    <3>1. rows'[JobOf(w)] = FailedPermanently(r)
      BY <1>2, <1>6 DEF FailPermanently, TypeOK
    <3>2. FailedPermanently(r).status = "failed_permanent"
      BY <1>2, <1>3 DEF FailedPermanently, Update, Row
    <3> QED
      BY <1>1, <3>1, <3>2 DEF Dead, JobOf
  <2>3. Burying(w, JobOf(w))'
    BY <1>1, <2>1 DEF Burying, JobOf
  <2>4. \A j \in Jobs : j # JobOf(w) =>
           /\ Dead(j)' <=> Dead(j)
           /\ \A v \in Workers : Burying(v, j)' <=> Burying(v, j)
    BY <1>1, <1>4 DEF Dead, Burying, JobOf
  <2>5. \A j \in Jobs : Dead(j)' <=> j \in dlqTable'
                             \/ \E v \in Workers : Burying(v, j)'
    BY <1>1, <1>4, <2>2, <2>3, <2>4, DeadIsStoredMeans DEF JobOf
  <2> QED
    BY <2>5 DEF DeadIsStored, Burying, Dead
<1> QED
  BY <1>5, <1>6 DEF OutcomeAction

LEMMA DeadStep ==
    ASSUME "crash" \notin Events, "error" \notin Events, TypeOK, NoUnlock,
           TicketsLocked, DeadIsStored, [Next]_vars
    PROVE  DeadIsStored'
<1> USE DEF dbVars, redisVars, schedulerVars, workerVars
<1>1. CASE UNCHANGED vars \/ Reclaim
  BY <1>1 DEF vars, Reclaim, DeadIsStored, JobOf
<1>2. ASSUME NEW s \in Schedulers, SchedulerStep(s) \/ SchedulerTrouble(s)
      PROVE  DeadIsStored'
  <2>1. UNCHANGED <<dlqTable, pc, msg>>
    BY <1>2 DEF SchedulerStep, SchedulerTrouble, GetDueJobs, LockJob,
        SkipLocked, Publish, UnlockJob, LockJobThrows, PublishThrows,
        SchedulerCrash
  <2>2. \A j \in Jobs : rows'[j].status = rows[j].status
    <3>1. CASE LockJob(s)
      <4>1. PICK snap \in batch[s] :
               rows' = [rows EXCEPT ![snap.job] = Locked(@)]
        BY <3>1 DEF LockJob
      <4>2. snap.job \in Jobs /\ rows[snap.job] \in Row
        BY DEF TypeOK, Snapshot
      <4>3. Locked(rows[snap.job]).status = rows[snap.job].status
        BY <4>2 DEF Locked, Row
      <4> QED
        BY <4>1, <4>2, <4>3 DEF TypeOK
    <3>2. CASE ~ LockJob(s)
      BY <1>2, <3>2 DEF SchedulerStep, SchedulerTrouble, GetDueJobs,
          SkipLocked, Publish, UnlockJob, LockJobThrows, PublishThrows,
          SchedulerCrash, Fault, NoUnlock
    <3> QED
      BY <3>1, <3>2
  <2> QED
    BY <2>1, <2>2 DEF DeadIsStored, JobOf
<1>3. ASSUME NEW j \in Jobs, Clock(j) PROVE DeadIsStored'
  <2>1. UNCHANGED <<dlqTable, pc, msg>>
    BY <1>3 DEF Clock, Fires, Ages, Expire
  <2>2. \A k \in Jobs : rows'[k].status = rows[k].status
    <3>1. /\ rows[j] \in Row
          /\ rows' \in {rows, [rows EXCEPT ![j] = Fired(rows[j])],
                        [rows EXCEPT ![j] = Aged(rows[j])]}
      BY <1>3 DEF Clock, Fires, Ages, Expire, TypeOK
    <3>2. /\ Fired(rows[j]).status = rows[j].status
          /\ Aged(rows[j]).status = rows[j].status
      BY <3>1 DEF Fired, Aged, Row
    <3> QED
      BY <3>1, <3>2 DEF TypeOK
  <2> QED
    BY <2>1, <2>2 DEF DeadIsStored, JobOf
<1>4. ASSUME NEW w \in Workers, Consume(w) PROVE DeadIsStored'
  <2>1. \A v \in Workers, j \in Jobs : Burying(v, j)' <=> Burying(v, j)
    BY <1>4 DEF Consume, Burying, JobOf, TypeOK
  <2> QED
    BY <1>4, <2>1, NobodyDies DEF Consume, Dead
<1>5. ASSUME NEW w \in Workers, WorkerTrouble(w) PROVE DeadIsStored'
  BY <1>5 DEF WorkerTrouble, Throws, ConsumeLost, AcquireReplyLost, LoopError,
              WorkerCrash, ZombieEnds, Fault, DeadIsStored, JobOf
<1> QED
  BY <1>1, <1>2, <1>3, <1>4, <1>5, WorkerActions, DeadRowless, DeadOutcome
  DEF Next

\* A dead job has its entry in the dead letter table, and every entry is of a
\* dead job, up to the two calls of the worker that is writing it: for any
\* number of jobs and workers, while no process dies and no call throws.
THEOREM DeadJobsAreStored ==
    ASSUME "aging" \notin Events, "crash" \notin Events,
           "error" \notin Events
    PROVE  Spec => []DeadIsStored
<1>1. Init => DeadIsStored
  BY DEF Init, DeadIsStored, Created
<1>2. TypeOK /\ NoUnlock /\ TicketsLocked /\ DeadIsStored /\ [Next]_vars
         => DeadIsStored'
  BY DeadStep
<1> QED
  BY <1>1, <1>2, TypeCorrect, NeverUnlocks, TicketsLockRows, PTL DEF Spec

-----------------------------------------------------------------------------
(* Attempts, with any number of schedulers: the snapshot of a deposed one  *)
(* can be out of date, but for a job that runs once it never counts more   *)
(* attempts than its row, as only a cron job's retry_count is ever reset.  *)
(* (The rows that requests have deleted are left out: see JobApiProofs.)   *)

NotAhead(m) ==
    m.job \notin CronJobs /\ rows[m.job].status # "deleted" =>
       m.attempt <= rows[m.job].retryCount + 1

NoneAhead == \A m \in Message : OnItsWay(m) => NotAhead(m)

\* No statement takes back an attempt of a job that runs once.
Grown(new, row) ==
    new.status # "deleted" =>
       row.status # "deleted" /\ new.retryCount >= row.retryCount

CountsGrow == \A j \in Jobs \ CronJobs : Grown(rows'[j], rows[j])

LEMMA StillNotAhead ==
    ASSUME TypeOK, TypeOK', CountsGrow,
           NEW m \in Message, NotAhead(m)
    PROVE  NotAhead(m)'
<1>1. CASE m.job \in CronJobs \/ rows'[m.job].status = "deleted"
  BY <1>1 DEF NotAhead
<1>2. CASE m.job \notin CronJobs /\ rows'[m.job].status # "deleted"
  <2>1. /\ m.job \in Jobs /\ m.attempt \in Int
        /\ rows[m.job].retryCount \in Int /\ rows'[m.job].retryCount \in Int
    BY MaxRetriesAssumption DEF Message, TypeOK, Row
  <2>2. m.attempt <= rows[m.job].retryCount + 1
        /\ rows'[m.job].retryCount >= rows[m.job].retryCount
    BY <1>2, <2>1 DEF NotAhead, CountsGrow, Grown
  <2> QED
    BY <2>1, <2>2 DEF NotAhead
<1> QED
  BY <1>1, <1>2

LEMMA CountsGrowAlways ==
    ASSUME TypeOK, [Next]_vars
    PROVE  CountsGrow
<1>1. ASSUME NEW row \in Row
      PROVE  Grown(row, row)
  BY MaxRetriesAssumption DEF Row, Grown
<1>2. ASSUME NEW row \in Row, NEW new, NEW job, Statement(new, row, job),
             job \notin CronJobs
      PROVE  Grown(new, row)
  <2>1. row.retryCount \in Int /\ MaxRetries \in Int
    BY MaxRetriesAssumption DEF Row
  <2>2. OneMore(row.retryCount) >= row.retryCount
    BY <2>1 DEF OneMore
  <2>3. \/ new \in {Locked(row), Unlocked(row), Fired(row), Aged(row),
                   OneTimeCompleted(row)}
        \/ new \in {RetryScheduled(row), FailedPermanently(row)}
    BY <1>2 DEF Statement
  <2>4. CASE new \in {Locked(row), Unlocked(row), Fired(row), Aged(row),
                     OneTimeCompleted(row)}
    <3>1. new.retryCount = row.retryCount
          /\ (row.status = "deleted" => new.status = "deleted")
      BY <2>4 DEF Row, Locked, Unlocked, OneTimeCompleted, Fired, Aged, Update
    <3> QED
      BY <2>1, <3>1 DEF Grown
  <2>5. CASE new \in {RetryScheduled(row), FailedPermanently(row)}
    <3>1. /\ row.status = "deleted" => new = row
          /\ row.status # "deleted" => new.retryCount = OneMore(row.retryCount)
      BY <2>5 DEF Row, RetryScheduled, FailedPermanently, Update
    <3> QED
      BY <2>1, <2>2, <3>1 DEF Grown
  <2> QED
    BY <2>3, <2>4, <2>5
<1>3. CASE rows' = rows
  BY <1>1, <1>3 DEF CountsGrow, TypeOK
<1>4. CASE OneStatement
  <2>1. PICK job \in Jobs : \E new : /\ rows' = [rows EXCEPT ![job] = new]
                                     /\ Statement(new, rows[job], job)
    BY <1>4 DEF OneStatement
  <2>2. PICK new : /\ rows' = [rows EXCEPT ![job] = new]
                   /\ Statement(new, rows[job], job)
    BY <2>1
  <2>3. job \notin CronJobs => Grown(new, rows[job])
    BY <1>2, <2>2 DEF TypeOK
  <2> QED
    BY <1>1, <2>2, <2>3 DEF CountsGrow, TypeOK
<1> QED
  BY <1>3, <1>4, OneAtATime

\* Where the messages come from.  A step moves those there are, or makes one
\* of a row as it is.
MovesOn ==
    /\ \A s \in Schedulers : /\ batch'[s] \subseteq batch[s]
                             /\ cur'[s] \in batch[s] \cup {cur[s], NoMsg}
    /\ \A i \in 1..Len(stream') : OnItsWay(stream'[i])
    /\ \A w \in Workers : msg'[w] = NoMsg \/ OnItsWay(msg'[w])

NoneNew == \A m \in Message : OnItsWay(m)' => OnItsWay(m)

LEMMA NoneIsNew == ASSUME TypeOK, MovesOn PROVE NoneNew
<1> SUFFICES ASSUME NEW m \in Message, OnItsWay(m)' PROVE OnItsWay(m)
  BY DEF NoneNew
<1>1. ASSUME NEW s \in Schedulers, NEW snap \in batch'[s], m = MessageOf(snap)
      PROVE  OnItsWay(m)
  BY <1>1 DEF MovesOn, OnItsWay
<1>2. ASSUME NEW s \in Schedulers, cur'[s] # NoMsg, m = MessageOf(cur'[s])
      PROVE  OnItsWay(m)
  BY <1>2 DEF MovesOn, OnItsWay
<1>3. ASSUME NEW i \in 1..Len(stream'), m = stream'[i]
      PROVE  OnItsWay(m)
  BY <1>3 DEF MovesOn
<1>4. ASSUME NEW w \in Workers, m = msg'[w]
      PROVE  OnItsWay(m)
  BY <1>4, NoMsgAssumption DEF MovesOn
<1>5. \/ \E s \in Schedulers : \E snap \in batch'[s] : m = MessageOf(snap)
      \/ \E s \in Schedulers : cur'[s] # NoMsg /\ m = MessageOf(cur'[s])
      \/ \E i \in 1..Len(stream') : m = stream'[i]
      \/ \E w \in Workers : m = msg'[w]
  BY DEF OnItsWay, MessageOf
<1> QED
  BY <1>1, <1>2, <1>3, <1>4, <1>5

\* What is in the stream or in hand is on its way.
LEMMA Underway ==
    /\ \A i \in 1..Len(stream) : OnItsWay(stream[i])
    /\ \A w \in Workers : OnItsWay(msg[w])
    /\ \A s \in Schedulers : cur[s] # NoMsg => OnItsWay(MessageOf(cur[s]))
BY DEF OnItsWay

LEMMA SchedulersMoveOn ==
    ASSUME TypeOK, NEW s \in Schedulers,
           SchedulerStep(s) \/ SchedulerTrouble(s), ~ GetDueJobs(s)
    PROVE  MovesOn
<1> USE DEF redisVars, workerVars
<1>1. CASE LockJob(s) \/ LockJobThrows(s)
  <2>1. PICK snap \in batch[s] :
           /\ batch' = [batch EXCEPT ![s] = @ \ {snap}]
           /\ cur' = [cur EXCEPT ![s] = snap]
    BY <1>1 DEF LockJob, LockJobThrows
  <2>2. UNCHANGED <<stream, msg>>
    BY <1>1 DEF LockJob, LockJobThrows
  <2> QED
    BY <2>1, <2>2, Underway DEF MovesOn, TypeOK
<1>2. CASE Publish(s) \/ PublishThrows(s)
  <2> DEFINE m == MessageOf(cur[s])
  <2>1. m \in Message /\ OnItsWay(m)
    BY <1>2, MessageTypes, Underway DEF Publish, PublishThrows, TypeOK
  <2>2. /\ stream' \in {stream, Append(stream, m)}
        /\ UNCHANGED <<batch, msg>>
        /\ \A t \in Schedulers : cur'[t] \in {cur[t], NoMsg}
    BY <1>2 DEF Publish, PublishThrows, TypeOK
  <2> HIDE DEF m
  <2>3. \A i \in 1..Len(stream') :
           stream'[i] = m \/ (i \in 1..Len(stream) /\ stream'[i] = stream[i])
    BY <2>1, <2>2, AppendProperties DEF TypeOK
  <2>4. \A i \in 1..Len(stream') : OnItsWay(stream'[i])
    BY <2>1, <2>3, Underway
  <2> QED
    BY <2>2, <2>4, Underway DEF MovesOn
<1>3. CASE SkipLocked(s) \/ UnlockJob(s) \/ SchedulerCrash(s)
  <2>1. /\ UNCHANGED <<stream, msg>>
        /\ \A t \in Schedulers : /\ batch'[t] \subseteq batch[t]
                                 /\ cur'[t] \in {cur[t], NoMsg}
    <3>1. CASE SkipLocked(s)
      BY <3>1 DEF SkipLocked, TypeOK
    <3>2. CASE SchedulerCrash(s)
      BY <3>2 DEF SchedulerCrash, TypeOK
    <3>3. CASE UnlockJob(s)
      BY <3>3 DEF UnlockJob, TypeOK
    <3> QED
      BY <1>3, <3>1, <3>2, <3>3
  <2> QED
    BY <2>1, Underway DEF MovesOn
<1> QED
  BY <1>1, <1>2, <1>3 DEF SchedulerStep, SchedulerTrouble

LEMMA ConsumeMovesOn ==
    ASSUME TypeOK, NEW w \in Workers, Consume(w) \/ ConsumeLost(w)
    PROVE  MovesOn
<1>1. /\ Head(stream) = stream[1] /\ Len(stream) \in Nat /\ Len(stream) >= 1
      /\ Len(stream') = Len(stream) - 1
      /\ \A i \in 1..Len(stream') : stream'[i] = stream[i + 1]
  <2>1. stream \in Seq(Message) /\ stream # <<>> /\ stream' = Tail(stream)
    BY DEF Consume, ConsumeLost, TypeOK
  <2> QED
    BY <2>1, HeadTailProperties
<1>2. UNCHANGED <<batch, cur>>
  BY DEF Consume, ConsumeLost, schedulerVars
<1>3. \A i \in 1..Len(stream') : OnItsWay(stream'[i])
  <2> TAKE i \in 1..Len(stream')
  <2>1. i + 1 \in 1..Len(stream) /\ stream'[i] = stream[i + 1]
    BY <1>1
  <2> QED
    BY <2>1, Underway
<1>4. \A v \in Workers : OnItsWay(msg'[v])
  <2>1. OnItsWay(Head(stream))
    BY <1>1, Underway
  <2>2. msg' \in {msg, [msg EXCEPT ![w] = Head(stream)]}
    BY DEF Consume, ConsumeLost, workerVars
  <2> QED
    BY <2>1, <2>2, Underway DEF TypeOK
<1> QED
  BY <1>2, <1>3, <1>4 DEF MovesOn

LEMMA StepsMoveOn ==
    ASSUME TypeOK, [Next]_vars, \A s \in Schedulers : ~ GetDueJobs(s)
    PROVE  MovesOn
<1>1. CASE UNCHANGED vars \/ Reclaim \/ \E j \in Jobs : Clock(j)
  <2>1. UNCHANGED <<stream, batch, cur, msg>>
    BY <1>1 DEF vars, Reclaim, Clock, Fires, Ages, Expire, redisVars,
                schedulerVars, workerVars
  <2> QED
    BY <2>1, Underway DEF MovesOn
<1>2. ASSUME NEW w \in Workers,
             RowlessAction(w) \/ OutcomeAction(w)
                \/ (WorkerTrouble(w) /\ ~ ConsumeLost(w))
      PROVE  MovesOn
  <2>1. UNCHANGED <<stream, batch, cur>> /\ (msg' = msg \/ Leave(w))
    BY <1>2 DEF RowlessAction, Acquire, AcquireRefused, Drop, HandlerMissing,
        RecordStart, DuplicateStart, HandlerEnds, HandlerResolves,
        HandlerRejects, HandlerTimesOut, RecordSuccess, Acknowledge,
        RecordFailure, SendToDLQ, WriteToDLQTable, RecordDLQ, Release,
        OutcomeAction, CompleteExecution, FailWithRetry, FailPermanently,
        WorkerTrouble, Throws, AcquireReplyLost, LoopError,
        WorkerCrash, ZombieEnds, redisVars, schedulerVars, workerVars
  <2>2. \A v \in Workers : msg'[v] \in {msg[v], NoMsg}
    BY <2>1 DEF Leave, TypeOK
  <2> QED
    BY <2>1, <2>2, Underway DEF MovesOn
<1> QED
  BY <1>1, <1>2, SchedulersMoveOn, ConsumeMovesOn, WorkerActions DEF Next

\* A message of a row as it is.
Born(m) == \E j \in Jobs : m = MessageOf(SnapshotOf(j))

LEMMA ComeFromRows ==
    ASSUME TypeOK, [Next]_vars
    PROVE  NoneNew \/ /\ rows' = rows
                      /\ \A m \in Message : OnItsWay(m)' => OnItsWay(m) \/ Born(m)
<1>1. CASE \A s \in Schedulers : ~ GetDueJobs(s)
  BY <1>1, StepsMoveOn, NoneIsNew
<1>2. ASSUME NEW s \in Schedulers, GetDueJobs(s)
      PROVE  /\ rows' = rows
             /\ \A m \in Message : OnItsWay(m)' => OnItsWay(m) \/ Born(m)
  <2>1. UNCHANGED <<rows, stream, cur, msg>>
    BY <1>2 DEF GetDueJobs, dbVars, redisVars, workerVars
  <2>2. PICK due \in SUBSET DueJobs :
           batch' = [batch EXCEPT ![s] = {SnapshotOf(j) : j \in due}]
    BY <1>2 DEF GetDueJobs
  <2>3. \A t \in Schedulers : \A snap \in batch'[t] :
           snap \in batch[t] \/ \E j \in Jobs : snap = SnapshotOf(j)
    BY <2>2 DEF TypeOK, DueJobs
  <2>4. ASSUME NEW m \in Message, OnItsWay(m)' PROVE OnItsWay(m) \/ Born(m)
    <3>1. \/ \E t \in Schedulers : \E snap \in batch'[t] : m = MessageOf(snap)
          \/ \E t \in Schedulers : cur[t] # NoMsg /\ m = MessageOf(cur[t])
          \/ \E i \in 1..Len(stream) : m = stream[i]
          \/ \E w \in Workers : m = msg[w]
      BY <2>1, <2>4 DEF OnItsWay, MessageOf
    <3> QED
      BY <2>3, <3>1 DEF OnItsWay, Born
  <2> QED
    BY <2>1, <2>4
<1> QED
  BY <1>1, <1>2

LEMMA BornAgrees ==
    ASSUME TypeOK, NEW m \in Message, Born(m)
    PROVE  NotAhead(m) /\ m.maxRetries = rows[m.job].maxRetries
<1>1. PICK j \in Jobs : m = MessageOf(SnapshotOf(j))
  BY DEF Born
<1>2. rows[j].retryCount \in Int
  BY MaxRetriesAssumption DEF TypeOK, Row
<1> QED
  BY <1>1, <1>2 DEF NotAhead, MessageOf, SnapshotOf

\* A step that makes no message and takes back no attempt.
LEMMA NoneGetsAhead ==
    ASSUME TypeOK, TypeOK', CountsGrow, NoneNew, NoneAhead
    PROVE  NoneAhead'
<1> SUFFICES ASSUME NEW m \in Message, OnItsWay(m)' PROVE NotAhead(m)'
  BY DEF NoneAhead
<1>1. NotAhead(m)
  BY DEF NoneNew, NoneAhead
<1> QED
  BY <1>1, StillNotAhead

LEMMA AheadStep ==
    ASSUME TypeOK, NoneAhead, [Next]_vars
    PROVE  NoneAhead'
<1>1. TypeOK' /\ CountsGrow
  BY TypeStep, CountsGrowAlways
<1>2. CASE NoneNew
  BY <1>1, <1>2, NoneGetsAhead
<1>3. ASSUME rows' = rows, NEW m \in Message, OnItsWay(m)',
             OnItsWay(m) \/ Born(m)
      PROVE  NotAhead(m)'
  <2>1. NotAhead(m)
    BY <1>3, BornAgrees DEF NoneAhead
  <2> QED
    BY <1>3, <2>1 DEF NotAhead
<1> QED
  BY <1>2, <1>3, ComeFromRows DEF NoneAhead

\* While nobody changes max_retries, the message has that of its row.
LimitsAgree ==
    \A m \in Message : OnItsWay(m) => m.maxRetries = rows[m.job].maxRetries

LEMMA LimitsKeepAgreeing ==
    ASSUME TypeOK, LimitsAgree, NoneNew,
           \A j \in Jobs : rows'[j].maxRetries = rows[j].maxRetries
    PROVE  LimitsAgree'
BY DEF LimitsAgree, NoneNew, Message

LEMMA LimitsStep ==
    ASSUME TypeOK, LimitsAgree, [Next]_vars
    PROVE  LimitsAgree'
<1>1. CASE NoneNew
  BY <1>1, RowsDoPersist, LimitsKeepAgreeing DEF RowsPersist
<1>2. ASSUME rows' = rows, NEW m \in Message, OnItsWay(m) \/ Born(m)
      PROVE  m.maxRetries = rows'[m.job].maxRetries
  BY <1>2, BornAgrees DEF LimitsAgree
<1> QED
  BY <1>1, <1>2, ComeFromRows DEF LimitsAgree

\* At first there is no message.
LEMMA NothingUnderway == ASSUME Init, NEW m \in Message PROVE ~ OnItsWay(m)
BY NoMsgAssumption DEF Init, OnItsWay

LEMMA AheadInvariant == Spec => [](NoneAhead /\ LimitsAgree)
<1>1. Init => NoneAhead /\ LimitsAgree
  BY NothingUnderway DEF NoneAhead, LimitsAgree
<1>2. TypeOK /\ NoneAhead /\ LimitsAgree /\ [Next]_vars
         => NoneAhead' /\ LimitsAgree'
  BY AheadStep, LimitsStep
<1> QED
  BY <1>1, <1>2, TypeCorrect, PTL DEF Spec

\* What GivenUpLate says of a step.
LateStep ==
    \A j \in Jobs \ CronJobs :
       GivesUp(j) => rows[j].retryCount + 1 >= rows[j].maxRetries

LEMMA GivesUpLate ==
    ASSUME TypeOK, NoneAhead, LimitsAgree, [Next]_vars
    PROVE  LateStep
<1> SUFFICES ASSUME NEW j \in Jobs \ CronJobs, GivesUp(j)
             PROVE  rows[j].retryCount + 1 >= rows[j].maxRetries
  BY DEF LateStep
<1>1. PICK job \in Jobs : \E new : /\ rows' = [rows EXCEPT ![job] = new]
                                   /\ Statement(new, rows[job], job)
  BY OneAtATime DEF OneStatement, GivesUp
<1>2. PICK new : /\ rows' = [rows EXCEPT ![job] = new]
                 /\ Statement(new, rows[job], job)
  BY <1>1
<1>3. job = j /\ new.status = "failed_permanent" /\ rows[j] \in Row
  BY <1>2 DEF GivesUp, TypeOK
<1>4. new = FailedPermanently(rows[j])
  BY <1>2, <1>3 DEF GivesUp, Statement, Row, Locked, Unlocked, Fired, Aged,
     OneTimeCompleted, RetryScheduled, Update
<1>5. PICK w \in Workers : FailPermanently(w) /\ j = JobOf(w)
  BY <1>2, <1>3 DEF GivesUp, Statement, Row, Locked, Unlocked, Fired, Aged,
     OneTimeCompleted, RetryScheduled, Update
<1>6. /\ msg[w] \in Message /\ msg[w].job = j
      /\ ~ (msg[w].attempt < msg[w].maxRetries)
  BY <1>5, InHand DEF FailPermanently, RetryAllowed, ShouldRetry, JobOf
<1>7. NotAhead(msg[w]) /\ msg[w].maxRetries = rows[j].maxRetries
  BY <1>6, Underway DEF NoneAhead, LimitsAgree
<1>8. rows[j].status # "deleted"
  BY <1>3, <1>4 DEF FailedPermanently, Update, GivesUp
<1>9. /\ msg[w].attempt \in Int /\ rows[j].retryCount \in Int
      /\ rows[j].maxRetries \in Int
  <2>1. MaxRetries \in Int /\ Limits \subseteq Int
    BY MaxRetriesAssumption
  <2>2. /\ msg[w].attempt \in 1..(MaxRetries + 1)
        /\ rows[j].retryCount \in 0..MaxRetries /\ rows[j].maxRetries \in Limits
    BY <1>3, <1>6 DEF Message, Row
  <2>3. rows[j].maxRetries \in Int
    BY <2>1, <2>2
  <2>4. msg[w].attempt \in Int /\ rows[j].retryCount \in Int
    BY <2>1, <2>2
  <2> QED
    BY <2>3, <2>4
<1> QED
  BY <1>6, <1>7, <1>8, <1>9 DEF NotAhead

\* A one-time job is given up only when its attempts have reached its
\* max_retries, for any number of schedulers, workers and jobs, and whatever
\* turns stale, dies, throws, expires or overstays: a message that comes late
\* is never ahead of its row.
THEOREM GivenUpWhenUsedUp == Spec => GivenUpLate
<1>1. TypeOK /\ NoneAhead /\ LimitsAgree /\ [Next]_vars => [LateStep]_vars
  BY GivesUpLate
<1>2. GivenUpLate <=> [][LateStep]_vars
  BY DEF GivenUpLate, LateStep
<1> QED
  BY <1>1, <1>2, TypeCorrect, AheadInvariant, PTL DEF Spec

=============================================================================
