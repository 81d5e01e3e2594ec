----------------------------- MODULE JobPipeline ----------------------------
(***************************************************************************)
(* From a due row to a finished job: schedulers that enqueue due rows on   *)
(* the Redis stream, workers that consume, execute and settle them.        *)
(*                                                                         *)
(* Every await of the code is a step: one statement of PostgreSQL or one   *)
(* command of Redis, atomic there, and its reply.  Under "error" a reply   *)
(* may be an exception instead, with the statement applied or not.         *)
(***************************************************************************)
EXTENDS JobTable, Retry, Sequences, FiniteSets

CONSTANTS
    Jobs,
    CronJobs,        \* the jobs of type 'cron'; the others run once
    UnknownHandler,  \* the jobs whose handler_name is not registered
    Schedulers,      \* the poll loops that run: one, or two while a deposed
                     \* leader has not noticed (LeaderElection)
    Workers,
    Nobody,          \* no holder of a lock, no reader of a message
    NoMsg,           \* no message or snapshot in hand
    BatchSize,       \* config.execution.batchSize
    MaxStream,       \* bound: unread messages in the stream
    MaxFaults,       \* bound: crashes and errors in a behaviour
    Events           \* what may happen besides the normal course

ASSUME PipelineAssumption ==
    /\ CronJobs \subseteq Jobs
    /\ UnknownHandler \subseteq Jobs
    /\ Nobody \notin Workers
    /\ BatchSize \in Nat \ {0}
    /\ MaxFaults \in Nat
    /\ Events \subseteq {"aging",    \* a row's lock turns five minutes old
                         "crash",    \* a node dies and is restarted
                         "error",    \* a call throws
                         "lease",    \* a held job lock expires: no extend
                                     \* ran for five minutes
                         "slow",     \* a worker has a message in hand for
                                     \* ten minutes
                         "timeout",  \* a handler outlives its timeout
                         "sameMs",   \* two executions of one attempt begin
                                     \* in the same millisecond
                         "horizon"}  \* a cron job does not fire within the
                                     \* two years getNextFireTime looks at

Message == [job: Jobs, attempt: 1..(MaxRetries + 1), maxRetries: Limits]
Snapshot == [job: Jobs, retryCount: 0..MaxRetries, maxRetries: Limits]

\* An entry of the pending list: the worker that has the message in hand, and
\* whether the leader has claimed it.
Pending == [message: Message, reader: Workers \cup {Nobody}, reclaimed: BOOLEAN]

\* The part of an execution_key that a second execution of an attempt shares.
Key == [job: Jobs, attempt: 1..(MaxRetries + 1)]
KeyOf(m) == [job |-> m.job, attempt |-> m.attempt]

ASSUME NoMsgAssumption == NoMsg \notin Message \cup Snapshot

VARIABLES
    rows,      \* table jobs
    started,   \* the keys of the records in job_executions
    dlqTable,  \* the jobs with an entry in dead_letter_queue
    dlqStream, \* the jobs with an entry in the stream scheduler:jobs:dlq
    stream,    \* messages not yet delivered to the consumer group
    pel,       \* delivered and not acknowledged; abandoned ones are a set
    lock,      \* whose token is under scheduler:job:lock:<job>
    spc, batch, cur,  \* a scheduler's step, rows still to enqueue, row in hand
    pc, msg,   \* a worker's step and the message it executes
    exec,      \* the status of the execution record it has in hand
    zombies,   \* workers where a timed-out handler of the job still runs
    faults     \* crashes and errors so far

dbVars == <<rows, started, dlqTable>>
redisVars == <<dlqStream, stream, pel, lock>>
schedulerVars == <<spc, batch, cur>>
workerVars == <<pc, msg, exec, zombies>>
vars == <<dbVars, redisVars, schedulerVars, workerVars, faults>>

-----------------------------------------------------------------------------
(* The steps of _executeJob, by the block whose error handling they get.   *)

Try == {"start", "duplicate", "run", "success", "complete", "ack"}
Catch == {"recordFailure", "fail", "toDLQStream", "toDLQTable", "recordDLQ",
          "ackFailed"}
WorkerStep == {"idle", "acquire", "drop", "release"} \cup Try \cup Catch

\* Between a successful acquire and the end of release.
Executing(w) == pc[w] \in Try \cup Catch \cup {"release"}

JobOf(w) == msg[w].job

Init ==
    /\ \E next \in [Jobs -> {"future", "due"}], limit \in [Jobs -> Limits] :
          /\ \A j \in CronJobs : next[j] = "future"
          /\ rows = [j \in Jobs |-> Created(next[j], limit[j])]
    /\ started = {} /\ dlqTable = {} /\ dlqStream = {}
    /\ stream = <<>> /\ pel = {}
    /\ lock = [j \in Jobs |-> Nobody]
    /\ spc = [s \in Schedulers |-> "poll"]
    /\ batch = [s \in Schedulers |-> {}]
    /\ cur = [s \in Schedulers |-> NoMsg]
    /\ pc = [w \in Workers |-> "idle"]
    /\ msg = [w \in Workers |-> NoMsg]
    /\ exec = [w \in Workers |-> "none"]
    /\ zombies = [j \in Jobs |-> {}]
    /\ faults = 0

\* A crash, or a call that throws.
Fault(kind) == kind \in Events /\ faults < MaxFaults /\ faults' = faults + 1

-----------------------------------------------------------------------------
(* Scheduler: _enqueueDueJobs                                              *)

DueJobs == {j \in Jobs : IsDue(rows[j])}

SnapshotOf(j) ==
    [job |-> j, retryCount |-> rows[j].retryCount,
     maxRetries |-> rows[j].maxRetries]

AfterJob(rest) == IF rest = {} THEN "poll" ELSE "lock"

\* getDueJobs runs outside a transaction, so that its FOR UPDATE is over when
\* the statement is: the rows are a snapshot.  ORDER BY is left open.
GetDueJobs(s) ==
    /\ spc[s] = "poll"
    /\ \E due \in SUBSET DueJobs :
          /\ due # {}
          /\ Cardinality(due) <= BatchSize
          /\ due = DueJobs \/ Cardinality(due) = BatchSize
          /\ batch' = [batch EXCEPT ![s] =
                {SnapshotOf(j) : j \in due}]
    /\ spc' = [spc EXCEPT ![s] = "lock"]
    /\ UNCHANGED <<dbVars, redisVars, cur, workerVars, faults>>

\* lockJob returns true.
LockJob(s) ==
    /\ spc[s] = "lock"
    /\ \E snap \in batch[s] :
          /\ Lockable(rows[snap.job])
          /\ rows' = [rows EXCEPT ![snap.job] = Locked(@)]
          /\ batch' = [batch EXCEPT ![s] = @ \ {snap}]
          /\ cur' = [cur EXCEPT ![s] = snap]
    /\ spc' = [spc EXCEPT ![s] = "publish"]
    /\ UNCHANGED <<started, dlqTable, redisVars, workerVars, faults>>

\* lockJob returns false: another scheduler has the row, or it has ended.
SkipLocked(s) ==
    /\ spc[s] = "lock"
    /\ \E snap \in batch[s] :
          /\ ~ Lockable(rows[snap.job])
          /\ batch' = [batch EXCEPT ![s] = @ \ {snap}]
          /\ spc' = [spc EXCEPT ![s] = AfterJob(batch[s] \ {snap})]
    /\ UNCHANGED <<dbVars, redisVars, cur, workerVars, faults>>

\* The message of a row as getDueJobs read it.
MessageOf(snap) ==
    [job |-> snap.job, attempt |-> snap.retryCount + 1,
     maxRetries |-> snap.maxRetries]

Publish(s) ==
    /\ spc[s] = "publish"
    /\ Len(stream) < MaxStream
    /\ stream' = Append(stream, MessageOf(cur[s]))
    /\ cur' = [cur EXCEPT ![s] = NoMsg]
    /\ spc' = [spc EXCEPT ![s] = AfterJob(batch[s])]
    /\ UNCHANGED <<dbVars, dlqStream, pel, lock, batch, workerVars, faults>>

\* lockJob or publish throws, its effect applied or not; the catch block then
\* unlocks the row, whoever has locked it.
LockJobThrows(s) ==
    /\ spc[s] = "lock" /\ Fault("error")
    /\ \E snap \in batch[s] :
          /\ batch' = [batch EXCEPT ![s] = @ \ {snap}]
          /\ cur' = [cur EXCEPT ![s] = snap]
          /\ rows' \in {rows} \cup
                (IF Lockable(rows[snap.job])
                 THEN {[rows EXCEPT ![snap.job] = Locked(@)]} ELSE {})
    /\ spc' = [spc EXCEPT ![s] = "unlock"]
    /\ UNCHANGED <<started, dlqTable, redisVars, workerVars>>

PublishThrows(s) ==
    /\ spc[s] = "publish" /\ Fault("error")
    /\ stream' \in {stream} \cup
          (IF Len(stream) < MaxStream
           THEN {Append(stream, MessageOf(cur[s]))} ELSE {})
    /\ spc' = [spc EXCEPT ![s] = "unlock"]
    /\ UNCHANGED <<dbVars, dlqStream, pel, lock, batch, cur, workerVars>>

\* unlockJob, whose own error is swallowed.
UnlockJob(s) ==
    /\ spc[s] = "unlock"
    /\ \/ /\ rows' = [rows EXCEPT ![cur[s].job] = Unlocked(@)]
          /\ UNCHANGED faults
       \/ Fault("error") /\ UNCHANGED rows
    /\ cur' = [cur EXCEPT ![s] = NoMsg]
    /\ spc' = [spc EXCEPT ![s] = AfterJob(batch[s])]
    /\ UNCHANGED <<started, dlqTable, redisVars, batch, workerVars>>

\* The node dies with its batch in memory.
SchedulerCrash(s) ==
    /\ spc[s] # "poll" /\ Fault("crash")
    /\ spc' = [spc EXCEPT ![s] = "poll"]
    /\ batch' = [batch EXCEPT ![s] = {}]
    /\ cur' = [cur EXCEPT ![s] = NoMsg]
    /\ UNCHANGED <<dbVars, redisVars, workerVars>>

\* _reclaimLoop: XAUTOCLAIM puts a message under the leader's consumer when it
\* has been pending for ten minutes, be its reader dead or only slow.  The
\* messages it returns are counted and nothing else.
Reclaim ==
    /\ \E p \in pel :
          /\ ~ p.reclaimed
          /\ p.reader # Nobody => "slow" \in Events
          /\ pel' = (pel \ {p}) \cup {[p EXCEPT !.reclaimed = TRUE]}
    /\ UNCHANGED <<dbVars, dlqStream, stream, lock, schedulerVars, workerVars,
                   faults>>

-----------------------------------------------------------------------------
(* Worker: _processNext and _executeJob                                    *)

\* Mutant: the message stays in hand.
LeaveKeeping(w) ==
    /\ pc' = [pc EXCEPT ![w] = "idle"]
    /\ exec' = [exec EXCEPT ![w] = "none"]
    /\ UNCHANGED msg

\* The end of _executeJob: the worker has nothing in hand.  A message it has
\* not acknowledged stays pending with nobody to execute it, as consume only
\* asks for messages never delivered.
Leave(w) ==
    /\ pc' = [pc EXCEPT ![w] = "idle"]
    /\ msg' = [msg EXCEPT ![w] = NoMsg]
    /\ exec' = [exec EXCEPT ![w] = "none"]

Abandon(entries, w) ==
    {[p EXCEPT !.reader = IF @ = w THEN Nobody ELSE @] : p \in entries}

Delivered(m, w) == [message |-> m, reader |-> w, reclaimed |-> FALSE]

PendingUnder(m, w) == \E p \in pel : p.message = m /\ p.reader = w

\* XACK finds the message by its id, whoever it is pending under.
Acknowledged(w) ==
    {p \in pel : ~ (p.message = msg[w] /\ p.reader = w)}

\* Where an exception leads: the catch block skips recordFailure when there is
\* no execution record, an exception inside it leads to finally.
OnError(w) ==
    IF pc[w] \in Catch THEN "release"
    ELSE IF exec[w] = "none" THEN "fail" ELSE "recordFailure"

\* The call's effect took place: it returns, or its reply is an exception.
Proceed(w, next) ==
    \/ pc' = [pc EXCEPT ![w] = next] /\ UNCHANGED faults
    \/ Fault("error") /\ pc' = [pc EXCEPT ![w] = OnError(w)]

\* The call throws without effect.
Throws(w) ==
    /\ pc[w] \in (Try \cup Catch) \ {"run"} /\ Fault("error")
    /\ pc' = [pc EXCEPT ![w] = OnError(w)]
    /\ UNCHANGED <<dbVars, redisVars, schedulerVars, msg, exec, zombies>>

\* Mutant: XREADGROUP with NOACK.
ConsumeNoAck(w) ==
    /\ pc[w] = "idle" /\ stream # <<>>
    /\ stream' = Tail(stream)
    /\ msg' = [msg EXCEPT ![w] = Head(stream)]
    /\ pc' = [pc EXCEPT ![w] = "acquire"]
    /\ UNCHANGED <<dbVars, dlqStream, pel, lock, schedulerVars, exec, zombies,
                   faults>>

\* Mutant: the message of a job that is not active is left in the stream.
ConsumeActive(w) ==
    /\ pc[w] = "idle" /\ stream # <<>>
    /\ rows[Head(stream).job].status = "active"
    /\ stream' = Tail(stream)
    /\ pel' = pel \cup {Delivered(Head(stream), w)}
    /\ msg' = [msg EXCEPT ![w] = Head(stream)]
    /\ pc' = [pc EXCEPT ![w] = "acquire"]
    /\ UNCHANGED <<dbVars, dlqStream, lock, schedulerVars, exec, zombies,
                   faults>>

\* XREADGROUP '>' of one message.
Consume(w) ==
    /\ pc[w] = "idle" /\ stream # <<>>
    /\ stream' = Tail(stream)
    /\ pel' = pel \cup {Delivered(Head(stream), w)}
    /\ msg' = [msg EXCEPT ![w] = Head(stream)]
    /\ pc' = [pc EXCEPT ![w] = "acquire"]
    /\ UNCHANGED <<dbVars, dlqStream, lock, schedulerVars, exec, zombies,
                   faults>>

\* Redis delivers the message but the reply does not arrive.
ConsumeLost(w) ==
    /\ pc[w] = "idle" /\ stream # <<>> /\ Fault("error")
    /\ stream' = Tail(stream)
    /\ pel' = pel \cup {Delivered(Head(stream), Nobody)}
    /\ UNCHANGED <<dbVars, dlqStream, lock, schedulerVars, workerVars>>

\* Mutant: SET without NX.
AcquireWithoutNX(w) ==
    /\ pc[w] = "acquire"
    /\ lock' = [lock EXCEPT ![JobOf(w)] = w]
    /\ pc' = [pc EXCEPT ![w] = "start"]
    /\ UNCHANGED <<dbVars, dlqStream, stream, pel, schedulerVars, msg, exec,
                   zombies, faults>>

\* SET NX of a fresh token.
Acquire(w) ==
    /\ pc[w] = "acquire"
    /\ lock[JobOf(w)] = Nobody
    /\ lock' = [lock EXCEPT ![JobOf(w)] = w]
    /\ pc' = [pc EXCEPT ![w] = "start"]
    /\ UNCHANGED <<dbVars, dlqStream, stream, pel, schedulerVars, msg, exec,
                   zombies, faults>>

AcquireRefused(w) ==
    /\ pc[w] = "acquire"
    /\ lock[JobOf(w)] # Nobody
    /\ pc' = [pc EXCEPT ![w] = "drop"]
    /\ UNCHANGED <<dbVars, redisVars, schedulerVars, msg, exec, zombies,
                   faults>>

\* The token is stored and the reply lost: the client sends the command again
\* and NX now refuses it, or gives up and the exception ends _executeJob.
AcquireReplyLost(w) ==
    /\ pc[w] = "acquire" /\ Fault("error")
    /\ lock[JobOf(w)] = Nobody
    /\ lock' = [lock EXCEPT ![JobOf(w)] = w]
    /\ \/ /\ pc' = [pc EXCEPT ![w] = "drop"]
          /\ UNCHANGED <<pel, msg, exec>>
       \/ Leave(w) /\ pel' = Abandon(pel, w)
    /\ UNCHANGED <<dbVars, dlqStream, stream, schedulerVars, zombies>>

\* acquire, or the acknowledge after a refused one, throws without effect:
\* the worker loop logs the error and goes on to the next message.
LoopError(w) ==
    /\ pc[w] \in {"acquire", "drop"} /\ Fault("error")
    /\ Leave(w) /\ pel' = Abandon(pel, w)
    /\ UNCHANGED <<dbVars, dlqStream, stream, lock, schedulerVars, zombies>>

\* Mutant: the lock is deleted with the message.
DropReleasing(w) ==
    /\ pc[w] = "drop"
    /\ pel' = Acknowledged(w)
    /\ lock' = [lock EXCEPT ![JobOf(w)] = Nobody]
    /\ Leave(w)
    /\ UNCHANGED <<dbVars, dlqStream, stream, schedulerVars, zombies, faults>>

\* Acknowledge the message of a job that is locked, and forget it.
Drop(w) ==
    /\ pc[w] = "drop"
    /\ pel' = Acknowledged(w)
    /\ Leave(w)
    /\ UNCHANGED <<dbVars, dlqStream, stream, lock, schedulerVars, zombies,
                   faults>>

HandlerMissing(w) ==
    /\ pc[w] = "start" /\ JobOf(w) \in UnknownHandler
    /\ pc' = [pc EXCEPT ![w] = OnError(w)]
    /\ UNCHANGED <<dbVars, redisVars, schedulerVars, msg, exec, zombies,
                   faults>>

\* recordStart, for a job that is still there.  The execution_key ends with
\* Date.now(), so that the INSERT succeeds for an attempt that has a record
\* already...
RecordStart(w) ==
    /\ pc[w] = "start" /\ JobOf(w) \notin UnknownHandler
    /\ rows[JobOf(w)].status # "deleted"
    /\ started' = started \cup {KeyOf(msg[w])}
    /\ Proceed(w, "run")
    /\ exec' = [exec EXCEPT ![w] = IF pc'[w] = "run" THEN "running" ELSE @]
    /\ UNCHANGED <<rows, dlqTable, redisVars, schedulerVars, msg, zombies>>

\* ... unless that record was made in the same millisecond.
DuplicateStart(w) ==
    /\ pc[w] = "start" /\ JobOf(w) \notin UnknownHandler
    /\ rows[JobOf(w)].status # "deleted"
    /\ "sameMs" \in Events /\ KeyOf(msg[w]) \in started
    /\ pc' = [pc EXCEPT ![w] = "duplicate"]
    /\ UNCHANGED <<dbVars, redisVars, schedulerVars, msg, exec, zombies,
                   faults>>

\* registry.execute: the race of the handler with its timeout.
HandlerResolves(w) ==
    /\ pc[w] = "run"
    /\ pc' = [pc EXCEPT ![w] = "success"]
    /\ UNCHANGED <<dbVars, redisVars, schedulerVars, msg, exec, zombies,
                   faults>>

HandlerRejects(w) ==
    /\ pc[w] = "run"
    /\ pc' = [pc EXCEPT ![w] = OnError(w)]
    /\ UNCHANGED <<dbVars, redisVars, schedulerVars, msg, exec, zombies,
                   faults>>

\* The timeout rejects the race; nothing stops the handler.
HandlerTimesOut(w) ==
    /\ pc[w] = "run" /\ "timeout" \in Events
    /\ pc' = [pc EXCEPT ![w] = OnError(w)]
    /\ zombies' = [zombies EXCEPT ![JobOf(w)] = @ \cup {w}]
    /\ UNCHANGED <<dbVars, redisVars, schedulerVars, msg, exec, faults>>

ZombieEnds(w) ==
    /\ \E j \in Jobs :
          /\ w \in zombies[j]
          /\ zombies' = [zombies EXCEPT ![j] = @ \ {w}]
    /\ UNCHANGED <<dbVars, redisVars, schedulerVars, pc, msg, exec, faults>>

RecordSuccess(w) ==
    /\ pc[w] = "success"
    /\ exec' = [exec EXCEPT ![w] = "success"]
    /\ Proceed(w, "complete")
    /\ UNCHANGED <<dbVars, redisVars, schedulerVars, msg, zombies>>

\* completeExecution.  Its SELECT reads only the type and the cron expression,
\* which nothing here changes, so that it is one step with the UPDATE.
NextFire == {"future"} \cup (IF "horizon" \in Events THEN {"never"} ELSE {})

CompleteExecution(w) ==
    /\ pc[w] = "complete"
    /\ \E next \in NextFire :
          rows' = [rows EXCEPT ![JobOf(w)] =
                      IF JobOf(w) \in CronJobs THEN CronCompleted(@, next)
                                               ELSE OneTimeCompleted(@)]
    /\ Proceed(w, "ack")
    /\ UNCHANGED <<started, dlqTable, redisVars, schedulerVars, msg, exec,
                   zombies>>

\* acknowledge: after success, after a duplicate, or after a handled failure.
Acknowledge(w) ==
    /\ pc[w] \in {"ack", "duplicate", "ackFailed"}
    /\ pel' = Acknowledged(w)
    /\ Proceed(w, "release")
    /\ UNCHANGED <<dbVars, dlqStream, stream, lock, schedulerVars, msg, exec,
                   zombies>>

RecordFailure(w) ==
    /\ pc[w] = "recordFailure"
    /\ exec' = [exec EXCEPT ![w] = "failed"]
    /\ Proceed(w, "fail")
    /\ UNCHANGED <<dbVars, redisVars, schedulerVars, msg, zombies>>

\* failExecution.  Both numbers are those of the message, not of the row.
RetryAllowed(w) == ShouldRetry(msg[w].attempt, msg[w].maxRetries)

FailWithRetry(w) ==
    /\ pc[w] = "fail" /\ RetryAllowed(w)
    /\ rows' = [rows EXCEPT ![JobOf(w)] = RetryScheduled(@)]
    /\ Proceed(w, "ackFailed")
    /\ UNCHANGED <<started, dlqTable, redisVars, schedulerVars, msg, exec,
                   zombies>>

\* Mutant: the dead letter entry is written only with an execution record.
FailPermanentlyIfRecorded(w) ==
    /\ pc[w] = "fail" /\ ~ RetryAllowed(w)
    /\ rows' = [rows EXCEPT ![JobOf(w)] = FailedPermanently(@)]
    /\ Proceed(w, IF exec[w] = "none" THEN "ackFailed" ELSE "toDLQStream")
    /\ UNCHANGED <<started, dlqTable, redisVars, schedulerVars, msg, exec,
                   zombies>>

FailPermanently(w) ==
    /\ pc[w] = "fail" /\ ~ RetryAllowed(w)
    /\ rows' = [rows EXCEPT ![JobOf(w)] = FailedPermanently(@)]
    /\ Proceed(w, "toDLQStream")
    /\ UNCHANGED <<started, dlqTable, redisVars, schedulerVars, msg, exec,
                   zombies>>

SendToDLQ(w) ==
    /\ pc[w] = "toDLQStream"
    /\ dlqStream' = dlqStream \cup {JobOf(w)}
    /\ Proceed(w, "toDLQTable")
    /\ UNCHANGED <<dbVars, stream, pel, lock, schedulerVars, msg, exec,
                   zombies>>

WriteToDLQTable(w) ==
    /\ pc[w] = "toDLQTable" /\ rows[JobOf(w)].status # "deleted"
    /\ dlqTable' = dlqTable \cup {JobOf(w)}
    /\ Proceed(w, IF exec[w] = "none" THEN "ackFailed" ELSE "recordDLQ")
    /\ UNCHANGED <<rows, started, redisVars, schedulerVars, msg, exec,
                   zombies>>

RecordDLQ(w) ==
    /\ pc[w] = "recordDLQ"
    /\ exec' = [exec EXCEPT ![w] = "dlq"]
    /\ Proceed(w, "ackFailed")
    /\ UNCHANGED <<dbVars, redisVars, schedulerVars, msg, zombies>>

\* Mutant: DEL without comparing the token.
ReleasedUnchecked(w) == [lock EXCEPT ![JobOf(w)] = Nobody]

\* The RELEASE_SCRIPT deletes the key if it holds this worker's token.  When
\* the call throws, the token stays or not.
Released(w) ==
    IF lock[JobOf(w)] = w THEN [lock EXCEPT ![JobOf(w)] = Nobody] ELSE lock

Release(w) ==
    /\ pc[w] = "release"
    /\ \/ lock' = Released(w) /\ UNCHANGED faults
       \/ lock' \in {lock, Released(w)} /\ Fault("error")
    /\ Leave(w) /\ pel' = Abandon(pel, w)
    /\ UNCHANGED <<dbVars, dlqStream, stream, schedulerVars, zombies>>

\* The process dies, its timed-out handlers with it; its lock stays.
WorkerCrash(w) ==
    /\ Fault("crash")
    /\ pc[w] # "idle" \/ \E j \in Jobs : w \in zombies[j]
    /\ Leave(w) /\ pel' = Abandon(pel, w)
    /\ zombies' = [j \in Jobs |-> zombies[j] \ {w}]
    /\ UNCHANGED <<dbVars, dlqStream, stream, lock, schedulerVars>>

-----------------------------------------------------------------------------
(* The clock                                                               *)

\* next_run_at is reached.
Fires(j) ==
    /\ rows[j].nextRun = "future"
    /\ rows' = [rows EXCEPT ![j] = Fired(@)]
    /\ UNCHANGED <<started, dlqTable, redisVars, schedulerVars, workerVars,
                   faults>>

\* Nothing refreshes locked_at: it can turn stale while the message waits or
\* the handler runs.
Ages(j) ==
    /\ "aging" \in Events /\ rows[j].lock = "fresh"
    /\ rows' = [rows EXCEPT ![j] = Aged(@)]
    /\ UNCHANGED <<started, dlqTable, redisVars, schedulerVars, workerVars,
                   faults>>

\* Mutants: the auto-extension is not stopped when the worker is done, or is
\* started only while the handler runs.
KeepsLockAfterwards(w, j) == lock[j] = w
KeepsLockRunning(w, j) == lock[j] = w /\ pc[w] = "run" /\ JobOf(w) = j

\* A worker's auto-extension keeps the TTL of the lock it executes under from
\* running out, unless its timer or Redis stalls for the whole TTL.  An extend
\* that finds another token changes nothing the worker looks at.
KeepsLock(w, j) == lock[j] = w /\ Executing(w) /\ JobOf(w) = j

Expire(j) ==
    /\ lock[j] # Nobody
    /\ "lease" \in Events \/ \A w \in Workers : ~ KeepsLock(w, j)
    /\ lock' = [lock EXCEPT ![j] = Nobody]
    /\ UNCHANGED <<dbVars, dlqStream, stream, pel, schedulerVars, workerVars,
                   faults>>

-----------------------------------------------------------------------------

SchedulerStep(s) ==
    \/ GetDueJobs(s) \/ LockJob(s) \/ SkipLocked(s) \/ Publish(s)
    \/ UnlockJob(s)

SchedulerTrouble(s) ==
    LockJobThrows(s) \/ PublishThrows(s) \/ SchedulerCrash(s)

HandlerEnds(w) == HandlerResolves(w) \/ HandlerRejects(w) \/ HandlerTimesOut(w)

WorkerAction(w) ==
    \/ Consume(w) \/ Acquire(w) \/ AcquireRefused(w) \/ Drop(w)
    \/ HandlerMissing(w) \/ RecordStart(w) \/ DuplicateStart(w)
    \/ HandlerEnds(w) \/ RecordSuccess(w) \/ CompleteExecution(w)
    \/ Acknowledge(w) \/ RecordFailure(w) \/ FailWithRetry(w)
    \/ FailPermanently(w) \/ SendToDLQ(w) \/ WriteToDLQTable(w)
    \/ RecordDLQ(w) \/ Release(w)

WorkerTrouble(w) ==
    \/ Throws(w) \/ ConsumeLost(w) \/ AcquireReplyLost(w) \/ LoopError(w)
    \/ WorkerCrash(w) \/ ZombieEnds(w)

Clock(j) == Fires(j) \/ Ages(j) \/ Expire(j)

Next ==
    \/ \E s \in Schedulers : SchedulerStep(s) \/ SchedulerTrouble(s)
    \/ Reclaim
    \/ \E w \in Workers : WorkerAction(w) \/ WorkerTrouble(w)
    \/ \E j \in Jobs : Clock(j)

Spec == Init /\ [][Next]_vars
-----------------------------------------------------------------------------
(* Properties                                                              *)

\* Every variable keeps its type, whatever order statements and replies come
\* in; a worker has a message in hand exactly while it is not idle, a
\* scheduler a snapshot exactly while it publishes or unlocks.
TypeOK ==
    /\ rows \in [Jobs -> Row]
    /\ started \subseteq Key
    /\ dlqTable \subseteq Jobs /\ dlqStream \subseteq Jobs
    /\ stream \in Seq(Message)
    /\ pel \subseteq Pending
    /\ lock \in [Jobs -> Workers \cup {Nobody}]
    /\ spc \in [Schedulers -> {"poll", "lock", "publish", "unlock"}]
    /\ batch \in [Schedulers -> SUBSET Snapshot]
    /\ cur \in [Schedulers -> Snapshot \cup {NoMsg}]
    /\ pc \in [Workers -> WorkerStep]
    /\ msg \in [Workers -> Message \cup {NoMsg}]
    /\ exec \in [Workers -> {"none", "running", "success", "failed", "dlq"}]
    /\ zombies \in [Jobs -> SUBSET Workers]
    /\ faults \in 0..MaxFaults
    /\ \A w \in Workers : msg[w] = NoMsg <=> pc[w] = "idle"
    /\ \A s \in Schedulers : cur[s] = NoMsg <=> spc[s] \in {"poll", "lock"}

\* The handlers of a job that run right now, timed out or not.
Running(j) == zombies[j] \cup {w \in Workers : pc[w] = "run" /\ JobOf(w) = j}

\* The promise of the per-job lock (worker.js step 1, README "one lock per
\* job"): no two workers run the handler of one job at a time, and none runs
\* it beside a handler that was given up.
HandlerExclusion ==
    \A j \in Jobs :
       /\ \A v, w \in Running(j) : v = w
       /\ \A w \in zombies[j] : ~ (pc[w] = "run" /\ JobOf(w) = j)

\* README "Lock auto-extension": while no lease runs out under a stalled
\* process, the worker that executes a job holds its lock to the very end,
\* through the writing of the outcome and every error on the way.
LockHeld == \A w \in Workers : Executing(w) => lock[JobOf(w)] = w

\* "Safe release" of the lock, also when leases run out under their holders:
\* a token disappears by its expiry, when no worker moves, or by the release
\* of the very worker that holds it and is done with the job.
OnlyOwnerReleases ==
    \A j \in Jobs, w \in Workers :
       lock[j] = w /\ lock'[j] # w =>
          /\ lock'[j] = Nobody
          /\ \/ pc' = pc
             \/ pc[w] = "release" /\ JobOf(w) = j /\ pc'[w] = "idle"

SafeRelease == [][OnlyOwnerReleases]_vars

\* The lock of a job as ExclusiveLock sees it: used by those who execute it.
JobLock ==
    INSTANCE ExclusiveLock
    WITH Locks <- Jobs, Holders <- Workers, holder <- lock,
         users <- [j \in Jobs |-> {w \in Workers : Executing(w) /\ JobOf(w) = j}],
         LeasesLapse <- "lease" \in Events

\* Workers use the job locks as the lock module means it: each executes under
\* a lock that was granted to it, gives up its own alone, and leaves it to the
\* TTL when it dies, loses a reply or fails to release.
RefinesLock == JobLock!Spec

\* A ticket is the right to settle the row of a job: a snapshot about to be
\* published, a message in the stream, or a worker that has not yet written
\* the outcome of its execution.
BeforeOutcome ==
    {"acquire", "drop", "start", "duplicate", "run", "success", "complete",
     "recordFailure", "fail"}

\* "On success: ACK message" (worker.js:16): until the outcome of an execution
\* is in the row, or a lock has refused it, the message stays pending, whoever
\* else dies, acknowledges or reclaims meanwhile: a crash before that moment
\* loses no message.  One call can break this, the acknowledge that takes
\* effect and throws: a job that has succeeded, or an execution found to be a
\* second one, is then written off as a failure without its message.
AcknowledgeThrew(w) ==
    /\ "error" \in Events /\ faults > 0
    /\ \/ pc[w] = "recordFailure" /\ exec[w] = "success"
       \/ pc[w] = "fail"
    /\ KeyOf(msg[w]) \in started \/ rows[JobOf(w)].status = "deleted"

UnsettledStaysPending ==
    \A w \in Workers :
       pc[w] \in BeforeOutcome \cup {"ack"} =>
          PendingUnder(msg[w], w) \/ AcknowledgeThrew(w)

Publishing(s, j) == spc[s] = "publish" /\ cur[s].job = j
Queued(i, j) == stream[i].job = j
Settling(w, j) == pc[w] \in BeforeOutcome /\ JobOf(w) = j

\* What locked_by buys while no lock turns stale: of one job there is at most
\* one ticket among all schedulers, the stream and all workers; also with two
\* schedulers, crashes, job locks that expire under their holders and handlers
\* that outlive their timeout.
OneTicket ==
    \A j \in Jobs :
       /\ \A s, t \in Schedulers :
             Publishing(s, j) /\ Publishing(t, j) => s = t
       /\ \A i, k \in 1..Len(stream) : Queued(i, j) /\ Queued(k, j) => i = k
       /\ \A v, w \in Workers : Settling(v, j) /\ Settling(w, j) => v = w
       /\ \A s \in Schedulers, i \in 1..Len(stream) :
             ~ (Publishing(s, j) /\ Queued(i, j))
       /\ \A s \in Schedulers, w \in Workers :
             ~ (Publishing(s, j) /\ Settling(w, j))
       /\ \A i \in 1..Len(stream), w \in Workers :
             ~ (Queued(i, j) /\ Settling(w, j))

HasTicket(j) ==
    \/ \E s \in Schedulers : Publishing(s, j)
    \/ \E i \in 1..Len(stream) : Queued(i, j)
    \/ \E w \in Workers : Settling(w, j)

\* While the ticket of a job exists its row is active and locked, so that the
\* statements of getDueJobs and lockJob pass over it.
TicketsLocked ==
    \A j \in Jobs :
       HasTicket(j) => rows[j].status = "active" /\ rows[j].lock # "free"

\* The row lock through the requests that leave it alone: a job that is
\* paused, resumed, rescheduled or deleted while its message is on the way is
\* not enqueued a second time, since its row stays locked as long as there is
\* somebody with the right to settle it.  (OneTicket is the other half.)
TicketsHeld ==
    \A j \in Jobs :
       HasTicket(j) => rows[j].lock # "free" \/ rows[j].status = "deleted"

\* With one scheduler the snapshot that becomes a message is never out of
\* date: every message and every execution carries the attempt number that
\* follows the row's retry_count, and the row is still due.
CurrentAttempt(m) ==
    /\ m.attempt = rows[m.job].retryCount + 1
    /\ rows[m.job].nextRun = "due" /\ rows[m.job].status = "active"

AttemptsAreCurrent ==
    /\ \A i \in 1..Len(stream) : CurrentAttempt(stream[i])
    /\ \A s \in Schedulers : spc[s] = "publish" => CurrentAttempt(MessageOf(cur[s]))
    /\ \A w \in Workers : pc[w] \in BeforeOutcome => CurrentAttempt(msg[w])

\* README "permanently failed jobs stored for inspection/replay": a job is in
\* the dead letter table exactly when its row is failed_permanent, up to the
\* two steps of the worker that is just writing the entry.
DeadIsStored ==
    \A j \in Jobs :
       rows[j].status = "failed_permanent" <=>
          \/ j \in dlqTable
          \/ \E w \in Workers : /\ pc[w] \in {"toDLQStream", "toDLQTable"}
                                /\ JobOf(w) = j

\* A one-time job that has ended, either way, stays as it ended: no message
\* that comes late and no execution whose job lock has lapsed writes to it
\* again.
EndedStaysEnded ==
    [][\A j \in Jobs \ CronJobs :
          rows[j].status \in {"completed", "failed_permanent"} =>
             rows'[j] = rows[j]]_vars

\* The bound that the code sets on giving up a one-time job: max_retries counts
\* its attempts, the first one included (worker.js:176).  Messages of attempts
\* long overtaken come late, after stale row locks, crashes and lost replies,
\* and their outcome is written all the same; but none of them gives the job
\* up before its row has counted that many failures, this one included.  What
\* the comments say of max_retries is RetriesAllowed.
GivesUp(j) ==
    rows[j].status # "failed_permanent" /\ rows'[j].status = "failed_permanent"

GivenUpLate ==
    [][\A j \in Jobs \ CronJobs :
          GivesUp(j) => rows[j].retryCount + 1 >= rows[j].maxRetries]_vars

\* What JobLifecycle sees of the jobs: claimed is one while somebody holds the
\* right to settle it.
Status == [j \in Jobs |-> rows[j].status]
Claimed == {j \in Jobs : HasTicket(j)}
Tries == [j \in Jobs |-> rows[j].retryCount]

\* A message from the moment its row is read to the end of its execution.
OnItsWay(m) ==
    \/ \E s \in Schedulers : \E snap \in batch[s] : m = MessageOf(snap)
    \/ \E s \in Schedulers : cur[s] # NoMsg /\ m = MessageOf(cur[s])
    \/ \E i \in 1..Len(stream) : m = stream[i]
    \/ \E w \in Workers : m = msg[w]

LimitsOf(j) ==
    {rows[j].maxRetries} \cup
       {m.maxRetries : m \in {n \in Message : n.job = j /\ OnItsWay(n)}}

Lifecycle ==
    INSTANCE JobLifecycle
    WITH status <- Status, claimed <- Claimed, tries <- Tries,
         limits <- [j \in Jobs |-> LimitsOf(j)]

\* Every behaviour of the schedulers, the stream and the workers is one of
\* JobLifecycle: an outcome is written only by the one claim there is, once,
\* and a one-time job is given up only when its attempts have reached a
\* max_retries that it has, or had when its message was made.
RefinesLifecycle == Lifecycle!Spec

-----------------------------------------------------------------------------
(* Fairness and liveness                                                   *)

\* Poll and worker loops run for as long as their process does, every await
\* gets a reply, a handler ends because its timeout does, and time passes.
Fairness ==
    /\ \A s \in Schedulers : WF_vars(SchedulerStep(s))
    /\ \A w \in Workers : WF_vars(WorkerAction(w))
    /\ \A j \in Jobs : WF_vars(Fires(j)) /\ WF_vars(Ages(j)) /\ WF_vars(Expire(j))

FairSpec == Spec /\ Fairness

\* No due job is left waiting for ever: a crash loses its message, a dead
\* worker's lock has it dropped, two messages of it are around, and each time
\* the row's stale lock brings it back (getDueJobs) until a worker runs it.
DueJobRuns ==
    \A j \in Jobs :
       ~ <>[](/\ rows[j].status = "active" /\ rows[j].nextRun = "due"
              /\ \A w \in Workers : ~ (pc[w] = "run" /\ JobOf(w) = j))

\* A one-time job does not stay active for ever: retries, crashes and
\* duplicate messages included, it ends completed or failed_permanent.
OneTimeSettles ==
    \A j \in Jobs \ CronJobs :
       <>[](rows[j].status \in {"completed", "failed_permanent"})

\* "Deadlock-free: TTL ensures locks expire even if holder crashes".
LockFreed == \A j \in Jobs : lock[j] # Nobody ~> lock[j] = Nobody

-----------------------------------------------------------------------------
(* Statements of the code's comments and documents that the model refutes  *)

\* scheduler.js:118 "recover abandoned messages from crashed workers": a
\* message that nobody has in hand and the leader has reclaimed is executed or
\* acknowledged in the end.
Stranded(m) == [message |-> m, reader |-> Nobody, reclaimed |-> TRUE] \in pel

ReclaimedIsProcessed == \A m \in Message : Stranded(m) ~> ~ Stranded(m)

\* retry.js:47-48 "How many times it has been retried", "Maximum allowed
\* retries": a one-time job is given up when it has been retried as often as
\* max_retries allows.
RetriesAllowed ==
    [][\A j \in Jobs \ CronJobs :
          GivesUp(j) => rows[j].retryCount >= rows[j].maxRetries]_vars

=============================================================================
