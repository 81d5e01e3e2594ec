---------------------------- MODULE ShutdownProofs ---------------------------
(***************************************************************************)
(* That a shutdown waits for the job that is being executed, for any       *)
(* number of nodes that shut down at any moments.                          *)
(***************************************************************************)
EXTENDS Shutdown, JobOutcomeProofs

StopTypeOK ==
    /\ TypeOK
    /\ phase \in [Workers -> Phase]
    /\ reading \subseteq Workers
    /\ awaited \in [Workers -> Message \cup {NoMsg}]
    /\ querying \in [Workers -> SUBSET {"worker", "scheduler"}]
    /\ stops \in 0..MaxStops

LEMMA StopTypeInit == ShutdownInit => StopTypeOK
BY TypeInit, ShutdownAssumption DEF ShutdownInit, StopTypeOK, Phase

LEMMA TypeQuerying ==
    ASSUME StopTypeOK, NEW n \in Workers,
           \/ BeginClosing(n) \/ querying' = querying
           \/ \E who : Answered(n, who) \/ querying' = [querying EXCEPT ![n] = @ \ {who}]
    PROVE  querying' \in [Workers -> SUBSET {"worker", "scheduler"}]
BY DEF BeginClosing, Answered, StopTypeOK

LEMMA TypeStop ==
    ASSUME StopTypeOK, NEW n \in Workers, Signal(n) \/ ShutdownStep(n)
    PROVE  StopTypeOK'
<1> USE DEF StopTypeOK, Phase, Goes
<1>1. stops' \in 0..MaxStops
  BY ShutdownAssumption DEF Signal, ShutdownStep, Stop, JobFinished,
     DeadlinePassed, QueryAnswered, PoolClosed, ReadReturns, Exit
<1>2. querying' \in [Workers -> SUBSET {"worker", "scheduler"}]
  BY TypeQuerying DEF Signal, ShutdownStep, Stop, JobFinished,
     DeadlinePassed, QueryAnswered, PoolClosed, ReadReturns, Exit
<1>3. CASE ~ Exit(n)
  <2>1. vars' = vars
    BY <1>3 DEF Signal, ShutdownStep, Stop, JobFinished, DeadlinePassed,
                QueryAnswered, PoolClosed, ReadReturns
  <2>2. TypeOK'
    BY <2>1, TypeStep
  <2>3. awaited' \in [Workers -> Message \cup {NoMsg}]
    BY <1>3, InHand DEF Signal, ShutdownStep, Stop, JobFinished,
       DeadlinePassed, QueryAnswered, PoolClosed, ReadReturns, TypeOK
  <2>4. phase' \in [Workers -> Phase] /\ reading' \subseteq Workers
    BY <1>3 DEF Signal, ShutdownStep, Stop, JobFinished, DeadlinePassed,
       QueryAnswered, PoolClosed, ReadReturns
  <2> QED
    BY <1>1, <1>2, <2>2, <2>3, <2>4
<1>4. CASE Exit(n)
  <2>1. /\ pc' \in [Workers -> WorkerStep]
        /\ msg' \in [Workers -> Message \cup {NoMsg}]
        /\ exec' \in [Workers -> {"none", "running", "success", "failed",
                                  "dlq"}]
        /\ pel' \subseteq Pending
        /\ \A v \in Workers : msg'[v] = NoMsg <=> pc'[v] = "idle"
    BY <1>4, TypeLeave DEF Exit
  <2>2. /\ spc' \in [Schedulers -> {"poll", "lock", "publish", "unlock"}]
        /\ batch' \in [Schedulers -> SUBSET Snapshot]
        /\ cur' \in [Schedulers -> Snapshot \cup {NoMsg}]
        /\ \A s \in Schedulers : cur'[s] = NoMsg <=> spc'[s] \in {"poll", "lock"}
    BY <1>4 DEF Exit, TypeOK, schedulerVars
  <2>3. TypeOK'
    BY <1>4, <2>1, <2>2 DEF Exit, TypeOK, dbVars
  <2> QED
    BY <1>1, <1>2, <1>4, <2>3 DEF Exit
<1> QED
  BY <1>3, <1>4

\* A worker's statement or command is refused, or a scheduler's.
WorkerRefused(n) == QueryRefused(n) \/ CommandRefused(n)
SchedulerRefused(s) == PublishRefused(s) \/ LockRefused(s) \/ UnlockRefused(s)

\* A refused worker goes to its error handling or drops what it has in hand.
ErrsOnly(n) ==
    /\ pc[n] \in Try \cup Catch
    /\ pc' = [pc EXCEPT ![n] = OnError(n)]
    /\ UNCHANGED <<pel, msg, exec>>

LEMMA WorkerRefusals ==
    ASSUME TypeOK, NEW n \in Workers, WorkerRefused(n)
    PROVE  /\ UNCHANGED <<dbVars, dlqStream, stream, lock, schedulerVars,
                          zombies, faults, stopVars>>
           /\ ErrsOnly(n) \/ (Leave(n) /\ pel' = Abandon(pel, n))
           /\ pc[n] # "idle" /\ phase[n] \in {"closing", "quitting"}
BY DEF WorkerRefused, QueryRefused, CommandRefused, ErrsOnly, Refused, Closed,
       RedisSteps, SQLSteps, Try, Catch, redisVars

LEMMA TypeWorkerRefused ==
    ASSUME TypeOK, NEW n \in Workers, WorkerRefused(n)
    PROVE  TypeOK'
<1>1. CASE Leave(n) /\ pel' = Abandon(pel, n)
  BY <1>1, TypeLeave, WorkerRefusals DEF TypeOK, dbVars, schedulerVars
<1>2. CASE ErrsOnly(n)
  <2>1. OnError(n) \in WorkerStep \ {"idle"} /\ pc[n] # "idle"
    BY <1>2 DEF ErrsOnly, OnError, WorkerStep, Try, Catch
  <2> QED
    BY <1>2, <2>1, WorkerRefusals DEF ErrsOnly, TypeOK, dbVars, schedulerVars
<1> QED
  BY <1>1, <1>2, WorkerRefusals

LEMMA TypeSchedulerRefused ==
    ASSUME TypeOK, NEW s \in Schedulers, SchedulerRefused(s)
    PROVE  TypeOK'
<1> USE DEF TypeOK, dbVars, redisVars, workerVars
<1>1. CASE PublishRefused(s)
  BY <1>1 DEF PublishRefused
<1>2. CASE UnlockRefused(s)
  BY <1>2 DEF UnlockRefused, AfterJob
<1>3. CASE LockRefused(s)
  <2>1. PICK snap \in batch[s] :
          /\ batch' = [batch EXCEPT ![s] = @ \ {snap}]
          /\ cur' = [cur EXCEPT ![s] = snap]
    BY <1>3 DEF LockRefused
  <2>2. snap \in Snapshot /\ snap # NoMsg
    BY <2>1, NoMsgAssumption
  <2> QED
    BY <1>3, <2>1, <2>2 DEF LockRefused
<1> QED
  BY <1>1, <1>2, <1>3 DEF SchedulerRefused

LEMMA StopTypeStep == StopTypeOK /\ [ShutdownNext]_nodeVars => StopTypeOK'
<1> SUFFICES ASSUME StopTypeOK, [ShutdownNext]_nodeVars PROVE StopTypeOK'
  OBVIOUS
<1>0. TypeOK
  BY DEF StopTypeOK
<1>1. CASE \E n \in Workers : Signal(n) \/ ShutdownStep(n)
  BY <1>1, TypeStop
<1>2. ASSUME NEW n \in Workers, WorkerAction(n) /\ Meanwhile(n)
      PROVE  StopTypeOK'
  <2>1. TypeOK'
    BY <1>0, <1>2, TypeWorkerAction
  <2>2. querying' \in [Workers -> SUBSET {"worker", "scheduler"}]
    BY <1>2, TypeQuerying DEF Meanwhile
  <2> QED
    BY <1>2, <2>1, <2>2 DEF StopTypeOK, Meanwhile
<1>3. ASSUME NEW n \in Workers, WorkerRefused(n) PROVE StopTypeOK'
  <2>1. TypeOK' /\ UNCHANGED stopVars
    BY <1>0, <1>3, TypeWorkerRefused, WorkerRefusals
  <2> QED
    BY <2>1 DEF StopTypeOK, stopVars
<1>4. ASSUME NEW s \in Schedulers, SchedulerStep(s) /\ MeanwhilePolls(s)
      PROVE  StopTypeOK'
  <2>1. TypeOK' /\ s \in Workers
    BY <1>0, <1>4, TypeScheduler, ShutdownAssumption
  <2>2. querying' \in [Workers -> SUBSET {"worker", "scheduler"}]
    BY <1>4, <2>1, TypeQuerying DEF MeanwhilePolls
  <2> QED
    BY <1>4, <2>1, <2>2 DEF StopTypeOK, MeanwhilePolls
<1>5. ASSUME NEW s \in Schedulers, SchedulerRefused(s) PROVE StopTypeOK'
  <2>1. TypeOK' /\ UNCHANGED stopVars
    BY <1>0, <1>5, TypeSchedulerRefused
    DEF SchedulerRefused, PublishRefused, LockRefused, UnlockRefused
  <2> QED
    BY <2>1 DEF StopTypeOK, stopVars
<1>6. CASE (Reclaim \/ \E j \in Jobs : Clock(j)) /\ UNCHANGED stopVars
  <2>1. TypeOK'
    BY <1>0, <1>6, TypeReclaim, TypeClock
  <2> QED
    BY <1>6, <2>1 DEF StopTypeOK, stopVars
<1>7. CASE UNCHANGED nodeVars
  <2>1. TypeOK'
    BY <1>0, <1>7, TypeStep DEF nodeVars
  <2> QED
    BY <1>7, <2>1 DEF StopTypeOK, nodeVars, stopVars
<1> QED
  BY <1>1, <1>2, <1>3, <1>4, <1>5, <1>6, <1>7
  DEF ShutdownNext, WorkerGoesOn, SchedulerGoesOn, WorkerRefused,
      SchedulerRefused

-----------------------------------------------------------------------------
(* The invariant, node by node: the awaited job is still in the hands of   *)
(* its worker, or it is done with and nothing else has been begun.         *)

InWork(n) == phase[n] = "waiting" /\ Executing(n) /\ msg[n] = awaited[n]

DoneWith(n) ==
    /\ phase[n] \in {"waiting", "closing", "quitting"}
    /\ pc[n] = "idle" /\ n \notin reading /\ lock[awaited[n].job] # n

Orderly(n) ==
    /\ awaited[n] # NoMsg => InWork(n) \/ DoneWith(n)
    /\ n \in reading => pc[n] = "idle"
    /\ pc[n] = "release" /\ phase[n] \notin {"closing", "quitting"} =>
          ~ PendingUnder(msg[n], n)

AllOrderly == \A n \in Workers : Orderly(n)

LEMMA OrderlyInit == ShutdownInit => AllOrderly
BY DEF ShutdownInit, Init, AllOrderly, Orderly

LEMMA OrderlyImplies == AllOrderly => CurrentJobFinished
BY DEF AllOrderly, Orderly, InWork, DoneWith, Executing, Try, Catch,
       CurrentJobFinished

\* Nothing becomes pending under a worker.
NoneMore(v) == \A m : PendingUnder(m, v)' => PendingUnder(m, v)

\* The steps of others leave a node as it is.
LEMMA Bystander ==
    ASSUME StopTypeOK, NEW v \in Workers, Orderly(v),
           pc'[v] = pc[v], msg'[v] = msg[v], awaited'[v] = awaited[v],
           phase'[v] = phase[v], v \in reading' => v \in reading,
           \A j \in Jobs : lock'[j] = v => lock[j] = v,
           NoneMore(v)
    PROVE  Orderly(v)'
<1>1. awaited[v] # NoMsg => awaited[v].job \in Jobs
  BY DEF StopTypeOK, Message
<1> QED
  BY <1>1 DEF Orderly, InWork, DoneWith, Executing, NoneMore, PendingUnder

LEMMA AbandonKeepsReaders ==
    ASSUME TypeOK, NEW n \in Workers, NEW v \in Workers, v # n,
           pel' = Abandon(pel, n)
    PROVE  NoneMore(v)
<1> SUFFICES ASSUME NEW m, PendingUnder(m, v)' PROVE PendingUnder(m, v)
  BY DEF NoneMore
<1>1. PICK p \in pel' : p.message = m /\ p.reader = v
  BY DEF PendingUnder
<1>2. PICK q \in pel :
         p = [q EXCEPT !.reader = IF @ = n THEN Nobody ELSE @]
  BY <1>1 DEF Abandon
<1>3. q \in Pending /\ v # Nobody
  BY PipelineAssumption DEF TypeOK
<1>4. q.message = m /\ q.reader = v
  BY <1>1, <1>2, <1>3 DEF Pending
<1> QED
  BY <1>4 DEF PendingUnder

\* What a worker's step does to the locks and messages of others.
LEMMA WorkerActsAlone ==
    ASSUME TypeOK, NEW n \in Workers, WorkerAction(n),
           NEW v \in Workers, v # n
    PROVE  /\ pc'[v] = pc[v] /\ msg'[v] = msg[v]
           /\ \A j \in Jobs : lock'[j] = v => lock[j] = v
           /\ NoneMore(v)
<1> USE DEF TypeOK
<1>1. pc'[v] = pc[v] /\ msg'[v] = msg[v]
  BY DEF WorkerAction, Consume, Acquire, AcquireRefused, Drop, HandlerMissing,
      RecordStart, DuplicateStart, HandlerEnds, HandlerResolves,
      HandlerRejects, HandlerTimesOut, RecordSuccess, CompleteExecution,
      Acknowledge, RecordFailure, FailWithRetry, FailPermanently, SendToDLQ,
      WriteToDLQTable, RecordDLQ, Release, Leave, Proceed
<1>2. \A j \in Jobs : lock'[j] = v => lock[j] = v
  <2>1. CASE Acquire(n)
    <3>1. JobOf(n) \in Jobs
      BY <2>1, InHand DEF Acquire
    <3> QED
      BY <2>1, <3>1 DEF Acquire
  <2>2. CASE Release(n)
    <3>1. JobOf(n) \in Jobs
      BY <2>2, InHand DEF Release
    <3> QED
      BY <2>2, <3>1, PipelineAssumption DEF Release, Released
  <2>3. CASE ~ Acquire(n) /\ ~ Release(n)
    <3>1. lock' = lock
      BY <2>3 DEF WorkerAction, Consume, AcquireRefused, Drop, HandlerMissing,
         RecordStart, DuplicateStart, HandlerEnds, HandlerResolves,
         HandlerRejects, HandlerTimesOut, RecordSuccess, CompleteExecution,
         Acknowledge, RecordFailure, FailWithRetry, FailPermanently, SendToDLQ,
         WriteToDLQTable, RecordDLQ, redisVars
    <3> QED
      BY <3>1
  <2> QED
    BY <2>1, <2>2, <2>3
<1>3. NoneMore(v)
  <2>1. CASE Consume(n)
    <3>1. Delivered(Head(stream), n).reader = n
      BY DEF Delivered
    <3> QED
      BY <2>1, <3>1 DEF Consume, NoneMore, PendingUnder
  <2>2. CASE Release(n)
    BY <2>2, AbandonKeepsReaders DEF Release
  <2>3. CASE ~ Consume(n) /\ ~ Release(n)
    <3>1. pel' \subseteq pel
      BY <2>3 DEF WorkerAction, Acquire, AcquireRefused, Drop,
         HandlerMissing, RecordStart, DuplicateStart, HandlerEnds,
         HandlerResolves, HandlerRejects, HandlerTimesOut, RecordSuccess,
         CompleteExecution, Acknowledge, Acknowledged, RecordFailure,
         FailWithRetry, FailPermanently, SendToDLQ, WriteToDLQTable, RecordDLQ,
         redisVars
    <3> QED
      BY <3>1 DEF NoneMore, PendingUnder
  <2> QED
    BY <2>1, <2>2, <2>3
<1> QED
  BY <1>1, <1>2, <1>3

\* Between two calls a worker keeps its message, and it gets to the release of
\* its lock by the acknowledgement of the message alone.
LEMMA StepInHand ==
    ASSUME TypeOK, NEW n \in Workers, WorkerAction(n), ~ Consume(n),
           ~ Drop(n), ~ Release(n)
    PROVE  /\ stream' = stream /\ msg' = msg
           /\ pc[n] # "idle"
           /\ Executing(n) => Executing(n)'
           /\ pc'[n] = "release" => \A p \in pel' : ~ (p.message = msg[n] /\ p.reader = n)
<1>0. ~ Fault("error")
  BY ShutdownAssumption DEF Fault
<1>1. stream' = stream /\ msg' = msg
  BY DEF WorkerAction, Acquire, AcquireRefused, HandlerMissing, RecordStart,
      DuplicateStart, HandlerEnds, HandlerResolves, HandlerRejects,
      HandlerTimesOut, RecordSuccess, CompleteExecution, Acknowledge,
      RecordFailure, FailWithRetry, FailPermanently, SendToDLQ,
      WriteToDLQTable, RecordDLQ, redisVars
<1>2. CASE Acknowledge(n)
  BY <1>0, <1>1, <1>2
  DEF Acknowledge, Acknowledged, Proceed, Executing, Try, Catch, TypeOK
<1>3. CASE ~ Acknowledge(n)
  <2>1. /\ pc[n] # "idle" /\ pc'[n] # "release"
        /\ Executing(n) => pc'[n] \in Try \cup Catch
    BY <1>0, <1>3
    DEF WorkerAction, Acquire, AcquireRefused, HandlerMissing, RecordStart,
        DuplicateStart, HandlerEnds, HandlerResolves, HandlerRejects,
        HandlerTimesOut, RecordSuccess, CompleteExecution, RecordFailure,
        FailWithRetry, FailPermanently, SendToDLQ, WriteToDLQTable, RecordDLQ,
        Proceed, OnError, Executing, Try, Catch, TypeOK
  <2> QED
    BY <1>1, <2>1 DEF Executing
<1> QED
  BY <1>2, <1>3

LEMMA OrderlyWorker ==
    ASSUME StopTypeOK, AllOrderly, NEW n \in Workers,
           WorkerAction(n) /\ Meanwhile(n)
    PROVE  AllOrderly'
<1>0. TypeOK /\ Orderly(n)
  BY DEF StopTypeOK, AllOrderly
<1>1. ASSUME NEW v \in Workers, v # n PROVE Orderly(v)'
  <2>1. Orderly(v) /\ awaited' = awaited /\ phase' = phase
        /\ (v \in reading' => v \in reading)
    BY DEF AllOrderly, Meanwhile
  <2> QED
    BY <1>0, <1>1, <2>1, WorkerActsAlone, Bystander
<1>2. CASE Consume(n)
  <2>1. pc[n] = "idle" /\ pc'[n] = "acquire" /\ stream' # stream
    BY <1>0, <1>2, HeadTailProperties DEF Consume, TypeOK
  <2>2. awaited'[n] = NoMsg /\ n \notin reading'
    BY <1>0, <2>1 DEF Meanwhile, GoesRound, Orderly, InWork, DoneWith,
                      Executing, Try, Catch
  <2> QED
    BY <1>1, <2>1, <2>2 DEF AllOrderly, Orderly
<1>3. CASE Drop(n)
  <2>1. /\ pc[n] = "drop" /\ pc'[n] = "idle" /\ UNCHANGED <<stream, lock>>
    BY <1>0, <1>3 DEF Drop, Leave, TypeOK
  <2>2. awaited'[n] = NoMsg /\ n \notin reading'
    BY <1>0, <2>1 DEF Meanwhile, Orderly, InWork, DoneWith,
                      Executing, Try, Catch
  <2> QED
    BY <1>1, <2>1, <2>2 DEF AllOrderly, Orderly
<1>4. CASE Release(n)
  <2>1. /\ pc[n] = "release" /\ pc'[n] = "idle" /\ stream' = stream
        /\ JobOf(n) \in Jobs /\ lock' = Released(n)
    BY <1>0, <1>4, InHand, ShutdownAssumption
    DEF Release, Leave, TypeOK, Fault
  <2>2. /\ awaited' = awaited /\ phase' = phase /\ reading' = reading
        /\ n \notin reading
    BY <1>0, <2>1 DEF Meanwhile, Orderly
  <2>3. lock'[JobOf(n)] # n
    BY <1>0, <2>1, PipelineAssumption DEF Released, TypeOK
  <2>4. awaited[n] # NoMsg => phase[n] = "waiting" /\ JobOf(n) = awaited[n].job
    BY <1>0, <2>1 DEF Orderly, InWork, DoneWith, JobOf
  <2> QED
    BY <1>1, <2>1, <2>2, <2>3, <2>4 DEF AllOrderly, Orderly, DoneWith
<1>5. CASE ~ Consume(n) /\ ~ Drop(n) /\ ~ Release(n)
  <2>1. /\ stream' = stream /\ msg' = msg /\ pc[n] # "idle"
        /\ Executing(n) => Executing(n)'
        /\ pc'[n] = "release" =>
              \A p \in pel' : ~ (p.message = msg[n] /\ p.reader = n)
    BY <1>0, <1>5, StepInHand
  <2>2. /\ awaited' = awaited /\ phase' = phase /\ reading' = reading
        /\ n \notin reading
    BY <1>0, <2>1 DEF Meanwhile, Orderly
  <2>3. awaited[n] # NoMsg => InWork(n)'
    BY <1>0, <2>1, <2>2 DEF Orderly, InWork, DoneWith
  <2>4. Orderly(n)'
    BY <2>1, <2>2, <2>3 DEF Orderly, PendingUnder
  <2> QED
    BY <1>1, <2>4 DEF AllOrderly
<1> QED
  BY <1>2, <1>3, <1>4, <1>5

LEMMA OrderlyRefused ==
    ASSUME StopTypeOK, AllOrderly, NEW n \in Workers, WorkerRefused(n)
    PROVE  AllOrderly'
<1>0. TypeOK /\ Orderly(n)
  BY DEF StopTypeOK, AllOrderly
<1>1. /\ phase[n] \in {"closing", "quitting"} /\ pc[n] # "idle"
      /\ UNCHANGED <<lock, phase, awaited, reading>>
      /\ ErrsOnly(n) \/ (Leave(n) /\ pel' = Abandon(pel, n))
  BY <1>0, WorkerRefusals DEF stopVars
<1>2. awaited[n] = NoMsg /\ n \notin reading
  BY <1>0, <1>1 DEF Orderly, InWork, DoneWith
<1>3. Orderly(n)'
  BY <1>1, <1>2 DEF Orderly
<1>4. ASSUME NEW v \in Workers, v # n PROVE Orderly(v)'
  <2>1. Orderly(v) /\ pc'[v] = pc[v] /\ msg'[v] = msg[v]
    BY <1>0, <1>1, <1>4 DEF AllOrderly, ErrsOnly, Leave, TypeOK
  <2>2. NoneMore(v)
    BY <1>0, <1>1, <1>4, AbandonKeepsReaders DEF ErrsOnly, NoneMore, PendingUnder
  <2> QED
    BY <1>1, <2>1, <2>2, Bystander
<1> QED
  BY <1>3, <1>4 DEF AllOrderly

LEMMA OrderlyShutdown ==
    ASSUME StopTypeOK, AllOrderly, NEW n \in Workers,
           Signal(n) \/ ShutdownStep(n)
    PROVE  AllOrderly'
<1>0. TypeOK /\ Orderly(n)
  BY DEF StopTypeOK, AllOrderly
<1>1. ASSUME NEW v \in Workers, v # n PROVE Orderly(v)'
  <2>1. /\ Orderly(v) /\ awaited'[v] = awaited[v] /\ phase'[v] = phase[v]
        /\ v \in reading' => v \in reading
    BY <1>1 DEF AllOrderly, StopTypeOK, Goes, Signal, ShutdownStep, Stop,
       JobFinished, DeadlinePassed, QueryAnswered, PoolClosed, ReadReturns, Exit
  <2>2. CASE Exit(n)
    <3>1. /\ pc'[v] = pc[v] /\ msg'[v] = msg[v] /\ lock' = lock
          /\ pel' = Abandon(pel, n)
      BY <1>0, <1>1, <2>2 DEF Exit, Leave, TypeOK
    <3>2. NoneMore(v)
      BY <1>0, <1>1, <3>1, AbandonKeepsReaders
    <3> QED
      BY <2>1, <3>1, <3>2, Bystander
  <2>3. CASE ~ Exit(n)
    <3>1. UNCHANGED <<pc, msg, lock, pel>>
      BY <2>3 DEF Signal, ShutdownStep, Stop, JobFinished, DeadlinePassed,
         QueryAnswered, PoolClosed, ReadReturns, vars, redisVars, workerVars
    <3>2. NoneMore(v)
      BY <3>1 DEF NoneMore, PendingUnder
    <3> QED
      BY <2>1, <3>1, <3>2, Bystander
  <2> QED
    BY <2>2, <2>3
<1>2. Orderly(n)'
  <2> USE DEF Goes
  <2>1. CASE Exit(n)
    BY <1>0, <2>1 DEF Exit, Leave, TypeOK, StopTypeOK, Orderly
  <2>2. CASE ~ Exit(n)
    <3>1. UNCHANGED <<pc, msg, lock, pel>>
      BY <2>2 DEF Signal, ShutdownStep, Stop, JobFinished, DeadlinePassed,
         QueryAnswered, PoolClosed, ReadReturns, vars, redisVars, workerVars
    <3>2. CASE Signal(n) \/ ReadReturns(n) \/ QueryAnswered(n) \/ PoolClosed(n)
      <4>1. /\ awaited' = awaited /\ (n \in reading' => n \in reading)
            /\ phase[n] # "waiting"
               \/ phase'[n] = phase[n]
            /\ phase[n] \in {"closing", "quitting"} =>
                  phase'[n] \in {"closing", "quitting"}
            /\ phase'[n] = "waiting" => phase[n] = "waiting"
        BY <3>2 DEF Signal, ReadReturns, QueryAnswered, PoolClosed, StopTypeOK
      <4>2. phase[n] = "up" => awaited[n] = NoMsg
        BY <1>0 DEF Orderly, InWork, DoneWith
      <4> QED
        BY <1>0, <3>1, <4>1, <4>2
        DEF Orderly, InWork, DoneWith, Executing, PendingUnder
    <3>3. CASE Stop(n)
      <4>1. /\ phase'[n] = IF Executing(n) THEN "waiting" ELSE "closing"
            /\ awaited'[n] = IF Executing(n) THEN msg[n] ELSE NoMsg
            /\ phase[n] = "resigning"
            /\ n \in reading' => n \in reading \/ pc[n] = "idle"
        BY <3>3 DEF Stop, StopTypeOK
      <4> QED
        BY <1>0, <3>1, <4>1 DEF Orderly, InWork, Executing, PendingUnder
    <3>4. CASE JobFinished(n)
      <4>1. /\ ~ Executing(n) /\ phase[n] = "waiting" /\ phase'[n] = "closing"
            /\ awaited' = awaited /\ reading' = reading
        BY <3>4 DEF JobFinished, StopTypeOK
      <4> QED
        BY <1>0, <3>1, <4>1 DEF Orderly, InWork, DoneWith, PendingUnder
    <3>5. CASE DeadlinePassed(n)
      <4>1. /\ phase'[n] = "closing"
            /\ awaited'[n] = NoMsg /\ reading' = reading
        BY <3>5 DEF DeadlinePassed, StopTypeOK
      <4> QED
        BY <1>0, <3>1, <4>1 DEF Orderly, PendingUnder
    <3> QED
      BY <2>2, <3>2, <3>3, <3>4, <3>5 DEF ShutdownStep
  <2> QED
    BY <2>1, <2>2
<1> QED
  BY <1>1, <1>2 DEF AllOrderly

LEMMA StaysOrderly ==
    ASSUME StopTypeOK, AllOrderly,
           UNCHANGED <<pc, msg, pel, phase, reading, awaited>>,
           \A v \in Workers, j \in Jobs : lock'[j] = v => lock[j] = v
    PROVE  AllOrderly'
<1>1. \A v \in Workers : NoneMore(v)
  BY DEF NoneMore, PendingUnder
<1> QED
  BY <1>1, Bystander DEF AllOrderly

LEMMA OrderlyStep ==
    ASSUME StopTypeOK, AllOrderly, [ShutdownNext]_nodeVars
    PROVE  AllOrderly'
<1>0. TypeOK
  BY DEF StopTypeOK
<1>1. CASE \E s \in Schedulers : SchedulerGoesOn(s)
  <2>1. UNCHANGED <<pc, msg, lock, pel, phase, reading, awaited>>
    BY <1>1 DEF SchedulerGoesOn, SchedulerStep, GetDueJobs, LockJob,
       SkipLocked, Publish, UnlockJob, MeanwhilePolls, PublishRefused,
       LockRefused, UnlockRefused, redisVars, workerVars, stopVars
  <2> QED
    BY <1>0, <2>1, StaysOrderly
<1>2. CASE Reclaim /\ UNCHANGED stopVars
  <2>1. UNCHANGED <<pc, msg, lock, phase, reading, awaited>>
    BY <1>2 DEF Reclaim, workerVars, stopVars
  <2>2. PICK p \in pel :
           pel' = (pel \ {p}) \cup {[p EXCEPT !.reclaimed = TRUE]}
    BY <1>2 DEF Reclaim
  <2>3. /\ p \in Pending
        /\ [p EXCEPT !.reclaimed = TRUE].message = p.message
        /\ [p EXCEPT !.reclaimed = TRUE].reader = p.reader
    BY <1>0 DEF TypeOK, Pending
  <2>4. \A v \in Workers : NoneMore(v)
    BY <2>2, <2>3 DEF NoneMore, PendingUnder
  <2> QED
    BY <2>1, <2>4, Bystander DEF AllOrderly
<1>3. CASE \E j \in Jobs : Clock(j) /\ UNCHANGED stopVars
  <2>1. /\ UNCHANGED <<pc, msg, pel, phase, reading, awaited>>
        /\ \E j \in Jobs : lock' \in {lock, [lock EXCEPT ![j] = Nobody]}
    BY <1>3 DEF Clock, Fires, Ages, Expire, redisVars, workerVars, stopVars
  <2>2. \A v \in Workers, j \in Jobs : lock'[j] = v => lock[j] = v
    BY <1>0, <2>1, PipelineAssumption DEF TypeOK
  <2> QED
    BY <1>0, <2>1, <2>2, StaysOrderly
<1>4. CASE UNCHANGED nodeVars
  BY <1>0, <1>4, StaysOrderly DEF nodeVars, vars, redisVars, workerVars, stopVars
<1> QED
  BY <1>1, <1>2, <1>3, <1>4, OrderlyWorker, OrderlyRefused, OrderlyShutdown
  DEF ShutdownNext, WorkerGoesOn, WorkerRefused

\* A shutdown closes the connections when the job that it found being executed
\* is finished, its message acknowledged and its lock released, or is given up
\* at the deadline: for any number of nodes, jobs and shutdowns, while no call
\* throws for another reason than a shutdown.
THEOREM ShutdownIsGraceful == ShutdownSpec => []CurrentJobFinished
<1>1. ShutdownInit => StopTypeOK /\ AllOrderly
  BY StopTypeInit, OrderlyInit
<1>2. StopTypeOK /\ AllOrderly /\ [ShutdownNext]_nodeVars
         => StopTypeOK' /\ AllOrderly'
  BY StopTypeStep, OrderlyStep
<1> QED
  BY <1>1, <1>2, OrderlyImplies, PTL DEF ShutdownSpec

-----------------------------------------------------------------------------
(* The job lock through shutdowns.                                         *)

\* What a node does that the pipeline by itself does not: a statement or a
\* command is refused, or it exits.
LEMMA StopSteps ==
    ASSUME [ShutdownNext]_nodeVars
    PROVE  \/ [Next]_vars
           \/ \E n \in Workers : WorkerRefused(n) \/ Exit(n)
           \/ \E s \in Schedulers : SchedulerRefused(s)
BY DEF ShutdownNext, Signal, ShutdownStep, Stop, JobFinished, DeadlinePassed,
       QueryAnswered, PoolClosed, ReadReturns, WorkerGoesOn, SchedulerGoesOn,
       WorkerRefused, SchedulerRefused, Next, nodeVars

\* A worker that is refused or exits keeps what it holds.
LEMMA StopsKeepLocks ==
    ASSUME TypeOK, NEW n \in Workers, WorkerRefused(n) \/ Exit(n)
    PROVE  /\ lock' = lock /\ Unconcerned(n)
           /\ Executing(n)' => Executing(n) /\ msg' = msg
<1>1. lock' = lock
  BY WorkerRefusals DEF Exit
<1>2. ErrsOnly(n) \/ Leave(n)
  BY WorkerRefusals DEF Exit
<1> QED
  BY <1>1, <1>2 DEF ErrsOnly, Leave, OnError, Unconcerned, Executing, Try,
                    Catch, TypeOK

LEMMA SchedulerRefusals ==
    ASSUME NEW s \in Schedulers, SchedulerRefused(s)
    PROVE  UNCHANGED <<dbVars, redisVars, workerVars, faults>>
BY DEF SchedulerRefused, PublishRefused, LockRefused, UnlockRefused

\* Whoever executes a job holds its lock, also while nodes shut down, exit in
\* the middle of a job and are started again.
THEOREM StopLockIsHeld ==
    ASSUME "lease" \notin Events
    PROVE  ShutdownSpec => []LockHeld
<1>1. ShutdownInit => LockHeld
  BY DEF ShutdownInit, Init, LockHeld, Executing, Try, Catch
<1>2. ASSUME StopTypeOK, LockHeld, [ShutdownNext]_nodeVars PROVE LockHeld'
  <2>0. TypeOK
    BY <1>2 DEF StopTypeOK
  <2>1. ASSUME NEW n \in Workers, WorkerRefused(n) \/ Exit(n) PROVE LockHeld'
    <3>1. Steady
      BY <2>0, <2>1, StopsKeepLocks DEF Steady, Unconcerned, Executing
    <3> QED
      BY <1>2, <3>1, SteadyKeepsLocks
  <2>2. ASSUME NEW s \in Schedulers, SchedulerRefused(s) PROVE LockHeld'
    BY <1>2, <2>2, SteadyKeepsLocks, SchedulerRefusals
    DEF Steady, Executing, redisVars, workerVars
  <2> QED
    BY <1>2, <2>0, <2>1, <2>2, StopSteps, LockHeldStep
<1>3. ShutdownInit => StopTypeOK
  BY StopTypeInit
<1> QED
  BY <1>1, <1>2, <1>3, StopTypeStep, PTL DEF ShutdownSpec

\* No two handlers of one job run at a time either: what a node that exits
\* leaves behind is executed elsewhere when its own handler is gone.
THEOREM StopHandlersExclude ==
    ASSUME "lease" \notin Events
    PROVE  ShutdownSpec => []HandlerExclusion
<1>1. ShutdownInit => StopTypeOK /\ NoZombie
  BY StopTypeInit DEF ShutdownInit, Init, NoZombie
<1>2. ASSUME StopTypeOK, NoZombie, [ShutdownNext]_nodeVars PROVE NoZombie'
  <2>1. ASSUME NEW n \in Workers, WorkerRefused(n) \/ Exit(n) PROVE NoZombie'
    <3>1. CASE WorkerRefused(n)
      BY <1>2, <2>1, <3>1, WorkerRefusals DEF StopTypeOK, NoZombie
    <3>2. CASE Exit(n)
      BY <1>2, <3>2 DEF Exit, NoZombie
    <3> QED
      BY <2>1, <3>1, <3>2
  <2>2. ASSUME NEW s \in Schedulers, SchedulerRefused(s) PROVE NoZombie'
    BY <1>2, <2>2, SchedulerRefusals DEF NoZombie, workerVars
  <2> QED
    BY <1>2, <2>1, <2>2, StopSteps, NoZombieStep, ShutdownAssumption
    DEF StopTypeOK
<1> QED
  BY <1>1, <1>2, StopTypeStep, StopLockIsHeld, HolderRunsAlone, PTL
  DEF ShutdownSpec

\* A node that exits leaves its lock to the TTL: through shutdowns too, and
\* under lapsed leases, the locks are used as ExclusiveLock says.
THEOREM StopLocksRefine == ShutdownSpec => RefinesLock
<1>1. ShutdownInit => StopTypeOK /\ JobLock!Init
  BY StopTypeInit, MapLocksInit DEF ShutdownInit
<1>2. ASSUME StopTypeOK, [ShutdownNext]_nodeVars
      PROVE  [JobLock!Next]_(JobLock!vars)
  <2>0. TypeOK
    BY <1>2 DEF StopTypeOK
  <2>1. ASSUME NEW n \in Workers, WorkerRefused(n) \/ Exit(n)
        PROVE  [JobLock!Next]_(JobLock!vars)
    <3>1. /\ lock' = lock /\ Unconcerned(n)
          /\ Executing(n)' => Executing(n) /\ msg' = msg
      BY <2>0, <2>1, StopsKeepLocks
    <3>2. CASE Executing(n) /\ ~ Executing(n)'
      BY <2>0, <3>1, <3>2, LockFinished
    <3>3. CASE Executing(n)' \/ ~ Executing(n)
      <4>1. Quiet
        BY <3>1, <3>3 DEF Quiet, Unconcerned, Executing
      <4> QED
        BY <4>1, QuietStutters
    <3> QED
      BY <3>2, <3>3
  <2>2. ASSUME NEW s \in Schedulers, SchedulerRefused(s)
        PROVE  [JobLock!Next]_(JobLock!vars)
    BY <2>2, QuietStutters, SchedulerRefusals
    DEF Quiet, Executing, redisVars, workerVars
  <2> QED
    BY <1>2, <2>0, <2>1, <2>2, StopSteps, MapLocksStep
<1> QED
  BY <1>1, <1>2, StopTypeStep, PTL DEF ShutdownSpec, RefinesLock, JobLock!Spec

-----------------------------------------------------------------------------
(* Messages and attempts through shutdowns                                 *)

\* What a node has not settled when it exits is still pending: neither the
\* shutdown nor the refusals that it causes acknowledge a message before the
\* outcome of its execution is in the row.  (No call throws here for another
\* reason: then the property makes no exception.)
THEOREM StopUnsettledIsPending == ShutdownSpec => []UnsettledStaysPending
<1>1. ShutdownInit => StopTypeOK /\ PendingInv
  BY StopTypeInit, PendingInit DEF ShutdownInit
<1>2. ASSUME StopTypeOK, PendingInv, [ShutdownNext]_nodeVars
      PROVE  PendingInv'
  <2>0. TypeOK
    BY <1>2 DEF StopTypeOK
  <2>1. ASSUME NEW n \in Workers, WorkerRefused(n) \/ Exit(n)
        PROVE  PendingInv'
    <3>1. UNCHANGED <<dbVars, faults>>
      BY <2>0, <2>1, WorkerRefusals DEF Exit
    <3>2. KeysKept
      BY <2>0, <3>1 DEF KeysKept, dbVars, TypeOK
    <3>3. ErrsOnly(n) \/ (Leave(n) /\ pel' = Abandon(pel, n))
      BY <2>0, <2>1, WorkerRefusals DEF Exit
    <3> QED
      BY <1>2, <2>0, <3>2, <3>3, ErrsWithoutEffect, PendingLeaves DEF ErrsOnly
  <2>2. ASSUME NEW s \in Schedulers, SchedulerRefused(s) PROVE PendingInv'
    <3>1. UNCHANGED <<dbVars, redisVars, workerVars, faults>>
      BY <2>2, SchedulerRefusals
    <3>2. KeysKept
      BY <2>0, <3>1 DEF KeysKept, dbVars, TypeOK
    <3>3. \A v \in Workers : Held(v)
      BY <3>1 DEF Held, PendingUnder, redisVars
    <3> QED
      BY <1>2, <2>0, <3>1, <3>2, <3>3, NobodyMoves DEF workerVars
  <2> QED
    BY <1>2, <2>0, <2>1, <2>2, StopSteps, PendingStep
<1> QED
  BY <1>1, <1>2, PendingImplies, StopTypeStep, PTL DEF ShutdownSpec

\* Refusals and exits put no message on its way.
LEMMA StopsMoveOn ==
    ASSUME TypeOK,
           \/ \E n \in Workers : WorkerRefused(n) \/ Exit(n)
           \/ \E s \in Schedulers : SchedulerRefused(s)
    PROVE  MovesOn /\ rows' = rows
<1>1. rows' = rows /\ stream' = stream
  BY WorkerRefusals, SchedulerRefusals DEF Exit, dbVars, redisVars
<1>2. \A i \in 1..Len(stream') : OnItsWay(stream'[i])
  BY <1>1 DEF OnItsWay
<1>3. \A s \in Schedulers : /\ batch'[s] \subseteq batch[s]
                            /\ cur'[s] \in batch[s] \cup {cur[s], NoMsg}
  BY WorkerRefusals DEF Exit, SchedulerRefused, PublishRefused, LockRefused,
     UnlockRefused, schedulerVars, TypeOK
<1>4. \A w \in Workers : msg'[w] \in {msg[w], NoMsg}
  BY WorkerRefusals, SchedulerRefusals DEF ErrsOnly, Exit, Leave, workerVars,
     TypeOK
<1>5. \A w \in Workers : msg'[w] = NoMsg \/ OnItsWay(msg'[w])
  BY <1>4 DEF OnItsWay
<1> QED
  BY <1>1, <1>2, <1>3, <1>5 DEF MovesOn

\* A job that shutdowns interrupt, and that is executed again from its first
\* message or a second one, is still not given up before max_retries attempts
\* have failed.
THEOREM StopGivenUpWhenUsedUp == ShutdownSpec => GivenUpLate
<1>1. ShutdownInit => StopTypeOK /\ NoneAhead /\ LimitsAgree
  BY StopTypeInit, NothingUnderway DEF ShutdownInit, NoneAhead, LimitsAgree
<1>2. ASSUME StopTypeOK, NoneAhead, LimitsAgree, [ShutdownNext]_nodeVars
      PROVE  NoneAhead' /\ LimitsAgree' /\ [LateStep]_vars
  <2>0. TypeOK /\ TypeOK'
    BY <1>2, StopTypeStep DEF StopTypeOK
  <2>1. ASSUME \/ \E n \in Workers : WorkerRefused(n) \/ Exit(n)
               \/ \E s \in Schedulers : SchedulerRefused(s)
        PROVE  NoneAhead' /\ LimitsAgree' /\ LateStep
    <3>1. NoneNew /\ rows' = rows
      BY <2>0, <2>1, StopsMoveOn, NoneIsNew
    <3>2. \A j \in Jobs : rows[j].retryCount >= rows[j].retryCount
      BY <2>0, MaxRetriesAssumption DEF TypeOK, Row
    <3>3. CountsGrow /\ LateStep
      BY <3>1, <3>2 DEF CountsGrow, Grown, LateStep, GivesUp
    <3> QED
      BY <1>2, <2>0, <3>1, <3>3, NoneGetsAhead, LimitsKeepAgreeing
  <2> QED
    BY <1>2, <2>0, <2>1, StopSteps, AheadStep, LimitsStep, GivesUpLate
<1>3. GivenUpLate <=> [][LateStep]_vars
  BY DEF GivenUpLate, LateStep
<1> QED
  BY <1>1, <1>2, <1>3, StopTypeStep, PTL DEF ShutdownSpec

=============================================================================
