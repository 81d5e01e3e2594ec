------------------------------ MODULE Shutdown ------------------------------
(***************************************************************************)
(* The orderly end of a node, while its worker and its scheduler are in    *)
(* the middle of their work: the function `shutdown` of index.js, and what *)
(* Worker.stop, Scheduler.stop and closeRedis make of it.                  *)
(*                                                                         *)
(* A node is named by its worker; its scheduler, if it polls, has the same *)
(* name.  A node that has exited is started again.                         *)
(***************************************************************************)
EXTENDS JobPipeline

CONSTANT MaxStops    \* bound: shutdowns in a behaviour

\* The end of a node by a crash, which JobPipeline models by halves, and calls
\* that throw for another reason than the shutdown are another story.  So are
\* handlers given up: the shutdown neither asks for them nor waits.
ASSUME ShutdownAssumption ==
    /\ Schedulers \subseteq Workers
    /\ {"crash", "error", "timeout"} \cap Events = {}
    /\ MaxStops \in Nat

VARIABLES
    phase,    \* how far a node's shutdown is
    reading,  \* the nodes whose XREADGROUP is under way though they stop
    awaited,  \* the message of the job for which Worker.stop waits
    querying, \* whose query holds a client of the pool that is being closed
    stops     \* shutdowns so far

stopVars == <<phase, reading, awaited, querying, stops>>
nodeVars == <<vars, stopVars>>

\* "resigning": await election.stop(); "waiting": await worker.stop();
\* "closing": await closePool(); "quitting": await closeRedis().
Phase == {"up", "resigning", "waiting", "closing", "quitting"}

ShutdownInit ==
    /\ Init
    /\ phase = [n \in Workers |-> "up"]
    /\ reading = {}
    /\ awaited = [n \in Workers |-> NoMsg]
    /\ querying = [n \in Workers |-> {}]
    /\ stops = 0

-----------------------------------------------------------------------------
(* The shutdown of node n                                                  *)

Goes(n, from, to) ==
    phase[n] = from /\ phase' = [phase EXCEPT ![n] = to]

\* The steps of a worker that are queries.
SQLSteps == {"start", "success", "complete", "recordFailure", "fail",
             "toDLQTable", "recordDLQ"}

\* closePool calls pool.end(), which waits for the answers of the queries that
\* are under way.  A worker or a scheduler in a query may still have to send it;
\* a handler may have one of its own.
BeginClosing(n) ==
    \E who \in SUBSET {"worker", "scheduler"} :
       /\ "worker" \in who => pc[n] \in SQLSteps \cup {"run"}
       /\ "scheduler" \in who => n \in Schedulers /\ spc[n] \in {"lock", "unlock"}
       /\ querying' = [querying EXCEPT ![n] = who]

\* SIGTERM, SIGINT, or an exception that nothing caught.
Signal(n) ==
    /\ Goes(n, "up", "resigning")
    /\ stops < MaxStops /\ stops' = stops + 1
    /\ UNCHANGED <<vars, reading, awaited, querying>>

\* Mutant: the worker is not asked whether it has a job.
StopAtOnce(n) ==
    /\ Goes(n, "resigning", "closing") /\ BeginClosing(n)
    /\ reading' = IF pc[n] = "idle" THEN reading \cup {n} ELSE reading
    /\ awaited' = [awaited EXCEPT ![n] = IF Executing(n) THEN msg[n] ELSE NoMsg]
    /\ UNCHANGED <<vars, stops>>

\* scheduler.stop and the beginning of worker.stop: neither loop goes round
\* again.  currentJob is set when the job's lock has been acquired: before,
\* nobody waits for the message.  An idle worker is in its blocking read.
Stop(n) ==
    /\ \/ Executing(n) /\ Goes(n, "resigning", "waiting") /\ UNCHANGED querying
       \/ ~ Executing(n) /\ Goes(n, "resigning", "closing") /\ BeginClosing(n)
    /\ reading' = IF pc[n] = "idle" THEN reading \cup {n} ELSE reading
    /\ awaited' = [awaited EXCEPT ![n] = IF Executing(n) THEN msg[n] ELSE NoMsg]
    /\ UNCHANGED <<vars, stops>>

\* currentJob is null.
JobFinished(n) ==
    /\ ~ Executing(n)
    /\ Goes(n, "waiting", "closing") /\ BeginClosing(n)
    /\ UNCHANGED <<vars, reading, awaited, stops>>

\* After 30 seconds the job is given up.
DeadlinePassed(n) ==
    /\ Executing(n)
    /\ Goes(n, "waiting", "closing") /\ BeginClosing(n)
    /\ awaited' = [awaited EXCEPT ![n] = NoMsg]
    /\ UNCHANGED <<vars, reading, stops>>

\* The query of a handler is answered while the pool waits for its client.
QueryAnswered(n) ==
    /\ pc[n] = "run" /\ "worker" \in querying[n]
    /\ querying' = [querying EXCEPT ![n] = @ \ {"worker"}]
    /\ UNCHANGED <<vars, phase, reading, awaited, stops>>

\* pool.end() has returned: from now on the next query makes another pool.  The
\* QUIT of closeRedis is sent.
PoolClosed(n) ==
    /\ querying[n] = {}
    /\ Goes(n, "closing", "quitting")
    /\ UNCHANGED <<vars, reading, awaited, querying, stops>>

\* Mutant: BLOCK 0.
ReadNeverReturns(n) == FALSE /\ UNCHANGED nodeVars

\* The blocking read comes back empty.
ReadReturns(n) ==
    /\ n \in reading /\ pc[n] = "idle"
    /\ reading' = reading \ {n}
    /\ UNCHANGED <<vars, phase, awaited, querying, stops>>

\* QUIT is answered after the blocking read on the same connection.  The
\* process ends and with it all that it had in hand.
Exit(n) ==
    /\ n \notin reading
    /\ Goes(n, "quitting", "up")
    /\ awaited' = [awaited EXCEPT ![n] = NoMsg]
    /\ Leave(n) /\ pel' = Abandon(pel, n)
    /\ zombies' = [j \in Jobs |-> zombies[j] \ {n}]
    /\ IF n \in Schedulers
       THEN /\ spc' = [spc EXCEPT ![n] = "poll"]
            /\ batch' = [batch EXCEPT ![n] = {}]
            /\ cur' = [cur EXCEPT ![n] = NoMsg]
       ELSE UNCHANGED schedulerVars
    /\ UNCHANGED <<dbVars, dlqStream, stream, lock, faults, reading, querying, stops>>

ShutdownStep(n) ==
    \/ Stop(n) \/ JobFinished(n) \/ DeadlinePassed(n) \/ QueryAnswered(n)
    \/ PoolClosed(n) \/ ReadReturns(n) \/ Exit(n)

-----------------------------------------------------------------------------
(* The pipeline meanwhile                                                  *)

GoesRound(n) == phase[n] \in {"up", "resigning"}

\* A command sent after QUIT is refused by the client.
Refused(n) == phase[n] = "quitting"

RedisSteps == {"acquire", "drop", "duplicate", "ack", "ackFailed",
               "toDLQStream", "release"}

\* While the pool is closed a query is answered only if it was sent before.
Closed(n, who) == phase[n] = "closing" /\ who \notin querying[n]

\* With its answer the query has given its client back.
Answered(n, who) ==
    querying' = [querying EXCEPT ![n] = IF phase[n] = "closing" THEN @ \ {who} ELSE @]

\* Mutant: the worker's loop does not look at `running`.
MeanwhileGoingRound(n) ==
    /\ Refused(n) => pc[n] \notin RedisSteps
    /\ Closed(n, "worker") => pc[n] \notin SQLSteps
    /\ Answered(n, "worker")
    /\ reading' = IF stream' # stream THEN reading \ {n} ELSE reading
    /\ UNCHANGED <<phase, awaited, stops>>

\* A loop that is stopped ends what it is at and does not begin again, but
\* the read under way may still bring a message.
Meanwhile(n) ==
    /\ stream' # stream => GoesRound(n) \/ n \in reading
    /\ Refused(n) => pc[n] \notin RedisSteps
    /\ Closed(n, "worker") => pc[n] \notin SQLSteps
    /\ Answered(n, "worker")
    /\ reading' = IF stream' # stream THEN reading \ {n} ELSE reading
    /\ UNCHANGED <<phase, awaited, stops>>

MeanwhilePolls(s) ==
    /\ spc[s] = "poll" => GoesRound(s)
    /\ spc[s] = "publish" => ~ Refused(s)
    /\ spc[s] \in {"lock", "unlock"} => ~ Closed(s, "scheduler")
    /\ Answered(s, "scheduler")
    /\ UNCHANGED <<phase, reading, awaited, stops>>

\* The refusals, as exceptions.  The scheduler's catch block goes on with a
\* query, the unlock of the row.
PublishRefused(s) ==
    /\ Refused(s) /\ spc[s] = "publish"
    /\ spc' = [spc EXCEPT ![s] = "unlock"]
    /\ UNCHANGED <<dbVars, redisVars, batch, cur, workerVars, faults, stopVars>>

LockRefused(s) ==
    /\ Closed(s, "scheduler") /\ spc[s] = "lock"
    /\ \E snap \in batch[s] :
          /\ batch' = [batch EXCEPT ![s] = @ \ {snap}]
          /\ cur' = [cur EXCEPT ![s] = snap]
    /\ spc' = [spc EXCEPT ![s] = "unlock"]
    /\ UNCHANGED <<dbVars, redisVars, workerVars, faults, stopVars>>

UnlockRefused(s) ==
    /\ Closed(s, "scheduler") /\ spc[s] = "unlock"
    /\ cur' = [cur EXCEPT ![s] = NoMsg]
    /\ spc' = [spc EXCEPT ![s] = AfterJob(batch[s])]
    /\ UNCHANGED <<dbVars, redisVars, batch, workerVars, faults, stopVars>>

QueryRefused(n) ==
    /\ Closed(n, "worker") /\ pc[n] \in SQLSteps
    /\ pc' = [pc EXCEPT ![n] = OnError(n)]
    /\ UNCHANGED <<dbVars, redisVars, schedulerVars, msg, exec, zombies, faults,
                   stopVars>>

CommandRefused(n) ==
    /\ Refused(n) /\ pc[n] \in RedisSteps
    /\ IF pc[n] \in {"acquire", "drop", "release"}
       THEN Leave(n) /\ pel' = Abandon(pel, n)
       ELSE /\ pc' = [pc EXCEPT ![n] = OnError(n)]
            /\ UNCHANGED <<pel, msg, exec>>
    /\ UNCHANGED <<dbVars, dlqStream, stream, lock, schedulerVars, zombies,
                   faults, stopVars>>

WorkerGoesOn(n) ==
    \/ WorkerAction(n) /\ Meanwhile(n)
    \/ QueryRefused(n) \/ CommandRefused(n)

SchedulerGoesOn(s) ==
    \/ SchedulerStep(s) /\ MeanwhilePolls(s)
    \/ PublishRefused(s) \/ LockRefused(s) \/ UnlockRefused(s)

ShutdownNext ==
    \/ \E n \in Workers : Signal(n) \/ ShutdownStep(n) \/ WorkerGoesOn(n)
    \/ \E s \in Schedulers : SchedulerGoesOn(s)
    \/ Reclaim /\ UNCHANGED stopVars
    \/ \E j \in Jobs : Clock(j) /\ UNCHANGED stopVars

ShutdownSpec == ShutdownInit /\ [][ShutdownNext]_nodeVars

\* Signals need not come; the shutdown goes on as its calls return.
ShutdownFairness ==
    /\ \A s \in Schedulers : WF_nodeVars(SchedulerGoesOn(s))
    /\ \A n \in Workers : /\ WF_nodeVars(WorkerGoesOn(n))
                          /\ WF_nodeVars(ShutdownStep(n))
    /\ \A j \in Jobs : /\ WF_nodeVars(Fires(j) /\ UNCHANGED stopVars)
                       /\ WF_nodeVars(Ages(j) /\ UNCHANGED stopVars)
                       /\ WF_nodeVars(Expire(j) /\ UNCHANGED stopVars)

ShutdownFairSpec == ShutdownSpec /\ ShutdownFairness

-----------------------------------------------------------------------------
(* Properties                                                              *)

\* worker.js:9 "Graceful shutdown (finish current job, release locks)": a job
\* that Worker.stop found being executed and did not give up has its message
\* acknowledged, and when the connections are closed it is finished, its lock
\* released, and no other job has been begun.
CurrentJobFinished ==
    \A n \in Workers : awaited[n] # NoMsg =>
       /\ pc[n] = "release" => ~ PendingUnder(awaited[n], n)
       /\ phase[n] \in {"closing", "quitting"} =>
             pc[n] = "idle" /\ n \notin reading /\ lock[awaited[n].job] # n

\* A shutdown comes to its end, whatever the node was at: neither a handler
\* that does not end nor the blocking read holds it up.
ShutdownEnds == \A n \in Workers : phase[n] # "up" ~> phase[n] = "up"

=============================================================================
