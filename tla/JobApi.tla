------------------------------- MODULE JobApi -------------------------------
(***************************************************************************)
(* The requests that change jobs while the pipeline works on them: the     *)
(* routes of api/routes/jobs.js and api/routes/dlq.js, and the handler     *)
(* detect-stale-jobs, which writes to the jobs table like a request does.  *)
(*                                                                         *)
(* A request reads a row, decides, and writes in a later statement: what   *)
(* it has read may have changed.  A request whose statement throws ends    *)
(* there, like one whose client has had enough.                            *)
(***************************************************************************)
EXTENDS JobPipeline

CONSTANTS
    Clients,
    Requests,     \* the kinds of request that are made
    MaxRequests   \* bound: requests in a behaviour

RequestKinds == {"pause", "resume", "trigger", "update", "limit", "delete",
                 "requeue", "discard", "unlockStale"}

ASSUME ApiAssumption ==
    /\ Requests \subseteq RequestKinds
    /\ MaxRequests \in Nat

VARIABLES
    request,   \* a client's request: its kind, its job and its next statement
    requests   \* requests made so far

apiVars == <<request, requests>>
allVars == <<vars, apiVars>>

NoRequest == [kind |-> "none"]
Request == [kind: Requests, job: Jobs, step: {"write", "activate"}]

ApiInit ==
    /\ Init
    /\ request = [c \in Clients |-> NoRequest]
    /\ requests = 0

-----------------------------------------------------------------------------
(* The first statement: getJob, or the SELECT on which a request acts      *)

\* Mutant: a job that is not paused is resumed as well.
AllowedUnchecked(kind, j) == rows[j].status # "deleted"

\* What the routes check of the row they have read.  A job that has ended can
\* be paused; the trigger and the retry look at no status at all.
Allowed(kind, j) ==
    CASE kind = "pause" -> rows[j].status \notin {"paused", "deleted"}
      [] kind = "resume" -> rows[j].status = "paused"
      [] kind \in {"trigger", "update", "limit", "delete"} -> rows[j].status # "deleted"
      [] kind = "requeue" -> j \in dlqTable
      [] kind = "unlockStale" ->
            rows[j].status = "active" /\ rows[j].lock = "stale"
      [] kind = "discard" -> FALSE

\* A request that is refused changes nothing: only the others are steps.
Read(c) ==
    /\ request[c] = NoRequest /\ requests < MaxRequests
    /\ \E kind \in Requests, j \in Jobs :
          /\ Allowed(kind, j)
          /\ request' = [request EXCEPT ![c] =
                            [kind |-> kind, job |-> j, step |-> "write"]]
    /\ requests' = requests + 1
    /\ UNCHANGED vars

-----------------------------------------------------------------------------
(* The statements that write                                               *)

Writes(c, kind, step) ==
    request[c] # NoRequest /\ request[c].kind = kind /\ request[c].step = step

Reply(c) == request' = [request EXCEPT ![c] = NoRequest] /\ UNCHANGED requests

UpdateRow(c, row) ==
    /\ rows' = [rows EXCEPT ![request[c].job] = row]
    /\ UNCHANGED <<started, dlqTable, redisVars, schedulerVars, workerVars,
                   faults>>

RowOf(c) == rows[request[c].job]

PauseJob(c) ==
    /\ Writes(c, "pause", "write")
    /\ UpdateRow(c, Paused(RowOf(c))) /\ Reply(c)

\* The next run of a resumed job: a cron job's next fire time, and for the
\* other types NULL, or scheduled_at if the job has one that is still to come.
ResumedRun(j) == IF j \in CronJobs THEN NextFire ELSE {"never", "future"}

\* resumeJob.  Its own SELECT reads only columns that no request changes in a
\* way that matters here, so that it is one step with the UPDATE.
ResumeJob(c) ==
    /\ Writes(c, "resume", "write")
    /\ \E next \in ResumedRun(request[c].job) :
          UpdateRow(c, Resumed(RowOf(c), next))
    /\ Reply(c)

\* triggerNow: two statements, each committed by itself.
TriggerNow(c) ==
    /\ Writes(c, "trigger", "write")
    /\ UpdateRow(c, TriggeredDue(RowOf(c)))
    /\ request' = [request EXCEPT ![c].step = "activate"]
    /\ UNCHANGED requests

EnsureActive(c) ==
    /\ Writes(c, "trigger", "activate")
    /\ UpdateRow(c, Activated(RowOf(c))) /\ Reply(c)

\* updateJob with a cron expression...
UpdateJob(c) ==
    /\ Writes(c, "update", "write")
    /\ \E next \in NextFire : UpdateRow(c, Rescheduled(RowOf(c), next))
    /\ Reply(c)

\* ... and with max_retries, which messages on the way do not learn of.  The
\* name, the payload and the time zone decide nothing here.
SetMaxRetries(c) ==
    /\ Writes(c, "limit", "write")
    /\ \E limit \in Limits :
          \/ UpdateRow(c, Limited(RowOf(c), limit))
          \/ \E next \in NextFire :
                UpdateRow(c, Limited(Rescheduled(RowOf(c), next), limit))
    /\ Reply(c)

\* The DELETE cascades to the records and the dead letters of the job.
DeleteJob(c) ==
    LET j == request[c].job IN
    /\ Writes(c, "delete", "write")
    /\ rows' = [rows EXCEPT ![j] = Deleted(@)]
    /\ started' = {m \in started : m.job # j}
    /\ dlqTable' = dlqTable \ {j}
    /\ UNCHANGED <<redisVars, schedulerVars, workerVars, faults>>
    /\ Reply(c)

\* The retry of a dead letter resets the row, whatever the job does by now;
\* the entry stays, with a requeued_at that nothing reads.
RequeueDeadLetter(c) ==
    /\ Writes(c, "requeue", "write")
    /\ UpdateRow(c, Requeued(RowOf(c))) /\ Reply(c)

\* The DELETE of an entry is a request's only statement.  A job that was given
\* up more than once has other entries left.
DiscardDeadLetter(c) ==
    /\ request[c] = NoRequest /\ requests < MaxRequests
    /\ "discard" \in Requests
    /\ \E j \in dlqTable : dlqTable' \in {dlqTable, dlqTable \ {j}}
    /\ requests' = requests + 1
    /\ UNCHANGED <<rows, started, redisVars, schedulerVars, workerVars, faults,
                   request>>

\* detect-stale-jobs unlocks the rows of its SELECT one by one, by their id.
UnlockStale(c) ==
    /\ Writes(c, "unlockStale", "write")
    /\ UpdateRow(c, Unlocked(RowOf(c))) /\ Reply(c)

\* The statement throws, or the process that serves the request dies.
RequestFails(c) ==
    /\ request[c] # NoRequest /\ Fault("error")
    /\ Reply(c)
    /\ UNCHANGED <<dbVars, redisVars, schedulerVars, workerVars>>

ApiWrite(c) ==
    \/ PauseJob(c) \/ ResumeJob(c) \/ TriggerNow(c) \/ EnsureActive(c)
    \/ UpdateJob(c) \/ SetMaxRetries(c) \/ DeleteJob(c)
    \/ RequeueDeadLetter(c) \/ UnlockStale(c)

ApiStep(c) ==
    Read(c) \/ ApiWrite(c) \/ DiscardDeadLetter(c) \/ RequestFails(c)

\* The foreign keys of the worker's records: those of a job that has been
\* deleted are not there, and the INSERT throws.
InsertRefused(w) ==
    /\ \/ pc[w] = "start" /\ JobOf(w) \notin UnknownHandler
       \/ pc[w] = "toDLQTable"
    /\ rows[JobOf(w)].status = "deleted"
    /\ pc' = [pc EXCEPT ![w] = OnError(w)]
    /\ UNCHANGED <<dbVars, redisVars, schedulerVars, msg, exec, zombies,
                   faults, apiVars>>

ApiNext ==
    \/ Next /\ UNCHANGED apiVars
    \/ \E w \in Workers : InsertRefused(w)
    \/ \E c \in Clients : ApiStep(c)

ApiSpec == ApiInit /\ [][ApiNext]_allVars

-----------------------------------------------------------------------------
(* Properties                                                              *)

\* The variables keep their types, and a request in the middle of its
\* statements is one of those that are made, for a job.
ApiTypeOK ==
    /\ TypeOK
    /\ request \in [Clients -> Request \cup {NoRequest}]
    /\ requests \in 0..MaxRequests

\* A job that is paused, resumed, rescheduled and deleted while it is executed
\* leads the life JobLifecycle promises: no request makes a second claim or
\* takes one away, an outcome is written once and by the one who holds the
\* claim, only an active job is claimed, and a deleted one stays deleted.
RefinesManaged == Lifecycle!ManagedSpec

\* "Pause a job (stops it from being scheduled)", jobs.js:198: once a job
\* stays paused its last message is executed or dropped and no other comes,
\* whatever snapshot a scheduler still holds and whoever crashes.
PausedComesToRest ==
    \A j \in Jobs :
       <>[](rows[j].status = "paused") =>
          <>[](/\ ~ HasTicket(j)
               /\ \A w \in Workers : ~ (Executing(w) /\ JobOf(w) = j))

\* The server finishes what it has begun; nobody has to make a request.
ApiFairness ==
    /\ Fairness
    /\ \A w \in Workers : WF_allVars(InsertRefused(w))
    /\ \A c \in Clients : WF_allVars(ApiWrite(c))

ApiFairSpec == ApiSpec /\ ApiFairness

=============================================================================
