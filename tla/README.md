# A model of the Chronos job scheduler

TLA+ modules of the scheduling, execution and leadership logic of this
repository, TLC runs that check them on small instances, and theorems that
TLAPS checks for every instance. Paths are relative to the repository's root.

## The system

Every node is one Node.js process (`src/index.js`) with an Express API, a
worker and a part in the leader election; the leader also runs the scheduler.
The nodes share PostgreSQL (`jobs`, `job_executions`, `dead_letter_queue`) and
Redis (a stream with a consumer group, a lock per job, a lock for the leader, a
stream of dead letters). They never talk to each other directly.

| Component | State | Operations | What makes it correct |
|---|---|---|---|
| Job table, `services/job-service.js` | a row per job: status, next_run_at, locked_by/locked_at, retry_count, max_retries | create*, getDueJobs, lockJob, unlockJob, completeExecution, failExecution, pause, resume, trigger, update, delete | a row is settled once per attempt; an ended one-time job stays ended; no active row waits for ever |
| Scheduler, `scheduler/scheduler.js` | running flag, poll and reclaim timers, the snapshot in hand | start, stop, _enqueueDueJobs, _reclaimLoop | runs on the leader only; a due job is enqueued once |
| Stream manager, `lib/stream-manager.js` | the stream, its pending entries, the dead letter stream | publish, consume, acknowledge, sendToDLQ, reclaimStale | a message is executed or deliberately dropped |
| Worker, `worker/worker.js` | the message it executes | _processNext, _executeJob, stop | one handler of a job at a time; every outcome is recorded |
| Distributed lock, `lib/distributed-lock.js` | a token with a TTL per key | acquire, extend, release, auto-extension | held through the execution, released by its holder only, freed after a crash |
| Execution records, `services/execution-service.js` | records keyed by job, attempt and millisecond; dead letter entries | recordStart/Success/Failure/DLQ, writeToDLQTable | dead jobs are in the dead letter table |
| Handler registry, `services/handler-registry.js` | registered handlers | execute with a timeout | no handler runs unattended |
| Retry policy, `lib/retry.js` | - | shouldRetry, calculateBackoff | retries end; delays grow up to a cap |
| Leader election, `lib/leader-election.js` | isLeader, the election and renewal timers, the leader key | start, stop, _runElection, _startRenewal | one leader; a deposed one steps down; someone leads |
| Cron expressions, `lib/cron-parser.js` | - | getNextFireTime, matchesField | the first matching minute |
| Job and dead letter routes, `api/routes` | - | pause, resume, trigger, patch, delete; retry and discard of a dead letter | a request never gives a job on its way a second execution at a time; a paused job comes to rest |
| Job handlers, `handlers/index.js` | - | detect-stale-jobs unlocks rows | as for the routes |
| Process entry, `index.js`, `lib/redis.js`, `db/pool.js` | timers, listeners, two connections | main, shutdown | the current job is finished at exit, the rest is recoverable, and the exit comes |

Hard behaviour, and where it comes from:

- *Interleaving.* Two schedulers while a deposed leader has not noticed, any
  number of workers, and an await between any two steps of each.
- *Stale state.* The scheduler acts on a snapshot of rows, a worker on a
  message, a leader on its own flag; none of them looks again.
- *Two independent locks with timeouts.* `locked_at` turns stale after five
  minutes and nothing refreshes it, not even a running handler. The Redis lock
  is refreshed while a worker executes and outlives a dead worker by its TTL.
- *Partial failure.* `_executeJob` makes up to nine calls, and an exception in
  any of them leads to a different rest. A call that throws may have had its
  effect.
- *Requests.* A route reads a row, decides, and writes in a later statement,
  in the middle of whatever the pipeline does with the row.
- *Shutdown.* The phases await one another while the loops end what they are at:
  a pool that is closing waits for the queries under way and refuses all others,
  and one Redis connection serves a blocking read and the QUIT behind it.
- *Delivery.* A message is delivered once; one whose worker died stays pending,
  is reclaimed by the leader and goes no further. It carries the `max_retries`
  that the row had when it was read.

`PROJECT.json` lists the hazards one by one, each at its line and with the
properties about it.

## Modules

| Module | Models | Extends |
|---|---|---|
| `JobTable` | the row of a job and the statements on it, each an operator from row to row | |
| `Retry` | `shouldRetry` | |
| `JobPipeline` | scheduler, stream, workers, locks, records, dead letters, crashes, errors, clock | `JobTable`, `Retry` |
| `JobLifecycle` | abstract specification: what the pipeline promises of a job, beside the requests of its owner | |
| `ExclusiveLock` | abstract specification: what `lib/distributed-lock.js` promises its users | |
| `JobApi` | the requests that change jobs, composed with the pipeline | `JobPipeline` |
| `Shutdown` | the orderly end of a node, composed with the pipeline | `JobPipeline` |
| `LeaderElection` | election, renewal, the callbacks into the scheduler, the leadership part of shutdown | |
| `CronParser` | the search for the next fire time | |
| `MC...` | symmetries, a small calendar, sample expressions for TLC | |
| `...Proofs` | theorems | |

### JobPipeline

One action per awaited call. A statement of PostgreSQL and a command of Redis
are atomic there, so the effect of an action is the effect of the call together
with the branch the code takes on its reply. `pc[w]` names the call a worker
makes next:

| `pc[w]` | call in `_executeJob` | actions |
|---|---|---|
| idle | `consume` | Consume, ConsumeLost |
| acquire | `lock.acquire` | Acquire, AcquireRefused, AcquireReplyLost |
| drop | `acknowledge` after a refused lock | Drop |
| start | `registry.has`, `recordStart` | HandlerMissing, RecordStart, DuplicateStart |
| duplicate | `acknowledge` after a duplicate key | Acknowledge |
| run | `registry.execute` | HandlerResolves, HandlerRejects, HandlerTimesOut |
| success, complete, ack | `recordSuccess`, `completeExecution`, `acknowledge` | RecordSuccess, CompleteExecution, Acknowledge |
| recordFailure, fail | `recordFailure`, `failExecution` | RecordFailure, FailWithRetry, FailPermanently |
| toDLQStream, toDLQTable, recordDLQ | `sendToDLQ`, `writeToDLQTable`, `recordDLQ` | SendToDLQ, WriteToDLQTable, RecordDLQ |
| ackFailed | `acknowledge` in the catch block | Acknowledge |
| release | `lock.release` in finally | Release |

An exception at a step of the try block leads to the catch block, one in the
catch block to finally (`OnError`). `Throws` is a call that throws without
effect; under the event "error" the actions with an effect may also end in the
exception (`Proceed`). `spc[s]`, `batch[s]` and `cur[s]` are the position, the
rest of the snapshot and the row in hand of `_enqueueDueJobs`. An element of
`Schedulers` is a poll loop: two of them are a deposed and a new leader, or the
two loops of one node that `LeaderElection` has.

What is abstracted: a timestamp is kept as the answer to the comparisons made
with it (due or not, fresh or stale). Names, payloads, error texts, the order of
`ORDER BY` and the record fields nobody reads are left out. A token of a job
lock is the worker that stored it: a worker executes one message at a time, and
a token it left behind refuses its own next acquire like any other. The pending
entries are a set. An entry keeps the worker that has its message in hand
(`reader`; `Nobody` after a death or a swallowed error), because XACK finds a
message by its id wherever it is pending, and beside it whether XAUTOCLAIM has
put it under the leader's name (`reclaimed`). `Reclaim` goes by the idle time
alone: an entry whose reader is alive is claimed as well when that worker is slow
(the event "slow"). `retry_count` is counted up to `MaxRetries`, where it makes no more
difference. `completeExecution` is one step: the columns its SELECT reads do not
change while it runs, and the fire time it computes is `CronParser`'s business,
except that there may be none ("horizon").

Events are switched on by the constant `Events`, so that each run states under
which of them its properties hold: "aging" (a row's lock turns five minutes
old), "crash", "error", "lease" (a lock expires although its holder is alive,
because no extension ran for a whole TTL), "slow" (a worker has a message in hand
for the ten minutes after which the leader claims it), "timeout" (a handler outlives its
timeout), "sameMs" (two records of an attempt in one millisecond) and "horizon"
(a cron expression without a fire time in the next two years).

### JobLifecycle

The promise in four variables: the status of every job, the set of jobs that
somebody has claimed, a count of tries, and the limits of the tries that may still
decide: the `max_retries` of the row and those of messages made earlier
(`LimitsOf`), which go as the messages go (`Forget`). A one-time job is given up
only at one of these limits. A waiting job is claimed; the claim
ends by one outcome, which may end the job, or is lost. `JobPipeline` maps its
rows to `Status` and `Tries` and takes a job for claimed while there is a
*ticket*, a right to settle it: a snapshot about to be published, a message in
the stream, or a worker that has not yet written the outcome. `RefinesLifecycle`
is checked by TLC and proved.

`ManagedSpec` adds the owner of the job: pause, resume, delete and another
`max_retries`, at any moment and whatever the claim is at. `JobApi` implements it
(`RefinesManaged`) for the requests that leave the row lock alone. The other
three, trigger, the retry of a dead letter and the unlocking of stale rows, free
the row of a job that may be on its way, so that it is claimed a second time while
the first claim lasts: the specification has no step for that, and what remains
true then is stated about the job lock and the attempts.

### ExclusiveLock

A lock is granted while it is free, used by its holder, given back by whoever has
used it, and lapses. It is stated once and implemented twice: by the workers,
with a lock per job (`JobPipeline`, `RefinesLock`; a user is a worker between
acquire and the end of release) and by the nodes, with the leader key
(`LeaderElection`, `RefinesLock`; a user is a running node that takes itself for the
leader). Only `LeasesLapse` lets a lock lapse under a user.

### JobApi

`Read` is the SELECT of a route with what the route checks of the row; the write
is a later action on whatever the row is by then. `triggerNow` is two statements
and so two actions. The PATCH route is two kinds of request: "update" writes a new
fire time, "limit" a new `max_retries` with or without one. Messages on the way
keep the old limit, so that a job whose limit was raised can be given up by one of
them, and one whose limit was lowered tried once more. `detect-stale-jobs` runs as
a handler, but what it does to the table, the SELECT of stale rows and the
unlocking of each one, is that of a request, and so it is modelled as one. A
deleted row is a tombstone that no statement finds; its foreign keys make the
worker's inserts throw (`InsertRefused`).

### Shutdown

A node is named by its worker; its scheduler, if it polls, has the same name.
`phase[n]` is where `shutdown` of `index.js` awaits: "resigning"
(`election.stop`), "waiting" (`worker.stop`, thirty seconds for the current job),
"closing" (`closePool`), "quitting" (`closeRedis`). Meanwhile the worker and the
scheduler of the node go on with what they are at (`Meanwhile`,
`MeanwhilePolls`), and the read under way may still bring a message (`reading`).

The pool ends in two steps. `BeginClosing` is the call of `pool.end()`, which
waits for the clients that are checked out: `querying[n]` says whose query, the
worker's (a handler may have one of its own) or the scheduler's, had been sent by
then. Until `PoolClosed`, when they are answered, `getPool()` still returns the
pool that is ending, and every query that was not sent before is refused
(`QueryRefused`, `LockRefused`, `UnlockRefused`); from then on the next query
makes another pool. What is sent to Redis after QUIT is refused
(`CommandRefused`, `PublishRefused`). A refusal is an exception without effect and
takes the way of any other. A node that has exited is started again, as `docker-compose.yml` has it.

### LeaderElection

A node is single-threaded, so an action is what runs between two awaits. A
command takes effect when it is sent and its reply is handled later (`epc` is
"won" or "lost" meanwhile, `replies` holds the answers of renewals). Replies are
handled in any order, which is more than one connection can bring about: there an
answer to a renewal of an earlier term comes before the reply that wins the next. `running`,
`inited`, `starting`, `polling`, `timers` and `known` are the scheduler's flag,
the cached initialisation, pending calls of `start`, loops inside
`_enqueueDueJobs`, loops waiting for their timer, and whether `pollTimer` still
refers to one of these, which is the one `stop` can clear. The key holds the
node whose token is in it; this is exact because `SET NX` never replaces a token
and a node that cannot acquire builds a new token the key does not hold.

A shutdown resigns first and stops the scheduler when the reply is there
(`Resign`, `Resigned`). A resignation whose call throws (it is tried again) and
the reclaim loop, whose timer is handled like the poll loop's, are left out.

### CronParser

Time is a number of minutes and JavaScript's `Date` the constant `Calendar`, so
that hours, days and months can be short. `NextMinute` and `Found` are the two
outcomes of an iteration of the search in `getNextFireTime`, `GiveUp` the end of
the two years, `CompleteRun` the next call. The reference definition, `Values`
and `FiresOn`, says what a field means as a set of values, with a step as a
remainder where the code counts up in a loop. Whether an expression is valid is
decided by node-cron, which is external.

## Runs

Deadlock is not checked: a system whose jobs have all ended, or whose fault
budget is used up with every node down, rightly stops.

| Run | Question | Instance | States |
|---|---|---|---|
| `api_exclusion` | Do two handlers of a job ever overlap, does a worker ever lose its lock, whatever requests do to the row, when row locks turn stale, messages are duplicated and calls fail? Is the job lock used as `ExclusiveLock` says, does the message of an execution stay pending until its outcome is written? | one one-time job, two workers, two requests (pause, resume, trigger, delete, dead letter retry, unlocking; the other kinds are in `api_tickets`), one unread message at a time, a crash or error, messages reclaimed from slow workers; no lapse of a lease, no handler given up | 1,113,000 |
| `api_tickets` | Is the right to settle a job ever duplicated by pause, resume, update, another `max_retries`, delete? Is every step one of `JobLifecycle` with its owner? Does a job that stays paused come to rest? | a one-time job, `max_retries` 1 or 2, two schedulers, one worker, two requests, a crash, lapsing leases; no row lock turns stale, no handler given up | 301,000 |
| `pipeline_rows` | Do messages and rows agree, dead letters and dead rows? Is every step one of `JobLifecycle`? Is a token released by its holder alone, is an ended job left alone, when leases lapse under the workers? | three jobs, a cron job and one without handler among them, one scheduler, two workers, `max_retries` 2, lapsing leases; no crash or error | 734,000 |
| `pipeline_settles` | Does every job get run and settled, every lock freed, and no job given up early? | one one-time job with `max_retries` 2, a crash or error, stale row locks, a handler given up | 90,000 |
| `shutdown` | Does a shutdown wait for the current job, does it end, does the job get done nevertheless? | two nodes, one scheduling, two shutdowns, stale row locks | 225,000 |
| `leader_election` | Does every leader own the key, is the key used as `ExclusiveLock` says, does a running scheduler poll? | two nodes, three crashes, errors or shutdowns | 45,000 |
| `leader_liveness` | Does the cluster get a leader, does it schedule, does a deposed one step down? | two nodes, two events, lapsing leases among them | 101,000 |
| `cron` | Is the result of every search the first fire time, and does every search end? | 160 expressions, years of twenty minutes, every moment, calls in a chain | 120,000 |
| `timeout_overlap` | refuted: "one lock per job = exactly-once" | a handler outlives its timeout | |
| `reclaimed_is_processed` | refuted: "recover abandoned messages" | a crash | |
| `retries_allowed` | refuted: "Maximum allowed retries", "2 retries → likely DLQ" | two failures of a job with `max_retries` 2 | |
| `cron_sunday` | refuted: "Handle day-of-week where 7 = 0 (Sunday)" | an expression with Sunday as 0 | |

The properties are stated, with the code behaviour each is about, in the last
part of the modules. The refuted statements are quoted in `PROJECT.json`
("findings") with the lines they come from.

`max_retries` has two readings, and both are stated. `GivenUpLate` is the one that
the code keeps: that many attempts, the first one included. `RetriesAllowed` is the
one of the comments and of the seed script, that many retries after the first
attempt, and `retries_allowed` refutes it: `_executeJob` hands `shouldRetry` the
number of the attempt where it expects the number of retries.

`UnsettledStaysPending` makes one exception. An acknowledge that takes effect and
throws leads into the catch block, which then writes a failure for a message that
is gone (`AcknowledgeThrew`); the property says when this can be, and that it is
the only way.

*Bounds.* Two workers and two schedulers are all that a pairwise property needs.
`api_tickets` has one worker, because two of them with two limits and the liveness
property are beyond a run of some minutes: the tickets in it are duplicated, if at
all, by its two schedulers and the requests, and `ApiTicketsAreUnique` and
`ApiRefinesManaged` are the statements for any number of workers and both kinds of
jobs. It has the limits 1 and 2, so that an old message can be on either side of
the new one; the other runs give every job one limit. Two requests are one that
changes a row in the middle of the other, and a `max_retries` of 1 or 2 gives an
attempt that is retried and one that is not. `MaxStream` is the number of unread
messages: where it is reached, with more jobs than that or with duplicates, it
leaves a scheduler waiting, which is a state publish can be in anyway. `MaxFaults`
bounds crashes and errors, `MaxStops` the shutdowns, `MaxRequests` the requests;
the duplicates that stale locks give are not faults and are not bounded.
`MaxReplies` is two: a renewal is sent every five seconds under a TTL of fifteen.
In the small calendar a year has twenty minutes and two years hold a whole week,
months differ in length, and one day exists in one of them only. The theorems have
none of these bounds.

*Fairness.* Weak fairness of every scheduler and worker: their loops run as long
as the process does, and a client call returns or throws. Handlers end because
their timeout does. Clocks go on, so that fire times come, row locks turn stale
and keys without a keeper expire. A request that has been begun is finished, a
shutdown goes on as its calls return, a search as its loop does. Crashes,
errors, shutdowns, lapses and requests are not fair. In `LeaderElection` a node
that is down need not come back; a crashed worker of `JobPipeline` is idle again.
Liveness of the pipeline rests on row locks turning stale: without "aging" a
crash with a message in hand strands its job for good.

## Proofs

Eight modules, for all values of the constants that satisfy the named
assumptions of the component modules (`MaxRetriesAssumption`,
`PipelineAssumption`, `NoMsgAssumption`, `ApiAssumption`, `ShutdownAssumption`,
`ElectionAssumption`, `CronAssumption`). An assumption on `Events` is part of
the theorem that needs it.

`JobPipelineProofs`:

- `TypeCorrect`: the types are inductive together with the coupling of `pc` and
  `msg`, `spc` and `cur`.
- `LockIsHeld`: without "lease" the holder of a job lock keeps it while it
  executes. Inductive as it stands: a step of another worker changes a lock only
  from free, or from its own.
- `HandlersExclude`: without "lease" and "timeout". Two running workers would
  both hold the one lock; `NoZombies` says no handler was given up.
- `ReleaseIsSafe`: under all events, step by step.
- `TicketsAreUnique`, `TicketsLockRows`: without "aging" and "error".
  `OneTicket` alone is not inductive, because `lockJob` may create a ticket; the
  strengthening `TicketInv` adds that a row with a ticket is locked and that no
  lock is stale, so that `lockJob` fails while a ticket exists. Every action
  either creates no ticket (`FewerTickets`), hands one on (publish, consume), or
  ends one and frees the row. `NeverUnlocks` keeps schedulers out of their error
  path.
- `RowLockExcludes`: `HandlerExclusion` a second time, from `OneTicket` and not
  from the job lock: without "aging", "error" and "timeout", but with "lease". So
  either lock is enough by itself: handlers overlap only when a row lock turns
  stale (or a call throws) *and* a job lock lapses, or when a handler is given
  up.
- `EndedIsFinal`: under the same assumptions as `TicketsAreUnique`, with the
  invariant that an ended row is neither locked nor waited for.
- `JobLocksRefine`: under all events. A step is a grant (acquire, its lost reply),
  the end of a use (release, a crash), a lapse, or leaves lock and users alone
  (`Quiet`). That whoever begins to use a lock holds it, and that a lock in use
  does not lapse, takes `LockHeld` when leases do not lapse, so the invariant is
  that implication.
- `UnsettledIsPending`: under all events. The invariant `PendingInv` adds to the
  property what a worker knows at a step (`InOrder`): whoever acknowledges a
  success or a duplicate has found a record of the attempt, or its job is deleted.
  It is inductive because an acknowledgement removes the entry of the worker's own
  message, reclaiming changes nothing but the name an entry is pending under, and
  records go only with their job (`KeysKept`).

`JobOutcomeProofs`:

- `AttemptsStayCurrent`: with one scheduler, and without "aging" and "error".
  The strengthening `AttemptInv` says the same of the snapshots of its batch,
  whose rows are due and free until it locks them: only the scheduler takes a
  row out of that state, and only a ticket's owner writes an outcome.
- `GivenUpWhenUsedUp`: under all events, although rows are then enqueued twice
  and messages may be arbitrarily old. The invariant `NoneAhead` says of every
  message on its way (`OnItsWay`: in a batch, in hand, in the stream or executed)
  that it counts at most the attempts its row has seen: a count is only ever reset
  for a cron job (`CountsGrow`). Deletion makes an exception, as the row is gone.
  `LimitsAgree` says that its limit is that of the row, which nothing in the
  pipeline changes. A step either brings no message on its way (`NoneNew`) or one
  that is made of a row as it is (`Born`).
- `DeadJobsAreStored`: without "aging", "crash" and "error". `DeadIsStored` is
  inductive; `TicketsLocked` says that the outcome finds an active row.

`JobLifecycleProofs`:

- `PipelineRefines`: without "aging" and "error", with any number of schedulers.
  From `TicketInv`, the one ticket of a job begins with `lockJob` (`MapLockJob`,
  a Claim), is handed on by publish and consume (a stutter), and leaves with the
  outcome (`MapOutcome`) or without one (`LostOrSame`, `MapSchedulerCrash`). That
  a one-time job is not given up early takes `NoneAhead`; that nothing but the owner
  adds to its limits is `LimitsKept`, since every message is made of a row. The lemmas ask of a
  claimed row that it is locked (`TicketsHeld`) and not that it is active, so that
  they serve `JobApiProofs` as well.

`ExclusiveLockProofs`: `LockExcludes` (a lock has one user, its holder) and
`NobodyStealsLock`, of the abstract specification. Together with the refinements
they say which of the guarantees come from the lock module alone.

`JobApiProofs`, for the composition with the requests:

- the type invariant, `LockHeld`, `HandlerExclusion`, `SafeRelease`, `RefinesLock`
  and `UnsettledStaysPending` with all requests: a step of the pipeline keeps an
  invariant by the lemma of `JobPipelineProofs`, a request changes rows only
  (`RequestsStayOut`);
- `ApiGivenUpWhenUsedUp` with all requests but two. The retry of a dead letter
  sets `retry_count` back to 0, and a message of the job's former life then gives
  it up at its first failure: TLC finds this with `max_retries` 2. A higher
  `max_retries` is not that of the messages on the way. Neither is listed as a
  finding, as no document promises otherwise;
- `ApiTicketsAreUnique`, `ApiRowLockExcludes` and `ApiRefinesManaged` with the
  requests that leave the row lock alone (`LockKeepers`), the change of
  `max_retries` among them, without "aging" and "error". In the refinement a
  request is a step of the owner or not seen (`MapRequest`), the refused INSERT of
  a deleted job's worker keeps the claim or loses it (`MapRefused`), and an
  outcome that finds its row deleted is a lost claim.

`ShutdownProofs`, `ShutdownIsGraceful`: the invariant `AllOrderly` says of each
node that the awaited job is still in its worker's hands, or done with and
nothing begun; that a read under way belongs to an idle worker; and that a
worker gets to the release of its lock by an acknowledgement, unless queries or
commands are already refused. The steps of other nodes leave it alone (`Bystander`).
`LockHeld`, `HandlerExclusion`, `RefinesLock`, `UnsettledStaysPending` and
`GivenUpLate` are proved through shutdowns too. `OneTicket` is not among them
because it does not hold there: an acknowledgement that is refused after QUIT leads
into the catch block, and the job that was completed gets a second outcome. What
the lemmas of the pipeline need of refusals and exits is that a refused worker
either goes to its error handling or drops what it has in hand
(`WorkerRefusals`), and that nothing new gets on its way (`StopsMoveOn`).

`LeaderElectionProofs`: `TypeCorrect` (with `Asleep`: a node that is down has no
election under way); `LeaderIsUnique`, without "lease", where the invariant adds
the renewal interval of a leader and the key of a node whose acquire has been
answered but not yet handled; `PollingGoesOn`, `ResignationIsSafe` and
`ElectionRefines` under all events.

`CronParserProofs`, `NextFireTimeFound`: for every calendar, horizon and
expression. The invariant is that no minute between the call and the candidate
fires; the lemma that a field matches exactly its set of values takes a step
field from counting up to remainders. `SearchShortens` takes the bound on the
candidate from the same invariant: every step of the search leaves fewer to come,
which is all of `SearchEnds` that can be proved without fairness.

Only model-checked: all liveness (`DueJobRuns`, `OneTimeSettles`, `LockFreed`,
`PausedComesToRest`, `ShutdownEnds`, `SearchEnds`, `SomeoneLeads`,
`LeaderSchedules`, `DeposedStepsDown`), which is beyond the prover as is
everything with fairness. The excluded events are not an omission of the proof:
with "aging" or "error" two tickets of a job exist, with "timeout" handlers
overlap (`timeout_overlap`), with "lease" two workers hold the lock in turn while
both execute, and with "crash" a dead job can be left without its entry.

## Not modelled

- Job creation: jobs are there in the initial state, as the INSERTs of
  `createImmediateJob`, `createDelayedJob` and `createCronJob` leave them. The
  validation and the conflict of idempotency keys are left out. A row has an id of
  its own, and no step of another job depends on when it appears.
- That an active job has a time to run at is not stated: `resumeJob` sets
  `next_run_at` to NULL for an immediate job, and for a delayed one whose time is
  past, and such a job is active and never due (`ResumedRun` has "never").
- The delay of `calculateBackoff` is a time in the future; nothing compares it
  with anything but the clock. Its cap, jitter and growth are not stated.
- Cron expressions with seconds, and how names of months become NaN, are taken
  apart already in `CronParser`'s input.
- The contents of records and dead letters, among them the `max_retries` of an
  entry; `db-cleanup` deletes old records that nothing reads again.
- The Express application, validation, health checks and read-only queries
  change no state of the scheduler. The sample handlers are the work of the jobs.
- Configuration and logging. The single Redis connection of a process, on which
  a blocking read delays a renewal, shows as the event "lease" and not as a
  queue; its part in the shutdown is modelled.
- A second signal during a shutdown, crashes, errors and handlers given up
  during a shutdown: `Shutdown` excludes these events, which the other modules
  have.
- Schema and seed scripts run once.
