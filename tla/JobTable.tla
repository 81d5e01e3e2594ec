------------------------------ MODULE JobTable ------------------------------
(***************************************************************************)
(* One row of the PostgreSQL table `jobs` and the statements that          *)
(* JobService executes on it, each as an operator from row to row.  An     *)
(* UPDATE is atomic in PostgreSQL, so a caller uses one operator per step. *)
(*                                                                         *)
(* A timestamp is kept as what the statements compare it with:             *)
(*   next_run_at   NULL ("never"), after NOW() ("future"), or "due";       *)
(*   locked_by/at  NULL ("free"), at most five minutes old ("fresh"), or   *)
(*                 older than that ("stale").                              *)
(***************************************************************************)
EXTENDS Integers

CONSTANTS
    Limits,       \* the values of max_retries
    MaxRetries    \* bound: none of them is larger

ASSUME MaxRetriesAssumption == MaxRetries \in Nat /\ Limits \subseteq 0..MaxRetries

\* retry_count is counted up to MaxRetries: from there on every attempt goes
\* to the dead letter queue, whatever the exact count.
\* A deleted row is kept as a tombstone, which no statement finds any more.
Row == [status: {"active", "paused", "completed", "failed_permanent",
                 "deleted"},
        nextRun: {"never", "future", "due"},
        lock: {"free", "fresh", "stale"},
        retryCount: 0..MaxRetries,
        maxRetries: Limits]

\* A row as an INSERT leaves it.
Created(next, limit) ==
    [status |-> "active", nextRun |-> next, lock |-> "free", retryCount |-> 0,
     maxRetries |-> limit]

OneMore(count) == IF count < MaxRetries THEN count + 1 ELSE count

\* Mutants: without the lock, without the status, without the takeover of a
\* stale lock.
LockableTwice(row) == row.status = "active"
LockableEnded(row) == row.lock # "fresh"
LockableFree(row) == row.status = "active" /\ row.lock = "free"

Lockable(row) == row.status = "active" /\ row.lock # "fresh"

\* Mutant: the lock condition missing.
IsDueThoughLocked(row) == row.status = "active" /\ row.nextRun = "due"

\* The WHERE clause of getDueJobs.
IsDue(row) == Lockable(row) /\ row.nextRun = "due"

\* Mutant: locked_at is not written.
LockedUnstamped(row) == row

\* lockJob looks at the status and the lock only, not at next_run_at.
Locked(row) == [row EXCEPT !.lock = "fresh"]

Unlocked(row) == [row EXCEPT !.lock = "free"]

\* UPDATE jobs ... WHERE id = $1: without the row there is nothing to change.
Update(row, new) == IF row.status = "deleted" THEN row ELSE new

\* completeExecution: a cron job goes back to its next fire time...
CronCompleted(row, next) ==
    Update(row, [row EXCEPT !.lock = "free", !.nextRun = next,
                            !.retryCount = 0])

\* ... and a one-time job ends.
OneTimeCompleted(row) ==
    Update(row, [row EXCEPT !.lock = "free", !.nextRun = "never",
                            !.status = "completed"])

\* Mutant: next_run_at is cleared.
RetryUnscheduled(row) ==
    [row EXCEPT !.lock = "free", !.nextRun = "never",
                !.retryCount = OneMore(@)]

\* failExecution with a retry time, which leaves the status as it is...
RetryScheduled(row) ==
    Update(row, [row EXCEPT !.lock = "free", !.nextRun = "future",
                            !.retryCount = OneMore(@)])

\* ... and with null.
FailedPermanently(row) ==
    Update(row, [row EXCEPT !.lock = "free", !.nextRun = "never",
                            !.retryCount = OneMore(@),
                            !.status = "failed_permanent"])

\* The statements of the job routes: pauseJob...
Paused(row) == Update(row, [row EXCEPT !.status = "paused"])

\* Mutant: the lock is cleared with the pause.
ResumedUnlocked(row, next) ==
    Update(row, [row EXCEPT !.status = "active", !.nextRun = next,
                            !.lock = "free"])

\* ... resumeJob, which keeps the lock...
Resumed(row, next) ==
    Update(row, [row EXCEPT !.status = "active", !.nextRun = next])

\* ... the two statements of triggerNow, of which only the first one looks at
\* the status...
TriggeredDue(row) ==
    IF row.status \in {"active", "paused"}
    THEN [row EXCEPT !.nextRun = "due", !.lock = "free"] ELSE row
Activated(row) == Update(row, [row EXCEPT !.status = "active"])

\* ... updateJob with a new cron expression, whatever the type of the job, and
\* with a new max_retries...
Rescheduled(row, next) == Update(row, [row EXCEPT !.nextRun = next])
Limited(row, limit) == Update(row, [row EXCEPT !.maxRetries = limit])

\* ... deleteJob, and the retry of a dead letter.
Deleted(row) ==
    [row EXCEPT !.status = "deleted", !.nextRun = "never", !.lock = "free",
                !.retryCount = 0]
Requeued(row) == Update(row, Created("due", row.maxRetries))

\* The clock: the fire time is reached, the row's lock turns five minutes old.
Fired(row) == [row EXCEPT !.nextRun = "due"]
Aged(row) == [row EXCEPT !.lock = "stale"]

=============================================================================
