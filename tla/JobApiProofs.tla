---------------------------- MODULE JobApiProofs ----------------------------
(***************************************************************************)
(* What the requests of JobApi leave of the guarantees of JobPipeline, for *)
(* any number of clients, requests, jobs, schedulers and workers.          *)
(***************************************************************************)
EXTENDS JobApi, JobLifecycleProofs

\* A request changes the tables alone: it holds no lock, no message and no
\* snapshot, and no worker or scheduler notices it.
LEMMA RequestsStayOut ==
    ASSUME NEW c \in Clients, ApiStep(c)
    PROVE  UNCHANGED <<redisVars, schedulerVars, workerVars>>
BY DEF ApiStep, ApiWrite, Read, DiscardDeadLetter, RequestFails, PauseJob,
       ResumeJob, TriggerNow, EnsureActive, UpdateJob, SetMaxRetries,
       DeleteJob, RequeueDeadLetter, UnlockStale, UpdateRow, vars

LEMMA ApiSteps ==
    ASSUME [ApiNext]_allVars
    PROVE  \/ [Next]_vars /\ UNCHANGED apiVars
           \/ \E w \in Workers : InsertRefused(w)
           \/ \E c \in Clients : ApiStep(c)
BY DEF ApiNext, allVars

\* The worker whose INSERT is refused goes on to its catch block.
LEMMA RefusedGoesOn ==
    ASSUME TypeOK, NEW w \in Workers, InsertRefused(w)
    PROVE  /\ UNCHANGED <<dbVars, redisVars, schedulerVars, msg, exec, zombies,
                         faults, apiVars>>
           /\ Executing(w)
           /\ pc'[w] \in {"fail", "recordFailure", "release"}
           /\ pc'[w] \in {"fail", "recordFailure"} => pc[w] = "start"
           /\ pc' \in [Workers -> WorkerStep]
           /\ \A v \in Workers : v # w => pc'[v] = pc[v]
BY DEF InsertRefused, OnError, Executing, Try, Catch, TypeOK, WorkerStep

LEMMA RefusedTypes ==
    ASSUME TypeOK, NEW w \in Workers, InsertRefused(w)
    PROVE  TypeOK'
<1>1. pc' \in [Workers -> WorkerStep] /\ UNCHANGED msg
      /\ \A v \in Workers : pc'[v] = "idle" <=> pc[v] = "idle"
  BY RefusedGoesOn DEF Executing, Try, Catch
<1> QED
  BY <1>1, RefusedGoesOn DEF TypeOK, dbVars, redisVars, schedulerVars

\* What a request may do to a row.
Gentle(new, row) ==
    \/ new \in {Paused(row), Deleted(row)}
    \/ \E next \in {"never", "future"} :
          new \in {Resumed(row, next), Rescheduled(row, next)}

Forceful(new, row) ==
    \/ "trigger" \in Requests /\ new \in {TriggeredDue(row), Activated(row)}
    \/ "unlockStale" \in Requests /\ new = Unlocked(row)
    \/ "requeue" \in Requests /\ new = Requeued(row)

NewLimit(new, row, limit) ==
    /\ "limit" \in Requests
    /\ \/ new = Limited(row, limit)
       \/ \E next \in {"never", "future"} :
             new = Limited(Rescheduled(row, next), limit)

ApiStatement(new, row) ==
    \/ Gentle(new, row) \/ Forceful(new, row)
    \/ \E limit \in Limits : NewLimit(new, row, limit)

LEMMA RequestStatements ==
    ASSUME NEW row \in Row, NEW new, ApiStatement(new, row)
    PROVE  new \in Row
<1>1. 0 \in 0..MaxRetries
  BY MaxRetriesAssumption
<1>2. Deleted(row) \in Row /\ Requeued(row) \in Row
  BY <1>1 DEF Row, Deleted, Requeued, Created, Update
<1>3. /\ Paused(row) \in Row /\ TriggeredDue(row) \in Row
      /\ Activated(row) \in Row /\ Unlocked(row) \in Row
  BY DEF Row, Paused, TriggeredDue, Activated, Unlocked, Update
<1>4. \A next \in {"never", "future"} :
         Resumed(row, next) \in Row /\ Rescheduled(row, next) \in Row
  BY DEF Row, Resumed, Rescheduled, Update
<1>5. \A r \in Row, limit \in Limits : Limited(r, limit) \in Row
  BY DEF Row, Limited, Update
<1> QED
  BY <1>2, <1>3, <1>4, <1>5 DEF ApiStatement, Gentle, Forceful, NewLimit

-----------------------------------------------------------------------------
(* Types                                                                   *)

\* A request in the middle of its statements is for a job.
LEMMA RequestInHand ==
    ASSUME ApiTypeOK, NEW c \in Clients, request[c] # NoRequest
    PROVE  request[c] \in Request /\ request[c].job \in Jobs
BY DEF ApiTypeOK, Request

LEMMA ReplyTypes ==
    ASSUME ApiTypeOK, NEW c \in Clients, Reply(c)
    PROVE  /\ request' \in [Clients -> Request \cup {NoRequest}]
           /\ requests' \in 0..MaxRequests
BY DEF ApiTypeOK, Reply

\* Every request leaves the table as it is, or executes one statement on one
\* row.
LEMMA RequestsWrite ==
    ASSUME ApiTypeOK, NEW c \in Clients, ApiStep(c)
    PROVE  rows' = rows \/ \E job \in Jobs : \E new :
              /\ rows' = [rows EXCEPT ![job] = new]
              /\ ApiStatement(new, rows[job])
<1>1. CASE Read(c) \/ DiscardDeadLetter(c) \/ RequestFails(c)
  BY <1>1 DEF Read, DiscardDeadLetter, RequestFails, vars, dbVars
<1>2. CASE ApiWrite(c)
  <2> DEFINE k == request[c].job
             r == rows[k]
  <2>1. /\ request[c] \in Request /\ k \in Jobs
        /\ request[c].kind \in Requests
    BY <1>2, RequestInHand
    DEF ApiWrite, PauseJob, ResumeJob, TriggerNow, EnsureActive, UpdateJob,
        SetMaxRetries, DeleteJob, RequeueDeadLetter, UnlockStale, Writes,
        Request
  <2>2. NextFire \subseteq {"never", "future"}
        /\ ResumedRun(k) \subseteq {"never", "future"}
    BY DEF NextFire, ResumedRun
  <2> SUFFICES \E new : rows' = [rows EXCEPT ![k] = new] /\ ApiStatement(new, r)
    BY <2>1
  <2>3. CASE PauseJob(c) \/ DeleteJob(c)
    <3>1. \E new \in {Paused(r), Deleted(r)} : rows' = [rows EXCEPT ![k] = new]
      BY <2>3 DEF PauseJob, DeleteJob, UpdateRow, RowOf
    <3> QED
      BY <3>1 DEF ApiStatement, Gentle
  <2>4. CASE ResumeJob(c)
    <3>1. \E next \in {"never", "future"} :
             rows' = [rows EXCEPT ![k] = Resumed(r, next)]
      BY <2>2, <2>4 DEF ResumeJob, UpdateRow, RowOf
    <3> QED
      BY <3>1 DEF ApiStatement, Gentle
  <2>5. CASE UpdateJob(c)
    <3>1. \E next \in {"never", "future"} :
             rows' = [rows EXCEPT ![k] = Rescheduled(r, next)]
      BY <2>2, <2>5 DEF UpdateJob, UpdateRow, RowOf
    <3> QED
      BY <3>1 DEF ApiStatement, Gentle
  <2>6. CASE TriggerNow(c) \/ EnsureActive(c) \/ RequeueDeadLetter(c)
             \/ UnlockStale(c)
    <3>1. \/ /\ "trigger" \in Requests
             /\ \E new \in {TriggeredDue(r), Activated(r)} :
                   rows' = [rows EXCEPT ![k] = new]
          \/ "requeue" \in Requests /\ rows' = [rows EXCEPT ![k] = Requeued(r)]
          \/ /\ "unlockStale" \in Requests
             /\ rows' = [rows EXCEPT ![k] = Unlocked(r)]
      BY <2>1, <2>6 DEF TriggerNow, EnsureActive, RequeueDeadLetter,
                        UnlockStale, UpdateRow, RowOf, Writes
    <3> QED
      BY <3>1 DEF ApiStatement, Forceful
  <2>7. CASE SetMaxRetries(c)
    <3>1. PICK limit \in Limits :
             \/ rows' = [rows EXCEPT ![k] = Limited(r, limit)]
             \/ \E next \in {"never", "future"} :
                   rows' = [rows EXCEPT ![k] = Limited(Rescheduled(r, next), limit)]
      BY <2>2, <2>7 DEF SetMaxRetries, UpdateRow, RowOf
    <3>2. "limit" \in Requests
      BY <2>1, <2>7 DEF SetMaxRetries, Writes
    <3> QED
      BY <3>1, <3>2 DEF ApiStatement, NewLimit
  <2> QED
    BY <1>2, <2>3, <2>4, <2>5, <2>6, <2>7 DEF ApiWrite
<1> QED
  BY <1>1, <1>2 DEF ApiStep

\* What a request does to the other tables, and to the count of faults.
LEMMA RequestsElsewhere ==
    ASSUME ApiTypeOK, NEW c \in Clients, ApiStep(c)
    PROVE  /\ started' \subseteq started /\ dlqTable' \subseteq dlqTable
           /\ \A k \in Key : k \in started =>
                               k \in started' \/ rows'[k.job].status = "deleted"
           /\ faults' \in {faults, faults + 1} \cap 0..MaxFaults
<1>1. CASE DeleteJob(c)
  <2>1. request[c].job \in Jobs /\ rows \in [Jobs -> Row]
    BY <1>1, RequestInHand DEF DeleteJob, Writes, ApiTypeOK, TypeOK
  <2>2. rows'[request[c].job].status = "deleted"
    BY <1>1, <2>1 DEF DeleteJob, Deleted, Row
  <2> QED
    BY <1>1, <2>2 DEF DeleteJob, ApiTypeOK, TypeOK
<1>2. CASE ~ DeleteJob(c)
  BY <1>2, PipelineAssumption
  DEF ApiStep, ApiWrite, Read, DiscardDeadLetter, RequestFails, PauseJob,
      ResumeJob, TriggerNow, EnsureActive, UpdateJob, SetMaxRetries,
      RequeueDeadLetter, UnlockStale, UpdateRow, vars, dbVars, Fault,
      ApiTypeOK, TypeOK
<1> QED
  BY <1>1, <1>2

LEMMA RequestTypes ==
    ASSUME ApiTypeOK, NEW c \in Clients, ApiStep(c)
    PROVE  TypeOK'
<1>1. rows' \in [Jobs -> Row]
  <2>1. CASE rows' = rows
    BY <2>1 DEF ApiTypeOK, TypeOK
  <2>2. ASSUME NEW job \in Jobs, NEW new,
               rows' = [rows EXCEPT ![job] = new], ApiStatement(new, rows[job])
        PROVE  rows' \in [Jobs -> Row]
    <3>1. new \in Row
      BY <2>2, RequestStatements DEF ApiTypeOK, TypeOK
    <3> QED
      BY <2>2, <3>1 DEF ApiTypeOK, TypeOK
  <2> QED
    BY <2>1, <2>2, RequestsWrite
<1> QED
  BY <1>1, RequestsElsewhere, RequestsStayOut
  DEF ApiTypeOK, TypeOK, redisVars, schedulerVars, workerVars

LEMMA RequestVarTypes ==
    ASSUME ApiTypeOK, NEW c \in Clients, ApiStep(c)
    PROVE  /\ request' \in [Clients -> Request \cup {NoRequest}]
           /\ requests' \in 0..MaxRequests
<1>1. CASE Read(c)
  <2>1. requests' \in 0..MaxRequests
    BY <1>1, ApiAssumption DEF Read, ApiTypeOK
  <2> QED
    BY <1>1, <2>1 DEF Read, ApiTypeOK, Request
<1>2. CASE DiscardDeadLetter(c)
  <2>1. requests' \in 0..MaxRequests
    BY <1>2, ApiAssumption DEF DiscardDeadLetter, ApiTypeOK
  <2> QED
    BY <1>2, <2>1 DEF DiscardDeadLetter, ApiTypeOK
<1>3. CASE TriggerNow(c)
  <2>1. request[c] \in Request
    BY <1>3, RequestInHand DEF TriggerNow, Writes
  <2> QED
    BY <1>3, <2>1 DEF TriggerNow, ApiTypeOK, Request
<1>4. CASE Reply(c)
  BY <1>4, ReplyTypes
<1> QED
  BY <1>1, <1>2, <1>3, <1>4
  DEF ApiStep, ApiWrite, PauseJob, ResumeJob, EnsureActive, UpdateJob,
      SetMaxRetries, DeleteJob, RequeueDeadLetter, UnlockStale, RequestFails

LEMMA ApiTypeStep == ApiTypeOK /\ [ApiNext]_allVars => ApiTypeOK'
<1> SUFFICES ASSUME ApiTypeOK, [ApiNext]_allVars PROVE ApiTypeOK'
  OBVIOUS
<1>1. CASE [Next]_vars /\ UNCHANGED apiVars
  BY <1>1, TypeStep DEF ApiTypeOK, apiVars
<1>2. ASSUME NEW c \in Clients, ApiStep(c) PROVE ApiTypeOK'
  BY <1>2, RequestTypes, RequestVarTypes DEF ApiTypeOK
<1>3. ASSUME NEW w \in Workers, InsertRefused(w) PROVE ApiTypeOK'
  BY <1>3, RefusedTypes, RefusedGoesOn DEF ApiTypeOK, apiVars
<1> QED
  BY <1>1, <1>2, <1>3, ApiSteps

\* The tables, Redis, the processes and the requests under way keep their
\* types, whatever the clients ask for and whatever fails.
THEOREM ApiTypeCorrect == ApiSpec => []ApiTypeOK
<1>1. ApiInit => ApiTypeOK
  BY TypeInit, ApiAssumption DEF ApiInit, ApiTypeOK
<1> QED
  BY <1>1, ApiTypeStep, PTL DEF ApiSpec

-----------------------------------------------------------------------------
(* The job lock                                                            *)

LEMMA ApiLockHeldStep ==
    ASSUME "lease" \notin Events, ApiTypeOK, LockHeld, [ApiNext]_allVars
    PROVE  LockHeld'
<1>1. ASSUME NEW c \in Clients, ApiStep(c) PROVE LockHeld'
  BY <1>1, RequestsStayOut
  DEF LockHeld, Executing, JobOf, redisVars, workerVars
<1>2. ASSUME NEW w \in Workers, InsertRefused(w) PROVE LockHeld'
  BY <1>2, RefusedGoesOn, ProceedIsSteady, SteadyKeepsLocks
  DEF ApiTypeOK, redisVars
<1> QED
  BY <1>1, <1>2, ApiSteps, LockHeldStep DEF ApiTypeOK

\* Whoever executes a job holds its lock, also when the row of the job is
\* paused, unlocked, requeued or deleted meanwhile.
THEOREM ApiLockIsHeld ==
    ASSUME "lease" \notin Events
    PROVE  ApiSpec => []LockHeld
<1>1. ApiInit => LockHeld
  BY DEF ApiInit, Init, LockHeld, Executing, Try, Catch
<1>2. ApiTypeOK /\ LockHeld /\ [ApiNext]_allVars => LockHeld'
  BY ApiLockHeldStep
<1> QED
  BY <1>1, <1>2, ApiTypeCorrect, PTL DEF ApiSpec

LEMMA ApiNoZombies ==
    ASSUME "timeout" \notin Events
    PROVE  ApiSpec => []NoZombie
<1>1. ApiInit => NoZombie
  BY DEF ApiInit, Init, NoZombie
<1>2. ApiTypeOK /\ NoZombie /\ [ApiNext]_allVars => NoZombie'
  <2> SUFFICES ASSUME ApiTypeOK, NoZombie, [ApiNext]_allVars
               PROVE  NoZombie'
    OBVIOUS
  <2>1. ASSUME NEW c \in Clients, ApiStep(c) PROVE NoZombie'
    BY <2>1, RequestsStayOut DEF NoZombie, workerVars
  <2>2. ASSUME NEW w \in Workers, InsertRefused(w) PROVE NoZombie'
    BY <2>2, RefusedGoesOn DEF ApiTypeOK, NoZombie
  <2> QED
    BY <2>1, <2>2, ApiSteps, NoZombieStep DEF ApiTypeOK
<1> QED
  BY <1>1, <1>2, ApiTypeCorrect, PTL DEF ApiSpec

\* No two handlers of one job run at a time, whatever rows the requests free
\* under a running job: a second message of it is dropped at the job's lock.
THEOREM ApiHandlersExclude ==
    ASSUME "lease" \notin Events, "timeout" \notin Events
    PROVE  ApiSpec => []HandlerExclusion
BY HolderRunsAlone, ApiNoZombies, ApiLockIsHeld, PTL

\* No request takes a job's lock away either.
THEOREM ApiReleaseIsSafe == ApiSpec => SafeRelease
<1>1. ASSUME ApiTypeOK, [ApiNext]_allVars PROVE [OnlyOwnerReleases]_vars
  <2>1. ASSUME NEW c \in Clients, ApiStep(c) PROVE OnlyOwnerReleases
    BY <2>1, RequestsStayOut DEF OnlyOwnerReleases, redisVars
  <2>2. ASSUME NEW w \in Workers, InsertRefused(w) PROVE OnlyOwnerReleases
    BY <1>1, <2>2, RefusedGoesOn DEF ApiTypeOK, OnlyOwnerReleases, redisVars
  <2> QED
    BY <1>1, <2>1, <2>2, ApiSteps, ReleaseStep DEF ApiTypeOK
<1> QED
  BY <1>1, ApiTypeCorrect, PTL DEF ApiSpec, SafeRelease

\* The requests do not touch the job locks, and a worker whose INSERT they
\* have made fail gives its lock back like any other: the locks are used as
\* ExclusiveLock says, under all requests and all events.
THEOREM ApiLocksRefine == ApiSpec => RefinesLock
<1>1. ApiInit => JobLock!Init
  BY MapLocksInit DEF ApiInit
<1>2. ASSUME ApiTypeOK, [ApiNext]_allVars
      PROVE  [JobLock!Next]_(JobLock!vars)
  <2>1. ASSUME NEW c \in Clients, ApiStep(c) PROVE UNCHANGED JobLock!vars
    BY <2>1, RequestsStayOut, QuietStutters
    DEF Quiet, Executing, redisVars, workerVars
  <2>2. ASSUME NEW w \in Workers, InsertRefused(w) PROVE UNCHANGED JobLock!vars
    <3>1. /\ Executing(w) /\ Executing(w)' /\ UNCHANGED <<lock, msg>>
          /\ \A v \in Workers : v # w => pc'[v] = pc[v]
      BY <1>2, <2>2, RefusedGoesOn
      DEF ApiTypeOK, redisVars, Executing, Try, Catch
    <3>2. Quiet
      BY <3>1 DEF Quiet, Executing
    <3> QED
      BY <3>2, QuietStutters
  <2> QED
    BY <1>2, <2>1, <2>2, ApiSteps, MapLocksStep DEF ApiTypeOK
<1> QED
  BY <1>1, <1>2, ApiTypeCorrect, PTL DEF ApiSpec, RefinesLock, JobLock!Spec

\* A deleted row stays deleted under all requests.
LEMMA DeletedStays ==
    ASSUME ApiTypeOK, NEW c \in Clients, ApiStep(c), NEW j \in Jobs,
           rows[j].status = "deleted"
    PROVE  rows'[j].status = "deleted"
<1>1. ASSUME NEW row \in Row, NEW new, ApiStatement(new, row),
             row.status = "deleted"
      PROVE  new.status = "deleted"
  BY <1>1 DEF ApiStatement, Gentle, Forceful, NewLimit, Row, Paused, Deleted,
     Resumed, Rescheduled, TriggeredDue, Activated, Unlocked, Requeued,
     Limited, Update
<1>2. ASSUME NEW job \in Jobs, NEW new,
             rows' = [rows EXCEPT ![job] = new], ApiStatement(new, rows[job])
      PROVE  rows'[j].status = "deleted"
  <2>1. rows[job].status = "deleted" => new.status = "deleted"
    BY <1>1, <1>2 DEF ApiTypeOK, TypeOK
  <2> QED
    BY <1>2, <2>1 DEF ApiTypeOK, TypeOK
<1> QED
  BY <1>2, RequestsWrite

\* Also the messages of jobs that are paused, deleted or requeued while they
\* run stay pending until their executions are settled.
THEOREM ApiUnsettledIsPending == ApiSpec => []UnsettledStaysPending
<1>1. ApiInit => PendingInv
  BY PendingInit DEF ApiInit
<1>2. ASSUME ApiTypeOK, PendingInv, [ApiNext]_allVars
      PROVE  PendingInv'
  <2>1. ASSUME NEW c \in Clients, ApiStep(c) PROVE PendingInv'
    <3>1. KeysKept
      BY <1>2, <2>1, RequestsElsewhere, DeletedStays DEF KeysKept
    <3>2. UNCHANGED <<pc, msg, exec, pel>>
      BY <2>1, RequestsStayOut DEF redisVars, workerVars
    <3>3. \A v \in Workers : Held(v)
      BY <3>2 DEF Held, PendingUnder
    <3> QED
      BY <1>2, <3>1, <3>2, <3>3, NobodyMoves DEF ApiTypeOK
  <2>2. ASSUME NEW w \in Workers, InsertRefused(w) PROVE PendingInv'
    <3>1. /\ UNCHANGED <<rows, started, faults, pel, msg, exec>>
          /\ pc[w] \in Try \cup Catch
          /\ pc' = [pc EXCEPT ![w] = OnError(w)]
      BY <2>2 DEF InsertRefused, dbVars, redisVars, Try, Catch
    <3>2. KeysKept
      BY <3>1 DEF KeysKept
    <3> QED
      BY <1>2, <3>1, <3>2, ErrsWithoutEffect DEF ApiTypeOK
  <2> QED
    BY <1>2, <2>1, <2>2, ApiSteps, PendingStep DEF ApiTypeOK
<1> QED
  BY <1>1, <1>2, ApiTypeCorrect, PendingImplies, PTL DEF ApiSpec

-----------------------------------------------------------------------------
(* Tickets                                                                 *)

LockKeepers == {"pause", "resume", "update", "limit", "delete", "discard"}

\* Such a request leaves the lock of every row as it is, or deletes the row.
LEMMA LocksLeftAlone ==
    ASSUME Requests \subseteq LockKeepers, ApiTypeOK,
           NEW c \in Clients, ApiStep(c)
    PROVE  \A j \in Jobs :
              \/ /\ rows'[j].lock = rows[j].lock
                 /\ rows[j].status = "deleted" => rows'[j].status = "deleted"
              \/ rows'[j].lock = "free" /\ rows'[j].status = "deleted"
<1>1. ASSUME NEW row \in Row, NEW new, ApiStatement(new, row)
      PROVE  \/ /\ new.lock = row.lock
                /\ row.status = "deleted" => new.status = "deleted"
             \/ new.lock = "free" /\ new.status = "deleted"
  <2>1. ~ Forceful(new, row)
    BY DEF Forceful, LockKeepers
  <2> QED
    BY <1>1, <2>1 DEF ApiStatement, Gentle, NewLimit, Row, Paused, Deleted,
       Resumed, Rescheduled, Limited, Update
<1>2. CASE rows' = rows
  BY <1>2
<1>3. ASSUME NEW job \in Jobs, NEW new,
             rows' = [rows EXCEPT ![job] = new], ApiStatement(new, rows[job]),
             NEW j \in Jobs
      PROVE  \/ /\ rows'[j].lock = rows[j].lock
                /\ rows[j].status = "deleted" => rows'[j].status = "deleted"
             \/ rows'[j].lock = "free" /\ rows'[j].status = "deleted"
  <2>1. CASE j = job
    BY <1>1, <1>3, <2>1 DEF ApiTypeOK, TypeOK
  <2>2. CASE j # job
    BY <1>3, <2>2 DEF ApiTypeOK, TypeOK
  <2> QED
    BY <2>1, <2>2
<1> QED
  BY <1>2, <1>3, RequestsWrite

LEMMA ApiTicketStep ==
    ASSUME "aging" \notin Events, "error" \notin Events,
           Requests \subseteq LockKeepers,
           ApiTypeOK, NoUnlock, TicketInv, [ApiNext]_allVars
    PROVE  NoUnlock' /\ TicketInv'
<1>1. ASSUME NEW c \in Clients, ApiStep(c) PROVE NoUnlock' /\ TicketInv'
  <2>1. UNCHANGED <<stream, spc, cur, pc, msg>>
    BY <1>1, RequestsStayOut DEF redisVars, schedulerVars, workerVars
  <2>2. /\ OneTicket' <=> OneTicket
        /\ \A j \in Jobs : HasTicket(j)' <=> HasTicket(j)
    BY <2>1 DEF OneTicket, HasTicket, Publishing, Queued, Settling, JobOf
  <2>3. TicketsHeld' /\ NoStaleRow'
    BY <1>1, <2>2, LocksLeftAlone DEF TicketInv, TicketsHeld, NoStaleRow
  <2> QED
    BY <2>1, <2>2, <2>3 DEF TicketInv, NoUnlock
<1>2. ASSUME NEW w \in Workers, InsertRefused(w) PROVE NoUnlock' /\ TicketInv'
  <2>1. UNCHANGED <<rows, stream, spc, cur, msg>>
    BY <1>2, RefusedGoesOn DEF ApiTypeOK, dbVars, redisVars, schedulerVars
  <2>2. NoNewTicket
    BY <1>2, <2>1, RefusedGoesOn, WorkerKeepsTickets
    DEF ApiTypeOK, BeforeOutcome
  <2>3. TicketsKept
    BY <2>1, <2>2, FewerTickets DEF TicketInv, NoStaleRow
  <2> QED
    BY <2>1, <2>3 DEF NoUnlock, TicketsKept
<1> QED
  BY <1>1, <1>2, ApiSteps, TicketStep, NoUnlockStep DEF ApiTypeOK, TicketsKept

\* Jobs may be paused, resumed, changed and deleted at any moment: there is
\* never a second right to settle one, and the row of a job keeps its lock
\* for as long as there is one.  Of the other requests each frees the row of
\* a running job.
THEOREM ApiTicketsAreUnique ==
    ASSUME "aging" \notin Events, "error" \notin Events,
           Requests \subseteq LockKeepers
    PROVE  ApiSpec => [](OneTicket /\ TicketsHeld)
<1>1. ApiInit => NoUnlock /\ TicketInv
  BY DEF ApiInit, Init, NoUnlock, TicketInv, OneTicket, TicketsHeld,
         NoStaleRow, HasTicket, Publishing, Settling, BeforeOutcome, Created
<1>2. ApiTypeOK /\ NoUnlock /\ TicketInv /\ [ApiNext]_allVars
         => NoUnlock' /\ TicketInv'
  BY ApiTicketStep
<1>3. TicketInv => OneTicket /\ TicketsHeld
  BY DEF TicketInv
<1> QED
  BY <1>1, <1>2, <1>3, ApiTypeCorrect, PTL DEF ApiSpec

\* Under the same conditions no two handlers of one job run at a time even when
\* the job's lock expires under its holder: the row lock is a second defence
\* that none of these requests opens.
THEOREM ApiRowLockExcludes ==
    ASSUME "aging" \notin Events, "error" \notin Events,
           "timeout" \notin Events, Requests \subseteq LockKeepers
    PROVE  ApiSpec => []HandlerExclusion
<1>1. ApiSpec => []NoZombie
  BY ApiNoZombies
<1>2. ApiSpec => [](OneTicket /\ TicketsHeld)
  BY ApiTicketsAreUnique
<1> QED
  BY <1>1, <1>2, TicketRunsAlone, PTL

-----------------------------------------------------------------------------
(* Attempts                                                                *)

\* The statement of a request other than the retry of a dead letter takes back
\* no attempt of a job that is still there, and gives no job up; and only one
\* with a new max_retries changes that.
LEMMA RequestsAreGentle ==
    ASSUME "requeue" \notin Requests, NEW row \in Row, NEW new,
           ApiStatement(new, row)
    PROVE  /\ Grown(new, row)
           /\ new.status = "failed_permanent" => row.status = "failed_permanent"
           /\ "limit" \notin Requests => new.maxRetries = row.maxRetries
<1>1. row.retryCount >= row.retryCount
  BY MaxRetriesAssumption DEF Row
<1>2. /\ row.status = "deleted" => new.status = "deleted"
      /\ new.status # "deleted" => new.retryCount = row.retryCount
      /\ new.status = "failed_permanent" => row.status = "failed_permanent"
      /\ "limit" \notin Requests => new.maxRetries = row.maxRetries
  BY DEF ApiStatement, Gentle, Forceful, NewLimit, Row, Paused, Deleted,
     Resumed, Rescheduled, TriggeredDue, Activated, Unlocked, Limited, Update
<1> QED
  BY <1>1, <1>2 DEF Grown

\* A step of a client, or the refused INSERT of a worker.
Beside ==
    \/ \E c \in Clients : ApiStep(c)
    \/ \E w \in Workers : InsertRefused(w)

LEMMA BesideMovesNothing ==
    ASSUME ApiTypeOK, Beside
    PROVE  NoneNew /\ TypeOK' /\ UNCHANGED <<stream, batch, cur, msg>>
<1>1. UNCHANGED <<stream, batch, cur, msg>>
  BY RequestsStayOut, RefusedGoesOn
  DEF Beside, ApiTypeOK, redisVars, schedulerVars, workerVars
<1>2. MovesOn
  BY <1>1, Underway DEF MovesOn
<1> QED
  BY <1>1, <1>2, NoneIsNew, RequestTypes, RefusedTypes DEF Beside, ApiTypeOK

LEMMA LateBesideRequests ==
    ASSUME "requeue" \notin Requests, ApiTypeOK, NoneAhead, Beside
    PROVE  /\ NoneAhead' /\ LateStep
           /\ "limit" \notin Requests /\ LimitsAgree => LimitsAgree'
<1> DEFINE Kept == /\ CountsGrow /\ LateStep
                   /\ "limit" \notin Requests =>
                         \A j \in Jobs : rows'[j].maxRetries = rows[j].maxRetries
<1>1. ASSUME rows' = rows PROVE Kept
  <2>1. \A j \in Jobs : rows[j].retryCount >= rows[j].retryCount
    BY MaxRetriesAssumption DEF ApiTypeOK, TypeOK, Row
  <2> QED
    BY <1>1, <2>1 DEF CountsGrow, Grown, LateStep, GivesUp
<1>2. ASSUME NEW job \in Jobs, NEW new,
             rows' = [rows EXCEPT ![job] = new], ApiStatement(new, rows[job])
      PROVE  Kept
  <2>1. /\ Grown(new, rows[job])
        /\ new.status = "failed_permanent" => rows[job].status = "failed_permanent"
        /\ "limit" \notin Requests => new.maxRetries = rows[job].maxRetries
    BY <1>2, RequestsAreGentle DEF ApiTypeOK, TypeOK
  <2>2. \A j \in Jobs : Grown(rows[j], rows[j])
    BY MaxRetriesAssumption DEF ApiTypeOK, TypeOK, Row, Grown
  <2>3. \A j \in Jobs : rows'[j] = IF j = job THEN new ELSE rows[j]
    BY <1>2 DEF ApiTypeOK, TypeOK
  <2> QED
    BY <2>1, <2>2, <2>3 DEF CountsGrow, LateStep, GivesUp
<1> HIDE DEF Kept
<1>3. Kept
  <2>1. ASSUME NEW w \in Workers, InsertRefused(w) PROVE rows' = rows
    BY <2>1, RefusedGoesOn DEF ApiTypeOK, dbVars
  <2>2. ASSUME NEW c \in Clients, ApiStep(c) PROVE Kept
    BY <1>1, <1>2, <2>2, RequestsWrite
  <2> QED
    BY <1>1, <2>1, <2>2 DEF Beside
<1>4. NoneNew /\ TypeOK /\ TypeOK'
  BY BesideMovesNothing DEF ApiTypeOK
<1> QED
  BY <1>3, <1>4, NoneGetsAhead, LimitsKeepAgreeing DEF Kept

\* Requests that pause, resume, trigger, reschedule, unlock or delete a job
\* while messages of it are on the way do not have it given up early either.
\* Two others can: the retry of a dead letter sets retry_count back to 0, and
\* an old message of the job still counts the attempts of its former life; a
\* higher max_retries is not that of the messages on the way.
THEOREM ApiGivenUpWhenUsedUp ==
    ASSUME "requeue" \notin Requests, "limit" \notin Requests
    PROVE  ApiSpec => GivenUpLate
<1>1. ApiInit => NoneAhead /\ LimitsAgree
  BY NothingUnderway DEF ApiInit, NoneAhead, LimitsAgree
<1>2. ApiTypeOK /\ NoneAhead /\ LimitsAgree /\ [ApiNext]_allVars
         => NoneAhead' /\ LimitsAgree' /\ [LateStep]_vars
  <2>1. ASSUME ApiTypeOK, NoneAhead, LimitsAgree, [Next]_vars
        PROVE  NoneAhead' /\ LimitsAgree' /\ [LateStep]_vars
    BY <2>1, AheadStep, LimitsStep, GivesUpLate DEF ApiTypeOK
  <2> QED
    BY <2>1, LateBesideRequests, ApiSteps DEF Beside
<1>3. GivenUpLate <=> [][LateStep]_vars
  BY DEF GivenUpLate, LateStep
<1> QED
  BY <1>1, <1>2, <1>3, ApiTypeCorrect, PTL DEF ApiSpec

-----------------------------------------------------------------------------
(* The life of a managed job                                               *)

LEMMA SameLimits ==
    ASSUME UNCHANGED <<stream, batch, cur, msg>>,
           \A j \in Jobs : rows'[j].maxRetries = rows[j].maxRetries
    PROVE  UNCHANGED [j \in Jobs |-> LimitsOf(j)]
<1>1. \A m : OnItsWay(m)' <=> OnItsWay(m)
  BY DEF OnItsWay, MessageOf
<1>2. \A j \in Jobs : LimitsOf(j)' = LimitsOf(j)
  BY <1>1 DEF LimitsOf
<1> QED
  BY <1>2

\* The request that sets max_retries.
LEMMA MapSetLimit ==
    ASSUME TypeOK, TypeOK', NoneNew, SameTickets, NEW k \in Jobs,
           NEW limit \in Limits, NEW new, NewLimit(new, rows[k], limit),
           rows' = [rows EXCEPT ![k] = new], rows[k].status # "deleted"
    PROVE  Lifecycle!Manage
<1>1. /\ new.status = rows[k].status /\ new.retryCount = rows[k].retryCount
      /\ new.maxRetries = limit
  <2>1. rows[k] \in Row
    BY DEF TypeOK
  <2>2. \A row \in Row : row.status # "deleted" =>
           /\ Limited(row, limit).status = row.status
           /\ Limited(row, limit).retryCount = row.retryCount
           /\ Limited(row, limit).maxRetries = limit
    BY DEF Limited, Update, Row
  <2>3. \A next \in {"never", "future"} :
           /\ Rescheduled(rows[k], next) \in Row
           /\ Rescheduled(rows[k], next).status = rows[k].status
           /\ Rescheduled(rows[k], next).retryCount = rows[k].retryCount
    BY <2>1 DEF Rescheduled, Update, Row
  <2> QED
    BY <2>1, <2>2, <2>3 DEF NewLimit
<1>2. UNCHANGED <<Status, Tries>>
  BY <1>1, RowChanges
<1>3. rows'[k].maxRetries = limit /\ \A j \in Jobs : j # k => rows'[j] = rows[j]
  BY <1>1 DEF TypeOK
<1>4. ASSUME NEW j \in Jobs
      PROVE  /\ LimitsOf(j)' \subseteq Limits
             /\ LimitsOf(j)' \subseteq
                   (IF j = k THEN LimitsOf(j) \cup {limit} ELSE LimitsOf(j))
  <2>1. LimitsOf(j)' = {rows'[j].maxRetries} \cup
           {m.maxRetries : m \in {n \in Message : n.job = j /\ OnItsWay(n)'}}
    BY DEF LimitsOf
  <2>2. \A m \in Message : m.job = j /\ OnItsWay(m)' =>
           m.maxRetries \in LimitsOf(j) /\ m.maxRetries \in Limits
    BY DEF NoneNew, LimitsOf, Message
  <2>3. rows'[j].maxRetries \in Limits
    BY DEF TypeOK, Row
  <2>5. j = k => rows'[j].maxRetries = limit
    BY <1>3
  <2>6. LimitsOf(j)' \subseteq Limits
    BY <2>1, <2>2, <2>3
  <2>7. CASE j = k
    BY <2>1, <2>2, <2>5, <2>6, <2>7
  <2>8. CASE j # k
    <3>1. rows'[j].maxRetries \in LimitsOf(j)
      BY <1>3, <2>8 DEF LimitsOf
    <3> QED
      BY <2>1, <2>2, <2>6, <2>8, <3>1
  <2> QED
    BY <2>7, <2>8
<1> DEFINE old == [j \in Jobs |-> LimitsOf(j)]
<1>5. Lifecycle!AtMost([old EXCEPT ![k] = @ \cup {limit}])
  BY <1>4 DEF Lifecycle!AtMost
<1>6. rows[k].status # "deleted" /\ Status[k] = rows[k].status
  BY DEF Status
<1>7. Lifecycle!SetLimit(k)
  BY <1>2, <1>5, <1>6, SameClaims DEF Lifecycle!SetLimit
<1> QED
  BY <1>7 DEF Lifecycle!Manage

\* A request that leaves the locks alone is one of the owner's in JobLifecycle,
\* or is not seen there: the row has been deleted or only gets another time.
LEMMA MapRequest ==
    ASSUME Requests \subseteq LockKeepers, ApiTypeOK,
           NEW c \in Clients, ApiStep(c)
    PROVE  [Lifecycle!Manage]_(Lifecycle!vars)
<1>0. /\ NoneNew /\ TypeOK /\ TypeOK' /\ UNCHANGED <<stream, batch, cur, msg>>
      /\ UNCHANGED <<spc, pc>>
  BY BesideMovesNothing, RequestsStayOut
  DEF Beside, ApiTypeOK, schedulerVars, workerVars
<1>1. SameTickets
  BY <1>0 DEF SameTickets, HasTicket, Publishing, Queued, Settling, JobOf
<1>2. Claimed' = Claimed
  BY <1>1, SameClaims
<1>3. CASE rows' = rows
  <2>1. UNCHANGED <<Status, Tries>> /\ UNCHANGED [j \in Jobs |-> LimitsOf(j)]
    BY <1>0, <1>3, SameRows, SameLimits
  <2> QED
    BY <1>2, <2>1 DEF Lifecycle!vars
<1>4. ASSUME NEW k \in Jobs, NEW new,
             rows' = [rows EXCEPT ![k] = new], ApiStatement(new, rows[k])
      PROVE  [Lifecycle!Manage]_(Lifecycle!vars)
  <2>1. /\ Status' = [Status EXCEPT ![k] = new.status]
        /\ Tries' = [Tries EXCEPT ![k] = new.retryCount]
        /\ Status[k] = rows[k].status
        /\ new.status = rows[k].status => Status' = Status
        /\ new.retryCount = rows[k].retryCount => Tries' = Tries
    BY <1>0, <1>4, RowChanges
  <2>2. rows[k] \in Row /\ ~ Forceful(new, rows[k])
    BY <1>0 DEF TypeOK, Forceful, LockKeepers
  <2>3. new.maxRetries = rows[k].maxRetries =>
           UNCHANGED [j \in Jobs |-> LimitsOf(j)]
    BY <1>0, <1>4, SameLimits DEF TypeOK
  <2>4. CASE \/ new = rows[k]
             \/ \E next \in {"never", "future"} : new = Rescheduled(rows[k], next)
    <3>1. /\ new.status = rows[k].status /\ new.retryCount = rows[k].retryCount
          /\ new.maxRetries = rows[k].maxRetries
      BY <2>2, <2>4 DEF Rescheduled, Update, Row
    <3> QED
      BY <1>2, <2>1, <2>3, <3>1 DEF Lifecycle!vars
  <2>5. CASE new = Deleted(rows[k])
    <3>1. /\ new.status = "deleted" /\ new.retryCount = 0
          /\ new.maxRetries = rows[k].maxRetries
      BY <2>2, <2>5 DEF Deleted, Row
    <3>2. Lifecycle!Delete(k)
      BY <1>2, <2>1, <2>3, <3>1 DEF Lifecycle!Delete
    <3> QED
      BY <3>2 DEF Lifecycle!Manage
  <2>6. CASE rows[k].status = "deleted" /\ new # Deleted(rows[k])
    <3>1. new = rows[k]
      BY <1>4, <2>2, <2>6 DEF ApiStatement, Gentle, NewLimit, Paused, Resumed,
         Rescheduled, Limited, Update
    <3> QED
      BY <2>4, <3>1
  <2>7. CASE rows[k].status # "deleted" /\ new = Paused(rows[k])
    <3>1. /\ new.status = "paused" /\ new.retryCount = rows[k].retryCount
          /\ new.maxRetries = rows[k].maxRetries
      BY <2>2, <2>7 DEF Paused, Update, Row
    <3>2. Lifecycle!Pause(k)
      BY <1>2, <2>1, <2>3, <2>7, <3>1 DEF Lifecycle!Pause, Lifecycle!Becomes
    <3> QED
      BY <3>2 DEF Lifecycle!Manage
  <2>8. CASE /\ rows[k].status # "deleted"
             /\ \E next \in {"never", "future"} : new = Resumed(rows[k], next)
    <3>1. /\ new.status = "active" /\ new.retryCount = rows[k].retryCount
          /\ new.maxRetries = rows[k].maxRetries
      BY <2>2, <2>8 DEF Resumed, Update, Row
    <3>2. Lifecycle!Resume(k)
      BY <1>2, <2>1, <2>3, <2>8, <3>1 DEF Lifecycle!Resume, Lifecycle!Becomes
    <3> QED
      BY <3>2 DEF Lifecycle!Manage
  <2>9. CASE /\ rows[k].status # "deleted"
             /\ \E limit \in Limits : NewLimit(new, rows[k], limit)
    BY <1>0, <1>1, <1>4, <2>9, MapSetLimit
  <2> QED
    BY <1>4, <2>2, <2>4, <2>5, <2>6, <2>7, <2>8, <2>9 DEF ApiStatement, Gentle
<1> QED
  BY <1>3, <1>4, RequestsWrite

\* The worker of a deleted job, whose INSERT is refused, keeps its claim up to
\* failExecution, or has given it back before.
LEMMA MapRefused ==
    ASSUME ApiTypeOK, TicketInv, NEW w \in Workers, InsertRefused(w)
    PROVE  Lifecycle!Next
<1>1. /\ UNCHANGED <<rows, stream, started, spc, cur, msg>>
      /\ \A v \in Workers : v # w => pc'[v] = pc[v] /\ msg'[v] = msg[v]
  BY RefusedGoesOn DEF ApiTypeOK, dbVars, redisVars, schedulerVars
<1>2. pc'[w] \in BeforeOutcome => pc[w] \in BeforeOutcome
  BY RefusedGoesOn DEF ApiTypeOK, BeforeOutcome
<1>3. Carried
  BY <1>1, <1>2, RefusedGoesOn DEF ApiTypeOK, Carried, BeforeOutcome
<1>4. LimitsKept
  BY <1>1, BesideMovesNothing, LimitsAreKept DEF Beside, ApiTypeOK
<1> QED
  BY <1>1, <1>3, <1>4, LostOrSame DEF ApiTypeOK

LEMMA ApiInvariants ==
    ASSUME "aging" \notin Events, "error" \notin Events,
           Requests \subseteq LockKeepers
    PROVE  ApiSpec => [](NoUnlock /\ TicketInv /\ NoneAhead)
<1>1. ApiInit => NoUnlock /\ TicketInv /\ NoneAhead
  <2>1. ApiInit => NoneAhead
    BY NothingUnderway DEF ApiInit, NoneAhead
  <2>2. ApiInit => NoUnlock /\ TicketInv
    BY DEF ApiInit, Init, NoUnlock, TicketInv, OneTicket, TicketsHeld, NoStaleRow,
        HasTicket, Publishing, Settling, BeforeOutcome, Created
  <2> QED
    BY <2>1, <2>2
<1>2. "requeue" \notin Requests
  BY DEF LockKeepers
<1>3. ASSUME ApiTypeOK, NoUnlock, TicketInv, NoneAhead, [ApiNext]_allVars
      PROVE  NoUnlock' /\ TicketInv' /\ NoneAhead'
  <2>1. NoneAhead'
    BY <1>2, <1>3, AheadStep, LateBesideRequests, ApiSteps DEF Beside, ApiTypeOK
  <2> QED
    BY <1>3, <2>1, ApiTicketStep
<1> QED
  BY <1>1, <1>3, ApiTypeCorrect, PTL DEF ApiSpec

\* Jobs that are paused, resumed, rescheduled, given another max_retries and
\* deleted at any moment, also between the steps of the worker that executes
\* them, lead the life of JobLifecycle: no request settles a claim, makes a
\* second one or brings a deleted job back, a claim that survives a pause ends
\* the job once, and a one-time job is given up only when its attempts have
\* reached a max_retries that it has, or had when a message still on its way
\* was made.
THEOREM ApiRefinesManaged ==
    ASSUME "aging" \notin Events, "error" \notin Events,
           Requests \subseteq LockKeepers
    PROVE  ApiSpec => RefinesManaged
<1>1. ApiInit => Lifecycle!Init
  BY MapInit DEF ApiInit
<1>2. ApiTypeOK /\ NoUnlock /\ TicketInv /\ NoneAhead /\ [ApiNext]_allVars
         => [Lifecycle!Next \/ Lifecycle!Manage]_(Lifecycle!vars)
  BY ApiSteps, MapNext, MapRefused, MapRequest DEF ApiTypeOK
<1>3. ApiSpec => [](NoUnlock /\ TicketInv /\ NoneAhead)
  BY ApiInvariants
<1> QED
  BY <1>1, <1>2, <1>3, ApiTypeCorrect, PTL
  DEF ApiSpec, RefinesManaged, Lifecycle!ManagedSpec

=============================================================================
