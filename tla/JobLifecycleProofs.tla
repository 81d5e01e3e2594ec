------------------------- MODULE JobLifecycleProofs -------------------------
(***************************************************************************)
(* The pipeline implements JobLifecycle: every step claims one job, ends   *)
(* one claim, or changes nothing of what is seen of a job outside.  The    *)
(* lemmas ask of a row what also holds beside the requests of JobApi: that *)
(* it is locked while it is claimed, and not that it is active then.       *)
(***************************************************************************)
EXTENDS JobOutcomeProofs

-----------------------------------------------------------------------------
(* The mapping                                                             *)

SameTickets == \A j \in Jobs : HasTicket(j)' <=> HasTicket(j)

\* One job changes hands.
OthersKeep(job) ==
    \A j \in Jobs : j # job => (HasTicket(j)' <=> HasTicket(j))

\* No limit is added.
LimitsKept == Lifecycle!AtMost([j \in Jobs |-> LimitsOf(j)])

LEMMA LimitsAreKept ==
    ASSUME TypeOK, TypeOK',
           \A j \in Jobs : rows'[j].maxRetries = rows[j].maxRetries,
           NoneNew \/ \A m \in Message : OnItsWay(m)' => OnItsWay(m) \/ Born(m)
    PROVE  LimitsKept
<1>1. ASSUME NEW j \in Jobs
      PROVE  LimitsOf(j)' \subseteq LimitsOf(j) /\ LimitsOf(j)' \subseteq Limits
  <2>1. rows'[j].maxRetries \in Limits
    BY DEF TypeOK, Row
  <2>2. ASSUME NEW m \in Message, m.job = j, OnItsWay(m)'
        PROVE  m.maxRetries \in LimitsOf(j) /\ m.maxRetries \in Limits
    <3>1. CASE OnItsWay(m)
      BY <2>2, <3>1 DEF LimitsOf, Message
    <3>2. CASE Born(m)
      BY <2>2, <3>2, BornAgrees DEF LimitsOf, Message
    <3> QED
      BY <2>2, <3>1, <3>2 DEF NoneNew
  <2>3. LimitsOf(j)' = {rows'[j].maxRetries} \cup
                          {m.maxRetries : m \in {n \in Message : n.job = j /\ OnItsWay(n)'}}
    BY DEF LimitsOf
  <2>4. rows'[j].maxRetries \in LimitsOf(j)
    BY DEF LimitsOf
  <2> QED
    BY <2>1, <2>2, <2>3, <2>4
<1> QED
  BY <1>1 DEF LimitsKept, Lifecycle!AtMost

LEMMA StepKeepsLimits ==
    ASSUME TypeOK, [Next]_vars
    PROVE  LimitsKept
BY TypeStep, RowsDoPersist, ComeFromRows, LimitsAreKept DEF RowsPersist

LEMMA SameClaims == SameTickets => Claimed' = Claimed
BY DEF SameTickets, Claimed

LEMMA ClaimEnds ==
    ASSUME LimitsKept,
           NEW job \in Jobs, HasTicket(job), ~ HasTicket(job)', OthersKeep(job)
    PROVE  Lifecycle!EndClaim(job)
BY DEF LimitsKept, OthersKeep, Claimed, Lifecycle!EndClaim

LEMMA SameRows == rows' = rows => UNCHANGED <<Status, Tries>>
BY DEF Status, Tries

LEMMA RowChanges ==
    ASSUME TypeOK, NEW job \in Jobs, NEW row,
           rows' = [rows EXCEPT ![job] = row]
    PROVE  /\ Status' = [Status EXCEPT ![job] = row.status]
           /\ Tries' = [Tries EXCEPT ![job] = row.retryCount]
           /\ Status[job] = rows[job].status
           /\ Tries[job] = rows[job].retryCount
           /\ row.status = rows[job].status => Status' = Status
           /\ row.retryCount = rows[job].retryCount => Tries' = Tries
<1>1. \A j \in Jobs : rows'[j] = IF j = job THEN row ELSE rows[j]
  BY DEF TypeOK
<1>2. Status[job] = rows[job].status /\ Tries[job] = rows[job].retryCount
  BY DEF Status, Tries
<1>3. Status' = [Status EXCEPT ![job] = row.status]
  <2>1. \A j \in Jobs : rows'[j].status =
           IF j = job THEN row.status ELSE rows[j].status
    BY <1>1
  <2> QED
    BY <2>1 DEF Status
<1>4. Tries' = [Tries EXCEPT ![job] = row.retryCount]
  <2>1. \A j \in Jobs : rows'[j].retryCount =
           IF j = job THEN row.retryCount ELSE rows[j].retryCount
    BY <1>1
  <2> QED
    BY <2>1 DEF Tries
<1>5. row.status = rows[job].status => Status' = Status
  BY <1>1 DEF Status
<1>6. row.retryCount = rows[job].retryCount => Tries' = Tries
  BY <1>1 DEF Tries
<1> QED
  BY <1>2, <1>3, <1>4, <1>5, <1>6

LEMMA Stutters ==
    ASSUME LimitsKept, SameTickets,
           \A j \in Jobs : /\ rows'[j].status = rows[j].status
                           /\ rows'[j].retryCount = rows[j].retryCount
    PROVE  Lifecycle!Next
<1>1. Status' = Status /\ Tries' = Tries
  BY DEF Status, Tries
<1> QED
  BY <1>1, SameClaims DEF LimitsKept, Lifecycle!Forget, Lifecycle!Next

\* The only ticket of a job leaves with the step of its worker.
LEMMA TicketLeaves ==
    ASSUME TypeOK, TicketInv, Carried, UNCHANGED <<spc, cur>>,
           NEW w \in Workers,
           \A v \in Workers : v # w => pc'[v] = pc[v] /\ msg'[v] = msg[v]
    PROVE  /\ (pc[w] \in BeforeOutcome <=> pc'[w] \in BeforeOutcome)
                 => SameTickets
           /\ pc[w] \in BeforeOutcome /\ pc'[w] \notin BeforeOutcome =>
                 \E job \in Jobs :
                    /\ job = JobOf(w) /\ HasTicket(job) /\ ~ HasTicket(job)'
                    /\ OthersKeep(job)
<1>1. /\ stream' = stream
      /\ \A i \in 1..Len(stream), j \in Jobs : Queued(i, j)' <=> Queued(i, j)
      /\ \A s \in Schedulers, j \in Jobs : Publishing(s, j)' <=> Publishing(s, j)
  BY DEF Carried, Queued, Publishing
<1>2. \A v \in Workers, j \in Jobs :
         v # w => (Settling(v, j)' <=> Settling(v, j))
  BY DEF Settling, JobOf
<1>3. CASE pc[w] \in BeforeOutcome <=> pc'[w] \in BeforeOutcome
  <2>1. \A j \in Jobs : Settling(w, j)' <=> Settling(w, j)
    BY <1>3 DEF Settling, JobOf, Carried
  <2> QED
    BY <1>1, <1>2, <1>3, <2>1 DEF SameTickets, HasTicket
<1>4. CASE pc[w] \in BeforeOutcome /\ pc'[w] \notin BeforeOutcome
  <2>1. JobOf(w) \in Jobs /\ Settling(w, JobOf(w))
    BY <1>4, InHand DEF Settling, BeforeOutcome
  <2>2. \A j \in Jobs : ~ Settling(w, j)' /\ (Settling(w, j) => j = JobOf(w))
    BY <1>4 DEF Settling
  <2>3. PICK job \in Jobs : job = JobOf(w)
    BY <2>1
  <2>4. ~ HasTicket(job)'
    <3>1. \A s \in Schedulers : ~ Publishing(s, job)
      BY <2>1, <2>3 DEF TicketInv, OneTicket
    <3>2. \A i \in 1..Len(stream) : ~ Queued(i, job)
      BY <2>1, <2>3 DEF TicketInv, OneTicket
    <3>3. \A v \in Workers : v # w => ~ Settling(v, job)
      BY <2>1, <2>3 DEF TicketInv, OneTicket
    <3> QED
      BY <1>1, <1>2, <2>2, <3>1, <3>2, <3>3 DEF HasTicket
  <2>5. \A j \in Jobs : j # job => (HasTicket(j)' <=> HasTicket(j))
    BY <1>1, <1>2, <2>2, <2>3 DEF HasTicket
  <2>6. HasTicket(job)
    BY <2>1, <2>3 DEF HasTicket
  <2> QED
    BY <1>4, <2>3, <2>4, <2>5, <2>6 DEF OthersKeep
<1> QED
  BY <1>3, <1>4

\* A ticket that leaves without an outcome is a lost claim.
LEMMA LostOrSame ==
    ASSUME LimitsKept, TypeOK, TicketInv, Carried,
           UNCHANGED <<rows, spc, cur>>, NEW w \in Workers,
           \A v \in Workers : v # w => pc'[v] = pc[v] /\ msg'[v] = msg[v]
    PROVE  Lifecycle!Next
<1>1. CASE pc[w] \in BeforeOutcome <=> pc'[w] \in BeforeOutcome
  <2>1. SameTickets
    BY <1>1, TicketLeaves
  <2> QED
    BY <2>1, Stutters
<1>2. CASE pc[w] \in BeforeOutcome /\ pc'[w] \notin BeforeOutcome
  <2>1. PICK job \in Jobs :
           HasTicket(job) /\ ~ HasTicket(job)' /\ OthersKeep(job)
    BY <1>2, TicketLeaves
  <2>2. Lifecycle!Lose(job)
    BY <2>1, ClaimEnds, SameRows DEF Lifecycle!Lose
  <2> QED
    BY <2>2 DEF Lifecycle!Next
<1> QED
  BY <1>1, <1>2 DEF Carried

\* The outcome of the one claim: it ends the job or has it wait, unless its
\* row has been deleted meanwhile.
LEMMA MapOutcome ==
    ASSUME "error" \notin Events, LimitsKept, TypeOK, TicketInv, NoneAhead,
           NEW w \in Workers, OutcomeAction(w)
    PROVE  Lifecycle!Next
<1>1. /\ Carried /\ UNCHANGED <<spc, cur>> /\ msg' = msg
      /\ pc[w] \in {"complete", "fail"} /\ pc'[w] \notin BeforeOutcome
  BY OutcomeCarries DEF schedulerVars
<1>2. \A v \in Workers : v # w => pc'[v] = pc[v] /\ msg'[v] = msg[v]
  BY <1>1 DEF OutcomeAction, CompleteExecution, FailWithRetry,
              FailPermanently, Proceed, TypeOK
<1>3. PICK job \in Jobs : /\ job = JobOf(w) /\ HasTicket(job)
                          /\ ~ HasTicket(job)' /\ OthersKeep(job)
  BY <1>1, <1>2, TicketLeaves DEF BeforeOutcome
<1>4. Lifecycle!EndClaim(job) /\ rows[job] \in Row
  BY <1>3, ClaimEnds DEF TypeOK
<1>5. PICK row : rows' = [rows EXCEPT ![job] = row]
                 /\ \/ /\ CompleteExecution(w)
                       /\ \E next : row = IF job \in CronJobs
                                          THEN CronCompleted(rows[job], next)
                                          ELSE OneTimeCompleted(rows[job])
                    \/ FailWithRetry(w) /\ row = RetryScheduled(rows[job])
                    \/ FailPermanently(w) /\ row = FailedPermanently(rows[job])
  BY <1>3 DEF OutcomeAction, CompleteExecution, FailWithRetry, FailPermanently
<1>6. /\ Status' = [Status EXCEPT ![job] = row.status]
      /\ Tries' = [Tries EXCEPT ![job] = row.retryCount]
      /\ Status[job] = rows[job].status
      /\ Tries[job] = rows[job].retryCount
      /\ row.status = rows[job].status => Status' = Status
      /\ row.retryCount = rows[job].retryCount => Tries' = Tries
  BY <1>5, RowChanges
<1>7. CASE rows[job].status = "deleted"
  <2>1. row = rows[job]
    BY <1>5, <1>7 DEF CronCompleted, OneTimeCompleted, RetryScheduled,
                      FailedPermanently, Update
  <2>2. Lifecycle!Lose(job)
    BY <1>4, <1>6, <2>1 DEF Lifecycle!Lose
  <2> QED
    BY <2>2 DEF Lifecycle!Next
<1>8. CASE rows[job].status # "deleted" /\ CompleteExecution(w)
           /\ \E next : row = IF job \in CronJobs
                              THEN CronCompleted(rows[job], next)
                              ELSE OneTimeCompleted(rows[job])
  <2>1. CASE job \in CronJobs
    <3>1. row.status = rows[job].status /\ row.retryCount = 0
      BY <1>4, <1>8, <2>1 DEF CronCompleted, Update, Row
    <3>2. Lifecycle!Succeed(job)
      BY <1>4, <1>6, <2>1, <3>1 DEF Lifecycle!Succeed
    <3> QED
      BY <3>2 DEF Lifecycle!Next
  <2>2. CASE job \notin CronJobs
    <3>1. row.status = "completed" /\ row.retryCount = rows[job].retryCount
      BY <1>4, <1>8, <2>2 DEF OneTimeCompleted, Update, Row
    <3>2. Lifecycle!Succeed(job)
      BY <1>4, <1>6, <1>8, <2>2, <3>1
      DEF Lifecycle!Succeed, Lifecycle!Becomes
    <3> QED
      BY <3>2 DEF Lifecycle!Next
  <2> QED
    BY <2>1, <2>2
<1>9. ASSUME row.retryCount = OneMore(rows[job].retryCount)
      PROVE  Lifecycle!CountTry(job)
  BY <1>6, <1>9 DEF Lifecycle!CountTry, OneMore
<1>10. CASE rows[job].status # "deleted" /\ row = RetryScheduled(rows[job])
  <2>1. /\ row.status = rows[job].status
        /\ row.retryCount = OneMore(rows[job].retryCount)
    BY <1>4, <1>10 DEF RetryScheduled, Update, Row
  <2>2. Lifecycle!Fail(job)
    BY <1>4, <1>6, <1>9, <2>1 DEF Lifecycle!Fail
  <2> QED
    BY <2>2 DEF Lifecycle!Next
<1>11. CASE rows[job].status # "deleted" /\ FailPermanently(w)
            /\ row = FailedPermanently(rows[job])
  <2>1. /\ row.status = "failed_permanent"
        /\ row.retryCount = OneMore(rows[job].retryCount)
    BY <1>4, <1>11 DEF FailedPermanently, Update, Row
  <2>2. ASSUME job \notin CronJobs
        PROVE  \E limit \in LimitsOf(job) : rows[job].retryCount + 1 >= limit
    <3>1. msg[w] \in Message /\ msg[w].job = job /\ OnItsWay(msg[w])
      BY <1>1, <1>3, InHand, Underway DEF JobOf
    <3>2. msg[w].maxRetries \in LimitsOf(job)
      BY <3>1 DEF LimitsOf
    <3>3. /\ ~ (msg[w].attempt < msg[w].maxRetries)
          /\ msg[w].attempt <= rows[job].retryCount + 1
      BY <1>11, <2>2, <3>1
      DEF FailPermanently, RetryAllowed, ShouldRetry, NoneAhead, NotAhead
    <3>4. MaxRetries \in Int /\ Limits \subseteq Int
      BY MaxRetriesAssumption
    <3>5. /\ msg[w].attempt \in 1..(MaxRetries + 1)
          /\ msg[w].maxRetries \in Limits
          /\ rows[job].retryCount \in 0..MaxRetries
      BY <1>4, <3>1 DEF Message, Row
    <3>6. msg[w].attempt \in Int /\ rows[job].retryCount \in Int
      BY <3>4, <3>5
    <3>7. msg[w].maxRetries \in Int
      BY <3>4, <3>5
    <3>8. rows[job].retryCount + 1 >= msg[w].maxRetries
      BY <3>3, <3>6, <3>7
    <3> QED
      BY <3>2, <3>8
  <2>3. Lifecycle!GiveUp(job)
    BY <1>4, <1>6, <1>9, <1>11, <2>1, <2>2
    DEF Lifecycle!GiveUp, Lifecycle!Becomes
  <2> QED
    BY <2>3 DEF Lifecycle!Next
<1> QED
  BY <1>5, <1>7, <1>8, <1>10, <1>11

LEMMA MapLockJob ==
    ASSUME LimitsKept, TypeOK, TicketInv, NEW s \in Schedulers, LockJob(s)
    PROVE  Lifecycle!Next
<1>1. PICK snap \in batch[s] :
         /\ Lockable(rows[snap.job])
         /\ rows' = [rows EXCEPT ![snap.job] = Locked(@)]
         /\ cur' = [cur EXCEPT ![s] = snap]
  BY DEF LockJob
<1>2. PICK job \in Jobs : job = snap.job /\ rows[job] \in Row
  BY DEF TypeOK, Snapshot
<1>3. /\ rows[job].status = "active" /\ rows[job].lock = "free"
      /\ ~ HasTicket(job)
  BY <1>1, <1>2 DEF TicketInv, TicketsHeld, NoStaleRow, Lockable, Row
<1>4. /\ rows' = [rows EXCEPT ![job] = Locked(rows[job])]
      /\ Locked(rows[job]).status = rows[job].status
      /\ Locked(rows[job]).retryCount = rows[job].retryCount
  BY <1>1, <1>2 DEF Locked, Row
<1>5. /\ spc[s] = "lock" /\ spc' = [spc EXCEPT ![s] = "publish"]
      /\ UNCHANGED <<stream, pc, msg>>
  BY DEF LockJob, redisVars, workerVars
<1>6. \A t \in Schedulers, j \in Jobs :
         Publishing(t, j)' <=> Publishing(t, j) \/ (t = s /\ j = job)
  BY <1>1, <1>2, <1>5 DEF Publishing, TypeOK
<1>7. /\ \A i \in 1..Len(stream), j \in Jobs : Queued(i, j)' <=> Queued(i, j)
      /\ \A w \in Workers, j \in Jobs : Settling(w, j)' <=> Settling(w, j)
  BY <1>5 DEF Queued, Settling, JobOf
<1>8. HasTicket(job)'
  BY <1>6 DEF HasTicket
<1>9. \A j \in Jobs : j # job => (HasTicket(j)' <=> HasTicket(j))
  BY <1>5, <1>6, <1>7 DEF HasTicket
<1>10. job \notin Claimed /\ Claimed' = Claimed \cup {job}
  BY <1>3, <1>8, <1>9 DEF Claimed
<1>11. Status[job] = "active" /\ UNCHANGED <<Status, Tries>>
  BY <1>3, <1>4, RowChanges
<1>12. Lifecycle!Claim(job)
  BY <1>10, <1>11 DEF LimitsKept, Lifecycle!Claim
<1> QED
  BY <1>12 DEF Lifecycle!Next

\* A published snapshot and a consumed message hand their ticket on.
LEMMA MapPublish ==
    ASSUME LimitsKept, TypeOK, NEW s \in Schedulers, Publish(s)
    PROVE  Lifecycle!Next
<1> DEFINE m == MessageOf(cur[s])
<1>1. PICK job \in Jobs : job = cur[s].job /\ m \in Message /\ m.job = job
  BY MessageTypes DEF Publish, TypeOK, Snapshot, MessageOf
<1>0. PICK n \in Nat : n = Len(stream)
  BY LenProperties DEF TypeOK
<1>2. /\ Len(stream') = n + 1
      /\ \A i \in 1..n : stream'[i] = stream[i]
      /\ stream'[n + 1] = m
  BY <1>1, <1>0, AppendProperties DEF Publish, TypeOK
<1>3. Publishing(s, job)
  BY <1>1 DEF Publish, Publishing
<1>4. \A t \in Schedulers, j \in Jobs :
         Publishing(t, j)' <=> Publishing(t, j) /\ t # s
  BY DEF Publish, Publishing, TypeOK, AfterJob
<1>5. /\ rows' = rows
      /\ \A w \in Workers, j \in Jobs : Settling(w, j)' <=> Settling(w, j)
  BY DEF Publish, Settling, JobOf, dbVars, workerVars
<1>6. \A j \in Jobs : Publishing(s, j) => j = job
  BY <1>1 DEF Publishing
<1>7. \A i \in 1..n, j \in Jobs : Queued(i, j)' <=> Queued(i, j)
  BY <1>2 DEF Queued
<1>8. \A j \in Jobs : Queued(n + 1, j)' <=> j = job
  BY <1>1, <1>2 DEF Queued
<1>9. \A j \in Jobs : (\E i \in 1..Len(stream') : Queued(i, j)') <=>
                         (\E i \in 1..n : Queued(i, j)) \/ j = job
  <2>1. 1..Len(stream') = 1..n \cup {n + 1}
    BY <1>2
  <2> QED
    BY <1>7, <1>8, <2>1
<1>10. SameTickets
  BY <1>0, <1>3, <1>4, <1>5, <1>6, <1>9 DEF SameTickets, HasTicket
<1> QED
  BY <1>5, <1>10, Stutters

LEMMA MapConsume ==
    ASSUME LimitsKept, TypeOK, NEW w \in Workers, Consume(w)
    PROVE  Lifecycle!Next
<1>1. /\ Head(stream) = stream[1] /\ Head(stream) \in Message
      /\ Len(stream) \in Nat /\ Len(stream) >= 1
      /\ Len(stream') = Len(stream) - 1
      /\ \A i \in 1..Len(stream') : stream'[i] = stream[i + 1]
  BY HeadTailProperties DEF Consume, TypeOK
<1>2. PICK job \in Jobs : job = Head(stream).job
  BY <1>1 DEF Message
<1>3. /\ rows' = rows
      /\ \A s \in Schedulers, j \in Jobs : Publishing(s, j)' <=> Publishing(s, j)
  BY DEF Consume, Publishing, schedulerVars, dbVars
<1>4. \A v \in Workers, j \in Jobs :
         Settling(v, j)' <=> \/ Settling(v, j) /\ v # w
                             \/ v = w /\ j = job
  BY <1>2 DEF Consume, Settling, JobOf, TypeOK, BeforeOutcome
<1>5. \A j \in Jobs : ~ Settling(w, j)
  BY DEF Consume, Settling, BeforeOutcome
<1>6. \A i \in 1..Len(stream'), j \in Jobs :
         /\ i + 1 \in 1..Len(stream)
         /\ Queued(i, j)' <=> Queued(i + 1, j)
  BY <1>1 DEF Queued
<1>7. ASSUME NEW i \in 1..Len(stream), NEW j \in Jobs, Queued(i, j)
      PROVE  j = job \/ \E k \in 1..Len(stream') : Queued(k, j)'
  <2>1. CASE i = 1
    BY <1>1, <1>2, <1>7, <2>1 DEF Queued
  <2>2. CASE i # 1
    <3>1. i - 1 \in 1..Len(stream') /\ (i - 1) + 1 = i
      BY <1>1, <2>2
    <3>2. Queued(i - 1, j)'
      BY <1>6, <1>7, <3>1
    <3> QED
      BY <3>1, <3>2
  <2> QED
    BY <2>1, <2>2
<1>8. Queued(1, job) /\ 1 \in 1..Len(stream)
  BY <1>1, <1>2 DEF Queued
<1>9. SameTickets
  BY <1>3, <1>4, <1>5, <1>6, <1>7, <1>8 DEF SameTickets, HasTicket
<1> QED
  BY <1>3, <1>9, Stutters

\* A scheduler that dies between lockJob and publish loses a claim.
LEMMA MapSchedulerCrash ==
    ASSUME LimitsKept, TypeOK, TicketInv, NEW s \in Schedulers,
           SchedulerCrash(s)
    PROVE  Lifecycle!Next
<1>1. /\ rows' = rows
      /\ \A i \in 1..Len(stream), j \in Jobs : Queued(i, j)' <=> Queued(i, j)
      /\ stream' = stream
      /\ \A w \in Workers, j \in Jobs : Settling(w, j)' <=> Settling(w, j)
      /\ \A t \in Schedulers, j \in Jobs :
            Publishing(t, j)' <=> Publishing(t, j) /\ t # s
  BY DEF SchedulerCrash, Queued, Settling, JobOf, Publishing, TypeOK, dbVars,
         redisVars, workerVars
<1>2. CASE spc[s] = "publish"
  <2>1. PICK job \in Jobs : job = cur[s].job
    BY <1>2 DEF TypeOK, Snapshot
  <2>2. /\ Publishing(s, job)
        /\ \A j \in Jobs : Publishing(s, j) => j = job
    BY <1>2, <2>1 DEF Publishing
  <2>3. ~ HasTicket(job)'
    <3>1. /\ \A t \in Schedulers : t # s => ~ Publishing(t, job)
          /\ \A i \in 1..Len(stream) : ~ Queued(i, job)
          /\ \A w \in Workers : ~ Settling(w, job)
      BY <2>2 DEF TicketInv, OneTicket
    <3> QED
      BY <1>1, <3>1 DEF HasTicket
  <2>4. OthersKeep(job)
    BY <1>1, <2>2 DEF HasTicket, OthersKeep
  <2>5. HasTicket(job)
    BY <2>2 DEF HasTicket
  <2>6. Lifecycle!Lose(job)
    BY <1>1, <2>3, <2>4, <2>5, ClaimEnds, SameRows DEF Lifecycle!Lose
  <2> QED
    BY <2>6 DEF Lifecycle!Next
<1>3. CASE spc[s] # "publish"
  <2>1. \A j \in Jobs : ~ Publishing(s, j)
    BY <1>3 DEF Publishing
  <2>2. SameTickets
    BY <1>1, <2>1 DEF SameTickets, HasTicket
  <2> QED
    BY <1>1, <2>2, Stutters
<1> QED
  BY <1>2, <1>3

LEMMA MapScheduler ==
    ASSUME "error" \notin Events, LimitsKept, TypeOK, NoUnlock, TicketInv,
           NEW s \in Schedulers, SchedulerStep(s) \/ SchedulerTrouble(s)
    PROVE  Lifecycle!Next
<1>1. CASE GetDueJobs(s) \/ SkipLocked(s)
  <2>1. UNCHANGED <<rows, stream, pc, msg, cur>>
        /\ \A t \in Schedulers : spc'[t] = "publish" <=> spc[t] = "publish"
    BY <1>1 DEF GetDueJobs, SkipLocked, TypeOK, AfterJob, dbVars, redisVars,
                workerVars
  <2>2. SameTickets
    BY <2>1 DEF SameTickets, HasTicket, Publishing, Queued, Settling, JobOf
  <2> QED
    BY <2>1, <2>2, Stutters
<1> QED
  BY <1>1, MapLockJob, MapPublish, MapSchedulerCrash
  DEF SchedulerStep, SchedulerTrouble, UnlockJob, LockJobThrows,
      PublishThrows, Fault, NoUnlock

LEMMA MapClock ==
    ASSUME LimitsKept, TypeOK,
           Reclaim \/ UNCHANGED vars \/ \E j \in Jobs : Clock(j)
    PROVE  Lifecycle!Next
<1>1. UNCHANGED <<stream, spc, cur, pc, msg>>
  BY DEF Reclaim, vars, Clock, Fires, Ages, Expire, redisVars, schedulerVars,
         workerVars
<1>2. SameTickets
  BY <1>1 DEF SameTickets, HasTicket, Publishing, Queued, Settling, JobOf
<1>3. \A k \in Jobs : /\ rows'[k].status = rows[k].status
                      /\ rows'[k].retryCount = rows[k].retryCount
  <2>1. CASE rows' = rows
    BY <2>1
  <2>2. ASSUME NEW j \in Jobs, Clock(j)
        PROVE  \A k \in Jobs : /\ rows'[k].status = rows[k].status
                               /\ rows'[k].retryCount = rows[k].retryCount
    <3>1. /\ rows[j] \in Row
          /\ rows' \in {rows, [rows EXCEPT ![j] = Fired(rows[j])],
                        [rows EXCEPT ![j] = Aged(rows[j])]}
      BY <2>2 DEF Clock, Fires, Ages, Expire, TypeOK, dbVars
    <3>2. /\ Fired(rows[j]).status = rows[j].status
          /\ Aged(rows[j]).status = rows[j].status
          /\ Fired(rows[j]).retryCount = rows[j].retryCount
          /\ Aged(rows[j]).retryCount = rows[j].retryCount
      BY <3>1 DEF Fired, Aged, Row
    <3> QED
      BY <3>1, <3>2 DEF TypeOK
  <2> QED
    BY <2>1, <2>2 DEF Reclaim, vars, dbVars
<1> QED
  BY <1>2, <1>3, Stutters

LEMMA MapWorker ==
    ASSUME "error" \notin Events, LimitsKept, TypeOK, TicketInv, NoneAhead,
           NEW w \in Workers, WorkerAction(w) \/ WorkerTrouble(w)
    PROVE  Lifecycle!Next
<1>1. ASSUME RowlessAction(w) \/ WorkerTrouble(w)
      PROVE  Lifecycle!Next
  <2>1. Carried /\ UNCHANGED <<rows, spc, cur>>
    BY <1>1, RowlessCarries, TroubleCarries DEF schedulerVars
  <2>2. \A v \in Workers : v # w => pc'[v] = pc[v] /\ msg'[v] = msg[v]
    BY <1>1 DEF RowlessAction, Acquire, AcquireRefused, Drop, HandlerMissing,
        RecordStart, DuplicateStart, HandlerEnds, HandlerResolves,
        HandlerRejects, HandlerTimesOut, RecordSuccess, Acknowledge,
        RecordFailure, SendToDLQ, WriteToDLQTable, RecordDLQ, Release, Leave,
        Proceed, WorkerTrouble, Throws, ConsumeLost, AcquireReplyLost,
        LoopError, WorkerCrash, ZombieEnds, workerVars, TypeOK
  <2> QED
    BY <2>1, <2>2, LostOrSame
<1> QED
  BY <1>1, MapOutcome, MapConsume, WorkerActions

LEMMA MapInit == Init => Lifecycle!Init
<1> SUFFICES ASSUME Init PROVE Lifecycle!Init
  OBVIOUS
<1>1. \A j \in Jobs : ~ HasTicket(j)
  BY DEF Init, HasTicket, Publishing, Queued, Settling, BeforeOutcome
<1>2. \A j \in Jobs : rows[j].status = "active" /\ rows[j].retryCount = 0
  BY DEF Init, Created
<1>3. PICK limit \in [Jobs -> Limits] :
         \A j \in Jobs : rows[j].maxRetries = limit[j]
  BY DEF Init, Created
<1>4. \A j \in Jobs : LimitsOf(j) = {limit[j]}
  BY <1>3, NothingUnderway DEF LimitsOf
<1> QED
  BY <1>1, <1>2, <1>3, <1>4 DEF Lifecycle!Init, Status, Claimed, Tries

LEMMA MapNext ==
    ASSUME "error" \notin Events, TypeOK, NoUnlock, TicketInv, NoneAhead,
           [Next]_vars
    PROVE  [Lifecycle!Next]_(Lifecycle!vars)
BY StepKeepsLimits, MapScheduler, MapWorker, MapClock DEF Next

\* The pipeline implements the life of a job as JobLifecycle tells it: a claim
\* is settled once or lost, an end is an end, and a one-time job is given up
\* only when its attempts have reached its max_retries.  For any number of jobs, schedulers and
\* workers, through crashes, lapsed job locks and handlers given up, while no
\* row's lock turns stale and no call throws.
THEOREM PipelineRefines ==
    ASSUME "aging" \notin Events, "error" \notin Events
    PROVE  Spec => RefinesLifecycle
<1>1. TypeOK /\ NoUnlock /\ TicketInv /\ NoneAhead /\ [Next]_vars
         => [Lifecycle!Next]_(Lifecycle!vars)
  BY MapNext
<1>2. Init => Lifecycle!Init
  BY MapInit
<1> QED
  BY <1>1, <1>2, TypeCorrect, AheadInvariant, NeverUnlocks, TicketInvariant, PTL
  DEF Spec, RefinesLifecycle, Lifecycle!Spec

=============================================================================
