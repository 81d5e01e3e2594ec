---------------------------- MODULE LeaderElection --------------------------
(***************************************************************************)
(* Which node runs the scheduler: the election over one Redis key, its     *)
(* renewal, the callbacks that start and stop the scheduler's poll loop,   *)
(* and the shutdown of a node.                                             *)
(*                                                                         *)
(* A node is one thread: an action is what runs between two awaits.  A     *)
(* Redis command takes effect when it is sent and its reply is handled in  *)
(* a later action; anything may come in between.  An election that is due  *)
(* is the state "wait", how long it waits is left open.                    *)
(***************************************************************************)
EXTENDS Naturals, Sequences

CONSTANTS
    Nodes,
    Nobody,       \* the key is absent
    MaxReplies,   \* bound: renewals of a node under way, one per five seconds
    MaxFaults,    \* bound: events in a behaviour
    Events        \* what may happen besides the normal course

ASSUME ElectionAssumption ==
    /\ Nobody \notin Nodes
    /\ MaxReplies \in Nat \ {0} /\ MaxFaults \in Nat
    /\ Events \subseteq {"shutdown",  \* a signal stops a node
                         "crash",     \* a node dies
                         "error",     \* a call throws
                         "lease"}     \* the key expires under a leader that
                                      \* did not get to renew it in time

VARIABLES
    key,       \* whose token the leader key holds
    up,        \* a node's process: up, or a stage of its shutdown, or down
    epc,       \* its election: due, its acquire answered, or switched off
    isLeader,
    renewing,  \* the renewal interval is set
    replies,   \* answers of renewals that are still to be handled
    inited,    \* streamManager.initialized
    starting,  \* calls of scheduler.start that await initialize
    running,   \* scheduler.running
    polling,   \* poll loops inside _enqueueDueJobs
    timers,    \* poll loops that wait for their timer
    known,     \* the timer in scheduler.pollTimer is one of those
    faults

electionVars == <<epc, isLeader, renewing, replies>>
schedulerVars == <<inited, starting, running, polling, timers, known>>
vars == <<key, up, electionVars, schedulerVars, faults>>

Init ==
    /\ key = Nobody
    /\ up = [n \in Nodes |-> "down"]
    /\ epc = [n \in Nodes |-> "off"]
    /\ isLeader = [n \in Nodes |-> FALSE]
    /\ renewing = [n \in Nodes |-> FALSE]
    /\ replies = [n \in Nodes |-> <<>>]
    /\ inited = [n \in Nodes |-> FALSE]
    /\ starting = [n \in Nodes |-> 0]
    /\ running = [n \in Nodes |-> FALSE]
    /\ polling = [n \in Nodes |-> 0]
    /\ timers = [n \in Nodes |-> 0]
    /\ known = [n \in Nodes |-> FALSE]
    /\ faults = 0

Fault(kind) == kind \in Events /\ faults < MaxFaults /\ faults' = faults + 1

-----------------------------------------------------------------------------
(* Scheduler: start, stop, _pollLoop                                       *)

\* start(): the test of running comes before the await, which lasts only
\* while the consumer group has not been created.
StartScheduler(n) ==
    /\ starting' = [starting EXCEPT ![n] =
                       IF running[n] \/ inited[n] THEN @ ELSE @ + 1]
    /\ running' = [running EXCEPT ![n] = @ \/ inited[n]]
    /\ polling' = [polling EXCEPT ![n] =
                       IF ~ running[n] /\ inited[n] THEN @ + 1 ELSE @]
    /\ UNCHANGED <<inited, timers, known>>

\* Mutant: the flag stays set.
StopTimerOnly(n) ==
    /\ timers' = [timers EXCEPT ![n] = IF known[n] THEN @ - 1 ELSE @]
    /\ known' = [known EXCEPT ![n] = FALSE]
    /\ UNCHANGED <<inited, starting, polling, running>>

\* Mutant: the cleared timer is still taken for armed.
StopKeepingTimer(n) ==
    /\ running' = [running EXCEPT ![n] = FALSE]
    /\ timers' = [timers EXCEPT ![n] = IF known[n] THEN @ - 1 ELSE @]
    /\ UNCHANGED <<inited, starting, polling, known>>

\* stop(): clears the timer it knows of; a loop inside _enqueueDueJobs goes on.
StopScheduler(n) ==
    /\ running' = [running EXCEPT ![n] = FALSE]
    /\ timers' = [timers EXCEPT ![n] = IF known[n] THEN @ - 1 ELSE @]
    /\ known' = [known EXCEPT ![n] = FALSE]
    /\ UNCHANGED <<inited, starting, polling>>

\* The rest of start(), whatever happened during the await.  An initialize
\* that throws ends in shutdown by way of unhandledRejection.
Initialized(n) ==
    /\ starting[n] > 0
    /\ starting' = [starting EXCEPT ![n] = @ - 1]
    /\ inited' = [inited EXCEPT ![n] = TRUE]
    /\ running' = [running EXCEPT ![n] = TRUE]
    /\ polling' = [polling EXCEPT ![n] = @ + 1]
    /\ UNCHANGED <<key, up, electionVars, timers, known, faults>>

\* _enqueueDueJobs has returned, or thrown.
PollEnds(n) ==
    /\ polling[n] > 0
    /\ polling' = [polling EXCEPT ![n] = @ - 1]
    /\ timers' = [timers EXCEPT ![n] = IF running[n] THEN @ + 1 ELSE @]
    /\ known' = [known EXCEPT ![n] = @ \/ running[n]]
    /\ UNCHANGED <<key, up, electionVars, inited, starting, running, faults>>

\* A poll timer fires: the last one set, or one the scheduler has forgotten.
PollTimer(n) ==
    /\ timers[n] > 0
    /\ \/ known[n] /\ known' = [known EXCEPT ![n] = FALSE]
       \/ (known[n] => timers[n] > 1) /\ UNCHANGED known
    /\ timers' = [timers EXCEPT ![n] = @ - 1]
    /\ polling' = [polling EXCEPT ![n] = IF running[n] THEN @ + 1 ELSE @]
    /\ UNCHANGED <<key, up, electionVars, inited, starting, running, faults>>

-----------------------------------------------------------------------------
(* LeaderElection: _runElection, _startRenewal                             *)

\* election.start().
Boot(n) ==
    /\ up[n] = "down"
    /\ up' = [up EXCEPT ![n] = "up"]
    /\ epc' = [epc EXCEPT ![n] = "wait"]
    /\ UNCHANGED <<key, isLeader, renewing, replies, schedulerVars, faults>>

\* Mutant: SET without NX.
ElectWithoutNX(n) ==
    /\ epc[n] = "wait" /\ ~ isLeader[n]
    /\ key' = n /\ epc' = [epc EXCEPT ![n] = "won"]
    /\ UNCHANGED <<up, isLeader, renewing, replies, schedulerVars, faults>>

\* SET NX of the token of a new DistributedLock.  A token of this node that
\* the key still holds, from an earlier term or process, refuses it as well;
\* so that the key holds n's token exactly when it holds that of its lock.
Elect(n) ==
    /\ epc[n] = "wait" /\ ~ isLeader[n]
    /\ IF key = Nobody
       THEN key' = n /\ epc' = [epc EXCEPT ![n] = "won"]
       ELSE epc' = [epc EXCEPT ![n] = "lost"] /\ UNCHANGED key
    /\ UNCHANGED <<up, isLeader, renewing, replies, schedulerVars, faults>>

\* The next attempt is scheduled unless stop() was called.
NextElection(n) == IF up[n] = "up" THEN "wait" ELSE "off"

\* Mutant: the renewal is not started.
WonUnrenewed(n) ==
    /\ epc[n] = "won"
    /\ isLeader' = [isLeader EXCEPT ![n] = TRUE]
    /\ epc' = [epc EXCEPT ![n] = NextElection(n)]
    /\ StartScheduler(n)
    /\ UNCHANGED <<key, up, renewing, replies, faults>>

\* Mutant: the callback is forgotten.
WonSilently(n) ==
    /\ epc[n] = "won"
    /\ isLeader' = [isLeader EXCEPT ![n] = TRUE]
    /\ renewing' = [renewing EXCEPT ![n] = TRUE]
    /\ epc' = [epc EXCEPT ![n] = NextElection(n)]
    /\ UNCHANGED <<key, up, replies, schedulerVars, faults>>

Won(n) ==
    /\ epc[n] = "won"
    /\ isLeader' = [isLeader EXCEPT ![n] = TRUE]
    /\ renewing' = [renewing EXCEPT ![n] = TRUE]
    /\ epc' = [epc EXCEPT ![n] = NextElection(n)]
    /\ StartScheduler(n)
    /\ UNCHANGED <<key, up, replies, faults>>

Lost(n) ==
    /\ epc[n] = "lost"
    /\ epc' = [epc EXCEPT ![n] = NextElection(n)]
    /\ UNCHANGED <<key, up, isLeader, renewing, replies, schedulerVars, faults>>

\* The reply of a successful acquire is lost: acquire throws, or the client
\* sends it again and is refused by its own token.
WonUnnoticed(n) ==
    /\ epc[n] = "won" /\ Fault("error")
    /\ epc' = [epc EXCEPT ![n] = NextElection(n)]
    /\ UNCHANGED <<key, up, isLeader, renewing, replies, schedulerVars>>

\* A tick of the renewal interval; ticks do not wait for one another.
Renew(n) ==
    /\ renewing[n] /\ up[n] = "up" /\ isLeader[n]
    /\ Len(replies[n]) < MaxReplies
    /\ replies' = [replies EXCEPT ![n] = Append(@, key = n)]
    /\ UNCHANGED <<key, up, epc, isLeader, renewing, schedulerVars, faults>>

RenewalSucceeds(n) ==
    /\ replies[n] # <<>> /\ Head(replies[n])
    /\ replies' = [replies EXCEPT ![n] = Tail(@)]
    /\ UNCHANGED <<key, up, epc, isLeader, renewing, schedulerVars, faults>>

\* Mutant: a lost key is only logged, as startAutoExtend does for job locks.
RenewalLogged(n) ==
    /\ replies[n] # <<>>
    /\ \/ ~ Head(replies[n]) /\ UNCHANGED faults
       \/ Fault("error")
    /\ replies' = [replies EXCEPT ![n] = Tail(@)]
    /\ UNCHANGED <<key, up, epc, isLeader, renewing, schedulerVars>>

\* extend returned false or threw: leadership is given up, also one that was
\* won after this renewal was sent.
RenewalFails(n) ==
    /\ replies[n] # <<>>
    /\ \/ ~ Head(replies[n]) /\ UNCHANGED faults
       \/ Fault("error")
    /\ replies' = [replies EXCEPT ![n] = Tail(@)]
    /\ isLeader' = [isLeader EXCEPT ![n] = FALSE]
    /\ renewing' = [renewing EXCEPT ![n] = FALSE]
    /\ StopScheduler(n)
    /\ UNCHANGED <<key, up, epc>>

-----------------------------------------------------------------------------
(* main: shutdown                                                          *)

StopElection(n) ==
    /\ epc' = [epc EXCEPT ![n] = IF @ = "wait" THEN "off" ELSE @]
    /\ renewing' = [renewing EXCEPT ![n] = FALSE]

\* Mutant: DEL without comparing the token.
ReleasedUnchecked(n) == Nobody

Released(n) == IF key = n THEN Nobody ELSE key

\* election.stop() of a leader: the key is given back, and the scheduler runs
\* until the reply is there.
Resign(n) ==
    /\ up[n] = "up" /\ isLeader[n] /\ Fault("shutdown")
    /\ up' = [up EXCEPT ![n] = "resigning"]
    /\ StopElection(n)
    /\ key' = Released(n)
    /\ UNCHANGED <<isLeader, replies, schedulerVars>>

Resigned(n) ==
    /\ up[n] = "resigning"
    /\ up' = [up EXCEPT ![n] = "draining"]
    /\ isLeader' = [isLeader EXCEPT ![n] = FALSE]
    /\ StopScheduler(n)
    /\ UNCHANGED <<key, epc, renewing, replies, faults>>

\* election.stop() of another node, and scheduler.stop().
Withdraw(n) ==
    /\ up[n] = "up" /\ ~ isLeader[n] /\ Fault("shutdown")
    /\ up' = [up EXCEPT ![n] = "draining"]
    /\ StopElection(n)
    /\ StopScheduler(n)
    /\ UNCHANGED <<key, isLeader, replies>>

\* The end of the process and all its memory.
Gone(n) ==
    /\ up' = [up EXCEPT ![n] = "down"]
    /\ epc' = [epc EXCEPT ![n] = "off"]
    /\ isLeader' = [isLeader EXCEPT ![n] = FALSE]
    /\ renewing' = [renewing EXCEPT ![n] = FALSE]
    /\ replies' = [replies EXCEPT ![n] = <<>>]
    /\ inited' = [inited EXCEPT ![n] = FALSE]
    /\ starting' = [starting EXCEPT ![n] = 0]
    /\ running' = [running EXCEPT ![n] = FALSE]
    /\ polling' = [polling EXCEPT ![n] = 0]
    /\ timers' = [timers EXCEPT ![n] = 0]
    /\ known' = [known EXCEPT ![n] = FALSE]
    /\ UNCHANGED key

\* The worker has stopped, the connections are closed: process.exit.
Exit(n) == up[n] = "draining" /\ Gone(n) /\ UNCHANGED faults

Crash(n) == up[n] # "down" /\ Fault("crash") /\ Gone(n)

-----------------------------------------------------------------------------

\* Mutant: the interval goes on after leadership is lost.
KeepsKeyForEver(n) == up[n] = "up"

\* A node keeps its key from running out from the acquire on, for as long as
\* its interval renews it.
KeepsKey(n) ==
    up[n] = "up" /\ (epc[n] = "won" \/ (isLeader[n] /\ renewing[n]))

Expire ==
    /\ key # Nobody
    /\ \/ ~ KeepsKey(key) /\ UNCHANGED faults
       \/ KeepsKey(key) /\ Fault("lease")
    /\ key' = Nobody
    /\ UNCHANGED <<up, electionVars, schedulerVars>>

ElectionStep(n) == Elect(n) \/ Won(n) \/ Lost(n)

RenewalReply(n) == RenewalSucceeds(n) \/ RenewalFails(n)

SchedulerStep(n) == Initialized(n) \/ PollEnds(n) \/ PollTimer(n)

NodeStep(n) ==
    \/ Boot(n) \/ ElectionStep(n) \/ WonUnnoticed(n)
    \/ Renew(n) \/ RenewalReply(n)
    \/ SchedulerStep(n)
    \/ Resign(n) \/ Resigned(n) \/ Withdraw(n) \/ Exit(n) \/ Crash(n)

Next == Expire \/ \E n \in Nodes : NodeStep(n)

Spec == Init /\ [][Next]_vars

-----------------------------------------------------------------------------
(* Properties                                                              *)

\* Types; nothing of a node's memory outlives its process.
TypeOK ==
    /\ key \in Nodes \cup {Nobody}
    /\ up \in [Nodes -> {"up", "resigning", "draining", "down"}]
    /\ epc \in [Nodes -> {"wait", "won", "lost", "off"}]
    /\ isLeader \in [Nodes -> BOOLEAN] /\ renewing \in [Nodes -> BOOLEAN]
    /\ replies \in [Nodes -> Seq(BOOLEAN)]
    /\ inited \in [Nodes -> BOOLEAN] /\ running \in [Nodes -> BOOLEAN]
    /\ starting \in [Nodes -> Nat] /\ polling \in [Nodes -> Nat]
    /\ timers \in [Nodes -> Nat] /\ known \in [Nodes -> BOOLEAN]
    /\ faults \in 0..MaxFaults
    /\ \A n \in Nodes : known[n] => timers[n] > 0
    /\ \A n \in Nodes : up[n] = "down" => ~ isLeader[n] /\ starting[n] = 0

\* leader-election.js:4 "Only one node in the cluster is the leader at any
\* time": while no lease runs out under a stalled leader, a node that takes
\* itself for the leader holds the key, through errors, crashes, resignations
\* and answers that arrive after the term they were asked for.
LeaderOwnsKey == \A n \in Nodes : up[n] = "up" /\ isLeader[n] => key = n

\* A node that is to schedule has a poll loop alive, however starts and stops
\* overlap with a poll under way and with each other.
RunningPolls == \A n \in Nodes : running[n] => polling[n] + timers[n] > 0

\* Also when leases run out, a leader's key is not taken away by another node:
\* it disappears by its own expiry or by its owner's resignation.
OnlyOwnerGivesUp ==
    [][\A n \in Nodes :
          key = n /\ key' # n =>
             key' = Nobody /\ (up' = up \/ (up[n] = "up" /\ up'[n] = "resigning"))]_vars

\* The leader key as ExclusiveLock sees it: used by the nodes that lead.
LeaderKey ==
    INSTANCE ExclusiveLock
    WITH Locks <- {"leader"}, Holders <- Nodes,
         holder <- [l \in {"leader"} |-> key],
         users <- [l \in {"leader"} |->
                      {n \in Nodes : up[n] = "up" /\ isLeader[n]}],
         LeasesLapse <- "lease" \in Events

\* The election uses the key as the lock module means it, also when replies
\* are lost and when a node resigns, dies or learns late that it has lost.
RefinesLock == LeaderKey!Spec

\* Timers fire, every command gets a reply or throws, and keys expire.  A node
\* that is down need not come back, none of the events need happen.
Fairness ==
    /\ WF_vars(Expire)
    /\ \A n \in Nodes :
          /\ WF_vars(ElectionStep(n))
          /\ WF_vars(Renew(n)) /\ WF_vars(RenewalReply(n))
          /\ WF_vars(Initialized(n)) /\ WF_vars(PollEnds(n))
          /\ WF_vars(PollTimer(n)) /\ WF_vars(Resigned(n)) /\ WF_vars(Exit(n))

FairSpec == Spec /\ Fairness

\* The cluster is not left without a leader while a node stays up, whatever
\* token a dead or deposed leader has left in the key.
SomeoneLeads ==
    (\E n \in Nodes : <>[](up[n] = "up")) => []<>(\E n \in Nodes : isLeader[n])

\* "If lost, stop leader duties": a leader whose lease ran out finds out, and
\* steps down until it has won the key again.
DeposedStepsDown ==
    \A n \in Nodes : isLeader[n] /\ key # n ~> ~ isLeader[n] \/ key = n

\* A node that stays leader schedules, however its terms before ended.
LeaderSchedules == \A n \in Nodes : isLeader[n] ~> running[n] \/ ~ isLeader[n]

=============================================================================
