------------------------ MODULE LeaderElectionProofs ------------------------
(***************************************************************************)
(* Theorems about LeaderElection for any number of nodes and any bounds.   *)
(***************************************************************************)
EXTENDS LeaderElection, SequenceTheorems, TLAPS

LEMMA TypeInit == Init => TypeOK
BY ElectionAssumption DEF Init, TypeOK

LEMMA FaultType ==
    ASSUME TypeOK, NEW kind, Fault(kind) PROVE faults' \in 0..MaxFaults
BY ElectionAssumption DEF TypeOK, Fault

LEMMA TypeStartScheduler ==
    ASSUME TypeOK, NEW n \in Nodes, up[n] # "down", StartScheduler(n)
    PROVE  /\ inited' \in [Nodes -> BOOLEAN] /\ running' \in [Nodes -> BOOLEAN]
           /\ starting' \in [Nodes -> Nat] /\ polling' \in [Nodes -> Nat]
           /\ timers' \in [Nodes -> Nat] /\ known' \in [Nodes -> BOOLEAN]
           /\ \A m \in Nodes : known'[m] => timers'[m] > 0
           /\ \A m \in Nodes : up[m] = "down" => starting'[m] = 0
BY DEF TypeOK, StartScheduler

LEMMA TypeStopScheduler ==
    ASSUME TypeOK, NEW n \in Nodes, StopScheduler(n)
    PROVE  /\ inited' \in [Nodes -> BOOLEAN] /\ running' \in [Nodes -> BOOLEAN]
           /\ starting' \in [Nodes -> Nat] /\ polling' \in [Nodes -> Nat]
           /\ timers' \in [Nodes -> Nat] /\ known' \in [Nodes -> BOOLEAN]
           /\ \A m \in Nodes : known'[m] => timers'[m] > 0
           /\ \A m \in Nodes : up[m] = "down" => starting'[m] = 0
BY DEF TypeOK, StopScheduler

LEMMA TypeScheduler ==
    ASSUME TypeOK, NEW n \in Nodes, SchedulerStep(n) PROVE TypeOK'
<1>1. CASE Initialized(n)
  BY <1>1 DEF TypeOK, Initialized, electionVars
<1>2. CASE PollEnds(n)
  <2>1. /\ polling' \in [Nodes -> Nat] /\ timers' \in [Nodes -> Nat]
        /\ known' \in [Nodes -> BOOLEAN]
    BY <1>2 DEF TypeOK, PollEnds
  <2>2. \A m \in Nodes : known'[m] => timers'[m] > 0
    <3> TAKE m \in Nodes
    <3>1. CASE m = n
      <4>1. known'[n] = (known[n] \/ running[n])
        BY <1>2 DEF TypeOK, PollEnds
      <4>2. timers'[n] = IF running[n] THEN timers[n] + 1 ELSE timers[n]
        BY <1>2 DEF TypeOK, PollEnds
      <4> QED
        BY <3>1, <4>1, <4>2 DEF TypeOK
    <3>2. CASE m # n
      BY <1>2, <3>2 DEF TypeOK, PollEnds
    <3> QED
      BY <3>1, <3>2
  <2> QED
    BY <1>2, <2>1, <2>2 DEF TypeOK, PollEnds, electionVars
<1>3. CASE PollTimer(n)
  <2>1. known' \in [Nodes -> BOOLEAN]
    BY <1>3 DEF TypeOK, PollTimer
  <2>2. polling' \in [Nodes -> Nat] /\ timers' \in [Nodes -> Nat]
    BY <1>3 DEF TypeOK, PollTimer
  <2>3. \A m \in Nodes : known'[m] => timers'[m] > 0
    <3>1. timers' = [timers EXCEPT ![n] = @ - 1]
      BY <1>3 DEF PollTimer
    <3>2. CASE known[n] /\ known' = [known EXCEPT ![n] = FALSE]
      BY <3>1, <3>2 DEF TypeOK
    <3>3. CASE (known[n] => timers[n] > 1) /\ UNCHANGED known
      BY <3>1, <3>3 DEF TypeOK
    <3> QED
      BY <1>3, <3>2, <3>3 DEF PollTimer
  <2> QED
    BY <1>3, <2>1, <2>2, <2>3 DEF TypeOK, PollTimer, electionVars
<1> QED
  BY <1>1, <1>2, <1>3 DEF SchedulerStep

\* An election is switched off while its node is down.
Asleep == \A n \in Nodes : up[n] = "down" => epc[n] = "off" /\ replies[n] = <<>>

LEMMA TypeElection ==
    ASSUME TypeOK, Asleep, NEW n \in Nodes,
           Boot(n) \/ ElectionStep(n) \/ WonUnnoticed(n)
    PROVE  TypeOK'
<1> USE DEF electionVars, schedulerVars, NextElection
<1>1. CASE Boot(n)
  BY <1>1 DEF TypeOK, Boot
<1>2. CASE Elect(n)
  BY <1>2 DEF TypeOK, Elect
<1>3. CASE Won(n)
  <2>1. up[n] # "down"
    BY <1>3 DEF Won, Asleep
  <2> QED
    BY <1>3, <2>1, TypeStartScheduler DEF TypeOK, Won
<1>4. CASE Lost(n)
  BY <1>4 DEF TypeOK, Lost
<1>5. CASE WonUnnoticed(n)
  BY <1>5, FaultType DEF TypeOK, WonUnnoticed
<1> QED
  BY <1>1, <1>2, <1>3, <1>4, <1>5 DEF ElectionStep

LEMMA RepliesType ==
    ASSUME NEW s \in Seq(BOOLEAN)
    PROVE  /\ \A b \in BOOLEAN : Append(s, b) \in Seq(BOOLEAN)
           /\ s # <<>> => Tail(s) \in Seq(BOOLEAN)
BY HeadTailProperties, AppendProperties

LEMMA TypeRenewal ==
    ASSUME TypeOK, NEW n \in Nodes, Renew(n) \/ RenewalReply(n) PROVE TypeOK'
<1> USE DEF electionVars, schedulerVars
<1>0. replies[n] \in Seq(BOOLEAN)
  BY DEF TypeOK
<1>1. CASE Renew(n)
  <2>1. Append(replies[n], key = n) \in Seq(BOOLEAN)
    BY <1>0, RepliesType
  <2> QED
    BY <1>1, <2>1 DEF TypeOK, Renew
<1>2. CASE RenewalSucceeds(n)
  <2>1. Tail(replies[n]) \in Seq(BOOLEAN)
    BY <1>0, <1>2, RepliesType DEF RenewalSucceeds
  <2> QED
    BY <1>2, <2>1 DEF TypeOK, RenewalSucceeds
<1>3. CASE RenewalFails(n)
  <2>1. Tail(replies[n]) \in Seq(BOOLEAN)
    BY <1>0, <1>3, RepliesType DEF RenewalFails
  <2>2. faults' \in 0..MaxFaults
    BY <1>3, FaultType DEF RenewalFails, TypeOK
  <2> QED
    BY <1>3, <2>1, <2>2, TypeStopScheduler DEF TypeOK, RenewalFails
<1> QED
  BY <1>1, <1>2, <1>3 DEF RenewalReply

LEMMA TypeGone ==
    ASSUME TypeOK, NEW n \in Nodes, Gone(n), faults' \in 0..MaxFaults
    PROVE  TypeOK'
BY DEF TypeOK, Gone

LEMMA TypeShutdown ==
    ASSUME TypeOK, NEW n \in Nodes,
           Resign(n) \/ Resigned(n) \/ Withdraw(n) \/ Exit(n) \/ Crash(n)
    PROVE  TypeOK'
<1> USE DEF electionVars, schedulerVars
<1>1. CASE Resign(n)
  BY <1>1, FaultType DEF TypeOK, Resign, StopElection, Released
<1>2. CASE Resigned(n)
  BY <1>2, TypeStopScheduler DEF TypeOK, Resigned
<1>3. CASE Withdraw(n)
  BY <1>3, FaultType, TypeStopScheduler DEF TypeOK, Withdraw, StopElection
<1>4. CASE Exit(n)
  BY <1>4, TypeGone DEF Exit, TypeOK
<1>5. CASE Crash(n)
  BY <1>5, FaultType, TypeGone DEF Crash
<1> QED
  BY <1>1, <1>2, <1>3, <1>4, <1>5

LEMMA AsleepStep == TypeOK /\ Asleep /\ [Next]_vars => Asleep'
<1> SUFFICES ASSUME TypeOK, Asleep, [Next]_vars PROVE Asleep'
  OBVIOUS
<1> USE DEF Asleep, TypeOK, electionVars, schedulerVars
<1>1. ASSUME NEW n \in Nodes, NodeStep(n) PROVE Asleep'
  <2>1. CASE Boot(n)
    BY <2>1 DEF Boot
  <2>2. CASE ElectionStep(n) \/ WonUnnoticed(n)
    BY <2>2 DEF ElectionStep, Elect, Won, Lost, WonUnnoticed
  <2>3. CASE Renew(n) \/ RenewalReply(n)
    BY <2>3 DEF Renew, RenewalReply, RenewalSucceeds, RenewalFails
  <2>4. CASE SchedulerStep(n)
    BY <2>4 DEF SchedulerStep, Initialized, PollEnds, PollTimer
  <2>5. CASE Resign(n) \/ Resigned(n) \/ Withdraw(n)
    BY <2>5 DEF Resign, Resigned, Withdraw, StopElection
  <2>6. CASE Exit(n) \/ Crash(n)
    BY <2>6 DEF Exit, Crash, Gone
  <2> QED
    BY <1>1, <2>1, <2>2, <2>3, <2>4, <2>5, <2>6 DEF NodeStep
<1>2. CASE Expire \/ UNCHANGED vars
  BY <1>2 DEF Expire, vars
<1> QED
  BY <1>1, <1>2 DEF Next

LEMMA TypeStep == TypeOK /\ Asleep /\ [Next]_vars => TypeOK'
<1> SUFFICES ASSUME TypeOK, Asleep, [Next]_vars PROVE TypeOK'
  OBVIOUS
<1>1. CASE UNCHANGED vars
  BY <1>1 DEF TypeOK, vars, electionVars, schedulerVars
<1>2. CASE Expire
  BY <1>2, FaultType DEF TypeOK, Expire, electionVars, schedulerVars
<1>3. ASSUME NEW n \in Nodes, NodeStep(n) PROVE TypeOK'
  BY <1>3, TypeElection, TypeRenewal, TypeScheduler, TypeShutdown DEF NodeStep
<1> QED
  BY <1>1, <1>2, <1>3 DEF Next

\* The types of all variables, under all events.
THEOREM TypeCorrect == Spec => [](TypeOK /\ Asleep)
<1>1. Init => TypeOK /\ Asleep
  BY TypeInit DEF Init, Asleep
<1>2. TypeOK /\ Asleep /\ [Next]_vars => (TypeOK /\ Asleep)'
  BY TypeStep, AsleepStep
<1> QED
  BY <1>1, <1>2, PTL DEF Spec

-----------------------------------------------------------------------------
(* A leader owns the key.                                                  *)

\* The leader's key is kept by its renewal, so the renewal belongs to the
\* invariant; and the key is the node's from the acquire on, before the node
\* knows.
LeaderInv ==
    \A n \in Nodes :
       up[n] = "up" =>
          /\ isLeader[n] => key = n /\ renewing[n]
          /\ epc[n] = "won" => key = n

LEMMA LeaderStep ==
    ASSUME "lease" \notin Events, TypeOK, LeaderInv, [Next]_vars
    PROVE  LeaderInv'
<1> USE DEF LeaderInv, TypeOK, electionVars, schedulerVars
<1>1. ASSUME NEW n \in Nodes, NodeStep(n) PROVE LeaderInv'
  <2>1. CASE Boot(n)
    BY <2>1 DEF Boot
  <2>2. CASE Elect(n)
    BY <2>2, ElectionAssumption DEF Elect
  <2>3. CASE Won(n)
    BY <2>3 DEF Won, NextElection
  <2>4. CASE Lost(n) \/ WonUnnoticed(n)
    BY <2>4 DEF Lost, WonUnnoticed, NextElection
  <2>5. CASE Renew(n) \/ RenewalReply(n)
    BY <2>5 DEF Renew, RenewalReply, RenewalSucceeds, RenewalFails
  <2>6. CASE SchedulerStep(n)
    BY <2>6 DEF SchedulerStep, Initialized, PollEnds, PollTimer
  <2>7. CASE Resign(n) \/ Resigned(n) \/ Withdraw(n)
    BY <2>7 DEF Resign, Resigned, Withdraw, StopElection, Released
  <2>8. CASE Exit(n) \/ Crash(n)
    BY <2>8 DEF Exit, Crash, Gone
  <2> QED
    BY <1>1, <2>1, <2>2, <2>3, <2>4, <2>5, <2>6, <2>7, <2>8
    DEF NodeStep, ElectionStep
<1>2. CASE Expire
  BY <1>2 DEF Expire, KeepsKey, Fault
<1>3. CASE UNCHANGED vars
  BY <1>3 DEF vars
<1> QED
  BY <1>1, <1>2, <1>3 DEF Next

\* While no lease runs out under a stalled leader, every node that takes itself
\* for the leader holds the key, so that there is one at most: for any number
\* of nodes and under crashes, errors and shutdowns.
THEOREM LeaderIsUnique ==
    ASSUME "lease" \notin Events PROVE Spec => []LeaderOwnsKey
<1>1. Init => LeaderInv
  BY DEF Init, LeaderInv
<1>2. TypeOK /\ LeaderInv /\ [Next]_vars => LeaderInv'
  BY LeaderStep
<1>3. LeaderInv => LeaderOwnsKey
  BY DEF LeaderInv, LeaderOwnsKey
<1> QED
  BY <1>1, <1>2, <1>3, TypeCorrect, PTL DEF Spec

-----------------------------------------------------------------------------
(* A scheduler that runs polls.                                            *)

LEMMA PollsStep ==
    ASSUME TypeOK, RunningPolls, [Next]_vars PROVE RunningPolls'
<1> USE DEF RunningPolls, TypeOK, electionVars, schedulerVars
<1>1. ASSUME NEW n \in Nodes, NodeStep(n) PROVE RunningPolls'
  <2>1. CASE Won(n)
    BY <2>1 DEF Won, StartScheduler
  <2>2. CASE Boot(n) \/ Elect(n) \/ Lost(n) \/ WonUnnoticed(n)
    BY <2>2 DEF Boot, Elect, Lost, WonUnnoticed
  <2>3. CASE Renew(n) \/ RenewalSucceeds(n)
    BY <2>3 DEF Renew, RenewalSucceeds
  <2>4. CASE RenewalFails(n) \/ Resigned(n) \/ Withdraw(n)
    BY <2>4 DEF RenewalFails, Resigned, Withdraw, StopScheduler
  <2>5. CASE Resign(n)
    BY <2>5 DEF Resign
  <2>6. CASE Initialized(n)
    BY <2>6 DEF Initialized
  <2>7. CASE PollEnds(n)
    BY <2>7 DEF PollEnds
  <2>8. CASE PollTimer(n)
    BY <2>8 DEF PollTimer
  <2>9. CASE Exit(n) \/ Crash(n)
    BY <2>9 DEF Exit, Crash, Gone
  <2> QED
    BY <1>1, <2>1, <2>2, <2>3, <2>4, <2>5, <2>6, <2>7, <2>8, <2>9
    DEF NodeStep, ElectionStep, RenewalReply, SchedulerStep
<1>2. CASE Expire \/ UNCHANGED vars
  BY <1>2 DEF Expire, vars
<1> QED
  BY <1>1, <1>2 DEF Next

\* However its starts and stops overlap, a scheduler whose running flag is set
\* has a poll loop alive.
THEOREM PollingGoesOn == Spec => []RunningPolls
<1>1. Init => RunningPolls
  BY DEF Init, RunningPolls
<1>2. TypeOK /\ RunningPolls /\ [Next]_vars => RunningPolls'
  BY PollsStep
<1> QED
  BY <1>1, <1>2, TypeCorrect, PTL DEF Spec

-----------------------------------------------------------------------------
(* The key of a leader is its own to give up.                              *)

GivesUp ==
    \A n \in Nodes :
       key = n /\ key' # n =>
          key' = Nobody /\ (up' = up \/ (up[n] = "up" /\ up'[n] = "resigning"))

LEMMA GivesUpStep == TypeOK /\ Asleep /\ [Next]_vars => GivesUp
<1> SUFFICES ASSUME TypeOK, [Next]_vars PROVE GivesUp
  OBVIOUS
<1> USE DEF GivesUp
<1>1. CASE UNCHANGED key
  BY <1>1
<1>2. CASE Expire
  BY <1>2 DEF Expire
<1>3. ASSUME NEW n \in Nodes, Elect(n) PROVE GivesUp
  BY <1>3, ElectionAssumption DEF Elect
<1>4. ASSUME NEW n \in Nodes, Resign(n) PROVE GivesUp
  BY <1>4 DEF Resign, Released, TypeOK
<1>5. ASSUME NEW n \in Nodes, NodeStep(n), ~ Elect(n), ~ Resign(n)
      PROVE  UNCHANGED key
  BY <1>5 DEF NodeStep, Boot, ElectionStep, Won, Lost, WonUnnoticed, Renew,
     RenewalReply, RenewalSucceeds, RenewalFails, SchedulerStep, Initialized,
     PollEnds, PollTimer, Resigned, Withdraw, Exit, Crash, Gone
<1> QED
  BY <1>1, <1>2, <1>3, <1>4, <1>5 DEF Next, vars

\* Under all events, lapsed leases included, no node takes the key of another:
\* the comparison of tokens in the release script suffices.
THEOREM ResignationIsSafe == Spec => OnlyOwnerGivesUp
<1>1. OnlyOwnerGivesUp <=> [][GivesUp]_vars
  BY DEF OnlyOwnerGivesUp, GivesUp
<1> QED
  BY <1>1, GivesUpStep, TypeCorrect, PTL DEF Spec

-----------------------------------------------------------------------------
(* The leader key refines ExclusiveLock: a term is a use of the key.       *)

Leading == {n \in Nodes : up[n] = "up" /\ isLeader[n]}

LEMMA KeyStutters ==
    ASSUME key' = key, Leading' = Leading PROVE UNCHANGED LeaderKey!vars
BY DEF LeaderKey!vars, Leading

LEMMA KeyGranted ==
    ASSUME NEW n \in Nodes, key = Nobody, key' = n, Leading' = Leading
    PROVE  LeaderKey!Next
<1>1. LeaderKey!Grant("leader", n)
  BY DEF LeaderKey!Grant, Leading
<1> QED
  BY <1>1 DEF LeaderKey!Next

LEMMA TermBegins ==
    ASSUME NEW n \in Nodes, "lease" \in Events \/ key = n, key' = key,
           Leading' = Leading \cup {n}
    PROVE  LeaderKey!Next
<1>1. LeaderKey!Begin("leader", n)
  BY DEF LeaderKey!Begin, LeaderKey!AddUser, Leading
<1> QED
  BY <1>1 DEF LeaderKey!Next

LEMMA TermEnds ==
    ASSUME NEW n \in Leading, Leading' = Leading \ {n},
           key' \in {key, Released(n)}
    PROVE  LeaderKey!Next
<1>1. LeaderKey!Finish("leader", n)
  BY DEF LeaderKey!Finish, Leading, Released
<1> QED
  BY <1>1 DEF LeaderKey!Next, Leading

LEMMA KeyLapses ==
    ASSUME "lease" \notin Events => LeaderInv, TypeOK, Expire
    PROVE  LeaderKey!Next
<1>1. "lease" \in Events \/ key \notin Leading
  BY DEF Expire, KeepsKey, Fault, Leading, LeaderInv
<1>2. Leading' = Leading
  BY DEF Expire, electionVars, Leading
<1>3. LeaderKey!Lapse("leader")
  BY <1>1, <1>2 DEF Expire, LeaderKey!Lapse, Leading
<1> QED
  BY <1>3 DEF LeaderKey!Next

LEMMA MapKeyNode ==
    ASSUME TypeOK, "lease" \notin Events => LeaderInv,
           NEW n \in Nodes, NodeStep(n)
    PROVE  [LeaderKey!Next]_(LeaderKey!vars)
<1> USE DEF electionVars, schedulerVars
<1>1. CASE Boot(n) \/ Lost(n) \/ WonUnnoticed(n) \/ Renew(n)
           \/ RenewalSucceeds(n) \/ SchedulerStep(n)
  <2>1. key' = key /\ isLeader' = isLeader
    BY <1>1 DEF Boot, Lost, WonUnnoticed, Renew, RenewalSucceeds,
       SchedulerStep, Initialized, PollEnds, PollTimer
  <2>2. \/ up' = up
        \/ up[n] = "down" /\ up' = [up EXCEPT ![n] = "up"]
    BY <1>1 DEF Boot, Lost, WonUnnoticed, Renew, RenewalSucceeds,
       SchedulerStep, Initialized, PollEnds, PollTimer
  <2>3. Leading' = Leading
    BY <2>1, <2>2 DEF Leading, TypeOK
  <2> QED
    BY <2>1, <2>3, KeyStutters
<1>2. CASE Elect(n)
  <2>1. Leading' = Leading
    BY <1>2 DEF Elect, Leading
  <2>2. key' = key \/ (key = Nobody /\ key' = n)
    BY <1>2 DEF Elect
  <2> QED
    BY <2>1, <2>2, KeyStutters, KeyGranted
<1>3. CASE Won(n)
  <2>1. /\ epc[n] = "won" /\ key' = key /\ up' = up
        /\ isLeader' = [isLeader EXCEPT ![n] = TRUE]
    BY <1>3 DEF Won
  <2>2. CASE up[n] = "up"
    <3>1. "lease" \in Events \/ key = n
      BY <2>1, <2>2 DEF LeaderInv
    <3>2. Leading' = Leading \cup {n}
      BY <2>1, <2>2 DEF Leading, TypeOK
    <3> QED
      BY <2>1, <3>1, <3>2, TermBegins
  <2>3. CASE up[n] # "up"
    <3>1. Leading' = Leading
      BY <2>1, <2>3 DEF Leading, TypeOK
    <3> QED
      BY <2>1, <3>1, KeyStutters
  <2> QED
    BY <2>2, <2>3
<1>4. CASE RenewalFails(n) \/ Resign(n) \/ Resigned(n) \/ Withdraw(n)
           \/ Exit(n) \/ Crash(n)
  <2>1. /\ key' \in {key, Released(n)}
        /\ ~ Resign(n) => key' = key
        /\ Resign(n) => n \in Leading
    BY <1>4 DEF RenewalFails, Resign, Resigned, Withdraw, Exit, Crash, Gone,
       Leading
  <2>2. Leading' = Leading \ {n}
    BY <1>4 DEF RenewalFails, Resign, Resigned, Withdraw, Exit, Crash, Gone,
       Leading, TypeOK
  <2>3. CASE n \in Leading
    BY <2>1, <2>2, <2>3, TermEnds
  <2>4. CASE n \notin Leading
    <3>1. key' = key /\ Leading' = Leading
      BY <2>1, <2>2, <2>4
    <3> QED
      BY <3>1, KeyStutters
  <2> QED
    BY <2>3, <2>4
<1> QED
  BY <1>1, <1>2, <1>3, <1>4 DEF NodeStep, ElectionStep, RenewalReply

LEMMA MapKeyStep ==
    ASSUME TypeOK, "lease" \notin Events => LeaderInv, [Next]_vars
    PROVE  [LeaderKey!Next]_(LeaderKey!vars)
<1>1. CASE UNCHANGED vars
  BY <1>1, KeyStutters DEF vars, electionVars, Leading
<1> QED
  BY <1>1, MapKeyNode, KeyLapses DEF Next

\* The leader key is used as ExclusiveLock says, for any number of nodes and
\* under all events: what lib/distributed-lock.js promises is all that the
\* election needs for its "only one leader".
THEOREM ElectionRefines == Spec => RefinesLock
<1> DEFINE Inv == "lease" \notin Events => LeaderInv
<1>1. Init => Inv /\ LeaderKey!Init
  BY DEF Init, LeaderInv, LeaderKey!Init
<1>2. TypeOK /\ Inv /\ [Next]_vars => Inv'
  BY LeaderStep
<1>3. TypeOK /\ Inv /\ [Next]_vars => [LeaderKey!Next]_(LeaderKey!vars)
  BY MapKeyStep
<1> HIDE DEF Inv
<1> QED
  BY <1>1, <1>2, <1>3, TypeCorrect, PTL
  DEF Spec, RefinesLock, LeaderKey!Spec

=============================================================================
