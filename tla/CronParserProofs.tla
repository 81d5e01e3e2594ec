-------------------------- MODULE CronParserProofs --------------------------
(* The search of CronParser finds the next fire time, for every calendar,  *)
(* every expression and every moment.                                      *)
EXTENDS CronParser, TLAPS

\* The loop of a step visits the values that are a multiple of by away from
\* the first.
LEMMA LoopVisits ==
    ASSUME NEW from \in Int, NEW to \in Int, NEW by \in Nat \ {0},
           NEW v \in Int
    PROVE  v \in Visited(from, to, by)
             <=> v \in from..to /\ (v - from) % by = 0
<1>1. ASSUME v \in Visited(from, to, by)
      PROVE  v \in from..to /\ (v - from) % by = 0
  <2>1. PICK k \in 0..(to - from) : v = from + k * by /\ v <= to
    BY <1>1 DEF Visited
  <2>2. k * by \in Nat /\ v - from = k * by
    BY <2>1
  <2>3. (k * by) % by = 0
    BY <2>1
  <2> QED
    BY <2>1, <2>2, <2>3
<1>2. ASSUME v \in from..to, (v - from) % by = 0
      PROVE  v \in Visited(from, to, by)
  <2> DEFINE x == v - from
             k == x \div by
  <2>1. x \in Nat /\ x <= to - from
    BY <1>2
  <2>2. k \in Nat /\ x = k * by
    BY <1>2, <2>1
  <2>3. k <= k * by
    BY <2>2
  <2>4. k \in 0..(to - from) /\ v = from + k * by
    BY <2>1, <2>2, <2>3
  <2> QED
    BY <1>2, <2>4 DEF Visited
<1> QED
  BY <1>1, <1>2

LEMMA FieldMatches ==
    ASSUME NEW field \in SUBSET Part, NEW min \in Int, NEW max \in Int,
           NEW v \in min..max
    PROVE  (\E part \in field : MatchesPart(v, part))
             <=> v \in Values(field, min, max)
<1> DEFINE ValuesOf(part) ==
             CASE part.kind = "any" -> min..max
               [] part.kind = "exact" -> {part.value} \cap min..max
               [] part.kind = "range" -> (part.from..part.to) \cap min..max
               [] part.kind = "step" ->
                     {u \in (part.from..part.to) \cap min..max :
                         (u - part.from) % part.by = 0}
               [] part.kind = "name" -> {}
<1>1. ASSUME NEW part \in field
      PROVE  MatchesPart(v, part) <=> v \in ValuesOf(part)
  <2>1. CASE part = Star
    BY <2>1 DEF Star, MatchesPart
  <2>2. CASE part = [kind |-> "name"]
    BY <2>2 DEF MatchesPart
  <2>3. CASE part \in [kind: {"exact"}, value: Int]
    BY <2>3 DEF MatchesPart
  <2>4. CASE part \in [kind: {"range"}, from: Int, to: Int]
    BY <2>4 DEF MatchesPart
  <2>5. CASE part \in [kind: {"step"}, from: Int, to: Int, by: Nat \ {0}]
    <3>1. v \in Visited(part.from, part.to, part.by)
            <=> v \in part.from..part.to /\ (v - part.from) % part.by = 0
      BY <2>5, LoopVisits
    <3> QED
      BY <2>5, <3>1 DEF MatchesPart
  <2> QED
    BY <2>1, <2>2, <2>3, <2>4, <2>5 DEF Part
<1>2. Values(field, min, max) = UNION {ValuesOf(part) : part \in field}
  BY DEF Values
<1> HIDE DEF ValuesOf
<1> QED
  BY <1>1, <1>2

LEMMA ClockFieldMatches ==
    ASSUME NEW field \in SUBSET Part, NEW min \in Int, NEW max \in Nat \ {7},
           NEW v \in min..max
    PROVE  MatchesField(v, field, max) <=> v \in Values(field, min, max)
<1>1. MatchesField(v, field, max) <=> \E part \in field : MatchesPart(v, part)
  BY DEF MatchesField
<1> QED
  BY <1>1, FieldMatches

\* A minute passes the five tests of the search exactly when it fires.
LEMMA MatchesFires ==
    ASSUME NEW t \in 0..LastMinute, expr \in Expressions
    PROVE  Matches(t, expr)
             <=> FiresOn(Calendar[t], Values(expr.weekday, 1, 7))
<1> DEFINE d == Calendar[t]
<1>0. d \in Date /\ expr \in Expression
  BY CronAssumption
<1>1. /\ d.minute \in 0..MaxMinute /\ d.hour \in 0..MaxHour
      /\ d.day \in 1..MaxDay /\ d.month \in 1..MaxMonth
  BY <1>0 DEF Date
<1>2. /\ expr.minute \in SUBSET Part /\ expr.hour \in SUBSET Part
      /\ expr.month \in SUBSET Part
      /\ expr.day # Last => expr.day \in SUBSET Part
  BY <1>0 DEF Expression
<1>3. {MaxMinute, MaxHour, MaxDay, MaxMonth} \subseteq Nat \ {7}
  BY CronAssumption
<1> HIDE DEF d
<1>4. /\ MatchesField(d.minute, expr.minute, MaxMinute)
            <=> d.minute \in Values(expr.minute, 0, MaxMinute)
      /\ MatchesField(d.hour, expr.hour, MaxHour)
            <=> d.hour \in Values(expr.hour, 0, MaxHour)
      /\ MatchesField(d.month, expr.month, MaxMonth)
            <=> d.month \in Values(expr.month, 1, MaxMonth)
  BY <1>1, <1>2, <1>3, ClockFieldMatches
<1>5. MatchesField(d.weekday, expr.weekday, 7)
        <=> Weekday(d) \in Values(expr.weekday, 1, 7)
  BY <1>0, FieldMatches DEF MatchesField, Weekday, Date, Expression
<1>6. MatchesDayOfMonth(d, expr.day)
        <=> IF expr.day = Last THEN d.day = d.lastDay
                               ELSE d.day \in Values(expr.day, 1, MaxDay)
  BY <1>1, <1>2, <1>3, ClockFieldMatches DEF MatchesDayOfMonth
<1> QED
  BY <1>4, <1>5, <1>6 DEF Matches, FiresOn, d

\* The loop invariant: every minute from the first candidate to the current
\* one has been looked at in vain.
CronInv ==
    /\ expr \in Expressions /\ after \in Moments
    /\ candidate \in Nat
    /\ after.minute < candidate /\ candidate <= after.minute + Horizon + 1
    /\ \A u \in 0..LastMinute :
          after.minute < u /\ u < candidate => ~ Matches(u, expr)
    /\ result \notin {Unknown, Never} =>
          result = candidate /\ candidate \in 0..LastMinute
             /\ Matches(candidate, expr)
    /\ result = Never => after.minute + Horizon <= candidate

LEMMA CallInv ==
    ASSUME NEW e \in Expressions, NEW m \in Moments, expr = e, after = m,
           candidate = FirstCandidate(m), result = Unknown
    PROVE  CronInv
<1>1. m.minute \in 0..LastMinute /\ m.late \in BOOLEAN
  BY DEF Moments
<1> QED
  BY <1>1, CronAssumption DEF CronInv, FirstCandidate

LEMMA CronStep == CronInv /\ [Next]_vars => CronInv'
<1> SUFFICES ASSUME CronInv, [Next]_vars PROVE CronInv'
  OBVIOUS
<1>0. /\ after.minute \in 0..LastMinute /\ Horizon \in Nat
      /\ LastMinute \in Nat /\ after.minute + Horizon < LastMinute
  BY CronAssumption DEF CronInv, Moments
<1>1. CASE UNCHANGED vars
  BY <1>1 DEF vars, CronInv, Matches, MatchesField, MatchesDayOfMonth
<1>2. CASE Found
  <2>1. /\ result' = candidate /\ UNCHANGED <<expr, after, candidate>>
        /\ result = Unknown /\ Matches(candidate, expr)
        /\ candidate <= after.minute + Horizon
    BY <1>0, <1>2 DEF Found, Return, InHorizon, CronInv
  <2>2. candidate \in 0..LastMinute
    BY <1>0, <2>1 DEF CronInv
  <2>3. /\ \A u \in 0..LastMinute : Matches(u, expr)' <=> Matches(u, expr)
        /\ Matches(candidate, expr)'
    BY <2>1 DEF Matches, MatchesField, MatchesDayOfMonth
  <2>4. result' # Never /\ (after.minute < candidate)
    BY <2>1, <2>2, CronAssumption DEF CronInv
  <2> QED
    BY <2>1, <2>2, <2>3, <2>4 DEF CronInv
<1>3. CASE NextMinute
  <2>1. /\ candidate' = candidate + 1 /\ UNCHANGED <<expr, after, result>>
        /\ result = Unknown /\ ~ Matches(candidate, expr)
        /\ candidate <= after.minute + Horizon
    BY <1>0, <1>3 DEF NextMinute, InHorizon, CronInv
  <2>2. ASSUME NEW u \in 0..LastMinute, after.minute < u, u < candidate + 1
        PROVE  ~ Matches(u, expr)
    <3>1. u = candidate \/ u < candidate
      BY <2>2 DEF CronInv
    <3> QED
      BY <2>1, <2>2, <3>1 DEF CronInv
  <2>3. \A u \in 0..LastMinute : Matches(u, expr)' <=> Matches(u, expr)
    BY <2>1 DEF Matches, MatchesField, MatchesDayOfMonth
  <2> QED
    BY <1>0, <2>1, <2>2, <2>3, CronAssumption DEF CronInv
<1>4. CASE GiveUp
  BY <1>0, <1>4, CronAssumption DEF GiveUp, Return, CronInv, InHorizon
<1>5. CASE CompleteRun
  <2>1. after'.minute \in 0..LastMinute /\ after' \in Moments
    BY <1>5 DEF CompleteRun, Moments
  <2> QED
    BY <1>5, <2>1, CronAssumption DEF CompleteRun, CronInv, FirstCandidate
<1> QED
  BY <1>1, <1>2, <1>3, <1>4, <1>5 DEF Next, Search

\* getNextFireTime returns the first minute after its argument that fires, or
\* null when there is none within its horizon: for any calendar, expressions
\* and horizon, and as often as a job asks for its next run.
THEOREM NextFireTimeFound == Spec => []FindsNextFireTime
<1>1. Init => CronInv
  BY CallInv DEF Init, Call
<1>2. CronInv => FindsNextFireTime
  <2> SUFFICES ASSUME CronInv PROVE FindsNextFireTime
    OBVIOUS
  <2>1. after.minute \in Nat /\ Horizon \in Nat
    BY CronAssumption DEF CronInv, Moments
  <2>2. \A u \in 0..LastMinute :
           Matches(u, expr)
             <=> FiresOn(Calendar[u], Values(expr.weekday, 1, 7))
    BY MatchesFires DEF CronInv
  <2> QED
    BY <2>1, <2>2 DEF FindsNextFireTime, IsNextFireTime, CronInv
<1> QED
  BY <1>1, <1>2, CronStep, PTL DEF Spec

\* The steps a search has left at most.
StepsLeft ==
    IF result = Unknown THEN after.minute + Horizon + 2 - candidate ELSE 0

\* Every step of getNextFireTime, for any expression, is one less to come, and
\* a search begins with at most Horizon + 1 of them: what SearchEnds needs
\* beside the fairness of the loop, so that no valid expression, however
\* rarely it fires, holds up the node for ever.
THEOREM SearchShortens ==
    Spec => [](StepsLeft \in 0..(Horizon + 1)) /\ [][Search => StepsLeft' < StepsLeft]_vars
<1>1. ASSUME CronInv PROVE StepsLeft \in 0..(Horizon + 1)
  BY <1>1, CronAssumption DEF CronInv, StepsLeft, Moments
<1>2. ASSUME CronInv, Search PROVE StepsLeft' < StepsLeft
  <2>1. /\ after.minute \in Nat /\ Horizon \in Nat /\ candidate \in Nat
        /\ candidate <= after.minute + Horizon + 1
    BY <1>2, CronAssumption DEF CronInv, Moments
  <2>2. CASE NextMinute
    BY <2>1, <2>2 DEF NextMinute, StepsLeft
  <2>3. CASE GiveUp
    BY <2>1, <2>3, CronAssumption DEF GiveUp, Return, StepsLeft
  <2>4. CASE Found
    <3>1. candidate \in 0..LastMinute
      BY <1>2, <2>1, <2>4, CronAssumption
      DEF Found, InHorizon, CronInv, Moments
    <3>2. result' # Unknown /\ result = Unknown
      BY <2>4, <3>1, CronAssumption DEF Found, Return
    <3> QED
      BY <2>1, <3>2 DEF StepsLeft
  <2> QED
    BY <1>2, <2>2, <2>3, <2>4 DEF Search
<1>3. Init => CronInv
  BY CallInv DEF Init, Call
<1>4. CronInv /\ [Next]_vars
         => CronInv' /\ [Search => StepsLeft' < StepsLeft]_vars
  BY <1>2, CronStep
<1> QED
  BY <1>1, <1>3, <1>4, PTL DEF Spec

=============================================================================
