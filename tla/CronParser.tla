----------------------------- MODULE CronParser -----------------------------
(***************************************************************************)
(* lib/cron-parser.js: the next minute at which a cron expression fires.   *)
(*                                                                         *)
(* Time is a number of minutes.  JavaScript's Date is the constant         *)
(* Calendar, which tells what each minute is on the clock, so that the     *)
(* limits of the fields can be small.                                      *)
(***************************************************************************)
EXTENDS Integers

CONSTANTS
    Calendar,     \* [0..LastMinute -> Date]
    LastMinute,   \* bound: the end of time
    Horizon,      \* the minutes of two years
    MaxMinute, MaxHour, MaxDay, MaxMonth,   \* 59, 23, 31 and 12
    Expressions,  \* the expressions that are parsed
    Never,        \* null
    Unknown       \* the search goes on

Date == [minute: 0..MaxMinute, hour: 0..MaxHour, day: 1..MaxDay,
         month: 1..MaxMonth, weekday: 0..6,   \* getDay(): 0 is Sunday
         lastDay: 1..MaxDay]                  \* of the month

\* One part of a field's list: `*`, `n`, `a-b`, or the values from, from + by,
\* ... that do not exceed to, which are `a-b/s`, `*/s` and `a/s`.  The name of
\* a month or day is a number to nobody here: parseInt makes it NaN.
Star == [kind |-> "any"]
Part == {Star, [kind |-> "name"]}
          \cup [kind: {"exact"}, value: Int]
          \cup [kind: {"range"}, from: Int, to: Int]
          \cup [kind: {"step"}, from: Int, to: Int, by: Nat \ {0}]

Last == {[kind |-> "L"]}   \* the day of month that is no list

Expression == [minute: SUBSET Part, hour: SUBSET Part, month: SUBSET Part,
               day: (SUBSET Part) \cup {Last}, weekday: SUBSET Part]

\* A minute of the clock, and whether some of its seconds are over.
Moments == {m \in [minute: 0..LastMinute, late: BOOLEAN] :
               m.minute + Horizon < LastMinute}

ASSUME CronAssumption ==
    /\ LastMinute \in Nat /\ Horizon \in Nat
    /\ {MaxMinute, MaxHour, MaxDay, MaxMonth} \subseteq Nat \ {7}
    /\ Calendar \in [0..LastMinute -> Date]
    /\ Expressions \subseteq Expression
    /\ {Never, Unknown} \cap 0..LastMinute = {} /\ Never # Unknown

-----------------------------------------------------------------------------
(* matchesField and matchesDayOfMonth                                      *)

\* The values the loop `for (i = start; i <= end; i += stepNum)` visits.
Visited(from, to, by) ==
    {i \in {from + k * by : k \in 0..(to - from)} : i <= to}

MatchesPart(value, part) ==
    \/ part.kind = "any"
    \/ part.kind = "exact" /\ part.value = value
    \/ part.kind = "range" /\ part.from <= value /\ value <= part.to
    \/ part.kind = "step" /\ value \in Visited(part.from, part.to, part.by)

\* Mutant: Sunday stays 0.
MatchesAsIs(value, expr, max) == \E part \in expr : MatchesPart(value, part)

\* The field of the weekday is known by its limit.
MatchesField(value, expr, max) ==
    LET v == IF max = 7 /\ value = 0 THEN 7 ELSE value
    IN  \E part \in expr : MatchesPart(v, part)

MatchesDayOfMonth(date, expr) ==
    IF expr = Last THEN date.day = date.lastDay
    ELSE MatchesField(date.day, expr, MaxDay)

Matches(t, expr) ==
    LET date == Calendar[t] IN
    /\ MatchesField(date.month, expr.month, MaxMonth)
    /\ MatchesDayOfMonth(date, expr.day)
    /\ MatchesField(date.weekday, expr.weekday, 7)
    /\ MatchesField(date.hour, expr.hour, MaxHour)
    /\ MatchesField(date.minute, expr.minute, MaxMinute)

-----------------------------------------------------------------------------
(* getNextFireTime, of an expression that node-cron finds valid            *)

VARIABLES
    expr, after,  \* its arguments
    candidate,    \* the minute that is looked at
    result

vars == <<expr, after, candidate, result>>

\* Mutant: the search begins with the current minute.
FirstCandidateNow(moment) == moment.minute

FirstCandidate(moment) == moment.minute + 1

\* candidate < maxDate: maxDate keeps the seconds of `after`.
InHorizon(t, moment) ==
    \/ t < moment.minute + Horizon
    \/ moment.late /\ t = moment.minute + Horizon

Call(e, moment) ==
    /\ expr = e /\ after = moment
    /\ candidate = FirstCandidate(moment)
    /\ result = Unknown

Init == \E e \in Expressions, moment \in Moments : Call(e, moment)

Return(value) == result' = value /\ UNCHANGED <<expr, after, candidate>>

Found ==
    /\ result = Unknown
    /\ InHorizon(candidate, after) /\ Matches(candidate, expr)
    /\ Return(candidate)

\* Mutant: the candidate is not moved on.
SameMinute ==
    /\ result = Unknown
    /\ InHorizon(candidate, after) /\ ~ Matches(candidate, expr)
    /\ UNCHANGED vars

NextMinute ==
    /\ result = Unknown
    /\ InHorizon(candidate, after) /\ ~ Matches(candidate, expr)
    /\ candidate' = candidate + 1
    /\ UNCHANGED <<expr, after, result>>

GiveUp ==
    /\ result = Unknown
    /\ ~ InHorizon(candidate, after)
    /\ Return(Never)

\* completeExecution asks again when the job has run: at its fire time or
\* later, in a minute that may be many fire times on.
CompleteRun ==
    /\ result \notin {Unknown, Never}
    /\ after' \in {m \in Moments : m.minute >= result}
    /\ candidate' = FirstCandidate(after')
    /\ result' = Unknown
    /\ UNCHANGED expr

Search == Found \/ NextMinute \/ GiveUp

Next == Search \/ CompleteRun

Spec == Init /\ [][Next]_vars

FairSpec == Spec /\ WF_vars(Search)

-----------------------------------------------------------------------------
(* Properties                                                              *)

\* What a field means, as the set of its values from min to max.
Values(field, min, max) ==
    UNION {CASE part.kind = "any" -> min..max
             [] part.kind = "exact" -> {part.value} \cap min..max
             [] part.kind = "range" -> (part.from..part.to) \cap min..max
             [] part.kind = "step" ->
                   {v \in (part.from..part.to) \cap min..max :
                       (v - part.from) % part.by = 0}
             [] part.kind = "name" -> {} : part \in field}

\* The days of the week from Monday, 1, to Sunday, 7.
Weekday(date) == IF date.weekday = 0 THEN 7 ELSE date.weekday

FiresOn(date, weekdays) ==
    /\ date.minute \in Values(expr.minute, 0, MaxMinute)
    /\ date.hour \in Values(expr.hour, 0, MaxHour)
    /\ date.month \in Values(expr.month, 1, MaxMonth)
    /\ Weekday(date) \in weekdays
    /\ IF expr.day = Last THEN date.day = date.lastDay
                          ELSE date.day \in Values(expr.day, 1, MaxDay)

\* The result of a call is the first minute after the call that fires; when
\* there is none, no minute of the next two years fires.
IsNextFireTime(weekdays) ==
    LET Fires(t) == FiresOn(Calendar[t], weekdays)
        Between(t) == {u \in 0..LastMinute : after.minute < u /\ u < t}
    IN  /\ result \notin {Unknown, Never} =>
              /\ after.minute < result /\ Fires(result)
              /\ \A u \in Between(result) : ~ Fires(u)
        /\ result = Never =>
              \A u \in Between(after.minute + Horizon) : ~ Fires(u)

\* "Calculate the next fire time after a given date", cron-parser.js:19, where
\* 7 is Sunday: never the minute of the call itself, so that a job does not
\* run twice at one fire time, none passed over, and NULL only for good.
FindsNextFireTime == IsNextFireTime(Values(expr.weekday, 1, 7))

\* An expression that never fires is given up, and does not hold up the node.
SearchEnds == result = Unknown ~> result # Unknown

-----------------------------------------------------------------------------
(* A statement of the code's comments that the model refutes               *)

\* cron-parser.js:64 "Handle day-of-week where 7 = 0 (Sunday)": an expression
\* may write Sunday either way.
SundayIsZeroOrSeven ==
    IsNextFireTime({IF v = 0 THEN 7 ELSE v : v \in Values(expr.weekday, 0, 7)})

=============================================================================
