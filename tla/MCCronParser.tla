---------------------------- MODULE MCCronParser ----------------------------
(* A small calendar and some expressions for TLC.                          *)
EXTENDS CronParser

\* Hours of two minutes, days of two hours, a month of two days and one of
\* three, so that a year has 20 minutes and two years hold a whole week.
Clock(t) ==
    LET day == t \div 4
        ofYear == day % 5
        month == IF ofYear < 2 THEN 1 ELSE 2
    IN  [minute |-> t % 2, hour |-> (t \div 2) % 2, month |-> month,
         day |-> IF month = 1 THEN ofYear + 1 ELSE ofYear - 1,
         lastDay |-> IF month = 1 THEN 2 ELSE 3, weekday |-> day % 7]

SmallCalendar == [t \in 0..LastMinute |-> Clock(t)]

Exact(n) == [kind |-> "exact", value |-> n]
From(a, b) == [kind |-> "range", from |-> a, to |-> b]
Step(a, b, s) == [kind |-> "step", from |-> a, to |-> b, by |-> s]

\* Lists, ranges, steps, `L`, a day that only one month has, Sunday as 7.
SomeExpressions ==
    [minute: {{Star}, {Exact(1)}},
     hour: {{Star}, {Step(0, 1, 2)}},
     day: {{Star}, Last, {Exact(3)}, {Exact(1), From(3, 3)}},
     month: {{Star}, {Exact(1)}},
     weekday: {{Star}, {Exact(7)}, {From(2, 4), Exact(6)}, {Step(0, 7, 3)},
               {[kind |-> "name"]}}]

\* Sunday as 0.
SundayAsZero ==
    [minute: {{Star}}, hour: {{Star}}, day: {{Star}}, month: {{Star}},
     weekday: {{Exact(0)}}]

=============================================================================
