SPECIFICATION FairSpec
CONSTANTS
    Calendar <- SmallCalendar
    LastMinute = 54
    Horizon = 40
    MaxMinute = 1
    MaxHour = 1
    MaxDay = 3
    MaxMonth = 2
    Expressions <- SomeExpressions
    Never = Never
    Unknown = Unknown
INVARIANT FindsNextFireTime
PROPERTY SearchEnds
CHECK_DEADLOCK FALSE
