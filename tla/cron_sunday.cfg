SPECIFICATION Spec
CONSTANTS
    Calendar <- SmallCalendar
    LastMinute = 54
    Horizon = 40
    MaxMinute = 1
    MaxHour = 1
    MaxDay = 3
    MaxMonth = 2
    Expressions <- SundayAsZero
    Never = Never
    Unknown = Unknown
INVARIANT SundayIsZeroOrSeven
CHECK_DEADLOCK FALSE
