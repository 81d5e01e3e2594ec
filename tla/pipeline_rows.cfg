SPECIFICATION Spec
CONSTANTS
    Jobs = {once, odd, cron}
    CronJobs = {cron}
    UnknownHandler = {odd}
    Schedulers = {s1}
    Workers = {w1, w2}
    Nobody = Nobody
    NoMsg = NoMsg
    MaxRetries = 2
    Limits = {2}
    BatchSize = 2
    MaxStream = 2
    MaxFaults = 0
    Events = {"horizon", "sameMs", "lease"}
INVARIANTS TicketsLocked AttemptsAreCurrent DeadIsStored
PROPERTIES SafeRelease EndedStaysEnded RefinesLifecycle
CHECK_DEADLOCK FALSE
SYMMETRY Symmetry
