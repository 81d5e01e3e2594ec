SPECIFICATION ShutdownFairSpec
CONSTANTS
    Jobs = {once}
    CronJobs = {}
    UnknownHandler = {}
    Schedulers = {n1}
    Workers = {n1, n2}
    Nobody = Nobody
    NoMsg = NoMsg
    MaxRetries = 1
    Limits = {1}
    BatchSize = 1
    MaxStream = 1
    MaxFaults = 0
    MaxStops = 2
    Events = {"aging"}
INVARIANT CurrentJobFinished
PROPERTIES ShutdownEnds OneTimeSettles
CHECK_DEADLOCK FALSE
