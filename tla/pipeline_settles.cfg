SPECIFICATION FairSpec
CONSTANTS
    Jobs = {once}
    CronJobs = {}
    UnknownHandler = {}
    Schedulers = {s1}
    Workers = {w1}
    Nobody = Nobody
    NoMsg = NoMsg
    MaxRetries = 2
    Limits = {2}
    BatchSize = 1
    MaxStream = 2
    MaxFaults = 1
    Events = {"aging", "crash", "error", "timeout"}
PROPERTIES DueJobRuns OneTimeSettles LockFreed GivenUpLate
CHECK_DEADLOCK FALSE
