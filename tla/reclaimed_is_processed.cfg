SPECIFICATION FairSpec
CONSTANTS
    Jobs = {once}
    CronJobs = {}
    UnknownHandler = {}
    Schedulers = {s1}
    Workers = {w1}
    Nobody = Nobody
    NoMsg = NoMsg
    MaxRetries = 1
    Limits = {1}
    BatchSize = 1
    MaxStream = 2
    MaxFaults = 1
    Events = {"aging", "crash"}
PROPERTY ReclaimedIsProcessed
CHECK_DEADLOCK FALSE
