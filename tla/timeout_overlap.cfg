SPECIFICATION Spec
CONSTANTS
    Jobs = {once}
    CronJobs = {}
    UnknownHandler = {}
    Schedulers = {s1}
    Workers = {w1, w2}
    Nobody = Nobody
    NoMsg = NoMsg
    MaxRetries = 2
    Limits = {2}
    BatchSize = 1
    MaxStream = 2
    MaxFaults = 0
    Events = {"timeout"}
INVARIANT HandlerExclusion
CHECK_DEADLOCK FALSE
