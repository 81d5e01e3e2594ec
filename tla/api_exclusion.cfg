SPECIFICATION ApiSpec
CONSTANTS
    Jobs = {once}
    CronJobs = {}
    UnknownHandler = {}
    Schedulers = {s1}
    Workers = {w1, w2}
    Clients = {c1}
    Nobody = Nobody
    NoMsg = NoMsg
    MaxRetries = 1
    Limits = {1}
    BatchSize = 1
    MaxStream = 1
    MaxFaults = 1
    MaxRequests = 2
    Events = {"aging", "crash", "error", "sameMs", "slow"}
    Requests = {"pause", "resume", "trigger", "delete", "requeue", "unlockStale"}
INVARIANTS ApiTypeOK HandlerExclusion LockHeld UnsettledStaysPending
PROPERTY RefinesLock
SYMMETRY Symmetry
CHECK_DEADLOCK FALSE
