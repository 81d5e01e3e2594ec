SPECIFICATION ApiFairSpec
CONSTANTS
    Jobs = {once}
    CronJobs = {}
    UnknownHandler = {}
    Schedulers = {s1, s2}
    Workers = {w1}
    Clients = {c1}
    Nobody = Nobody
    NoMsg = NoMsg
    MaxRetries = 2
    Limits = {1, 2}
    BatchSize = 1
    MaxStream = 2
    MaxFaults = 1
    MaxRequests = 2
    Events = {"crash", "lease"}
    Requests = {"pause", "resume", "update", "limit", "delete", "discard"}
INVARIANTS OneTicket TicketsHeld
PROPERTIES RefinesManaged PausedComesToRest
CHECK_DEADLOCK FALSE
