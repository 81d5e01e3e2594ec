SPECIFICATION Spec
CONSTANTS
    Nodes = {n1, n2}
    Nobody = Nobody
    MaxReplies = 2
    MaxFaults = 3
    Events = {"shutdown", "crash", "error"}
INVARIANTS TypeOK LeaderOwnsKey RunningPolls
PROPERTY RefinesLock
SYMMETRY Symmetry
CHECK_DEADLOCK FALSE
