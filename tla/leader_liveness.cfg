SPECIFICATION FairSpec
CONSTANTS
    Nodes = {n1, n2}
    Nobody = Nobody
    MaxReplies = 2
    MaxFaults = 2
    Events = {"shutdown", "crash", "error", "lease"}
PROPERTIES OnlyOwnerGivesUp SomeoneLeads LeaderSchedules DeposedStepsDown
CHECK_DEADLOCK FALSE
