SPECIFICATION Spec
CONSTANTS
    u1 = u1
    NoRef = NoRef
    MaxCycles = 2
    UserOps = {}
    Foreign = {}
    Retention = "DeleteAfterResume"
    Disruptions = {"disableCommitted", "destination"}
    Lagging = {}
    SlowPasses = FALSE
    MaxToggles = 3
    MaxWrites = 1
    MaxFaults = 1
INVARIANTS NoLostWrites
CHECK_DEADLOCK FALSE
