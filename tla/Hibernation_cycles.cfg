SPECIFICATION Spec
CONSTANTS
    u1 = u1
    NoRef = NoRef
    MaxCycles = 2
    UserOps = {}
    Foreign = {}
    Retention = "DeleteAfterResume"
    Disruptions = {"enableUnsettled", "disableEarly", "disableCommitted", "deleteOp", "retry", "backupFails", "uploadFails", "restart"}
    Lagging = {}
    SlowPasses = FALSE
    MaxToggles = 4
    MaxWrites = 1
    MaxFaults = 2
INVARIANTS NoLostWrites OnlyCopyKept
PROPERTY NewCycleAlone
CHECK_DEADLOCK FALSE
