SPECIFICATION Spec
CONSTANTS
    u1 = u1
    NoRef = NoRef
    MaxCycles = 1
    UserOps = {u1}
    Foreign = {1}
    Retention = "DeleteAfterResume"
    Disruptions = {"backupFails", "deleteOp", "retry", "destination", "invalid"}
    Lagging = {"hibernate"}
    SlowPasses = FALSE
    MaxToggles = 3
    MaxWrites = 1
    MaxFaults = 1
INVARIANT ActiveOperationExists
CHECK_DEADLOCK FALSE
