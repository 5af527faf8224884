SPECIFICATION FairSpec
CONSTANTS
    u1 = u1
    NoRef = NoRef
    MaxCycles = 2
    UserOps = {}
    Foreign = {}
    Retention = "DeleteAfterResume"
    Disruptions = {"backupFails", "uploadFails", "restart"}
    Lagging = {}
    SlowPasses = TRUE
    MaxToggles = 4
    MaxWrites = 2
    MaxFaults = 1
INVARIANT QuiescedWhileHibernated
PROPERTIES DeletesOnlyCaptured EnabledHibernates DisabledRuns
CHECK_DEADLOCK FALSE
