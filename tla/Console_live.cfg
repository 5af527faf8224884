CONSTANTS
    c1 = c1
    n1 = n1
    n2 = n2
    Names = {n1, n2}
    Clients = {c1}
    MaxRoots = 1
    MaxJobs = 2
    MaxInst = 2
    MaxGen = 2
    MaxChanges = 3
    MaxDisturbances = 1
SPECIFICATION FairSpec
INVARIANTS LatestHeld SnapshotSound
PROPERTY EventuallyShown
CHECK_DEADLOCK FALSE
