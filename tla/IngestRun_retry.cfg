SPECIFICATION Spec
CONSTANTS
    r1 = r1
    r2 = r2
    r3 = r3
    NoRun = NoRun
    Runs = {r1, r2, r3}
    Parent <- RetryChain
    Invalid = {r3}
    Foreign = {r2}
    Profiled = {}
    Profiles = {}
    Streams = {"failed", "invalid"}
    Gates = {"open"}
    Results = {"none"}
    Disruptions = {"loseJob"}
    Lagging = {}
    JobsOutliveLag = TRUE
    MaxJobs = 1
    MaxFaults = 0
INVARIANTS RetryFollowsParent
CHECK_DEADLOCK FALSE
