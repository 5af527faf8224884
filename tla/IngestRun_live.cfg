SPECIFICATION FairSpec
CONSTANTS
    r1 = r1
    r2 = r2
    r3 = r3
    NoRun = NoRun
    Runs = {r1}
    Parent <- NoParents
    Invalid = {}
    Foreign = {}
    Profiled = {}
    Profiles = {}
    Streams = {"succeeded", "partial", "failed"}
    Gates = {"open"}
    Results = {"none"}
    Disruptions = {"console", "kubectl", "loseJob", "losePod"}
    Lagging = {"run", "job", "pod", "tamoss"}
    JobsOutliveLag = TRUE
    MaxJobs = 2
    MaxFaults = 1
INVARIANTS NeverReplays SuccessIsEvidenced
PROPERTIES CancelCompletes RecordedRunEnds
CHECK_DEADLOCK FALSE
