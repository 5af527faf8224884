SPECIFICATION Spec
CONSTANTS
    r1 = r1
    r2 = r2
    r3 = r3
    NoRun = NoRun
    Runs = {r1}
    Parent <- NoParents
    Invalid = {}
    Foreign = {}
    Profiled = {r1}
    Profiles = {1}
    Streams = {"succeeded"}
    Gates = {"open", "poll", "static", "input", "endpoint"}
    Results = {"none", "recorded"}
    Disruptions = {"console", "kubectl", "deleteTamoss", "createTamoss", "loseJob", "losePod"}
    Lagging = {}
    JobsOutliveLag = TRUE
    MaxJobs = 1
    MaxFaults = 1
INVARIANTS CancelledMeansStopped ProfilesRecorded
PROPERTIES TerminalIsFinal
CHECK_DEADLOCK FALSE
