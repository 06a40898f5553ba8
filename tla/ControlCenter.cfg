CONSTANTS
    Parts = {"jobs", "stream", "recorder", "runtimes"}
    Cancellers = {"c", "d"}
    MaxJobs = 3
    Sources = {"config", "runtimes"}
    Watched = {"config"}
    MaxChanges = 2
    RecorderPids = {1, 2, 3}
    RecorderClients = {"r", "s"}
    ManagedTask = TRUE
    NoPid = NoPid
    NoRecorderId = NoRecorderId
    x = x
    y = y
    Strategies = {x, y}
    Runs <- MCRuns
    ByHand <- MCByHand
    TraderPids = {1, 2, 3}
    Starters = {"r", "s"}
    MaxStarts = 3
CHECK_DEADLOCK FALSE
SPECIFICATION MCSpec
INVARIANTS
    NoJobIsLost
    OneDashboardRecorder
    
    
PROPERTIES
    StreamCatchesUp
    StopIsFinal
