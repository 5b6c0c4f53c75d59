CONSTANTS
    Never = 100
    Trigger <- EverySecond
    NoCatchup = FALSE
    MaxConcurrency = 1
    MaxHistory = 1
    Creation = 0
    ViaRunsApi = FALSE
    WfIds = {w1, w2}
    Calls = {}
    MaxNow = 2
    MaxEdits = 0
    MaxCrashes = 0
SPECIFICATION FairSpec
PROPERTIES EverySlotRuns EventuallyRecorded
CHECK_DEADLOCK FALSE
