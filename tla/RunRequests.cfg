CONSTANTS
    FromJob = FALSE
    Reports = {r1}
    TTL = 1
    Grace = 2
    CreateTime = 1
    LastWork = 1
    MaxNow = 3
    MaxRetries = 1
    MaxRequests = 1
    MayFail = {"create", "request"}
    MaxFailures = 1
SPECIFICATION FairSpec
INVARIANT InFlightNotCollected
PROPERTIES FinalStays DeletedStaysDeleted NoLeak RunSettles
CHECK_DEADLOCK FALSE
