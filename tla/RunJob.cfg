CONSTANTS
    FromJob = TRUE
    Reports = {r1, r2}
    TTL = 1
    Grace = 0
    CreateTime = 0
    LastWork = 0
    MaxNow = 1
    MaxRetries = 0
    MaxRequests = 1
    MayFail = {"create", "report", "timeout", "metrics", "request", "restart"}
    MaxFailures = 1
SPECIFICATION FairSpec
PROPERTIES RunSettles
CHECK_DEADLOCK FALSE
