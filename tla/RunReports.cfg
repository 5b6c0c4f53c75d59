CONSTANTS
    FromJob = FALSE
    Reports = {r1, r2}
    TTL = 1
    Grace = 1
    CreateTime = 0
    LastWork = 1
    MaxNow = 2
    MaxRetries = 1
    MaxRequests = 1
    MayFail = {"timeout", "delete", "restart"}
    MaxFailures = 1
SPECIFICATION Spec
SYMMETRY Symmetry
INVARIANTS LabelOnlyFinal LabelledWasWritten
CHECK_DEADLOCK FALSE
