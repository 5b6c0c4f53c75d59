CONSTANTS
    Never = 100
    Trigger <- EverySecond
    NoCatchup = FALSE
    MaxConcurrency = 1
    MaxHistory = 1
    Creation = 0
    ViaRunsApi = TRUE
    WfIds = {w1, w2}
    Calls = {c1, c2}
    MaxNow = 2
    MaxEdits = 0
    MaxCrashes = 1
SPECIFICATION Spec
SYMMETRY Symmetry
INVARIANTS OneWorkflowPerIndex LabelIsIndex
CHECK_DEADLOCK FALSE
