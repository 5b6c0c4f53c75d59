CONSTANTS
    Never = 100
    Trigger <- EverySecond
    NoCatchup = FALSE
    MaxConcurrency = 1
    MaxHistory = 1
    Creation = 0
    ViaRunsApi = FALSE
    WfIds = {w1, w2}
    Calls = {}
    MaxNow = 2
    MaxEdits = 1
    MaxCrashes = 1
SPECIFICATION Spec
SYMMETRY Symmetry
INVARIANTS IndexLagsByOne RecordedWasCreated OneWorkflowPerIndex
PROPERTIES TriggerOnlyAdvances ImplementsRecurringRuns
CHECK_DEADLOCK FALSE
