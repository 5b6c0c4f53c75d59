CONSTANTS
    Never = 100
    MaxNow = 9
    Triggers <- MCTriggers
    Creations <- MCCreations
SPECIFICATION Spec
INVARIANT NoSlotForgotten
PROPERTY ImplementsRecurringRuns
PROPERTY LatestPeriodOnly
CHECK_DEADLOCK FALSE
