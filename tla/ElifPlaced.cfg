SPECIFICATION Spec
CONSTANTS
    Params = {p}
    p = p
    MaxTasks = 1
    MaxGroups = 4
    MaxNodes = 5
    MaxUses = 1
INVARIANTS
    PlacedWhereWritten
CHECK_DEADLOCK FALSE
