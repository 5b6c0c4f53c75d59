SPECIFICATION Spec
CONSTANTS
    Params = {p}
    p = p
    MaxTasks = 3
    MaxGroups = 4
    MaxNodes = 6
    MaxUses = 1
INVARIANTS
    TaskInputsArrive
    GroupInputsArrive
    OrderIsKept
CHECK_DEADLOCK FALSE
