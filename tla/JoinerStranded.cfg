CONSTANTS
    Tasks = {"d"}
    Dedicated = {"d"}
    Pooled = {"p"}
    Moving = {}
    Room = 1
    MaxDedicated = 1
    Deadline = FALSE
    Handled = TRUE
    Abandons = FALSE
    MaxCrashes = 0
SPECIFICATION Spec
CHECK_DEADLOCK FALSE
INVARIANTS
    JoinersWoken
