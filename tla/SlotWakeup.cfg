CONSTANTS
    Tasks = {1, 2}
    Forks = {1}
    Limit = 2
    HasDeadline = FALSE
    Hosted = FALSE
    Activations = 64
    BlockOps = {"spawn", "work"}
    TaskOps = {"ext"}
    BlockSteps = 3
    TaskSteps = 1
    Catches = FALSE
    LenderCatches = FALSE
    Deliberate = {FALSE}
SPECIFICATION Spec
CHECK_DEADLOCK FALSE
INVARIANTS
    SlotNoticed
