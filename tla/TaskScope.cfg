CONSTANTS
    Tasks = {1, 2, 3}
    Forks = {}
    Limit = 2
    HasDeadline = FALSE
    Hosted = FALSE
    Activations = 64
    BlockOps = {"spawn", "await", "ext", "cancelTask", "cancelScope"}
    TaskOps = {"fail", "ext", "spawn", "await", "cancelTask", "cancelScope", "drain"}
    BlockSteps = 3
    TaskSteps = 2
    Catches = TRUE
    LenderCatches = FALSE
    Deliberate = {FALSE}
SPECIFICATION Spec
CHECK_DEADLOCK FALSE
INVARIANTS
    MembersSound
    CancellationReaches
