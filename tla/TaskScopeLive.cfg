CONSTANTS
    Tasks = {1, 2}
    Forks = {1, 2}
    Limit = 2
    HasDeadline = FALSE
    Hosted = FALSE
    Activations = 64
    BlockOps = {"spawn", "work", "await", "forkAwait", "ext", "cancelScope"}
    TaskOps = {"fail", "ext", "spawn", "await", "work", "drain"}
    BlockSteps = 3
    TaskSteps = 1
    Catches = FALSE
    LenderCatches = FALSE
    Deliberate = {FALSE}
SPECIFICATION FairSpec
CHECK_DEADLOCK FALSE
PROPERTIES
    CloseCompletes
    BlockReturns
