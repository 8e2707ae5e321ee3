CONSTANTS
    Tasks = {1, 2, 3}
    Forks = {}
    Limit = 1
    HasDeadline = TRUE
    Hosted = TRUE
    Activations = 1
    BlockOps = {"spawn", "await"}
    TaskOps = {"fail", "ext", "spawn", "drain"}
    BlockSteps = 3
    TaskSteps = 1
    Catches = FALSE
    LenderCatches = FALSE
    Deliberate = {FALSE}
SPECIFICATION FairSpec
CHECK_DEADLOCK FALSE
INVARIANTS
    HostNotNeeded
    CancellationReaches
PROPERTIES
    RequestSettles
    LenderResumes
