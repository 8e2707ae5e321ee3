CONSTANTS
    Tasks = {1, 2}
    Forks = {1, 2}
    Limit = 2
    HasDeadline = TRUE
    Hosted = FALSE
    Activations = 64
    BlockOps = {"spawn", "work", "ext", "forkAwait", "cancelScope", "cancelFork", "checkpoint"}
    TaskOps = {"fail", "work", "forkAwait", "cancelFork", "checkpoint"}
    BlockSteps = 3
    TaskSteps = 2
    Catches = FALSE
    LenderCatches = FALSE
    Deliberate = {FALSE}
SPECIFICATION Spec
CHECK_DEADLOCK FALSE
INVARIANTS
    TypeOK
    FailureOwned
    SlotsSound
    NothingLeft
PROPERTIES
    OneWay
