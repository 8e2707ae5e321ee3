CONSTANTS
    Messages = 2
    Bytes = 2
    Sizes = {0, 2}
    MaxSends = 3
    MaxGeneration = 3
    Loiters = TRUE
    Supervised = FALSE
SPECIFICATION Spec
INVARIANTS
    NothingLost
CHECK_DEADLOCK FALSE
