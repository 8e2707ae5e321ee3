CONSTANTS
    la = la
    lb = lb
    Messages = 2
    Bytes = 2
    Sizes = {0, 2}
    MaxSends = 3
    MaxGeneration = 3
    Loiters = FALSE
    Supervised = TRUE
SPECIFICATION AllSpec
INVARIANTS
    NothingStranded
PROPERTIES
    LossReaches
    TasksSettle
CHECK_DEADLOCK FALSE
