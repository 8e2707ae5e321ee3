CONSTANTS
    p1 = p1
    p2 = p2
    c1 = c1
    c2 = c2
    small = small
    medium = medium
    large = large
    oversized = oversized
    Producers = {p1, p2}
    Consumers = {c1, c2}
    Messages = {small, medium, large, oversized}
    Bytes <- MCBytes
    MessageLimit = 2
    ByteLimit = 3
    Children = {k1, k2, k3, k4, k5}
SPECIFICATION AllSpec
INVARIANTS
    QueueSound
    NoLostWakeup
    WorkersSound
CHECK_DEADLOCK FALSE
PROPERTIES
    ImplementsChannel
    RunImplements
    CallsReturn
