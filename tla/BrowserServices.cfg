CONSTANTS
    la = la
    lb = lb
    Lanes = {la, lb}
    Order <- Assets
    Fixed = {"app"}
    Delivery <- Encoded
    LaneFile = "lane"
    MaxBuilds = 2
    MaxFaults = 1
SPECIFICATION AllSpec
INVARIANTS
    OneBuildRuns
    FramesSound
    SessionSound
    ChannelsSound
    PoolSound
    StreamsSound
    FilesSound
    BodiesSound
    ReadbacksSound
    AudioSound
PROPERTIES
    AppendsKeep
CHECK_DEADLOCK FALSE
