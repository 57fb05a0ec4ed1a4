CONSTANTS
    Ends <- MCEnds
    LocalCaps <- MCCapsSentry
    Data <- MCData
    Msgs <- MCMsgsSub
    MaxSends = 1
    Hostile = TRUE
    HostileFrames <- MCHostileFrames
    OversizeData = {}
SPECIFICATION Spec
INVARIANTS
    InboundIdInRange
CHECK_DEADLOCK FALSE
