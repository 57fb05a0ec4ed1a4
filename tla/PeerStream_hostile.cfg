CONSTANTS
    Ends <- MCEnds
    LocalCaps <- MCCapsSentry
    Data <- MCData
    Msgs <- MCMsgsHostile
    MaxSends = 2
    Hostile = TRUE
    HostileFrames <- MCHostileFrames
    OversizeData = {}
SPECIFICATION Spec
INVARIANTS
    TypeOK
    DisconnectIsLast
PROPERTIES
    LatchFinal
CHECK_DEADLOCK FALSE
