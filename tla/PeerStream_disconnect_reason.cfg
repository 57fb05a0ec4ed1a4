CONSTANTS
    Ends <- MCEnds
    LocalCaps <- MCCapsSentry
    Data <- MCData
    Msgs <- MCMsgs
    MaxSends = 2
    Hostile = FALSE
    HostileFrames = {}
    OversizeData = {}
SPECIFICATION Spec
INVARIANTS
    DisconnectRoundTrip
CHECK_DEADLOCK FALSE
