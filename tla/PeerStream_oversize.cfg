CONSTANTS
    Ends <- MCEnds
    LocalCaps <- MCCapsSentry
    Data <- MCDataBig
    Msgs <- MCMsgsBig
    MaxSends = 1
    Hostile = FALSE
    HostileFrames = {}
    OversizeData <- MCOversize
SPECIFICATION Spec
INVARIANTS
    SubprotocolRoundTrip
CHECK_DEADLOCK FALSE
