CONSTANTS
    Ends <- MCEnds
    LocalCaps <- MCCapsTwo
    Data <- MCData
    Msgs <- MCMsgsSub
    MaxSends = 2
    Hostile = FALSE
    HostileFrames = {}
    OversizeData = {}
SPECIFICATION Spec
INVARIANTS
    SubprotocolRoundTrip
CHECK_DEADLOCK FALSE
