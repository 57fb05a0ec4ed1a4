CONSTANTS
    Ends <- MCEnds
    LocalCaps <- MCCapsSentry
    Data <- MCData
    Msgs <- MCMsgs
    MaxSends = 3
    Hostile = FALSE
    HostileFrames = {}
    OversizeData = {}
SPECIFICATION Spec
INVARIANTS
    SubprotocolRoundTrip
    
PROPERTIES
    LatchFinal
    
CHECK_DEADLOCK FALSE
