CONSTANTS
    h1 = h1
    Numbers <- MCNumbers
    Hashes <- MCHashes
    MaxHeaders = 2
    MaxSkip = 2
SPECIFICATION Spec
INVARIANTS
    TypeOK
    
CHECK_DEADLOCK FALSE
