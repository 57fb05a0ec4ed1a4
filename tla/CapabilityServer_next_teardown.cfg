CONSTANTS
    p1 = p1
    p2 = p2
    s1 = s1
    s2 = s2
    Peers <- MCPeers
    Statuses = {s1}
    ForkIds <- MCForkIds
    CompatibleWith <- MCCompatibleWith
    MaxEvents = 1
    MaxConns <- MCOneConn
SPECIFICATION Spec
INVARIANTS
    NextNeverPanics
