CONSTANTS
    p1 = p1
    p2 = p2
    s1 = s1
    s2 = s2
    Peers <- MCPeers
    Statuses <- MCStatusesFork
    ForkIds <- MCForkIds
    CompatibleWith <- MCCompatibleWithFork
    MaxEvents = 2
    MaxConns <- MCOneConn
SPECIFICATION Spec
INVARIANTS
    ValidPeersCompatible
