CONSTANTS
    p1 = p1
    p2 = p2
    p3 = p3
    p4 = p4
    Peers <- MCPeers
    Heights <- MCHeights
SPECIFICATION TrackerSpec
INVARIANTS
    TrackerConsistent
    MinBlockQuery
