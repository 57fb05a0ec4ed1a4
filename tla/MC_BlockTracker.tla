-------------------------- MODULE MC_BlockTracker --------------------------
EXTENDS BlockTracker
CONSTANTS p1, p2, p3, p4
MCPeers == {p1, p2, p3, p4}
MCHeights == 0 .. 2
=============================================================================
