------------------------ MODULE MC_CapabilityServer ------------------------
EXTENDS CapabilityServer
CONSTANTS p1, p2, s1, s2
MCPeers == {p1, p2}
\* f1 is the local fork id; f2 is a remote on an incompatible fork.
MCForkIds == {"f1", "f2"}
MCCompatibleWith == [s \in {s1} |-> {"f1"}]
\* s2 is the status after the local head passed a fork block: its filter
\* accepts the new fork id f2 and no longer f1.
MCStatusesFork == {s1, s2}
MCCompatibleWithFork == [s \in {s1, s2} |-> IF s = s1 THEN {"f1"} ELSE {"f2"}]
(* Connection bounds: p1 may reconnect, p2 connects once; and one        *)
(* connection each.                                                        *)
MCMaxConns == [p \in MCPeers |-> IF p = p1 THEN 2 ELSE 1]
MCOneConn == [p \in MCPeers |-> 1]
=============================================================================
