---------------------------- MODULE BlockTracker ----------------------------
(***************************************************************************)
(* The BlockTracker of src/main.rs:73-113: two indices kept side by side,  *)
(* block_by_peer (peer -> best block) and peers_by_block (block -> set of  *)
(* peers, a BTreeMap whose empty sets are pruned).  Both maps are partial  *)
(* functions here: functions whose domain is the set of present keys.     *)
(***************************************************************************)
EXTENDS Naturals

CONSTANTS
    Peers,    \* peer ids
    Heights   \* block numbers callers pass

ASSUME HeightsAssumption == Heights \subseteq Nat

VARIABLES
    blockByPeer,   \* block_by_peer: HashMap<PeerId, u64>
    peersByBlock   \* peers_by_block: BTreeMap<u64, HashSet<PeerId>>

trackerVars == <<blockByPeer, peersByBlock>>

(* peers_by_block with p taken out of the entry for h, the entry removed  *)
(* when it becomes empty (main.rs:82-88 and 95-101).                       *)
RemoveFrom(pbb, h, p) ==
    IF h \in DOMAIN pbb
    THEN IF pbb[h] \ {p} = {}
         THEN [k \in DOMAIN pbb \ {h} |-> pbb[k]]
         ELSE [pbb EXCEPT ![h] = pbb[h] \ {p}]
    ELSE pbb

(* peers_by_block.entry(h).or_default().insert(p) (main.rs:90).            *)
AddTo(pbb, h, p) ==
    [k \in DOMAIN pbb \cup {h} |->
        IF k = h THEN (IF h \in DOMAIN pbb THEN pbb[h] ELSE {}) \cup {p}
        ELSE pbb[k]]

(* Mutant: the old entry is not cleaned up when a peer moves.             *)
SetBlockNumberKeepOld(peer, block) ==
    /\ blockByPeer' = [p \in DOMAIN blockByPeer \cup {peer} |->
                         IF p = peer THEN block ELSE blockByPeer[p]]
    /\ peersByBlock' = AddTo(peersByBlock, block, peer)

(* set_block_number (main.rs:80-91): record the new block, take the peer   *)
(* out of its old block's set, put it in the new one.                      *)
SetBlockNumber(peer, block) ==
    /\ blockByPeer' = [p \in DOMAIN blockByPeer \cup {peer} |->
                         IF p = peer THEN block ELSE blockByPeer[p]]
    /\ peersByBlock' =
         AddTo(IF peer \in DOMAIN blockByPeer
               THEN RemoveFrom(peersByBlock, blockByPeer[peer], peer)
               ELSE peersByBlock,
               block, peer)

(* remove_peer (main.rs:93-103).                                           *)
RemovePeer(peer) ==
    /\ blockByPeer' = [p \in DOMAIN blockByPeer \ {peer} |-> blockByPeer[p]]
    /\ peersByBlock' =
         IF peer \in DOMAIN blockByPeer
         THEN RemoveFrom(peersByBlock, blockByPeer[peer], peer)
         ELSE peersByBlock

(* Mutant: the range scan starts after the requested block.               *)
PeersAboveBlock(block) ==
    UNION {peersByBlock[h] : h \in {k \in DOMAIN peersByBlock : k > block}}

(* peers_with_min_block (main.rs:105-112): the union of the sets of all    *)
(* blocks from `block` on.                                                 *)
PeersWithMinBlock(block) ==
    UNION {peersByBlock[h] : h \in {k \in DOMAIN peersByBlock : k >= block}}

TrackerInit ==
    /\ blockByPeer = [p \in {} |-> 0]
    /\ peersByBlock = [h \in {} |-> {}]

TrackerNext ==
    \E p \in Peers :
        \/ \E h \in Heights : SetBlockNumber(p, h)
        \/ RemovePeer(p)

TrackerSpec == TrackerInit /\ [][TrackerNext]_trackerVars

-----------------------------------------------------------------------------
(* Both indices are partial maps of the right types.                       *)
TrackerTypeOK ==
    /\ DOMAIN blockByPeer \subseteq Peers
    /\ blockByPeer \in [DOMAIN blockByPeer -> Heights]
    /\ DOMAIN peersByBlock \subseteq Heights
    /\ peersByBlock \in [DOMAIN peersByBlock -> SUBSET Peers]

(* Tracker bijection (spec section 8): p is in the set of block h exactly  *)
(* when block_by_peer maps p to h, and no empty set survives any          *)
(* set_block_number or remove_peer.                                        *)
TrackerConsistent ==
    /\ \A h \in DOMAIN peersByBlock : peersByBlock[h] # {}
    /\ \A h \in DOMAIN peersByBlock : \A p \in peersByBlock[h] :
          p \in DOMAIN blockByPeer /\ blockByPeer[p] = h
    /\ \A p \in DOMAIN blockByPeer :
          blockByPeer[p] \in DOMAIN peersByBlock /\ p \in peersByBlock[blockByPeer[p]]

(* The range query answers from the index what block_by_peer says: the    *)
(* peers whose best block is at least the requested one.                   *)
MinBlockQuery ==
    \A h \in Heights :
        PeersWithMinBlock(h) = {p \in DOMAIN blockByPeer : blockByPeer[p] >= h}
=============================================================================
