------------------------- MODULE BlockTrackerProofs -------------------------
(***************************************************************************)
(* Proofs that the two indices of the BlockTracker stay consistent under   *)
(* every sequence of set_block_number and remove_peer calls, for any sets  *)
(* of peers and heights.                                                   *)
(***************************************************************************)
EXTENDS BlockTracker, TLAPS

(* The inductive invariant: the type and the bijection together.           *)
TrackerInv == TrackerTypeOK /\ TrackerConsistent

LEMMA InitInv == TrackerInit => TrackerInv
BY DEF TrackerInit, TrackerInv, TrackerTypeOK, TrackerConsistent

(* set_block_number keeps both indices in step.                            *)
LEMMA SetBlockNumberInv ==
    ASSUME TrackerInv, NEW p \in Peers, NEW h \in Heights, SetBlockNumber(p, h)
    PROVE  TrackerInv'
BY DEF TrackerInv, TrackerTypeOK, TrackerConsistent, SetBlockNumber, RemoveFrom, AddTo

(* remove_peer keeps both indices in step.                                 *)
LEMMA RemovePeerInv ==
    ASSUME TrackerInv, NEW p \in Peers, RemovePeer(p)
    PROVE  TrackerInv'
BY DEF TrackerInv, TrackerTypeOK, TrackerConsistent, RemovePeer, RemoveFrom

(* Tracker bijection: in every reachable state p is in the set of block h  *)
(* exactly when block_by_peer maps p to h, and no set is empty.            *)
THEOREM TrackerConsistency == TrackerSpec => [](TrackerTypeOK /\ TrackerConsistent)
<1>1. TrackerInit => TrackerInv
  BY InitInv
<1>2. TrackerInv /\ [TrackerNext]_trackerVars => TrackerInv'
  <2> SUFFICES ASSUME TrackerInv, [TrackerNext]_trackerVars PROVE TrackerInv'
    OBVIOUS
  <2>1. CASE \E p \in Peers, h \in Heights : SetBlockNumber(p, h)
    BY <2>1, SetBlockNumberInv
  <2>2. CASE \E p \in Peers : RemovePeer(p)
    BY <2>2, RemovePeerInv
  <2>3. CASE UNCHANGED trackerVars
    BY <2>3 DEF TrackerInv, TrackerTypeOK, TrackerConsistent, trackerVars
  <2>4. QED
    BY <2>1, <2>2, <2>3 DEF TrackerNext
<1>3. QED
  BY <1>1, <1>2, PTL DEF TrackerSpec, TrackerInv

(* The index answers the range query as block_by_peer would.              *)
LEMMA InvImpliesQuery == TrackerInv => MinBlockQuery
<1> SUFFICES ASSUME TrackerInv, NEW h \in Heights
             PROVE  PeersWithMinBlock(h) = {p \in DOMAIN blockByPeer : blockByPeer[p] >= h}
  BY DEF MinBlockQuery
<1>1. PeersWithMinBlock(h) \subseteq {p \in DOMAIN blockByPeer : blockByPeer[p] >= h}
  BY HeightsAssumption DEF TrackerInv, TrackerTypeOK, TrackerConsistent, PeersWithMinBlock
<1>2. {p \in DOMAIN blockByPeer : blockByPeer[p] >= h} \subseteq PeersWithMinBlock(h)
  BY HeightsAssumption DEF TrackerInv, TrackerTypeOK, TrackerConsistent, PeersWithMinBlock
<1>3. QED
  BY <1>1, <1>2

(* peers_with_min_block(h) returns exactly the peers whose recorded best   *)
(* block is at least h, in every reachable state.                          *)
THEOREM MinBlockQueryHolds == TrackerSpec => []MinBlockQuery
BY TrackerConsistency, InvImpliesQuery, PTL DEF TrackerInv
=============================================================================
