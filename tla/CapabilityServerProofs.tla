----------------------- MODULE CapabilityServerProofs -----------------------
(***************************************************************************)
(* Proofs about the capability server of src/main.rs for every set of      *)
(* peers, statuses and fork ids.                                           *)
(***************************************************************************)
EXTENDS CapabilityServer, SequenceTheorems, TLAPS

(* The strengthening of ValidOnlyAfterCompatibleStatus: the flags it reads *)
(* are a function on Peers and the connected peers are peers.              *)
ValidInv ==
    /\ statusSeen \in [Peers -> BOOLEAN]
    /\ connected \subseteq Peers
    /\ ValidOnlyAfterCompatibleStatus

(* The initial state has no valid peer.                                    *)
LEMMA ValidInit == Init => ValidInv
BY DEF Init, ValidInv, ValidOnlyAfterCompatibleStatus

(* on_peer_connect leaves valid_peers alone and clears the new peer's      *)
(* flag; the peer was not connected, so it was not valid.                  *)
LEMMA ValidConnect ==
    ASSUME ValidInv, NEW p \in Peers, OnPeerConnect(p)
    PROVE  ValidInv'
BY DEF ValidInv, ValidOnlyAfterCompatibleStatus, OnPeerConnect

(* teardown_peer takes the peer out of valid_peers and of the pipes        *)
(* together.                                                               *)
LEMMA ValidDisconnect ==
    ASSUME ValidInv, NEW p \in Peers, OnPeerDisconnect(p)
    PROVE  ValidInv'
BY DEF ValidInv, ValidOnlyAfterCompatibleStatus, OnPeerDisconnect

(* handle_event inserts into valid_peers only on a Status its filter       *)
(* admits, and that same step records the compatible Status.               *)
LEMMA ValidMessage ==
    ASSUME ValidInv, NEW p \in Peers, NEW m \in InboundMsgs, OnPeerMessage(p, m)
    PROVE  ValidInv'
BY DEF ValidInv, ValidOnlyAfterCompatibleStatus, OnPeerMessage

(* A status refresh, a send into the channel and next() change neither     *)
(* valid_peers, the pipes nor the flags.                                   *)
LEMMA ValidOther ==
    ASSUME ValidInv,
           \/ \E s \in Statuses \cup {NoStatus} : RefreshStatus(s)
           \/ \E p \in Peers : SendPending(p) \/ Pull(p) \/ NextTornDown(p)
           \/ UNCHANGED vars
    PROVE  ValidInv'
BY DEF ValidInv, ValidOnlyAfterCompatibleStatus, RefreshStatus, SendPending, Pull,
       NextTornDown, vars

(* Valid peers (spec glossary): in every reachable state a peer is in      *)
(* valid_peers only while it is connected and has sent, during this        *)
(* connection, a Status that the current filter admitted: handle_event,    *)
(* teardown_peer and on_peer_connect keep valid_peers and the session in   *)
(* step across reconnects and refreshes.                                   *)
THEOREM ValidPeersHaveStatus == Spec => []ValidOnlyAfterCompatibleStatus
<1>1. Init => ValidInv
  BY ValidInit
<1>2. ValidInv /\ [Next]_vars => ValidInv'
  <2> SUFFICES ASSUME ValidInv, [Next]_vars PROVE ValidInv'
    OBVIOUS
  <2>1. CASE \E p \in Peers : OnPeerConnect(p)
    BY <2>1, ValidConnect
  <2>2. CASE \E p \in Peers : OnPeerDisconnect(p)
    BY <2>2, ValidDisconnect
  <2>3. CASE \E p \in Peers : \E m \in InboundMsgs : OnPeerMessage(p, m)
    BY <2>3, ValidMessage
  <2>4. CASE \/ \E s \in Statuses \cup {NoStatus} : RefreshStatus(s)
             \/ \E p \in Peers : SendPending(p) \/ Pull(p) \/ NextTornDown(p)
             \/ UNCHANGED vars
    BY <2>4, ValidOther
  <2>5. QED
    BY <2>1, <2>2, <2>3, <2>4 DEF Next
<1>3. ValidInv => ValidOnlyAfterCompatibleStatus
  BY DEF ValidInv
<1>4. QED
  BY <1>1, <1>2, <1>3, PTL DEF Spec
-----------------------------------------------------------------------------
(* The strengthening of TrackerMatchesPipes: the tracker's indices are     *)
(* typed partial maps and the connected peers are peers.                   *)
PipesInv ==
    /\ connected \subseteq Peers
    /\ Tracker!TrackerTypeOK
    /\ TrackerMatchesPipes

LEMMA PipesInit == Init => PipesInv
BY DEF Init, PipesInv, TrackerMatchesPipes, Tracker!TrackerInit,
       Tracker!TrackerTypeOK, Tracker!TrackerConsistent

(* setup_peer adds the new peer to the pipes and, at block 0, to both      *)
(* indices of the tracker.                                                 *)
LEMMA PipesConnect ==
    ASSUME PipesInv, NEW p \in Peers, OnPeerConnect(p)
    PROVE  PipesInv'
<1>a. p \notin DOMAIN blockByPeer
  BY DEF PipesInv, TrackerMatchesPipes, OnPeerConnect
<1>b. /\ blockByPeer' = [q \in DOMAIN blockByPeer \cup {p} |->
                          IF q = p THEN 0 ELSE blockByPeer[q]]
      /\ peersByBlock' = Tracker!AddTo(peersByBlock, 0, p)
  BY <1>a DEF OnPeerConnect, Tracker!SetBlockNumber
<1>c. Tracker!TrackerTypeOK'
  BY <1>b DEF PipesInv, Tracker!TrackerTypeOK, Tracker!AddTo
<1>d. \A h \in DOMAIN peersByBlock' : peersByBlock'[h] # {}
  BY <1>b DEF PipesInv, TrackerMatchesPipes, Tracker!TrackerConsistent, Tracker!AddTo
<1>e. \A h \in DOMAIN peersByBlock' : \A q \in peersByBlock'[h] :
          q \in DOMAIN blockByPeer' /\ blockByPeer'[q] = h
  BY <1>a, <1>b DEF PipesInv, TrackerMatchesPipes, Tracker!TrackerTypeOK,
                   Tracker!TrackerConsistent, Tracker!AddTo
<1>f. \A q \in DOMAIN blockByPeer' :
          blockByPeer'[q] \in DOMAIN peersByBlock' /\ q \in peersByBlock'[blockByPeer'[q]]
  BY <1>b DEF PipesInv, TrackerMatchesPipes, Tracker!TrackerConsistent, Tracker!AddTo
<1>1. Tracker!TrackerTypeOK' /\ Tracker!TrackerConsistent'
  BY <1>c, <1>d, <1>e, <1>f DEF Tracker!TrackerConsistent
<1>2. DOMAIN blockByPeer' = connected' /\ connected' \subseteq Peers
  BY DEF PipesInv, TrackerMatchesPipes, OnPeerConnect, Tracker!SetBlockNumber
<1>3. QED
  BY <1>1, <1>2 DEF PipesInv, TrackerMatchesPipes

(* teardown_peer removes the peer from the pipes and from the tracker.    *)
LEMMA PipesDisconnect ==
    ASSUME PipesInv, NEW p \in Peers, OnPeerDisconnect(p)
    PROVE  PipesInv'
<1>1. Tracker!TrackerTypeOK' /\ Tracker!TrackerConsistent'
  BY DEF PipesInv, TrackerMatchesPipes, OnPeerDisconnect, Tracker!TrackerTypeOK,
         Tracker!TrackerConsistent, Tracker!RemovePeer, Tracker!RemoveFrom
<1>2. DOMAIN blockByPeer' = connected' /\ connected' \subseteq Peers
  BY DEF PipesInv, TrackerMatchesPipes, OnPeerDisconnect, Tracker!RemovePeer
<1>3. QED
  BY <1>1, <1>2 DEF PipesInv, TrackerMatchesPipes

(* No other step touches the pipes or the tracker.                        *)
LEMMA PipesOther ==
    ASSUME PipesInv,
           \/ \E s \in Statuses \cup {NoStatus} : RefreshStatus(s)
           \/ \E p \in Peers : SendPending(p) \/ Pull(p) \/ NextTornDown(p)
           \/ \E p \in Peers, m \in InboundMsgs : OnPeerMessage(p, m)
           \/ UNCHANGED vars
    PROVE  PipesInv'
BY DEF PipesInv, TrackerMatchesPipes, Tracker!TrackerTypeOK, Tracker!TrackerConsistent,
       RefreshStatus, SendPending, Pull, NextTornDown, OnPeerMessage, vars

(* Every step of the server keeps the pipes and the tracker in step.       *)
LEMMA PipesNext == PipesInv /\ [Next]_vars => PipesInv'
<1> SUFFICES ASSUME PipesInv, [Next]_vars PROVE PipesInv'
  OBVIOUS
<1>1. CASE \E p \in Peers : OnPeerConnect(p)
  BY <1>1, PipesConnect
<1>2. CASE \E p \in Peers : OnPeerDisconnect(p)
  BY <1>2, PipesDisconnect
<1>3. CASE \/ \E s \in Statuses \cup {NoStatus} : RefreshStatus(s)
           \/ \E p \in Peers : SendPending(p) \/ Pull(p) \/ NextTornDown(p)
           \/ \E p \in Peers, m \in InboundMsgs : OnPeerMessage(p, m)
           \/ UNCHANGED vars
  BY <1>3, PipesOther
<1>4. QED
  BY <1>1, <1>2, <1>3 DEF Next

(* Tracker and pipes agree (spec 3 and 8): in every reachable state the    *)
(* block tracker has an entry for exactly the peers in peer_pipes and its  *)
(* two indices form a bijection, because setup_peer and teardown_peer      *)
(* update both under their write locks in one step.                        *)
THEOREM TrackerFollowsPipes == Spec => []TrackerMatchesPipes
<1>1. Init => PipesInv
  BY PipesInit
<1>2. PipesInv /\ [Next]_vars => PipesInv'
  BY PipesNext
<1>3. PipesInv => TrackerMatchesPipes
  BY DEF PipesInv
<1>4. QED
  BY <1>1, <1>2, <1>3, PTL DEF Spec
-----------------------------------------------------------------------------
(* The mailbox of each peer as the abstract Mailbox sees it.               *)
BoxOf == [q \in Peers |-> prelude[q] \o queue[q]]

(* What the refinement needs: the mailbox parts are sequences of events,  *)
(* and a send is only ever pending for a connected peer (the inbound pump  *)
(* delivers Disconnect only after on_peer_event returned).                 *)
MboxInv ==
    /\ connected \subseteq Peers
    /\ prelude \in [Peers -> Seq(OutEvent)]
    /\ queue \in [Peers -> Seq(OutEvent)]
    /\ pending \in [Peers -> Seq(OutEvent)]
    /\ pulled \in [Peers -> Seq(OutEvent)]
    /\ \A q \in Peers : pending[q] # <<>> => q \in connected

(* Taking from a chained sequence takes from its first part.               *)
LEMMA HeadTailConcat ==
    ASSUME NEW S, NEW s \in Seq(S), NEW t \in Seq(S), s # <<>>
    PROVE  /\ s \o t # <<>>
           /\ Head(s \o t) = Head(s)
           /\ Tail(s \o t) = Tail(s) \o t
<1>1. s \o t # <<>>
  BY ConcatEqualIffEmpty
<1>2. Head(s \o t) = Head(s)
  BY ConcatProperties, HeadTailProperties
<1>3. Tail(s \o t) = Tail(s) \o t
  <2>1. Tail(s \o t) \in Seq(S) /\ Tail(s) \o t \in Seq(S)
    BY <1>1, ConcatProperties, HeadTailProperties
  <2>2. Len(Tail(s \o t)) = Len(Tail(s) \o t)
    BY <1>1, ConcatProperties, HeadTailProperties
  <2>3. \A i \in 1 .. Len(Tail(s \o t)) : Tail(s \o t)[i] = (Tail(s) \o t)[i]
    BY <1>1, ConcatProperties, HeadTailProperties
  <2>4. QED
    BY <2>1, <2>2, <2>3, SeqEqual
<1>4. QED
  BY <1>1, <1>2, <1>3

(* The outbound events the server ever produces.                          *)
LEMMA OutEvents ==
    /\ OutMsg(StatusId) \in OutEvent
    /\ OutMsg(TransactionsId) \in OutEvent
    /\ OutMsg(BlockHeadersId) \in OutEvent
    /\ OutMsg(BlockBodiesId) \in OutEvent
    /\ OutDisconnect(DisconnectRequested) \in OutEvent
    /\ OutDisconnect(ProtocolBreach) \in OutEvent
    /\ OutDisconnect(UselessPeer) \in OutEvent
BY Zenon DEF OutEvent

(* The first events of on_peer_connect are one of the two choices the      *)
(* abstract mailbox allows, and are outbound events.                       *)
LEMMA FirstEventsType ==
    FirstEvents \in FirstEventChoices /\ FirstEvents \in Seq(OutEvent)
<1>1. <<OutMsg(StatusId), OutMsg(TransactionsId)>> \in Seq(OutEvent)
  BY OutEvents
<1>2. <<OutDisconnect(DisconnectRequested)>> \in Seq(OutEvent)
  BY OutEvents
<1>3. QED
  BY <1>1, <1>2 DEF FirstEvents, FirstEventChoices

(* Every reply handle_event returns is a sequence of outbound events.     *)
LEMMA ReplyType ==
    ASSUME NEW p \in Peers, NEW m \in InboundMsgs
    PROVE  Reply(p, m) \in Seq(OutEvent)
<1>1. <<>> \in Seq(OutEvent)
  OBVIOUS
<1>2. \A e \in OutEvent : <<e>> \in Seq(OutEvent)
  OBVIOUS
<1>3. OutMsg(IF m.id = GetBlockHeadersId THEN BlockHeadersId ELSE BlockBodiesId) \in OutEvent
  BY OutEvents
<1>4. QED
  BY <1>1, <1>2, <1>3, OutEvents DEF Reply

LEMMA MboxInit == Init => MboxInv
BY DEF Init, MboxInv

(* Every step keeps the mailbox parts typed and pending sends connected.  *)
LEMMA MboxNext == MboxInv /\ [Next]_vars => MboxInv'
<1> SUFFICES ASSUME MboxInv, [Next]_vars PROVE MboxInv'
  OBVIOUS
<1>1. CASE \E p \in Peers : OnPeerConnect(p)
  <2>1. PICK p \in Peers : OnPeerConnect(p)
    BY <1>1
  <2>2. QED
    BY <2>1, FirstEventsType DEF MboxInv, OnPeerConnect
<1>2. CASE \E p \in Peers : OnPeerDisconnect(p)
  BY <1>2 DEF MboxInv, OnPeerDisconnect
<1>3. CASE \E p \in Peers, m \in InboundMsgs : OnPeerMessage(p, m)
  BY <1>3, ReplyType DEF MboxInv, OnPeerMessage
<1>4. CASE \E p \in Peers : SendPending(p)
  BY <1>4, AppendProperties, HeadTailProperties DEF MboxInv, SendPending
<1>5. CASE \E p \in Peers : Pull(p)
  <2>1. PICK p \in Peers : Pull(p)
    BY <1>5
  <2>2. CASE prelude[p] # <<>>
    <3>1. Head(prelude[p]) \in OutEvent /\ Tail(prelude[p]) \in Seq(OutEvent)
      BY <2>2, HeadTailProperties DEF MboxInv
    <3>2. /\ pulled' = [pulled EXCEPT ![p] = Append(@, Head(prelude[p]))]
          /\ prelude' = [prelude EXCEPT ![p] = Tail(@)]
          /\ UNCHANGED <<queue, pending, connected>>
      BY <2>1, <2>2 DEF Pull
    <3>3. QED
      BY <3>1, <3>2, AppendProperties DEF MboxInv
  <2>3. CASE prelude[p] = <<>>
    <3>1. queue[p] # <<>>
      BY <2>1, <2>3 DEF Pull
    <3>2. Head(queue[p]) \in OutEvent /\ Tail(queue[p]) \in Seq(OutEvent)
      BY <3>1, HeadTailProperties DEF MboxInv
    <3>3. /\ pulled' = [pulled EXCEPT ![p] = Append(@, Head(queue[p]))]
          /\ queue' = [queue EXCEPT ![p] = Tail(@)]
          /\ UNCHANGED <<prelude, pending, connected>>
      BY <2>1, <2>3 DEF Pull
    <3>4. QED
      BY <3>2, <3>3, AppendProperties DEF MboxInv
  <2>4. QED
    BY <2>2, <2>3
<1>6. CASE \/ \E s \in Statuses \cup {NoStatus} : RefreshStatus(s)
           \/ UNCHANGED vars
  BY <1>6 DEF MboxInv, RefreshStatus, vars
<1>7. CASE \E p \in Peers : NextTornDown(p)
  <2>1. PICK p \in Peers : NextTornDown(p)
    BY <1>7
  <2>2. Append(pulled[p], OutDisconnect(DisconnectRequested)) \in Seq(OutEvent)
    BY OutEvents, AppendProperties DEF MboxInv
  <2>3. pulled' \in [Peers -> Seq(OutEvent)]
    BY <2>1, <2>2 DEF MboxInv, NextTornDown
  <2>4. QED
    BY <2>1, <2>3 DEF MboxInv, NextTornDown
<1>8. QED
  BY <1>1, <1>2, <1>3, <1>4, <1>5, <1>6, <1>7 DEF Next

(* Each step of the server is a step of the abstract mailbox or leaves it  *)
(* unchanged.                                                              *)
LEMMA MboxStep == MboxInv /\ [Next]_vars => [Box!MNext]_<<connected, BoxOf, pulled>>
<1> SUFFICES ASSUME MboxInv, [Next]_vars
             PROVE  [Box!MNext]_<<connected, BoxOf, pulled>>
  OBVIOUS
<1> USE DEF MboxInv
<1>1. CASE \E p \in Peers : OnPeerConnect(p)
  <2>1. PICK p \in Peers : OnPeerConnect(p)
    BY <1>1
  <2>2. FirstEvents \in FirstEventChoices /\ FirstEvents \in Seq(OutEvent)
    BY FirstEventsType
  <2>3. \A q \in Peers \ {p} : BoxOf'[q] = BoxOf[q]
    BY <2>1 DEF BoxOf, OnPeerConnect
  <2>4. BoxOf'[p] = FirstEvents
    BY <2>1, <2>2, ConcatEmptySeq DEF BoxOf, OnPeerConnect
  <2>5. BoxOf' = [BoxOf EXCEPT ![p] = FirstEvents]
    BY <2>3, <2>4 DEF BoxOf
  <2>6. Box!Open(p)
    BY <2>1, <2>2, <2>5 DEF Box!Open, BoxOf, OnPeerConnect
  <2>7. QED
    BY <2>6 DEF Box!MNext
<1>2. CASE \E p \in Peers : OnPeerDisconnect(p)
  <2>1. PICK p \in Peers : OnPeerDisconnect(p)
    BY <1>2
  <2>2. \A q \in Peers \ {p} : BoxOf'[q] = BoxOf[q]
    BY <2>1 DEF BoxOf, OnPeerDisconnect
  <2>3. BoxOf'[p] = <<>>
    <3>1. <<>> \in Seq(OutEvent)
      OBVIOUS
    <3>2. QED
      BY <2>1, <3>1, ConcatEmptySeq DEF BoxOf, OnPeerDisconnect
  <2>4. BoxOf' = [BoxOf EXCEPT ![p] = <<>>]
    BY <2>2, <2>3 DEF BoxOf
  <2>5. Box!Close(p)
    BY <2>1, <2>4 DEF Box!Close, BoxOf, OnPeerDisconnect
  <2>6. QED
    BY <2>5 DEF Box!MNext
<1>3. CASE \E p \in Peers : SendPending(p)
  <2>1. PICK p \in Peers : SendPending(p)
    BY <1>3
  <2> DEFINE ev == Head(pending[p])
  <2>2. ev \in OutEvent /\ p \in connected
    BY <2>1, HeadTailProperties DEF SendPending
  <2>3. prelude[p] \o Append(queue[p], ev) = Append(prelude[p] \o queue[p], ev)
    <3>1. Append(queue[p], ev) = queue[p] \o <<ev>>
      BY <2>2, AppendIsConcat
    <3>2. Append(prelude[p] \o queue[p], ev) = (prelude[p] \o queue[p]) \o <<ev>>
      BY <2>2, AppendIsConcat, ConcatProperties
    <3>3. prelude[p] \o (queue[p] \o <<ev>>) = (prelude[p] \o queue[p]) \o <<ev>>
      <4>1. <<ev>> \in Seq(OutEvent)
        BY <2>2
      <4>2. QED
        BY <4>1, ConcatAssociative
    <3>4. QED
      BY <3>1, <3>2, <3>3
  <2>4. \A q \in Peers \ {p} : BoxOf'[q] = BoxOf[q]
    BY <2>1 DEF BoxOf, SendPending
  <2>5. BoxOf'[p] = Append(BoxOf[p], ev)
    BY <2>1, <2>3 DEF BoxOf, SendPending
  <2>6. BoxOf' = [BoxOf EXCEPT ![p] = Append(@, ev)]
    BY <2>4, <2>5 DEF BoxOf
  <2>7. Box!Put(p, ev)
    BY <2>1, <2>2, <2>6 DEF Box!Put, BoxOf, SendPending
  <2>8. \E e \in OutEvent : Box!Put(p, e)
    BY <2>2, <2>7 DEF Box!Put
  <2>9. QED
    BY <2>8 DEF Box!MNext
<1>4. CASE \E p \in Peers : Pull(p)
  <2>1. PICK p \in Peers : Pull(p)
    BY <1>4
  <2>2. \A q \in Peers \ {p} : BoxOf'[q] = BoxOf[q]
    BY <2>1 DEF BoxOf, Pull
  <2>3. /\ BoxOf[p] # <<>>
        /\ pulled' = [pulled EXCEPT ![p] = Append(@, Head(BoxOf[p]))]
        /\ BoxOf'[p] = Tail(BoxOf[p])
    <3>1. CASE prelude[p] # <<>>
      <4>1. /\ BoxOf[p] # <<>>
            /\ Head(BoxOf[p]) = Head(prelude[p])
            /\ Tail(BoxOf[p]) = Tail(prelude[p]) \o queue[p]
        BY <3>1, HeadTailConcat DEF BoxOf
      <4>2. QED
        BY <2>1, <3>1, <4>1 DEF BoxOf, Pull
    <3>2. CASE prelude[p] = <<>>
      <4>1. BoxOf[p] = queue[p] /\ BoxOf'[p] = queue'[p]
        BY <2>1, <3>2, ConcatEmptySeq DEF BoxOf, Pull
      <4>2. QED
        BY <2>1, <3>2, <4>1 DEF Pull
    <3>3. QED
      BY <3>1, <3>2
  <2>4. BoxOf' = [BoxOf EXCEPT ![p] = Tail(@)]
    BY <2>2, <2>3 DEF BoxOf
  <2>5. Box!Take(p)
    BY <2>1, <2>3, <2>4 DEF Box!Take, BoxOf, Pull
  <2>6. QED
    BY <2>5 DEF Box!MNext
<1>5. CASE \/ \E p \in Peers, m \in InboundMsgs : OnPeerMessage(p, m)
           \/ \E s \in Statuses \cup {NoStatus} : RefreshStatus(s)
           \/ UNCHANGED vars
  BY <1>5 DEF OnPeerMessage, RefreshStatus, vars, BoxOf
<1>6. CASE \E p \in Peers : NextTornDown(p)
  <2>1. PICK p \in Peers : NextTornDown(p)
    BY <1>6
  <2>2. UNCHANGED <<connected, BoxOf>>
    BY <2>1 DEF NextTornDown, BoxOf
  <2>3. CASE pulled' = [pulled EXCEPT ![p] = Append(@, OutDisconnect(DisconnectRequested))]
    <3>1. Box!Ended(p)
      BY <2>1, <2>2, <2>3 DEF Box!Ended, BoxOf, NextTornDown
    <3>2. QED
      BY <3>1 DEF Box!MNext
  <2>4. CASE UNCHANGED pulled
    BY <2>2, <2>4
  <2>5. QED
    BY <2>1, <2>3, <2>4 DEF NextTornDown
<1>7. QED
  BY <1>1, <1>2, <1>3, <1>4, <1>5, <1>6 DEF Next

(* Mailbox refinement, safety part (spec 4.4 and 9): every behaviour of    *)
(* the server, seen through prelude \o queue, is a behaviour of one FIFO   *)
(* mailbox per peer: on_peer_connect opens it with the first events, the  *)
(* send into channel(1) appends, next() takes the oldest event,           *)
(* teardown_peer discards it, and next() on an ended stream yields its end *)
(* (a panic of next() changes nothing the mailbox shows).                  *)
THEOREM MailboxImplemented == Spec => MailboxRefined
<1>1. Init => Box!MInit
  BY ConcatEmptySeq DEF Init, Box!MInit
<1>2. Init => MboxInv
  BY MboxInit
<1>3. MboxInv /\ [Next]_vars => MboxInv'
  BY MboxNext
<1>4. MboxInv /\ [Next]_vars => [Box!MNext]_Box!mvars
  <2>1. Box!mvars = <<connected, BoxOf, pulled>>
    BY DEF Box!mvars, BoxOf
  <2>2. Box!mvars' = <<connected, BoxOf, pulled>>'
    BY DEF Box!mvars, BoxOf
  <2>3. QED
    BY <2>1, <2>2, MboxStep
<1>5. QED
  BY <1>1, <1>2, <1>3, <1>4, PTL DEF Spec, MailboxRefined
-----------------------------------------------------------------------------
(* Type correctness needs the tracker's typing (PipesInv) and the typing of *)
(* the mailbox parts (MboxInv), which the lemmas above already carry.      *)
TypeInv == TypeOK /\ PipesInv /\ MboxInv

LEMMA TypeInit == Init => TypeInv
<1> SUFFICES ASSUME Init PROVE TypeInv
  OBVIOUS
<1>1. Tracker!TrackerTypeOK
  BY DEF Init, Tracker!TrackerInit, Tracker!TrackerTypeOK
<1>2. events \in [Peers -> 0 .. MaxEvents] /\ \A p \in Peers : conns[p] <= MaxConns[p]
  BY ServerAssumption DEF Init
<1>3. /\ prelude \in [Peers -> Seq(OutEvent)]
      /\ queue \in [Peers -> Seq(OutEvent)]
      /\ pending \in [Peers -> Seq(OutEvent)]
      /\ pulled \in [Peers -> Seq(OutEvent)]
  BY DEF Init
<1>4. /\ forwarded \in [Peers -> Nat]
      /\ greeted \in [Peers -> BOOLEAN]
      /\ statusSeen \in [Peers -> BOOLEAN]
      /\ peerFork \in [Peers -> ForkIds \cup {"none"}]
  BY DEF Init
<1>5. TypeOK
  BY <1>1, <1>2, <1>3, <1>4 DEF Init, TypeOK
<1>6. QED
  BY <1>5, PipesInit, MboxInit DEF TypeInv

(* The fork id handle_event records for an admitted peer is a fork id.     *)
LEMMA AdmitsFork ==
    ASSUME NEW m \in InboundMsgs, Admits(m)
    PROVE  m.fork \in ForkIds
BY DEF InboundMsgs, InMsg, Admits, StatusId, GetBlockHeadersId, GetBlockBodiesId, NewBlockId

(* Every step keeps every variable in its type: handle_event counts at     *)
(* most MaxEvents events per connection, on_peer_connect at most           *)
(* MaxConns[p] connections, and only a Status the filter admits records    *)
(* a fork id.                                                              *)
LEMMA TypeNext == TypeInv /\ [Next]_vars => TypeInv'
<1> SUFFICES ASSUME TypeInv, [Next]_vars PROVE TypeInv'
  OBVIOUS
<1>1. PipesInv'
  BY PipesNext DEF TypeInv
<1>2. MboxInv'
  BY MboxNext DEF TypeInv
<1>3. TypeOK'
  <2> USE DEF TypeInv
  <2>1. CASE \E p \in Peers : OnPeerConnect(p)
    <3>1. PICK p \in Peers : OnPeerConnect(p)
      BY <2>1
    <3>2. conns' \in [Peers -> Nat] /\ \A q \in Peers : conns'[q] <= MaxConns[q]
      <4>1. conns \in [Peers -> Nat] /\ \A q \in Peers : conns[q] <= MaxConns[q]
        BY DEF TypeOK
      <4>2. conns' = [conns EXCEPT ![p] = conns[p] + 1] /\ conns[p] < MaxConns[p]
        BY <3>1 DEF OnPeerConnect
      <4>3. MaxConns[p] \in Nat /\ conns[p] \in Nat
        BY <4>1, ServerAssumption
      <4>4. conns'[p] <= MaxConns[p]
        BY <4>2, <4>3
      <4>5. \A q \in Peers \ {p} : conns'[q] = conns[q]
        BY <4>1, <4>2
      <4>6. QED
        BY <4>1, <4>2, <4>3, <4>4, <4>5
    <3>3. QED
      BY <1>1, <1>2, <3>1, <3>2, ServerAssumption DEF TypeOK, OnPeerConnect, PipesInv, MboxInv, NoStatus
  <2>2. CASE \E p \in Peers : OnPeerDisconnect(p)
    <3>1. PICK p \in Peers : OnPeerDisconnect(p)
      BY <2>2
    <3>2. QED
      BY <1>1, <1>2, <3>1 DEF TypeOK, OnPeerDisconnect, PipesInv, MboxInv
  <2>3. CASE \E p \in Peers, m \in InboundMsgs : OnPeerMessage(p, m)
    <3>1. PICK p \in Peers, m \in InboundMsgs : OnPeerMessage(p, m)
      BY <2>3
    <3>2. peerFork' \in [Peers -> ForkIds \cup {"none"}]
      BY <3>1, AdmitsFork DEF TypeOK, OnPeerMessage
    <3>3. events' \in [Peers -> 0 .. MaxEvents]
      BY <3>1, ServerAssumption DEF TypeOK, OnPeerMessage
    <3>4. QED
      BY <1>1, <1>2, <3>1, <3>2, <3>3 DEF TypeOK, OnPeerMessage, PipesInv, MboxInv
  <2>4. CASE \/ \E s \in Statuses \cup {NoStatus} : RefreshStatus(s)
             \/ \E p \in Peers : SendPending(p) \/ Pull(p) \/ NextTornDown(p)
             \/ UNCHANGED vars
    BY <1>1, <1>2, <2>4
       DEF TypeOK, RefreshStatus, SendPending, Pull, NextTornDown, vars, PipesInv, MboxInv
  <2>5. QED
    BY <2>1, <2>2, <2>3, <2>4 DEF Next
<1>4. QED
  BY <1>1, <1>2, <1>3 DEF TypeInv

(* Type correctness of the capability server (main.rs:117-411 and the     *)
(* status updater): for any peers, statuses, fork ids and bounds, every   *)
(* reachable state gives peer_pipes, the mailboxes, valid_peers, the       *)
(* tracker and the per-peer bookkeeping the shapes the code gives them.    *)
THEOREM TypeCorrect == Spec => []TypeOK
<1>1. Init => TypeInv
  BY TypeInit
<1>2. TypeInv /\ [Next]_vars => TypeInv'
  BY TypeNext
<1>3. TypeInv => TypeOK
  BY DEF TypeInv
<1>4. QED
  BY <1>1, <1>2, <1>3, PTL DEF Spec
-----------------------------------------------------------------------------
(* Prelude first.  The first events of a connection are fixed at connect  *)
(* time: FirstOf(p) is the sequence on_peer_connect built for the current *)
(* connection of p, as greeted[p] records which one it was.               *)
FirstOf(p) ==
    IF greeted[p] THEN <<OutMsg(StatusId), OutMsg(TransactionsId)>>
                  ELSE <<OutDisconnect(DisconnectRequested)>>

(* While the prelude is not drained, what next() returned and what is left *)
(* of the prelude make up the first events; once it is drained, what next()*)
(* returned starts with them.  PreludeFirst only compares the common       *)
(* prefix, which is not preserved by a step on its own.                    *)
PInvAt(p) ==
    IF prelude[p] # <<>>
    THEN pulled[p] \o prelude[p] = FirstOf(p)
    ELSE /\ Len(FirstOf(p)) <= Len(pulled[p])
         /\ SubSeq(pulled[p], 1, Len(FirstOf(p))) = FirstOf(p)

PInv == \A p \in connected : PInvAt(p)

(* Appending to a sequence leaves its prefixes as they were.              *)
LEMMA PrefixAppend ==
    ASSUME NEW S, NEW s \in Seq(S), NEW x \in S, NEW n \in 0 .. Len(s)
    PROVE  SubSeq(Append(s, x), 1, n) = SubSeq(s, 1, n)
OBVIOUS

(* A sequence is the prefix of its concatenation with another.            *)
LEMMA PrefixConcat ==
    ASSUME NEW S, NEW s \in Seq(S), NEW t \in Seq(S)
    PROVE  SubSeq(s \o t, 1, Len(s)) = s
OBVIOUS

(* Moving the head of t to the end of s keeps s \o t.                     *)
(* Concatenating a non-empty sequence makes a sequence longer.            *)
LEMMA ConcatLonger ==
    ASSUME NEW S, NEW s \in Seq(S), NEW t \in Seq(S), t # <<>>
    PROVE  Len(s) < Len(s \o t)
<1>1. Len(t) > 0
  BY EmptySeq
<1>2. Len(s \o t) = Len(s) + Len(t)
  BY ConcatProperties
<1>3. QED
  BY <1>1, <1>2

LEMMA MoveHead ==
    ASSUME NEW S, NEW s \in Seq(S), NEW t \in Seq(S), t # <<>>
    PROVE  Append(s, Head(t)) \o Tail(t) = s \o t
<1>1. Head(t) \in S /\ Tail(t) \in Seq(S) /\ t = <<Head(t)>> \o Tail(t)
  BY HeadTailProperties
<1>2. Append(s, Head(t)) = s \o <<Head(t)>>
  BY <1>1, AppendIsConcat
<1>3. QED
  BY <1>1, <1>2, ConcatAssociative

LEMMA FirstOfType ==
    ASSUME NEW p
    PROVE  FirstOf(p) \in Seq(OutEvent) /\ Len(FirstOf(p)) \in Nat
<1>1. <<OutMsg(StatusId), OutMsg(TransactionsId)>> \in Seq(OutEvent)
  BY OutEvents
<1>2. <<OutDisconnect(DisconnectRequested)>> \in Seq(OutEvent)
  BY OutEvents
<1>3. FirstOf(p) \in Seq(OutEvent)
  BY <1>1, <1>2 DEF FirstOf
<1>4. QED
  BY <1>3

(* A step that leaves prelude[q], pulled[q] and greeted[q] alone leaves   *)
(* PInvAt(q) alone.                                                        *)
LEMMA PInvFrame ==
    ASSUME NEW q,
           prelude'[q] = prelude[q], pulled'[q] = pulled[q], greeted'[q] = greeted[q]
    PROVE  PInvAt(q)' = PInvAt(q)
BY DEF PInvAt, FirstOf

LEMMA PInvInit == Init => PInv
BY DEF Init, PInv

(* on_peer_connect starts p's stream with the prelude it built and nothing *)
(* returned yet, and records in greeted which prelude that was.            *)
LEMMA PInvConnect ==
    ASSUME TypeInv, PInv, NEW p \in Peers, OnPeerConnect(p)
    PROVE  PInv'
<1> SUFFICES ASSUME NEW q \in connected' PROVE PInvAt(q)'
  BY DEF PInv
<1>1. CASE q = p
  <2>1. prelude'[p] = FirstEvents /\ pulled'[p] = <<>> /\ FirstOf(p)' = FirstEvents
    BY DEF OnPeerConnect, TypeInv, TypeOK, FirstOf, FirstEvents
  <2>2. FirstEvents # <<>> /\ FirstEvents \in Seq(OutEvent)
    BY FirstEventsType DEF FirstEventChoices
  <2>3. QED
    BY <1>1, <2>1, <2>2 DEF PInvAt
<1>2. CASE q # p
  <2>1. q \in connected /\ q \in Peers
    BY <1>2 DEF OnPeerConnect, TypeInv, TypeOK
  <2>2. prelude'[q] = prelude[q] /\ pulled'[q] = pulled[q] /\ greeted'[q] = greeted[q]
    BY <1>2, <2>1 DEF OnPeerConnect, TypeInv, TypeOK
  <2>3. QED
    BY <2>1, <2>2, PInvFrame DEF PInv
<1>3. QED
  BY <1>1, <1>2

(* next() takes the head of the prelude while there is one, else the head *)
(* of the channel; both extend what it returned.                           *)
LEMMA PInvPull ==
    ASSUME TypeInv, PInv, NEW p \in Peers, Pull(p)
    PROVE  PInv'
<1> SUFFICES ASSUME NEW q \in connected' PROVE PInvAt(q)'
  BY DEF PInv
<1> DEFINE F == FirstOf(p)
<1>1. q \in connected /\ connected' = connected
  BY DEF Pull
<1>2. CASE q # p
  <2>1. prelude'[q] = prelude[q] /\ pulled'[q] = pulled[q] /\ greeted'[q] = greeted[q]
    BY <1>2 DEF Pull, TypeInv, TypeOK
  <2>2. QED
    BY <1>1, <2>1, PInvFrame DEF PInv
<1>3. /\ pulled[p] \in Seq(OutEvent) /\ prelude[p] \in Seq(OutEvent)
      /\ queue[p] \in Seq(OutEvent)
      /\ F \in Seq(OutEvent) /\ FirstOf(p)' = F /\ p \in connected
  BY FirstOfType DEF TypeInv, TypeOK, Pull, FirstOf
<1>4. PInvAt(p)
  BY <1>3 DEF PInv
<1>5. CASE q = p /\ prelude[p] # <<>>
  <2>1. pulled'[p] = Append(pulled[p], Head(prelude[p]))
        /\ prelude'[p] = Tail(prelude[p])
    BY <1>5 DEF Pull, TypeInv, TypeOK
  <2>2. pulled[p] \o prelude[p] = F
    BY <1>4, <1>5 DEF PInvAt
  <2>3. pulled'[p] \o prelude'[p] = F
    BY <1>3, <1>5, <2>1, <2>2, MoveHead
  <2>4. pulled'[p] \in Seq(OutEvent) /\ prelude'[p] \in Seq(OutEvent)
    BY <1>3, <1>5, <2>1, HeadTailProperties, AppendProperties
  <2>5. CASE prelude'[p] # <<>>
    BY <1>3, <1>5, <2>3, <2>5 DEF PInvAt
  <2>6. CASE prelude'[p] = <<>>
    <3>1. pulled'[p] = F
      BY <2>3, <2>4, <2>6
    <3>2. SubSeq(pulled'[p], 1, Len(F)) = F
      BY <1>3, <3>1
    <3>3. QED
      BY <1>3, <1>5, <2>6, <3>1, <3>2 DEF PInvAt
  <2>7. QED
    BY <2>5, <2>6
<1>6. CASE q = p /\ prelude[p] = <<>>
  <2>1. pulled'[p] = Append(pulled[p], Head(queue[p])) /\ prelude'[p] = <<>>
        /\ queue[p] # <<>>
    BY <1>6 DEF Pull, TypeInv, TypeOK
  <2>2. Len(F) <= Len(pulled[p]) /\ SubSeq(pulled[p], 1, Len(F)) = F
    BY <1>4, <1>6 DEF PInvAt
  <2>3. Head(queue[p]) \in OutEvent
    BY <1>3, <2>1, HeadTailProperties
  <2>4. SubSeq(pulled'[p], 1, Len(F)) = F /\ Len(F) <= Len(pulled'[p])
    BY <1>3, <2>1, <2>2, <2>3, FirstOfType, PrefixAppend, AppendProperties
  <2>5. QED
    BY <1>3, <1>6, <2>1, <2>4 DEF PInvAt
<1>7. QED
  BY <1>2, <1>5, <1>6

(* The other steps leave every connected peer's prelude, returned events  *)
(* and greeting alone: disconnect clears only the leaving peer's prelude, *)
(* and the torn-down stream of a disconnected peer is not constrained.    *)
LEMMA PInvNext == TypeInv /\ PInv /\ [Next]_vars => PInv'
<1> SUFFICES ASSUME TypeInv, PInv, [Next]_vars PROVE PInv'
  OBVIOUS
<1>1. CASE \E p \in Peers : OnPeerConnect(p)
  BY <1>1, PInvConnect
<1>2. CASE \E p \in Peers : Pull(p)
  BY <1>2, PInvPull
<1>3. CASE \E p \in Peers : OnPeerDisconnect(p)
  <2>1. PICK p \in Peers : OnPeerDisconnect(p)
    BY <1>3
  <2> SUFFICES ASSUME NEW q \in connected' PROVE PInvAt(q)'
    BY DEF PInv
  <2>2. q \in connected /\ q # p
    BY <2>1 DEF OnPeerDisconnect
  <2>3. prelude'[q] = prelude[q] /\ pulled'[q] = pulled[q] /\ greeted'[q] = greeted[q]
    BY <2>1, <2>2 DEF OnPeerDisconnect, TypeInv, TypeOK
  <2>4. QED
    BY <2>2, <2>3, PInvFrame DEF PInv
<1>4. CASE \E p \in Peers : NextTornDown(p)
  <2>1. PICK p \in Peers : NextTornDown(p)
    BY <1>4
  <2> SUFFICES ASSUME NEW q \in connected' PROVE PInvAt(q)'
    BY DEF PInv
  <2>2. q \in connected /\ q # p
    BY <2>1 DEF NextTornDown
  <2>3. prelude'[q] = prelude[q] /\ pulled'[q] = pulled[q] /\ greeted'[q] = greeted[q]
    BY <2>1, <2>2 DEF NextTornDown, TypeInv, TypeOK
  <2>4. QED
    BY <2>2, <2>3, PInvFrame DEF PInv
<1>5. CASE \/ \E p \in Peers, m \in InboundMsgs : OnPeerMessage(p, m)
           \/ \E p \in Peers : SendPending(p)
           \/ \E s \in Statuses \cup {NoStatus} : RefreshStatus(s)
           \/ UNCHANGED vars
  <2>1. UNCHANGED <<connected, prelude, pulled, greeted>>
    BY <1>5 DEF OnPeerMessage, SendPending, RefreshStatus, vars
  <2>2. QED
    BY <2>1 DEF PInv, PInvAt, FirstOf
<1>6. QED
  BY <1>1, <1>2, <1>3, <1>4, <1>5 DEF Next

(* The strengthening gives the common-prefix statement PreludeFirst.      *)
LEMMA PInvPreludeFirst == TypeInv /\ PInv => PreludeFirst
<1> SUFFICES ASSUME TypeInv, PInv, NEW p \in connected
             PROVE  LET first == FirstOf(p)
                        n == IF Len(pulled[p]) < Len(first) THEN Len(pulled[p]) ELSE Len(first)
                    IN  SubSeq(pulled[p], 1, n) = SubSeq(first, 1, n)
  BY DEF PreludeFirst, FirstOf
<1>1. pulled[p] \in Seq(OutEvent) /\ prelude[p] \in Seq(OutEvent) /\ FirstOf(p) \in Seq(OutEvent)
  BY FirstOfType DEF TypeInv, TypeOK, MboxInv
<1>2. PInvAt(p)
  BY DEF PInv
<1>3. CASE prelude[p] # <<>>
  <2>1. pulled[p] \o prelude[p] = FirstOf(p)
    BY <1>2, <1>3 DEF PInvAt
  <2>2. Len(pulled[p]) < Len(FirstOf(p))
    BY <1>1, <1>3, <2>1, ConcatLonger
  <2>3. SubSeq(FirstOf(p), 1, Len(pulled[p])) = pulled[p] /\ SubSeq(pulled[p], 1, Len(pulled[p])) = pulled[p]
    <3>1. SubSeq(pulled[p] \o prelude[p], 1, Len(pulled[p])) = pulled[p]
      BY <1>1, PrefixConcat
    <3>2. SubSeq(pulled[p] \o <<>>, 1, Len(pulled[p])) = pulled[p] /\ pulled[p] \o <<>> = pulled[p]
      BY <1>1, PrefixConcat, ConcatEmptySeq
    <3>3. QED
      BY <2>1, <3>1, <3>2
  <2>4. QED
    BY <2>2, <2>3
<1>4. CASE prelude[p] = <<>>
  <2>1. Len(FirstOf(p)) <= Len(pulled[p]) /\ SubSeq(pulled[p], 1, Len(FirstOf(p))) = FirstOf(p)
    BY <1>2, <1>4 DEF PInvAt
  <2>2. SubSeq(FirstOf(p), 1, Len(FirstOf(p))) = FirstOf(p)
    BY <1>1
  <2>3. QED
    BY <1>1, <2>1, <2>2
<1>5. QED
  BY <1>3, <1>4

(* Prelude first (spec 5, main.rs:337-378): for any peers and statuses, the *)
(* first events next() returns on every connection are the Status and      *)
(* Transactions, or the Disconnect, that on_peer_connect built for it,     *)
(* before anything handle_event sends through the channel.                *)
THEOREM PreludeFirstHolds == Spec => []PreludeFirst
<1>1. Init => TypeInv /\ PInv
  BY TypeInit, PInvInit
<1>2. TypeInv /\ PInv /\ [Next]_vars => (TypeInv /\ PInv)'
  BY TypeNext, PInvNext
<1>3. TypeInv /\ PInv => PreludeFirst
  BY PInvPreludeFirst
<1>4. QED
  BY <1>1, <1>2, <1>3, PTL DEF Spec
-----------------------------------------------------------------------------
(* Only on_peer_disconnect removes a peer from valid_peers, and it removes *)
(* it from the connected peers in the same step.                          *)
LEMMA ValidLeaveStep ==
    [Next]_vars => \A p \in validPeers \ validPeers' : p \in connected \ connected'
<1> SUFFICES ASSUME [Next]_vars, NEW q \in validPeers \ validPeers'
             PROVE  q \in connected \ connected'
  OBVIOUS
<1>1. CASE \E p \in Peers : OnPeerDisconnect(p)
  <2>1. PICK p \in Peers : OnPeerDisconnect(p)
    BY <1>1
  <2>2. q = p
    BY <2>1 DEF OnPeerDisconnect
  <2>3. QED
    BY <2>1, <2>2 DEF OnPeerDisconnect
<1>2. CASE \E p \in Peers, m \in InboundMsgs : OnPeerMessage(p, m)
  <2>1. validPeers \subseteq validPeers'
    BY <1>2 DEF OnPeerMessage
  <2>2. QED
    BY <2>1
<1>3. CASE \/ \E p \in Peers : OnPeerConnect(p) \/ SendPending(p) \/ Pull(p) \/ NextTornDown(p)
           \/ \E s \in Statuses \cup {NoStatus} : RefreshStatus(s)
           \/ UNCHANGED vars
  <2>1. validPeers' = validPeers
    BY <1>3 DEF OnPeerConnect, SendPending, Pull, NextTornDown, RefreshStatus, vars
  <2>2. QED
    BY <2>1
<1>4. QED
  BY <1>1, <1>2, <1>3 DEF Next

(* A valid peer stays valid for as long as its connection lasts           *)
(* (main.rs:155-163, 193-211): for any peers, statuses and fork filters,   *)
(* neither a rejected Status nor a status refresh demotes it; only         *)
(* teardown_peer does, together with the disconnect.                       *)
THEOREM ValidLeavesOnlyOnTeardownHolds == Spec => ValidLeavesOnlyOnTeardown
<1>1. [Next]_vars => [\A p \in validPeers \ validPeers' : p \in connected \ connected']_vars
  BY ValidLeaveStep
<1>2. QED
  BY <1>1, PTL DEF Spec, ValidLeavesOnlyOnTeardown
=============================================================================
