-------------------------- MODULE CapabilityServer --------------------------
(***************************************************************************)
(* The eth/64 capability server of src/main.rs: CapabilityServerImpl with  *)
(* its shared state (peer_pipes, block_tracker, valid_peers,               *)
(* status_message), the per-peer mailbox (a prelude of first events        *)
(* chained with a channel of capacity 1), handle_event and on_peer_event,  *)
(* next, and the status updater task.  The Swarm that calls these is the   *)
(* environment: it connects and disconnects peers, delivers the remote's   *)
(* messages one at a time per peer (the inbound pump awaits               *)
(* on_peer_event), and pulls outbound events with next().                 *)
(*                                                                         *)
(* Payloads are abstracted to their eth message id, whether they decode,   *)
(* and, for Status, the remote's fork id.  A local status value stands for *)
(* the (StatusData, ForkFilter) pair; CompatibleWith[s] is the set of fork *)
(* ids its filter accepts.                                                 *)
(***************************************************************************)
EXTENDS Naturals, Sequences

CONSTANTS
    Peers,           \* peer ids
    Statuses,        \* local status values the updater can install
    ForkIds,         \* fork ids remotes present
    CompatibleWith,  \* CompatibleWith[s]: fork ids the filter of s accepts
    MaxEvents,       \* bound on inbound events per connection
    MaxConns         \* MaxConns[p]: bound on connections of peer p

ASSUME ServerAssumption ==
    /\ CompatibleWith \in [Statuses -> SUBSET ForkIds]
    /\ MaxEvents \in Nat /\ MaxConns \in [Peers -> Nat]

NoStatus == "none"

(* eth/64 message ids (spec section 6) and DisconnectReason values.       *)
StatusId == 0
NewBlockHashesId == 1
TransactionsId == 2
GetBlockHeadersId == 3
BlockHeadersId == 4
GetBlockBodiesId == 5
BlockBodiesId == 6
NewBlockId == 7
DisconnectRequested == 0
ProtocolBreach == 2
UselessPeer == 3

(* OutboundEvent::Message and OutboundEvent::Disconnect.                  *)
OutMsg(id) == [k |-> "msg", id |-> id]
OutDisconnect(r) == [k |-> "disconnect", r |-> r]

(* An inbound eth message: its id, whether its RLP decodes, its fork id.  *)
(* One message per path of handle_event: a Status per fork id and one that *)
(* does not decode, requests that decode and one that does not, a gossip  *)
(* message that is forwarded, and an unknown id (17) that is ignored.      *)
InMsg(id, ok, fork) == [id |-> id, ok |-> ok, fork |-> fork]
InboundMsgs ==
    {InMsg(StatusId, TRUE, f) : f \in ForkIds}
    \cup {InMsg(StatusId, FALSE, "none"), InMsg(GetBlockHeadersId, FALSE, "none")}
    \cup {InMsg(i, TRUE, "none") :
            i \in {GetBlockHeadersId, GetBlockBodiesId, NewBlockId, 17}}

VARIABLES
    status,        \* status_message: a local status or NoStatus
    connected,     \* the keys of peer_pipes
    prelude,       \* prelude[p]: first events of p's receiver not yet pulled
    queue,         \* queue[p]: the channel(1) of p's pipes
    pending,       \* pending[p]: the event on_peer_event awaits to send
    validPeers,    \* valid_peers
    blockByPeer,   \* block_tracker.block_by_peer
    peersByBlock,  \* block_tracker.peers_by_block
    forwarded,     \* forwarded[p]: messages forwarded to control, this connection
    pulled,        \* pulled[p]: events next(p) returned this connection
    greeted,       \* greeted[p]: our Status opened p's prelude
    statusSeen,    \* statusSeen[p]: p sent a compatible Status this connection
    peerFork,      \* peerFork[p]: the fork id of the Status that admitted p
    crashed,       \* a call of next() panicked on receiver(peer).unwrap()
    events,        \* events[p]: inbound events this connection (bounded)
    conns          \* conns[p]: connections so far (bounded)

Tracker == INSTANCE BlockTracker WITH Heights <- {0}

vars == <<status, connected, prelude, queue, pending, validPeers, blockByPeer,
          peersByBlock, forwarded, pulled, greeted, statusSeen, peerFork, crashed, events, conns>>
ghostVars == <<forwarded, pulled, greeted, statusSeen, peerFork, crashed, events, conns>>

Init ==
    /\ status = NoStatus
    /\ connected = {}
    /\ prelude = [p \in Peers |-> <<>>]
    /\ queue = [p \in Peers |-> <<>>]
    /\ pending = [p \in Peers |-> <<>>]
    /\ validPeers = {}
    /\ Tracker!TrackerInit
    /\ forwarded = [p \in Peers |-> 0]
    /\ pulled = [p \in Peers |-> <<>>]
    /\ greeted = [p \in Peers |-> FALSE]
    /\ statusSeen = [p \in Peers |-> FALSE]
    /\ peerFork = [p \in Peers |-> "none"]
    /\ crashed = FALSE
    /\ events = [p \in Peers |-> 0]
    /\ conns = [p \in Peers |-> 0]

(* The first events of on_peer_connect (main.rs:337-367).                  *)
FirstEvents ==
    IF status # NoStatus
    THEN <<OutMsg(StatusId), OutMsg(TransactionsId)>>
    ELSE <<OutDisconnect(DisconnectRequested)>>

(* on_peer_connect and setup_peer (main.rs:133-139, 336-378).  The Swarm   *)
(* never connects a peer twice (the assert of line 137).                   *)
OnPeerConnect(p) ==
    /\ p \notin connected
    /\ conns[p] < MaxConns[p]
    /\ connected' = connected \cup {p}
    /\ prelude' = [prelude EXCEPT ![p] = FirstEvents]
    /\ queue' = [queue EXCEPT ![p] = <<>>]
    /\ Tracker!SetBlockNumber(p, 0)
    /\ greeted' = [greeted EXCEPT ![p] = status # NoStatus]
    /\ statusSeen' = [statusSeen EXCEPT ![p] = FALSE]
    /\ peerFork' = [peerFork EXCEPT ![p] = "none"]
    /\ pulled' = [pulled EXCEPT ![p] = <<>>]
    /\ forwarded' = [forwarded EXCEPT ![p] = 0]
    /\ events' = [events EXCEPT ![p] = 0]
    /\ conns' = [conns EXCEPT ![p] = @ + 1]
    /\ UNCHANGED <<status, pending, validPeers, crashed>>

(* Mutant: teardown_peer without valid_peers.remove (main.rs:162).        *)
OnPeerDisconnectKeepValid(p) ==
    /\ p \in connected
    /\ pending[p] = <<>>
    /\ connected' = connected \ {p}
    /\ prelude' = [prelude EXCEPT ![p] = <<>>]
    /\ queue' = [queue EXCEPT ![p] = <<>>]
    /\ Tracker!RemovePeer(p)
    /\ UNCHANGED <<status, pending, validPeers, ghostVars>>

(* Mutant: teardown_peer without block_tracker.remove_peer (main.rs:161). *)
OnPeerDisconnectKeepTracker(p) ==
    /\ p \in connected
    /\ pending[p] = <<>>
    /\ connected' = connected \ {p}
    /\ prelude' = [prelude EXCEPT ![p] = <<>>]
    /\ queue' = [queue EXCEPT ![p] = <<>>]
    /\ validPeers' = validPeers \ {p}
    /\ UNCHANGED <<status, pending, blockByPeer, peersByBlock, ghostVars>>

(* Mutant: teardown_peer leaves the channel's buffered event in place.    *)
OnPeerDisconnectKeepQueue(p) ==
    /\ p \in connected
    /\ pending[p] = <<>>
    /\ connected' = connected \ {p}
    /\ prelude' = [prelude EXCEPT ![p] = <<>>]
    /\ Tracker!RemovePeer(p)
    /\ validPeers' = validPeers \ {p}
    /\ UNCHANGED <<status, queue, pending, ghostVars>>

(* on_peer_event(Disconnect) -> handle_event -> teardown_peer              *)
(* (main.rs:155-163, 179-181): all three maps under their write locks.     *)
OnPeerDisconnect(p) ==
    /\ p \in connected
    /\ pending[p] = <<>>
    /\ connected' = connected \ {p}
    /\ prelude' = [prelude EXCEPT ![p] = <<>>]
    /\ queue' = [queue EXCEPT ![p] = <<>>]
    /\ Tracker!RemovePeer(p)
    /\ validPeers' = validPeers \ {p}
    /\ UNCHANGED <<status, pending, forwarded, pulled, greeted, statusSeen, peerFork, crashed, events,
                   conns>>

(* Mutant: a request is answered with its own message id.                *)
ReplyEchoId(p, m) ==
    IF p \in validPeers /\ m.id \in {GetBlockHeadersId, GetBlockBodiesId} /\ m.ok
    THEN <<OutMsg(m.id)>>
    ELSE IF m.id = StatusId /\ ~m.ok THEN <<OutDisconnect(ProtocolBreach)>>
    ELSE <<>>

(* The reply handle_event returns for message m from peer p, valid or not *)
(* (main.rs:186-329): <<>> for Ok(None), else the event on_peer_event      *)
(* sends (main.rs:383-394).                                                *)
Reply(p, m) ==
    LET valid == p \in validPeers IN
    IF m.id = StatusId
    THEN IF ~m.ok THEN <<OutDisconnect(ProtocolBreach)>>
         ELSE IF status # NoStatus /\ m.fork \notin CompatibleWith[status]
              THEN <<OutDisconnect(UselessPeer)>>
              ELSE <<>>
    ELSE IF valid /\ m.id \in {GetBlockHeadersId, GetBlockBodiesId}
    THEN IF ~m.ok THEN <<OutDisconnect(ProtocolBreach)>>
         ELSE <<OutMsg(IF m.id = GetBlockHeadersId THEN BlockHeadersId
                       ELSE BlockBodiesId)>>
    ELSE <<>>

(* Status admits the peer when a local status is held and its filter      *)
(* accepts the remote fork id (main.rs:192-212).                           *)
Admits(m) ==
    m.id = StatusId /\ m.ok /\ status # NoStatus /\ m.fork \in CompatibleWith[status]

(* Messages forwarded to control (main.rs:309-323).                        *)
Forwards(p, m) ==
    p \in validPeers
    /\ m.id \in {BlockHeadersId, BlockBodiesId, NewBlockId, NewBlockHashesId}

(* Mutant: a rejected Status takes the peer out of valid_peers at once.  *)
OnPeerMessageDemote(p, m) ==
    /\ p \in connected
    /\ pending[p] = <<>>
    /\ events[p] < MaxEvents
    /\ events' = [events EXCEPT ![p] = @ + 1]
    /\ pending' = [pending EXCEPT ![p] = Reply(p, m)]
    /\ validPeers' = IF Admits(m) THEN validPeers \cup {p}
                     ELSE IF m.id = StatusId THEN validPeers \ {p} ELSE validPeers
    /\ statusSeen' = [statusSeen EXCEPT ![p] = @ \/ Admits(m)]
    /\ peerFork' = IF Admits(m) THEN [peerFork EXCEPT ![p] = m.fork] ELSE peerFork
    /\ forwarded' = [forwarded EXCEPT ![p] = @ + (IF Forwards(p, m) THEN 1 ELSE 0)]
    /\ UNCHANGED <<status, connected, prelude, queue, blockByPeer, peersByBlock,
                   pulled, greeted, crashed, conns>>

(* on_peer_event(Message) up to the send: handle_event runs and its result *)
(* is left for the blocking send (main.rs:173-330, 380-386).               *)
OnPeerMessage(p, m) ==
    /\ p \in connected
    /\ pending[p] = <<>>
    /\ events[p] < MaxEvents
    /\ events' = [events EXCEPT ![p] = @ + 1]
    /\ pending' = [pending EXCEPT ![p] = Reply(p, m)]
    /\ validPeers' = IF Admits(m) THEN validPeers \cup {p} ELSE validPeers
    /\ statusSeen' = [statusSeen EXCEPT ![p] = @ \/ Admits(m)]
    /\ peerFork' = IF Admits(m) THEN [peerFork EXCEPT ![p] = m.fork] ELSE peerFork
    /\ forwarded' = [forwarded EXCEPT ![p] = @ + (IF Forwards(p, m) THEN 1 ELSE 0)]
    /\ UNCHANGED <<status, connected, prelude, queue, blockByPeer, peersByBlock,
                   pulled, greeted, crashed, conns>>

(* The send of on_peer_event into the capacity-1 channel completes once   *)
(* it has room (main.rs:384-394, 369).                                     *)
SendPending(p) ==
    /\ pending[p] # <<>>
    /\ Len(queue[p]) < 1
    /\ queue' = [queue EXCEPT ![p] = Append(@, Head(pending[p]))]
    /\ pending' = [pending EXCEPT ![p] = <<>>]
    /\ UNCHANGED <<status, connected, prelude, validPeers, blockByPeer, peersByBlock,
                   forwarded, pulled, greeted, statusSeen, peerFork, crashed, events, conns>>

(* Mutant: the receiver merges prelude and channel, channel first.        *)
PullQueueFirst(p) ==
    /\ p \in connected
    /\ prelude[p] # <<>> \/ queue[p] # <<>>
    /\ IF queue[p] # <<>>
       THEN /\ pulled' = [pulled EXCEPT ![p] = Append(@, Head(queue[p]))]
            /\ queue' = [queue EXCEPT ![p] = Tail(@)]
            /\ UNCHANGED prelude
       ELSE /\ pulled' = [pulled EXCEPT ![p] = Append(@, Head(prelude[p]))]
            /\ prelude' = [prelude EXCEPT ![p] = Tail(@)]
            /\ UNCHANGED queue
    /\ UNCHANGED <<status, connected, pending, validPeers, blockByPeer, peersByBlock,
                   forwarded, greeted, statusSeen, peerFork, crashed, events, conns>>

(* Mutant: the receiver is the prelude alone, not chained with the channel.*)
PullPreludeOnly(p) ==
    /\ p \in connected
    /\ prelude[p] # <<>>
    /\ pulled' = [pulled EXCEPT ![p] = Append(@, Head(prelude[p]))]
    /\ prelude' = [prelude EXCEPT ![p] = Tail(@)]
    /\ UNCHANGED <<status, connected, queue, pending, validPeers, blockByPeer,
                   peersByBlock, forwarded, greeted, statusSeen, peerFork, crashed, events, conns>>

(* next (main.rs:399-409): the receiver yields the prelude, then the       *)
(* channel; with nothing to yield it waits.                                *)
Pull(p) ==
    /\ p \in connected
    /\ prelude[p] # <<>> \/ queue[p] # <<>>
    /\ IF prelude[p] # <<>>
       THEN /\ pulled' = [pulled EXCEPT ![p] = Append(@, Head(prelude[p]))]
            /\ prelude' = [prelude EXCEPT ![p] = Tail(@)]
            /\ UNCHANGED queue
       ELSE /\ pulled' = [pulled EXCEPT ![p] = Append(@, Head(queue[p]))]
            /\ queue' = [queue EXCEPT ![p] = Tail(@)]
            /\ UNCHANGED prelude
    /\ UNCHANGED <<status, connected, pending, validPeers, blockByPeer, peersByBlock,
                   forwarded, greeted, statusSeen, peerFork, crashed, events, conns>>

(* One round of the status updater (main.rs:519-567): a status on success, *)
(* NoStatus when control, the data provider or the best-hash lookup fails. *)
RefreshStatus(s) ==
    /\ status' = s
    /\ UNCHANGED <<connected, prelude, queue, pending, validPeers, blockByPeer,
                   peersByBlock, forwarded, pulled, greeted, statusSeen, peerFork, crashed, events, conns>>

(* next for a torn-down peer (main.rs:399-409), called by the outbound   *)
(* pump of the session, which runs beside the inbound pump (spec 5) and    *)
(* keeps asking until next returns a Disconnect.  Either the call took     *)
(* the receiver before teardown dropped the sender, and the ended stream   *)
(* yields Disconnect(DisconnectRequested); or it came after, and           *)
(* receiver(peer).unwrap() panics on the missing entry.                     *)
NextTornDown(p) ==
    /\ p \notin connected
    /\ conns[p] > 0
    /\ \A i \in DOMAIN pulled[p] : pulled[p][i].k # "disconnect"
    /\ \/ /\ pulled' = [pulled EXCEPT ![p] = Append(@, OutDisconnect(DisconnectRequested))]
          /\ UNCHANGED crashed
       \/ /\ crashed' = TRUE
          /\ UNCHANGED pulled
    /\ UNCHANGED <<status, connected, prelude, queue, pending, validPeers, blockByPeer,
                   peersByBlock, forwarded, greeted, statusSeen, peerFork, events, conns>>

Next ==
    \/ \E s \in Statuses \cup {NoStatus} : RefreshStatus(s)
    \/ \E p \in Peers :
          \/ OnPeerConnect(p)
          \/ OnPeerDisconnect(p)
          \/ \E m \in InboundMsgs : OnPeerMessage(p, m)
          \/ SendPending(p)
          \/ Pull(p)
          \/ NextTornDown(p)

(* The Swarm keeps pumping next() for every connected peer (spec 4.4), and *)
(* a send into a channel with room completes.                              *)
Fairness == \A p \in Peers : WF_vars(Pull(p)) /\ WF_vars(SendPending(p))

Spec == Init /\ [][Next]_vars /\ Fairness

-----------------------------------------------------------------------------
OutEvent == {OutMsg(i) : i \in {StatusId, TransactionsId, BlockHeadersId, BlockBodiesId}}
            \cup {OutDisconnect(r) : r \in {DisconnectRequested, ProtocolBreach, UselessPeer}}

(* Every variable keeps the shape the code gives it.                       *)
TypeOK ==
    /\ status \in Statuses \cup {NoStatus}
    /\ connected \subseteq Peers
    /\ prelude \in [Peers -> Seq(OutEvent)]
    /\ queue \in [Peers -> Seq(OutEvent)]
    /\ pending \in [Peers -> Seq(OutEvent)]
    /\ validPeers \subseteq Peers
    /\ Tracker!TrackerTypeOK
    /\ forwarded \in [Peers -> Nat]
    /\ pulled \in [Peers -> Seq(OutEvent)]
    /\ greeted \in [Peers -> BOOLEAN]
    /\ statusSeen \in [Peers -> BOOLEAN]
    /\ peerFork \in [Peers -> ForkIds \cup {"none"}]
    /\ crashed \in BOOLEAN
    /\ events \in [Peers -> 0 .. MaxEvents]
    /\ conns \in [Peers -> Nat]
    /\ \A p \in Peers : conns[p] <= MaxConns[p]

(* Valid peers (spec 3, glossary): a peer is in valid_peers only while it  *)
(* is connected and has sent a compatible Status during this connection,  *)
(* across disconnects, reconnects and status refreshes.                    *)
ValidOnlyAfterCompatibleStatus ==
    validPeers \subseteq {p \in connected : statusSeen[p]}

(* The block tracker has an entry for exactly the peers that have pipes,  *)
(* and its two indices agree (spec 3 lifecycles, spec 8 bijection).        *)
TrackerMatchesPipes ==
    /\ DOMAIN blockByPeer = connected
    /\ Tracker!TrackerConsistent

(* Prelude first (spec 5): the first events next() returns on a           *)
(* connection are the first events on_peer_connect built: our Status and  *)
(* an empty Transactions, or Disconnect(DisconnectRequested).              *)
PreludeFirst ==
    \A p \in connected :
        LET first == IF greeted[p]
                     THEN <<OutMsg(StatusId), OutMsg(TransactionsId)>>
                     ELSE <<OutDisconnect(DisconnectRequested)>>
            n == IF Len(pulled[p]) < Len(first) THEN Len(pulled[p]) ELSE Len(first)
        IN  SubSeq(pulled[p], 1, n) = SubSeq(first, 1, n)

(* valid_peers loses a peer only in teardown_peer (main.rs:155-163), when *)
(* its connection ends: a Status that is malformed or fails the fork     *)
(* filter kicks the peer (main.rs:193-207) but leaves it valid until the  *)
(* disconnect, and no status refresh demotes anyone.                     *)
ValidLeavesOnlyOnTeardown ==
    [][\A p \in validPeers \ validPeers' : p \in connected \ connected']_vars

(* Valid peers completed the handshake (spec glossary: a valid peer "has  *)
(* completed the Ethereum Status handshake compatibly"): a peer is only in *)
(* valid_peers when this connection's first events carried our Status.    *)
ValidPeersGreeted ==
    validPeers \subseteq {p \in connected : greeted[p]}

(* The first-event sequences on_peer_connect can build.                   *)
FirstEventChoices ==
    {<<OutMsg(StatusId), OutMsg(TransactionsId)>>, <<OutDisconnect(DisconnectRequested)>>}

(* The prelude chained with the channel seen as one mailbox per peer.      *)
Box == INSTANCE Mailbox WITH
         Events <- OutEvent, Firsts <- FirstEventChoices,
         EndEvent <- OutDisconnect(DisconnectRequested),
         open <- connected, box <- [p \in Peers |-> prelude[p] \o queue[p]],
         out <- pulled

(* Mailbox refinement, safety part (spec 4.4 and 9): the prelude-then-     *)
(* channel receiver, the blocking send into channel(1), next() and         *)
(* teardown together behave as one FIFO mailbox per connection, opened     *)
(* with the first events, that next() drains oldest first, that never     *)
(* loses or reorders an event, and whose end next() reports.               *)
MailboxRefined == Box!MInit /\ [][Box!MNext]_Box!mvars

(* Valid peers stay compatible (spec glossary and 4.6: the fork filter     *)
(* decides whether a remote is compatible, and only valid peers are served *)
(* and have their gossip forwarded): while a status is installed, every    *)
(* valid peer presented a fork id that the current filter accepts.         *)
ValidPeersCompatible ==
    status # NoStatus =>
        \A p \in validPeers : peerFork[p] \in CompatibleWith[status]

(* Backpressure does not lose replies: an event on_peer_event is waiting   *)
(* to send into the capacity-1 channel is eventually sent, given that the  *)
(* Swarm keeps calling next().                                             *)
PendingEventuallySent ==
    \A p \in Peers : pending[p] # <<>> ~> pending[p] = <<>>
(* Spec 4.4: when the Swarm calls next(peer) and the stream has ended,    *)
(* next reports Disconnect(DisconnectRequested).  The outbound pump calls  *)
(* next beside the inbound pump that tears the peer down (spec 5); no      *)
(* such call may panic in receiver(peer).unwrap() (main.rs:400-401).        *)
NextNeverPanics == ~crashed
=============================================================================
