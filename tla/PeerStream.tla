----------------------------- MODULE PeerStream -----------------------------
(***************************************************************************)
(* The RLPx peer session of devp2p/src/peer.rs between two endpoints that  *)
(* both run this code: the Hello exchange and capability negotiation of    *)
(* PeerStream::new, the inbound path (Stream::poll_next) and the outbound  *)
(* path (Sink::start_send), with the disconnect latch `disconnected` that  *)
(* gates both.  The encrypted transport is a reliable FIFO of frames per   *)
(* direction that the sender may close (EOF).  When Hostile is TRUE a      *)
(* remote that does not run this code may also put arbitrary frames from   *)
(* HostileFrames on the wire.                                              *)
(*                                                                         *)
(* Data is abstracted: a frame is its message-id bytes (the real RLP       *)
(* encoding of the id), the class of its Snappy body and the RLP item it   *)
(* decompresses to; subprotocol payloads are opaque values of Data.        *)
(* Capability names are numbers ordered like the byte strings they stand  *)
(* for.  Every frame carries a ghost field `origin`, the PeerMessage it    *)
(* was encoded from, so that properties can compare what was sent with     *)
(* what is yielded.                                                        *)
(***************************************************************************)
EXTENDS Integers, Sequences, SequencesExt

CONSTANTS
    Ends,          \* the two endpoints of the connection
    LocalCaps,     \* LocalCaps[e]: the CapabilityInfo set endpoint e offers
    Data,          \* opaque subprotocol payloads
    Msgs,          \* the PeerMessages an endpoint's owner may send
    MaxSends,      \* bound on start_send calls per endpoint
    Hostile,       \* whether a foreign remote may inject frames
    HostileFrames, \* the frames such a remote may inject
    OversizeData   \* payloads longer than MAX_PAYLOAD_SIZE (16 MiB)

(* DisconnectReason wire values (peer.rs:23-50). *)
ReasonCodes == (0 .. 11) \cup {16}
UselessPeer == 3

Cap == [name : Nat, version : Nat, length : Nat]

ASSUME EndsAssumption == \E a, b \in Ends : a # b /\ Ends = {a, b}
ASSUME CapsAssumption ==
    /\ LocalCaps \in [Ends -> SUBSET Cap]
    \* unique per (name, version): the caps come from a BTreeMap (main.rs:591)
    /\ \A e \in Ends : \A c, d \in LocalCaps[e] :
          c.name = d.name /\ c.version = d.version => c = d
ASSUME BoundAssumption ==
    MaxSends \in Nat /\ Hostile \in BOOLEAN /\ OversizeData \subseteq Data

Peer(e) == CHOOSE o \in Ends : o # e

-----------------------------------------------------------------------------
(* RLP items, abstractly: an integer, a list, an opaque blob, a Hello.     *)
RInt(n)      == [t |-> "int", v |-> n]
RList(s)     == [t |-> "list", v |-> s]
Blob(d)      == [t |-> "blob", v |-> d]
HelloItem(S) == [t |-> "hello", v |-> S]

(* RLP encoding of a message id (RlpStream::append of a usize < 256).      *)
RlpId(n) == IF n = 0 THEN <<128>> ELSE IF n < 128 THEN <<n>> ELSE <<129, n>>

(* Decoding `Rlp::new(&val[0..1]).as_val::<usize>()`: only the first byte *)
(* is read, so a two-byte encoding is "too short" (-1 stands for the     *)
(* decoder error).                                                         *)
IdOf(bytes) ==
    LET b == bytes[1] IN
    IF b < 128 THEN b ELSE IF b = 128 THEN 0 ELSE -1

(* The PeerMessage kinds of peer.rs:347-352.                               *)
Disconnect(r)    == [k |-> "disconnect", r |-> r]
Ping             == [k |-> "ping"]
Pong             == [k |-> "pong"]
Sub(cn, id, d)   == [k |-> "sub", cap |-> cn, id |-> id, data |-> d]
Err(why)         == [k |-> "err", why |-> why]
HelloOrigin      == [k |-> "hello"]
NoOrigin         == [k |-> "none"]

Frame(ids, decl, item, origin) ==
    [id |-> ids, decl |-> decl, data |-> item, origin |-> origin]

(* A foreign remote's frames were not encoded by this code's start_send:  *)
(* their ghost origin is NoOrigin.                                         *)
ASSUME HostileAssumption == \A f \in HostileFrames : f.origin = NoOrigin

-----------------------------------------------------------------------------
(* Capability negotiation of PeerStream::new (peer.rs:291-311): keep the   *)
(* local caps the remote also lists, drop every one that a shared cap of   *)
(* the same name beats on version, and sort by name.                       *)
Matched(local, remote) ==
    {c \in local : [name |-> c.name, version |-> c.version] \in remote}
(* Mutant: the retain pass of peer.rs:306-309 left out.                  *)
RetainedAll(m) == m
Retained(m) ==
    {c \in m : \A o \in m : c.name # o.name \/ c.version >= o.version}
SharedCaps(local, remote) ==
    SortSeq(SetToSeq(Retained(Matched(local, remote))),
            LAMBDA x, y : x.name < y.name)

(* The capability ids a Hello advertises (peer.rs:224-233).                *)
CapIds(local) == {[name |-> c.name, version |-> c.version] : c \in local}

(* Sum of the lengths of the first k caps of s.                            *)
Offset(s, k) ==
    LET f[i \in 0 .. Len(s)] == IF i = 0 THEN 0 ELSE f[i - 1] + s[i].length
    IN  f[k]

(* The index of the first cap of s named cn, 0 if none (peer.rs:506-509). *)
FirstNamed(s, cn) ==
    IF \E i \in 1 .. Len(s) : s[i].name = cn
    THEN CHOOSE i \in 1 .. Len(s) :
            s[i].name = cn /\ \A j \in 1 .. i - 1 : s[j].name # cn
    ELSE 0

(* The owning cap of a subprotocol id m = wire id - 0x10, as the loop of   *)
(* peer.rs:429-436 computes it: every cap whose length m exceeds is        *)
(* subtracted, whether or not an earlier cap already matched.              *)
Locate(s, m0) ==
    LET st[i \in 0 .. Len(s)] ==
          IF i = 0 THEN [m |-> m0, idx |-> 0]
          ELSE IF st[i - 1].m > s[i].length
               THEN [m |-> st[i - 1].m - s[i].length, idx |-> st[i - 1].idx + 1]
               ELSE st[i - 1]
    IN  st[Len(s)]

(* Mutant: the reason byte taken without DisconnectReason::from_u8.      *)
DecodedAnyReason(s, f) ==
    IF IdOf(f.id) = 1 /\ f.decl = "fits" /\ f.data.t = "list"
       /\ Len(f.data.v) >= 1 /\ f.data.v[1].t = "int"
    THEN Disconnect(f.data.v[1].v)
    ELSE Err("malformed_disconnect")

(* The PeerMessage an inbound frame yields under shared caps s            *)
(* (peer.rs:367-463); the latch update is in PollNext.                     *)
Decoded(s, f) ==
    LET id == IdOf(f.id) IN
    IF id = -1 THEN Err("id_parse")
    ELSE IF f.decl = "huge" THEN Err("payload_too_large")
    ELSE IF f.decl # "fits" THEN Err("snappy")
    ELSE IF id = 1
         THEN IF /\ f.data.t = "list" /\ Len(f.data.v) >= 1
                 /\ f.data.v[1].t = "int" /\ f.data.v[1].v \in ReasonCodes
              THEN Disconnect(f.data.v[1].v)
              ELSE Err("malformed_disconnect")
    ELSE IF id = 2 THEN Ping
    ELSE IF id = 3 THEN Pong
    ELSE IF id < 16 THEN Err("reserved")
    ELSE LET loc == Locate(s, id - 16) IN
         IF loc.idx >= Len(s) THEN Err("cap_range")
         ELSE Sub(s[loc.idx + 1].name, loc.m, f.data)

(* start_send silently drops a subprotocol message whose cap is not shared *)
(* or whose id is out of the cap's range (peer.rs:504-531).                *)
Dropped(s, m) ==
    /\ m.k = "sub"
    /\ LET i == FirstNamed(s, m.cap) IN i = 0 \/ m.id >= s[i].length

(* The Snappy body of a payload (peer.rs:551-555): its header declares    *)
(* the uncompressed length, over the 16 MiB cap for an oversize payload.   *)
BodyOf(item) ==
    IF item.t = "blob" /\ item.v \in OversizeData THEN "huge" ELSE "fits"

(* Mutant: the offset loop of peer.rs:534-540 adds the length of the     *)
(* message's own cap before stopping.                                      *)
EncodedPastOwnCap(s, m) ==
    LET i == FirstNamed(s, m.cap) IN
    IF m.k = "sub"
    THEN Frame(RlpId(16 + Offset(s, i) + m.id), BodyOf(m.data), m.data, m)
    ELSE Frame(RlpId(IF m.k = "disconnect" THEN 1 ELSE IF m.k = "ping" THEN 2 ELSE 3),
               "fits", IF m.k = "disconnect" THEN RInt(m.r) ELSE RList(<<>>), m)

(* The frame start_send writes for a message it does not drop             *)
(* (peer.rs:491-557).  The Snappy body declares the payload's length,     *)
(* which start_send never checks against MAX_PAYLOAD_SIZE.                 *)
Encoded(s, m) ==
    CASE m.k = "disconnect" -> Frame(RlpId(1), "fits", RInt(m.r), m)
      [] m.k = "ping" -> Frame(RlpId(2), "fits", RList(<<>>), m)
      [] m.k = "pong" -> Frame(RlpId(3), "fits", RList(<<>>), m)
      [] m.k = "sub" ->
           LET i == FirstNamed(s, m.cap) IN
           Frame(RlpId(16 + Offset(s, i - 1) + m.id), BodyOf(m.data), m.data, m)

-----------------------------------------------------------------------------
VARIABLES
    phase,       \* phase[e]: "init", "hello", "open", "failed" or "dropped"
    shared,      \* shared[e]: the negotiated shared_capabilities
    latch,       \* latch[e]: the `disconnected` flag of e's PeerStream
    wire,        \* wire[e]: frames in transit to e
    eof,         \* eof[e]: the sender side of wire[e] is closed
    yielded,     \* yielded[e]: items poll_next returned, with their origin
    ended,       \* ended[e]: poll_next returned Ready(None)
    sendResult,  \* sendResult[e]: what e's last start_send returned
    sends,       \* sends[e]: start_send calls so far (bounded)
    injected     \* frames a hostile remote injected so far (bounded)

vars == <<phase, shared, latch, wire, eof, yielded, ended, sendResult,
          sends, injected>>

Init ==
    /\ phase = [e \in Ends |-> "init"]
    /\ shared = [e \in Ends |-> <<>>]
    /\ latch = [e \in Ends |-> FALSE]
    /\ wire = [e \in Ends |-> <<>>]
    /\ eof = [e \in Ends |-> FALSE]
    /\ yielded = [e \in Ends |-> <<>>]
    /\ ended = [e \in Ends |-> FALSE]
    /\ sendResult = [e \in Ends |-> "none"]
    /\ sends = [e \in Ends |-> 0]
    /\ injected = 0

(* PeerStream::new, first half: send our Hello (peer.rs:219-249).         *)
SendHello(e) ==
    /\ phase[e] = "init"
    /\ phase' = [phase EXCEPT ![e] = "hello"]
    /\ wire' = [wire EXCEPT ![Peer(e)] =
                  Append(@, Frame(RlpId(0), "raw", HelloItem(CapIds(LocalCaps[e])),
                                  HelloOrigin))]
    /\ UNCHANGED <<shared, latch, eof, yielded, ended, sendResult, sends, injected>>

(* Failing the handshake drops the transport: the peer reads EOF.          *)
FailHello(e) ==
    /\ phase' = [phase EXCEPT ![e] = "failed"]
    /\ eof' = [eof EXCEPT ![Peer(e)] = TRUE]

(* PeerStream::new, second half: receive one frame, negotiate, and send    *)
(* Disconnect(UselessPeer) before failing when nothing is shared           *)
(* (peer.rs:251-335).                                                      *)
RecvHello(e) ==
    /\ phase[e] = "hello"
    /\ wire[e] # <<>> \/ eof[e]
    /\ IF wire[e] = <<>>
       THEN /\ FailHello(e)
            /\ UNCHANGED <<shared, latch, wire>>
       ELSE LET f == Head(wire[e])
                ok == IdOf(f.id) = 0 /\ f.decl = "raw" /\ f.data.t = "hello"
                s == SharedCaps(LocalCaps[e], f.data.v)
            IN  IF ~ok
                THEN /\ FailHello(e)
                     /\ wire' = [wire EXCEPT ![e] = Tail(@)]
                     /\ UNCHANGED <<shared, latch>>
                ELSE IF s = <<>>
                THEN /\ FailHello(e)
                     /\ shared' = [shared EXCEPT ![e] = s]
                     /\ latch' = [latch EXCEPT ![e] = TRUE]
                     /\ wire' = [wire EXCEPT
                          ![e] = Tail(@),
                          ![Peer(e)] = Append(@, Encoded(s, Disconnect(UselessPeer)))]
                ELSE /\ phase' = [phase EXCEPT ![e] = "open"]
                     /\ shared' = [shared EXCEPT ![e] = s]
                     /\ wire' = [wire EXCEPT ![e] = Tail(@)]
                     /\ UNCHANGED <<latch, eof>>
    /\ UNCHANGED <<yielded, ended, sendResult, sends, injected>>

(* Mutant: an inbound Disconnect does not set the latch (peer.rs:392).   *)
PollNextNoLatch(e) ==
    /\ phase[e] = "open"
    /\ ~ended[e]
    /\ latch[e] \/ wire[e] # <<>> \/ eof[e]
    /\ IF latch[e] \/ wire[e] = <<>>
       THEN /\ ended' = [ended EXCEPT ![e] = TRUE]
            /\ UNCHANGED <<latch, wire, yielded>>
       ELSE /\ wire' = [wire EXCEPT ![e] = Tail(@)]
            /\ yielded' = [yielded EXCEPT ![e] =
                  Append(@, [ev |-> Decoded(shared[e], Head(wire[e])),
                             origin |-> Head(wire[e]).origin])]
            /\ UNCHANGED <<ended, latch>>
    /\ UNCHANGED <<phase, shared, eof, sendResult, sends, injected>>

(* Mutant: poll_next reads on without checking the latch (peer.rs:363).  *)
PollNextIgnoreLatch(e) ==
    /\ phase[e] = "open"
    /\ ~ended[e]
    /\ wire[e] # <<>> \/ eof[e]
    /\ IF wire[e] = <<>>
       THEN /\ ended' = [ended EXCEPT ![e] = TRUE]
            /\ UNCHANGED <<latch, wire, yielded>>
       ELSE LET f == Head(wire[e]) IN
            /\ wire' = [wire EXCEPT ![e] = Tail(@)]
            /\ yielded' = [yielded EXCEPT ![e] =
                             Append(@, [ev |-> Decoded(shared[e], f), origin |-> f.origin])]
            /\ latch' = [latch EXCEPT ![e] = @ \/ (IdOf(f.id) = 1 /\ f.decl = "fits")]
            /\ UNCHANGED ended
    /\ UNCHANGED <<phase, shared, eof, sendResult, sends, injected>>

(* Stream::poll_next (peer.rs:360-468): a set latch ends the stream; else  *)
(* one frame is read and decoded, or EOF ends the stream.                  *)
PollNext(e) ==
    /\ phase[e] = "open"
    /\ ~ended[e]
    /\ latch[e] \/ wire[e] # <<>> \/ eof[e]
    /\ IF latch[e] \/ wire[e] = <<>>
       THEN /\ ended' = [ended EXCEPT ![e] = TRUE]
            /\ UNCHANGED <<latch, wire, yielded>>
       ELSE LET f == Head(wire[e]) IN
            /\ wire' = [wire EXCEPT ![e] = Tail(@)]
            /\ yielded' = [yielded EXCEPT ![e] =
                             Append(@, [ev |-> Decoded(shared[e], f),
                                        origin |-> f.origin])]
            /\ latch' = [latch EXCEPT ![e] =
                           @ \/ (IdOf(f.id) = 1 /\ f.decl = "fits")]
            /\ UNCHANGED ended
    /\ UNCHANGED <<phase, shared, eof, sendResult, sends, injected>>

(* Mutant: start_send without the latch check of peer.rs:484-489.         *)
StartSendNoLatchCheck(e, m) ==
    /\ phase[e] = "open"
    /\ sends[e] < MaxSends
    /\ sends' = [sends EXCEPT ![e] = @ + 1]
    /\ IF Dropped(shared[e], m)
       THEN /\ sendResult' = [sendResult EXCEPT ![e] = "dropped"]
            /\ UNCHANGED <<latch, wire>>
       ELSE /\ sendResult' = [sendResult EXCEPT ![e] = "ok"]
            /\ wire' = [wire EXCEPT ![Peer(e)] = Append(@, Encoded(shared[e], m))]
            /\ latch' = [latch EXCEPT ![e] = @ \/ m.k = "disconnect"]
    /\ UNCHANGED <<phase, shared, eof, yielded, ended, injected>>

(* Sink::start_send (peer.rs:481-562) of message m by e's owner.           *)
StartSend(e, m) ==
    /\ phase[e] = "open"
    /\ sends[e] < MaxSends
    /\ sends' = [sends EXCEPT ![e] = @ + 1]
    /\ IF latch[e]
       THEN /\ sendResult' = [sendResult EXCEPT ![e] = "broken_pipe"]
            /\ UNCHANGED <<latch, wire>>
       ELSE IF Dropped(shared[e], m)
            THEN /\ sendResult' = [sendResult EXCEPT ![e] = "dropped"]
                 /\ UNCHANGED <<latch, wire>>
            ELSE /\ sendResult' = [sendResult EXCEPT ![e] = "ok"]
                 /\ wire' = [wire EXCEPT ![Peer(e)] = Append(@, Encoded(shared[e], m))]
                 /\ latch' = [latch EXCEPT ![e] = m.k = "disconnect"]
    /\ UNCHANGED <<phase, shared, eof, yielded, ended, injected>>

(* The owner (the Swarm) drops an open session: the peer reads EOF.        *)
Drop(e) ==
    /\ phase[e] = "open"
    /\ phase' = [phase EXCEPT ![e] = "dropped"]
    /\ eof' = [eof EXCEPT ![Peer(e)] = TRUE]
    /\ UNCHANGED <<shared, latch, wire, yielded, ended, sendResult, sends, injected>>

(* A remote that does not run this code puts an arbitrary frame on e's     *)
(* wire.                                                                   *)
Inject(e, f) ==
    /\ Hostile
    /\ injected < MaxSends
    /\ ~eof[e]
    /\ injected' = injected + 1
    /\ wire' = [wire EXCEPT ![e] = Append(@, f)]
    /\ UNCHANGED <<phase, shared, latch, eof, yielded, ended, sendResult, sends>>

Next ==
    \E e \in Ends :
        \/ SendHello(e)
        \/ RecvHello(e)
        \/ PollNext(e)
        \/ \E m \in Msgs : StartSend(e, m)
        \/ Drop(e)
        \/ \E f \in HostileFrames : Inject(e, f)

(* The Swarm pumps every open stream (spec section 5): weak fairness on    *)
(* the handshake and on reading.                                           *)
Fairness ==
    \A e \in Ends : WF_vars(SendHello(e)) /\ WF_vars(RecvHello(e))
                    /\ WF_vars(PollNext(e))

Spec == Init /\ [][Next]_vars /\ Fairness

-----------------------------------------------------------------------------
(* The RLP items frames carry.                                            *)
Item ==
    [t : {"int"}, v : 0 .. 255] \cup [t : {"list"}, v : Seq([t : {"int"}, v : 0 .. 255])]
    \cup [t : {"blob"}, v : Data] \cup [t : {"hello"}, v : SUBSET [name : Nat, version : Nat]]

(* Items poll_next yields: a PeerMessage or an io::Error kind.             *)
Event ==
    {Disconnect(r) : r \in ReasonCodes} \cup {Ping, Pong}
    \cup {Err(w) : w \in {"id_parse", "payload_too_large", "snappy",
                          "malformed_disconnect", "reserved", "cap_range"}}
    \cup [k : {"sub"}, cap : Nat, id : Int, data : Item]

(* Every variable keeps the shape the code gives it.                       *)
TypeOK ==
    /\ phase \in [Ends -> {"init", "hello", "open", "failed", "dropped"}]
    /\ shared \in [Ends -> Seq(Cap)]
    /\ latch \in [Ends -> BOOLEAN]
    /\ wire \in [Ends -> Seq([id : Seq(0 .. 255), decl : STRING,
                              data : Item,
                              origin : [k : STRING] \cup Msgs])]
    /\ eof \in [Ends -> BOOLEAN]
    /\ yielded \in [Ends -> Seq([ev : Event, origin : [k : STRING] \cup Msgs])]
    /\ ended \in [Ends -> BOOLEAN]
    /\ sendResult \in [Ends -> {"none", "ok", "dropped", "broken_pipe"}]
    /\ sends \in [Ends -> 0 .. MaxSends]
    /\ injected \in 0 .. MaxSends

(* Round trip (spec section 8): a subprotocol message one endpoint's       *)
(* start_send encodes is yielded by the other endpoint's poll_next as the  *)
(* same capability, local id and data.  It needs the outbound id          *)
(* arithmetic, the inbound cap search and both ends' negotiation to agree.*)
SubprotocolRoundTrip ==
    \A e \in Ends : \A i \in DOMAIN yielded[e] :
        yielded[e][i].origin.k = "sub" => yielded[e][i].ev = yielded[e][i].origin

(* Round trip of Disconnect: a Disconnect(r) one endpoint sends is        *)
(* yielded by the other as Disconnect(r), the wire form of section 6 being *)
(* an RLP list whose first element is the reason.                          *)
DisconnectRoundTrip ==
    \A e \in Ends : \A i \in DOMAIN yielded[e] :
        yielded[e][i].origin.k = "disconnect" =>
            yielded[e][i].ev = yielded[e][i].origin

(* Inbound id range (spec 4.3): poll_next never yields a subprotocol       *)
(* message whose local id falls outside its capability's id range; such a  *)
(* frame "falls off the end" and is an invalid message id.                 *)
InboundIdInRange ==
    \A e \in Ends : \A i \in DOMAIN yielded[e] :
        LET ev == yielded[e][i].ev IN
        ev.k = "sub" =>
            \E j \in 1 .. Len(shared[e]) :
                shared[e][j].name = ev.cap /\ ev.id < shared[e][j].length

(* Cap selection (spec section 8): an open endpoint's shared caps hold,    *)
(* for every name both sides list, exactly one entry, of the highest       *)
(* version both list, and are sorted by name.                              *)
CapSelection ==
    \A e \in Ends : phase[e] = "open" =>
        LET common == Matched(LocalCaps[e], CapIds(LocalCaps[Peer(e)]))
            best(c) == \A o \in common : o.name = c.name => o.version <= c.version
        IN  /\ \A i \in 1 .. Len(shared[e]) - 1 :
                   shared[e][i].name < shared[e][i + 1].name
            /\ {shared[e][i] : i \in DOMAIN shared[e]} = {c \in common : best(c)}

(* Remote disconnect is final (spec 7): once poll_next has yielded a       *)
(* Disconnect, or the malformed-disconnect error, it yields nothing more.  *)
DisconnectIsLast ==
    \A e \in Ends : \A i \in DOMAIN yielded[e] :
        yielded[e][i].ev.k = "disconnect"
          \/ yielded[e][i].ev = Err("malformed_disconnect")
        => i = Len(yielded[e])

(* Latch monotonicity (spec section 8): once an endpoint's disconnect      *)
(* latch is set it stays set, its stream yields no further item, and it   *)
(* writes no further frame.                                                *)
LatchFinal ==
    [][\A e \in Ends :
         latch[e] =>
            /\ latch'[e]
            /\ yielded'[e] = yielded[e]
            /\ Len(wire'[Peer(e)]) > Len(wire[Peer(e)])
                 => Last(wire'[Peer(e)]).origin = NoOrigin]_vars

(* Cancellation (spec section 5): when an endpoint sends Disconnect, the   *)
(* stream of its peer ends, unless the peer's owner drops it first.        *)
DisconnectEndsPeer ==
    \A e \in Ends :
        (latch[e] /\ phase[Peer(e)] = "open")
            ~> (ended[Peer(e)] \/ phase[Peer(e)] = "dropped")
=============================================================================
