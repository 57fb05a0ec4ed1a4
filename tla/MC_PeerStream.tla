--------------------------- MODULE MC_PeerStream ---------------------------
(***************************************************************************)
(* Model-checking instances of PeerStream.  Capability names are numbers   *)
(* in the byte order of the names: ETH ("eth") < LES ("les").              *)
(***************************************************************************)
EXTENDS PeerStream

ETH == 1
LES == 2

MCEnds == {"a", "b"}
MCData == {"d1"}

\* The sentry's own capability table (main.rs:591), with an older eth
\* version and an unshared les on one side, so that negotiation has
\* something to drop.
MCCapsSentry ==
    [e \in MCEnds |->
        IF e = "a"
        THEN {[name |-> ETH, version |-> 63, length |-> 17],
              [name |-> ETH, version |-> 64, length |-> 17],
              [name |-> LES, version |-> 2, length |-> 21]}
        ELSE {[name |-> ETH, version |-> 63, length |-> 17],
              [name |-> ETH, version |-> 64, length |-> 17]}]

\* Two capabilities shared by both ends, as the devp2p library allows.
MCCapsTwo ==
    [e \in MCEnds |->
        {[name |-> ETH, version |-> 64, length |-> 17],
         [name |-> LES, version |-> 2, length |-> 21]}]

\* The owner's messages: a disconnect, a ping, and subprotocol messages at
\* the first and last id of eth, one past it, and of les.
MCMsgs ==
    {Disconnect(UselessPeer), Ping,
     Sub(ETH, 0, Blob("d1")), Sub(ETH, 16, Blob("d1")),
     Sub(ETH, 17, Blob("d1")), Sub(LES, 0, Blob("d1"))}

MCMsgsSub ==
    {Sub(ETH, 0, Blob("d1")), Sub(ETH, 16, Blob("d1")), Sub(LES, 0, Blob("d1"))}

\* A disconnect and one subprotocol message, beside a hostile remote.
MCMsgsHostile == {Disconnect(UselessPeer), Sub(ETH, 0, Blob("d1"))}

\* A payload of more than 16 MiB (a large BlockBodies reply) beside a
\* small one.
MCDataBig == {"d1", "big"}
MCOversize == {"big"}
MCMsgsBig == {Sub(ETH, 0, Blob("big")), Sub(ETH, 0, Blob("d1"))}

\* Frames a foreign remote may send: a well-formed disconnect list, one
\* with an unknown reason, a reserved id, an id beyond eth's range
\* (0x10 + 17), a two-byte id, and an oversized and a corrupt Snappy body.
MCHostileFrames ==
    {Frame(<<1>>, "fits", RList(<<RInt(UselessPeer)>>), NoOrigin),
     Frame(<<1>>, "fits", RList(<<RInt(12)>>), NoOrigin),
     Frame(<<5>>, "fits", RList(<<>>), NoOrigin),
     Frame(<<33>>, "fits", Blob("d1"), NoOrigin),
     Frame(<<129, 200>>, "fits", Blob("d1"), NoOrigin),
     Frame(<<16>>, "huge", Blob("d1"), NoOrigin),
     Frame(<<16>>, "corrupt", Blob("d1"), NoOrigin)}
=============================================================================
