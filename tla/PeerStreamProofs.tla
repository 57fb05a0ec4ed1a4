------------------------- MODULE PeerStreamProofs -------------------------
(***************************************************************************)
(* Proofs about PeerStream (devp2p/src/peer.rs) for every pair of         *)
(* endpoints, every set of capabilities, messages and hostile frames and  *)
(* every bound on start_send calls: the disconnect latch of poll_next and  *)
(* start_send (peer.rs:363-365, 389-409, 484-494).                         *)
(***************************************************************************)
EXTENDS PeerStream, SequenceTheorems, TLAPS

(* The values of a function, and a value that is a sequence of them.      *)
Elems(s) == {s[i] : i \in DOMAIN s}
IsSeq(s) == s \in Seq(Elems(s))

(* An event that poll_next only yields from a frame with id 1 (peer.rs:   *)
(* 389-409): a decoded Disconnect or a malformed one.                      *)
DiscLike(ev) == ev.k = "disconnect" \/ ev = Err("malformed_disconnect")

(* The other endpoint of the connection is the one that is not e.         *)
LEMMA PeerFacts ==
    ASSUME NEW e \in Ends
    PROVE  /\ Peer(e) \in Ends
           /\ Peer(e) # e
           /\ Peer(Peer(e)) = e
           /\ \A x \in Ends : x # e => x = Peer(e)
<1>1. PICK a, b \in Ends : a # b /\ Ends = {a, b}
  BY EndsAssumption
<1>2. Peer(e) \in Ends /\ Peer(e) # e
  BY <1>1 DEF Peer
<1>3. \A x \in Ends : x # e => x = Peer(e)
  BY <1>1, <1>2
<1>4. Peer(Peer(e)) \in Ends /\ Peer(Peer(e)) # Peer(e)
  BY <1>2 DEF Peer
<1>5. QED
  BY <1>1, <1>2, <1>3, <1>4

(* A sequence over any set is a sequence of its own values.               *)
LEMMA SeqElems ==
    ASSUME NEW T, NEW s \in Seq(T)
    PROVE  IsSeq(s)
<1>1. s \in [1 .. Len(s) -> T] /\ Len(s) \in Nat
  BY LenProperties
<1>2. s \in [1 .. Len(s) -> Elems(s)]
  BY <1>1 DEF Elems
<1>3. QED
  BY <1>1, <1>2 DEF IsSeq

(* Append extends a sequence by one element and keeps the others.         *)
LEMMA AppendSeq ==
    ASSUME NEW s, IsSeq(s), NEW x
    PROVE  /\ IsSeq(Append(s, x))
           /\ Len(Append(s, x)) = Len(s) + 1
           /\ Len(s) \in Nat
           /\ DOMAIN Append(s, x) = 1 .. Len(s) + 1
           /\ \A i \in 1 .. Len(s) : Append(s, x)[i] = s[i]
           /\ Append(s, x)[Len(s) + 1] = x
<1> DEFINE T == Elems(s) \cup {x}
<1>1. s \in Seq(T)
  BY DEF IsSeq, T
<1>2. Append(s, x) \in Seq(T) /\ Len(Append(s, x)) = Len(s) + 1
      /\ \A i \in 1 .. Len(s) : Append(s, x)[i] = s[i]
      /\ Append(s, x)[Len(s) + 1] = x
  BY <1>1, AppendProperties DEF T
<1>3. Len(s) \in Nat /\ DOMAIN Append(s, x) = 1 .. Len(s) + 1
  BY <1>1, <1>2, LenProperties
<1>4. IsSeq(Append(s, x))
  <2>1. Append(s, x) \in Seq(T)
    BY <1>2
  <2>2. QED
    BY <2>1, SeqElems
<1>5. QED
  BY <1>2, <1>3, <1>4

(* Tail drops the first element of a non-empty sequence.                  *)
LEMMA TailSeq ==
    ASSUME NEW s, IsSeq(s), s # <<>>
    PROVE  /\ IsSeq(Tail(s))
           /\ Len(Tail(s)) = Len(s) - 1
           /\ Len(s) \in Nat \ {0}
<1>1. s \in Seq(Elems(s))
  BY DEF IsSeq
<1>2. Tail(s) \in Seq(Elems(s)) /\ Len(Tail(s)) = Len(s) - 1
  BY <1>1, HeadTailProperties
<1>3. Len(s) \in Nat \ {0}
  BY <1>1, EmptySeq, LenProperties
<1>4. QED
  BY <1>2, <1>3, SeqElems

(* poll_next yields a disconnect, well formed or not, only from a frame   *)
(* whose message id is 1 and whose body decompressed (peer.rs:367-409).   *)
LEMMA DecodedDisc ==
    ASSUME NEW s, NEW f, DiscLike(Decoded(s, f))
    PROVE  IdOf(f.id) = 1 /\ f.decl = "fits"
BY DEF DiscLike, Decoded, Err, Disconnect, Ping, Pong, Sub
(* Peer is one-to-one: two endpoints with the same peer are the same.     *)
LEMMA PeerInjective ==
    ASSUME NEW x \in Ends, NEW e \in Ends, Peer(x) = Peer(e)
    PROVE  x = e
BY PeerFacts

-----------------------------------------------------------------------------
(* The shape the proofs need: phases and latches are typed, and every     *)
(* wire and every list of yielded items is a sequence.                    *)
Shape ==
    /\ phase \in [Ends -> {"init", "hello", "open", "failed", "dropped"}]
    /\ latch \in [Ends -> BOOLEAN]
    /\ DOMAIN wire = Ends /\ DOMAIN yielded = Ends
    /\ \A e \in Ends : IsSeq(wire[e]) /\ IsSeq(yielded[e])

(* The latch is never set before the handshake is over: PeerStream::new   *)
(* starts with disconnected = false (peer.rs:323) and only the useless-    *)
(* peer path of the handshake sets it while failing it (peer.rs:327-334). *)
PhaseLatch ==
    \A e \in Ends : phase[e] \in {"init", "hello"} => ~latch[e]

(* A disconnect-like item is the last one poll_next yielded, and it       *)
(* latched the stream.                                                    *)
DInv ==
    \A e \in Ends : \A i \in DOMAIN yielded[e] :
        DiscLike(yielded[e][i].ev) => latch[e] /\ i = Len(yielded[e])

LInv == Shape /\ PhaseLatch /\ DInv

(* The step of LatchFinal for endpoint e.                                 *)
LatchStep(e) ==
    latch[e] =>
        /\ latch'[e]
        /\ yielded'[e] = yielded[e]
        /\ Len(wire'[Peer(e)]) > Len(wire[Peer(e)])
             => Last(wire'[Peer(e)]).origin = NoOrigin

(* A step that leaves x's latch and items alone and at most pops the wire *)
(* to x's peer is a step of LatchFinal for x.                              *)
LEMMA QuietStep ==
    ASSUME NEW x \in Ends,
           latch'[x] = latch[x], yielded'[x] = yielded[x],
           IsSeq(wire[Peer(x)]),
           \/ wire'[Peer(x)] = wire[Peer(x)]
           \/ wire[Peer(x)] # <<>> /\ wire'[Peer(x)] = Tail(wire[Peer(x)])
    PROVE  LatchStep(x)
<1>1. CASE wire'[Peer(x)] = wire[Peer(x)]
  BY <1>1 DEF LatchStep
<1>2. CASE wire[Peer(x)] # <<>> /\ wire'[Peer(x)] = Tail(wire[Peer(x)])
  <2>1. Len(wire'[Peer(x)]) < Len(wire[Peer(x)])
    BY <1>2, TailSeq
  <2>2. QED
    BY <2>1, <1>2, TailSeq DEF LatchStep
<1>3. QED
  BY <1>1, <1>2

LEMMA LInvInit == Init => LInv
<1> SUFFICES ASSUME Init PROVE LInv
  OBVIOUS
<1>1. IsSeq(<<>>)
  BY SeqElems, EmptySeq
<1>2. QED
  BY <1>1 DEF Init, LInv, Shape, PhaseLatch, DInv

LEMMA SendHelloStep ==
    ASSUME LInv, NEW e \in Ends, SendHello(e)
    PROVE  LInv' /\ \A x \in Ends : LatchStep(x)
<1> DEFINE hf == Frame(RlpId(0), "raw", HelloItem(CapIds(LocalCaps[e])), HelloOrigin)
<1>1. ~latch[e] /\ Peer(e) \in Ends /\ Peer(e) # e
  BY PeerFacts DEF SendHello, LInv, PhaseLatch
<1>2. /\ wire'[Peer(e)] = Append(wire[Peer(e)], hf)
      /\ \A x \in Ends \ {Peer(e)} : wire'[x] = wire[x]
      /\ DOMAIN wire' = Ends
      /\ phase' = [phase EXCEPT ![e] = "hello"]
      /\ UNCHANGED <<latch, yielded>>
  BY <1>1 DEF SendHello, LInv, Shape, hf
<1>3. Shape'
  <2>1. \A x \in Ends : IsSeq(wire'[x])
    <3>1. IsSeq(wire[Peer(e)])
      BY <1>1 DEF LInv, Shape
    <3>2. IsSeq(Append(wire[Peer(e)], hf))
      BY <3>1, AppendSeq
    <3>3. QED
      BY <1>2, <3>2 DEF LInv, Shape
  <2>2. QED
    BY <1>2, <2>1 DEF LInv, Shape
<1>4. PhaseLatch'
  BY <1>1, <1>2 DEF LInv, PhaseLatch
<1>5. DInv'
  BY <1>2 DEF LInv, DInv
<1>6. ASSUME NEW x \in Ends PROVE LatchStep(x)
  <2>1. CASE x = e
    BY <1>1, <2>1 DEF LatchStep
  <2>2. CASE x # e
    <3>1. Peer(x) # Peer(e) /\ Peer(x) \in Ends
      BY <2>2, PeerInjective, PeerFacts
    <3>2. QED
      BY <1>2, <3>1, QuietStep DEF LInv, Shape
  <2>5. QED
    BY <2>1, <2>2
<1>7. QED
  BY <1>3, <1>4, <1>5, <1>6 DEF LInv

LEMMA DropStep ==
    ASSUME LInv, NEW e \in Ends, Drop(e)
    PROVE  LInv' /\ \A x \in Ends : LatchStep(x)
<1>1. /\ phase' = [phase EXCEPT ![e] = "dropped"]
      /\ UNCHANGED <<latch, wire, yielded>>
  BY DEF Drop
<1>2. LInv'
  BY <1>1 DEF LInv, Shape, PhaseLatch, DInv
<1>3. ASSUME NEW x \in Ends PROVE LatchStep(x)
  BY <1>1, PeerFacts, QuietStep DEF LInv, Shape
<1>4. QED
  BY <1>2, <1>3

LEMMA PollNextStep ==
    ASSUME LInv, NEW e \in Ends, PollNext(e)
    PROVE  LInv' /\ \A x \in Ends : LatchStep(x)
<1>1. CASE latch[e] \/ wire[e] = <<>>
  <2>1. UNCHANGED <<phase, latch, wire, yielded>>
    BY <1>1 DEF PollNext
  <2>2. LInv'
    BY <2>1 DEF LInv, Shape, PhaseLatch, DInv
  <2>3. ASSUME NEW x \in Ends PROVE LatchStep(x)
    BY <2>1, PeerFacts, QuietStep DEF LInv, Shape
  <2>4. QED
    BY <2>2, <2>3
<1>2. CASE ~latch[e] /\ wire[e] # <<>>
  <2> DEFINE f == Head(wire[e])
             r == [ev |-> Decoded(shared[e], f), origin |-> f.origin]
             c == IdOf(f.id) = 1 /\ f.decl = "fits"
  <2>1. /\ wire'[e] = Tail(wire[e])
        /\ yielded'[e] = Append(yielded[e], r)
        /\ latch' = [latch EXCEPT ![e] = c]
        /\ \A x \in Ends \ {e} : wire'[x] = wire[x] /\ yielded'[x] = yielded[x]
        /\ DOMAIN wire' = Ends /\ DOMAIN yielded' = Ends
        /\ UNCHANGED phase
    BY <1>2 DEF PollNext, LInv, Shape, f, r, c
  <2>2. Shape'
    <3>1. IsSeq(wire[e]) /\ IsSeq(yielded[e])
      BY DEF LInv, Shape
    <3>2. IsSeq(Tail(wire[e])) /\ IsSeq(Append(yielded[e], r))
      BY <1>2, <3>1, AppendSeq, TailSeq
    <3>3. QED
      BY <2>1, <3>2 DEF LInv, Shape
  <2>3. PhaseLatch'
    BY <2>1 DEF LInv, Shape, PhaseLatch, PollNext
  <2>4. DInv'
    <3> SUFFICES ASSUME NEW x \in Ends, NEW i \in DOMAIN yielded'[x],
                        DiscLike(yielded'[x][i].ev)
                 PROVE  latch'[x] /\ i = Len(yielded'[x])
      BY DEF DInv
    <3>1. CASE x # e
      BY <3>1, <2>1 DEF LInv, DInv, Shape
    <3>2. CASE x = e
      <4>1. IsSeq(yielded[e]) /\ Len(yielded[e]) \in Nat
        BY AppendSeq DEF LInv, Shape
      <4>2. i \in 1 .. Len(yielded[e]) + 1
        BY <3>2, <2>1, <4>1, AppendSeq
      <4>3. CASE i \in 1 .. Len(yielded[e])
        <5>1. yielded'[e][i] = yielded[e][i] /\ i \in DOMAIN yielded[e]
          BY <2>1, <4>1, <4>3, AppendSeq, LenProperties DEF IsSeq
        <5>2. QED
          BY <1>2, <3>2, <5>1 DEF LInv, DInv
      <4>4. CASE i = Len(yielded[e]) + 1
        <5>1. yielded'[e][i] = r /\ i = Len(yielded'[e])
          BY <2>1, <4>1, <4>4, AppendSeq
        <5>2. c
          BY <3>2, <5>1, DecodedDisc DEF r, c
        <5>3. QED
          BY <2>1, <3>2, <5>1, <5>2 DEF LInv, Shape
      <4>5. QED
        BY <4>2, <4>3, <4>4, <4>1
    <3>3. QED
      BY <3>1, <3>2
  <2>5. ASSUME NEW x \in Ends PROVE LatchStep(x)
    <3>1. CASE x = e
      BY <1>2, <3>1 DEF LatchStep
    <3>2. CASE x # e
      <4>1. Peer(x) = e /\ latch'[x] = latch[x]
        BY <3>2, <2>1, PeerFacts DEF LInv, Shape
      <4>2. QED
        BY <1>2, <2>1, <3>2, <4>1, QuietStep DEF LInv, Shape
    <3>5. QED
      BY <3>1, <3>2
  <2>6. QED
    BY <2>2, <2>3, <2>4, <2>5 DEF LInv
<1>3. QED
  BY <1>1, <1>2
LEMMA StartSendStep ==
    ASSUME LInv, NEW e \in Ends, NEW m \in Msgs, StartSend(e, m)
    PROVE  LInv' /\ \A x \in Ends : LatchStep(x)
<1>1. phase[e] = "open" /\ UNCHANGED <<phase, yielded>>
  BY DEF StartSend
<1>2. CASE latch[e] \/ Dropped(shared[e], m)
  <2>1. UNCHANGED <<latch, wire>>
    BY <1>2 DEF StartSend
  <2>2. LInv'
    BY <1>1, <2>1 DEF LInv, Shape, PhaseLatch, DInv
  <2>3. ASSUME NEW x \in Ends PROVE LatchStep(x)
    BY <1>1, <2>1, PeerFacts, QuietStep DEF LInv, Shape
  <2>4. QED
    BY <2>2, <2>3
<1>3. CASE ~latch[e] /\ ~Dropped(shared[e], m)
  <2>1. /\ Peer(e) \in Ends /\ Peer(e) # e
        /\ wire'[Peer(e)] = Append(wire[Peer(e)], Encoded(shared[e], m))
        /\ \A x \in Ends \ {Peer(e)} : wire'[x] = wire[x]
        /\ DOMAIN wire' = Ends
        /\ latch' = [latch EXCEPT ![e] = m.k = "disconnect"]
    BY <1>3, PeerFacts DEF StartSend, LInv, Shape
  <2>2. Shape'
    <3>1. IsSeq(wire[Peer(e)])
      BY <2>1 DEF LInv, Shape
    <3>2. IsSeq(Append(wire[Peer(e)], Encoded(shared[e], m)))
      BY <3>1, AppendSeq
    <3>3. QED
      BY <1>1, <2>1, <3>2 DEF LInv, Shape
  <2>3. PhaseLatch'
    BY <1>1, <2>1 DEF LInv, Shape, PhaseLatch
  <2>4. DInv'
    <3>1. \A i \in DOMAIN yielded[e] : ~DiscLike(yielded[e][i].ev)
      BY <1>3 DEF LInv, DInv
    <3>2. QED
      BY <1>1, <2>1, <3>1 DEF LInv, Shape, DInv
  <2>5. ASSUME NEW x \in Ends PROVE LatchStep(x)
    <3>1. CASE x = e
      BY <1>3, <3>1 DEF LatchStep
    <3>2. CASE x # e
      <4>1. Peer(x) = e /\ latch'[x] = latch[x]
        BY <3>2, <2>1, PeerFacts DEF LInv, Shape
      <4>2. QED
        BY <1>1, <2>1, <3>2, <4>1, QuietStep DEF LInv, Shape
    <3>5. QED
      BY <3>1, <3>2
  <2>6. QED
    BY <2>2, <2>3, <2>4, <2>5 DEF LInv
<1>4. QED
  BY <1>2, <1>3

LEMMA InjectStep ==
    ASSUME LInv, NEW e \in Ends, NEW f \in HostileFrames, Inject(e, f)
    PROVE  LInv' /\ \A x \in Ends : LatchStep(x)
<1>1. /\ wire'[e] = Append(wire[e], f)
      /\ \A x \in Ends \ {e} : wire'[x] = wire[x]
      /\ DOMAIN wire' = Ends
      /\ UNCHANGED <<phase, latch, yielded>>
  BY DEF Inject, LInv, Shape
<1>2. LInv'
  <2>1. IsSeq(wire[e])
    BY DEF LInv, Shape
  <2>2. IsSeq(Append(wire[e], f))
    BY <2>1, AppendSeq
  <2>3. QED
    BY <1>1, <2>2 DEF LInv, Shape, PhaseLatch, DInv
<1>3. ASSUME NEW x \in Ends PROVE LatchStep(x)
  <2>1. CASE Peer(x) = e
    <3>1. Last(wire'[Peer(x)]) = f
      BY <1>1, <2>1, AppendSeq DEF LInv, Shape, Last
    <3>2. QED
      BY <1>1, <3>1, HostileAssumption DEF LatchStep
  <2>2. CASE Peer(x) # e
    BY <1>1, <2>2, PeerFacts, QuietStep DEF LInv, Shape
  <2>3. QED
    BY <2>1, <2>2
<1>4. QED
  BY <1>2, <1>3

LEMMA RecvHelloStep ==
    ASSUME LInv, NEW e \in Ends, RecvHello(e)
    PROVE  LInv' /\ \A x \in Ends : LatchStep(x)
<1> DEFINE f  == Head(wire[e])
           ok == IdOf(f.id) = 0 /\ f.decl = "raw" /\ f.data.t = "hello"
           s  == SharedCaps(LocalCaps[e], f.data.v)
<1>1. /\ phase[e] = "hello" /\ ~latch[e]
      /\ Peer(e) \in Ends /\ Peer(e) # e
      /\ UNCHANGED yielded
      /\ \A x \in Ends \ {e} : phase'[x] = phase[x]
      /\ phase'[e] \in {"failed", "open"}
      /\ phase' \in [Ends -> {"init", "hello", "open", "failed", "dropped"}]
  BY PeerFacts DEF RecvHello, FailHello, LInv, PhaseLatch, Shape
<1>2. CASE wire[e] = <<>> \/ ~ok \/ s # <<>>
  <2>1. /\ UNCHANGED latch
        /\ \A x \in Ends \ {e} : wire'[x] = wire[x]
        /\ \/ wire'[e] = wire[e]
           \/ wire[e] # <<>> /\ wire'[e] = Tail(wire[e])
        /\ DOMAIN wire' = Ends
    BY <1>2 DEF RecvHello, LInv, Shape, f, ok, s
  <2>2. Shape'
    <3>1. IsSeq(wire[e])
      BY DEF LInv, Shape
    <3>2. wire[e] # <<>> => IsSeq(Tail(wire[e]))
      BY <3>1, TailSeq
    <3>3. QED
      BY <1>1, <2>1, <3>2 DEF LInv, Shape
  <2>3. LInv'
    BY <1>1, <2>1, <2>2 DEF LInv, PhaseLatch, DInv
  <2>4. ASSUME NEW x \in Ends PROVE LatchStep(x)
    <3>1. CASE x = e
      BY <1>1, <3>1 DEF LatchStep
    <3>2. CASE x # e
      BY <1>1, <2>1, <3>2, PeerFacts, QuietStep DEF LInv, Shape
    <3>3. QED
      BY <3>1, <3>2
  <2>5. QED
    BY <2>3, <2>4
<1>3. CASE wire[e] # <<>> /\ ok /\ s = <<>>
  <2> DEFINE d == Encoded(s, Disconnect(UselessPeer))
  <2>1. /\ latch' = [latch EXCEPT ![e] = TRUE]
        /\ phase'[e] = "failed"
        /\ wire'[e] = Tail(wire[e])
        /\ wire'[Peer(e)] = Append(wire[Peer(e)], d)
        /\ DOMAIN wire' = Ends
    BY <1>1, <1>3 DEF RecvHello, FailHello, LInv, Shape, f, ok, s, d
  <2>2. \A x \in Ends : x = e \/ x = Peer(e)
    BY PeerFacts
  <2>3. Shape'
    <3>1. IsSeq(wire[e]) /\ IsSeq(wire[Peer(e)])
      BY <1>1 DEF LInv, Shape
    <3>2. IsSeq(Tail(wire[e])) /\ IsSeq(Append(wire[Peer(e)], d))
      BY <1>3, <3>1, TailSeq, AppendSeq
    <3>3. QED
      BY <1>1, <2>1, <2>2, <3>2 DEF LInv, Shape
  <2>4. PhaseLatch'
    BY <1>1, <2>1 DEF LInv, Shape, PhaseLatch
  <2>5. DInv'
    BY <1>1, <2>1 DEF LInv, Shape, DInv
  <2>6. ASSUME NEW x \in Ends PROVE LatchStep(x)
    <3>1. CASE x = e
      BY <1>1, <3>1 DEF LatchStep
    <3>2. CASE x # e
      <4>1. Peer(x) = e /\ latch'[x] = latch[x]
        BY <3>2, <2>1, PeerFacts DEF LInv, Shape
      <4>2. QED
        BY <1>1, <1>3, <2>1, <4>1, QuietStep DEF LInv, Shape
    <3>5. QED
      BY <3>1, <3>2
  <2>7. QED
    BY <2>3, <2>4, <2>5, <2>6 DEF LInv
<1>4. QED
  BY <1>2, <1>3
LEMMA LInvNext ==
    LInv /\ [Next]_vars => LInv' /\ [\A e \in Ends : LatchStep(e)]_vars
<1> SUFFICES ASSUME LInv, [Next]_vars
             PROVE  LInv' /\ [\A e \in Ends : LatchStep(e)]_vars
  OBVIOUS
<1>1. CASE Next
  <2>1. PICK e \in Ends :
          \/ SendHello(e)
          \/ RecvHello(e)
          \/ PollNext(e)
          \/ \E m \in Msgs : StartSend(e, m)
          \/ Drop(e)
          \/ \E f \in HostileFrames : Inject(e, f)
    BY <1>1 DEF Next
  <2>2. LInv' /\ \A x \in Ends : LatchStep(x)
    BY <2>1, SendHelloStep, RecvHelloStep, PollNextStep, StartSendStep,
       DropStep, InjectStep
  <2>3. QED
    BY <2>2
<1>2. CASE UNCHANGED vars
  BY <1>2 DEF LInv, Shape, PhaseLatch, DInv, vars
<1>3. QED
  BY <1>1, <1>2

(* poll_next never yields past a disconnect (peer.rs:363-365, 389-409):   *)
(* once a frame with id 1 has been yielded, as a Disconnect or as a        *)
(* malformed one, the latch is set and every later poll returns None, for *)
(* any remote, hostile or not, and any number of sends.                   *)
THEOREM DisconnectIsLastHolds == Spec => []DisconnectIsLast
<1>1. Init => LInv
  BY LInvInit
<1>2. LInv /\ [Next]_vars => LInv'
  BY LInvNext
<1>3. LInv => DisconnectIsLast
  BY DEF LInv, DInv, DiscLike, DisconnectIsLast
<1>4. QED
  BY <1>1, <1>2, <1>3, PTL DEF Spec

(* The disconnect latch is final (peer.rs:363-365, 484-494): once set it  *)
(* stays set, poll_next yields nothing more and start_send puts no frame  *)
(* of its owner on the wire; a frame that still reaches the peer came     *)
(* from a foreign remote.                                                 *)
THEOREM LatchFinalHolds == Spec => LatchFinal
<1>1. Spec => []LInv
  <2>1. Init => LInv
    BY LInvInit
  <2>2. LInv /\ [Next]_vars => LInv'
    BY LInvNext
  <2>3. QED
    BY <2>1, <2>2, PTL DEF Spec
<1>2. LInv /\ [Next]_vars => [\A e \in Ends : LatchStep(e)]_vars
  BY LInvNext
<1>3. []LInv /\ [][Next]_vars => [][\A e \in Ends : LatchStep(e)]_vars
  BY <1>2, PTL
<1>4. LatchFinal <=> [][\A e \in Ends : LatchStep(e)]_vars
  BY PTL DEF LatchFinal, LatchStep
<1>5. QED
  BY <1>1, <1>3, <1>4, PTL DEF Spec
=============================================================================
