------------------------ MODULE HeaderSelectorProofs ------------------------
(***************************************************************************)
(* Proofs about the block selector of handle_event's GetBlockHeaders       *)
(* branch (src/main.rs:214-256), for every set of block numbers and hashes *)
(* and every bound on max_headers and skip.                                *)
(***************************************************************************)
EXTENDS HeaderSelector, SequenceTheorems, TLAPS

(* A block id of the selector: a number the walk reached without going    *)
(* below block 0, or one of the hashes a request may name.                *)
BlockIdOK(e) ==
    \/ e.k = "number" /\ e = ByNumber(e.v) /\ e.v \in Nat
    \/ e \in {ByHash(h) : h \in Hashes}

(* The selector is the one handle_event built for the request and answer, *)
(* once built, and empty before.                                           *)
SInv ==
    /\ TypeOK
    /\ selector = IF done THEN Selector(request, answer) ELSE <<>>

(* The block a request names is a well-formed block id.                   *)
LEMMA RequestBlockOK ==
    ASSUME NEW req \in Requests
    PROVE  BlockIdOK(req.block)
BY SelectorAssumption DEF Requests, BlockIdOK, ByNumber, ByHash

(* The anchor of the walk: the number a request names, or the height the  *)
(* provider resolved its hash to.                                          *)
LEMMA AnchorNat ==
    ASSUME NEW req \in Requests, NEW ans \in Answers,
           ~(req.block.k = "hash" /\ ans.k \in {"none", "err"})
    PROVE  /\ (IF req.block.k = "number" THEN req.block.v ELSE ans.v) \in Nat
           /\ req.block.k = "hash" => ans.k = "some"
<1>1. CASE req.block.k = "number"
  BY <1>1, SelectorAssumption DEF Requests, ByNumber, ByHash
<1>2. CASE req.block.k # "number"
  <2>1. req.block.k = "hash"
    BY <1>2 DEF Requests, ByNumber, ByHash
  <2>2. ans.k = "some" /\ ans.v \in Numbers
    BY <2>1 DEF Answers
  <2>3. QED
    BY <1>2, <2>1, <2>2, SelectorAssumption
<1>3. QED
  BY <1>1, <1>2

(* Every block id of the selector is well formed: with max_headers <= 1   *)
(* the walk anchor -/+ skip * i only takes i = 0, so a reverse walk never  *)
(* subtracts from the anchor and u64 arithmetic cannot wrap.               *)
LEMMA SelectorOK ==
    ASSUME NEW req \in Requests, NEW ans \in Answers
    PROVE  \A i \in DOMAIN Selector(req, ans) : BlockIdOK(Selector(req, ans)[i])
<1>1. CASE req.max > 1
  BY <1>1, RequestBlockOK DEF Selector
<1>2. CASE req.max <= 1 /\ req.block.k = "hash" /\ ans.k = "none"
  BY <1>2 DEF Selector, Requests
<1>3. CASE req.max <= 1 /\ req.block.k = "hash" /\ ans.k = "err"
  BY <1>3, RequestBlockOK DEF Selector, Requests
<1>4. CASE req.max <= 1 /\ ~(req.block.k = "hash" /\ ans.k \in {"none", "err"})
  <2> DEFINE anchor == IF req.block.k = "number" THEN req.block.v ELSE ans.v
             walk == [i \in 1 .. req.max |->
                        ByNumber(IF req.reverse THEN anchor - req.skip * (i - 1)
                                 ELSE anchor + req.skip * (i - 1))]
  <2>1. anchor \in Nat
    BY <1>4, AnchorNat DEF anchor
  <2>2. BlockIdOK(ByNumber(anchor))
    BY <2>1 DEF BlockIdOK, ByNumber
  <2>3. req.max \in 0 .. 1 /\ req.skip \in Nat
    BY <1>4, SelectorAssumption DEF Requests
  <2>4. \A i \in 1 .. req.max : walk[i] = ByNumber(anchor)
    BY <2>1, <2>3 DEF walk
  <2>5. walk \in Seq({ByNumber(anchor)})
    BY <2>3, <2>4 DEF walk
  <2>6. Selector(req, ans) = IF req.skip = 0 THEN <<ByNumber(anchor)>>
                              ELSE <<ByNumber(anchor)>> \o walk
    BY <1>4, <2>3 DEF Selector, anchor, walk
  <2>7. <<ByNumber(anchor)>> \o walk \in Seq({ByNumber(anchor)})
    BY <2>5, ConcatProperties
  <2>8. <<ByNumber(anchor)>> \in Seq({ByNumber(anchor)})
    OBVIOUS
  <2>9. \A s \in Seq({ByNumber(anchor)}) : \A i \in DOMAIN s : BlockIdOK(s[i])
    BY <2>2
  <2>10. QED
    BY <2>6, <2>7, <2>8, <2>9
<1>5. QED
  BY <1>1, <1>2, <1>3, <1>4 DEF Requests

LEMMA SInvInit == Init => SInv
<1> SUFFICES ASSUME Init PROVE SInv
  OBVIOUS
<1>1. selector = <<>> /\ done = FALSE /\ request \in Requests /\ answer \in Answers
  BY DEF Init
<1>2. \A i \in DOMAIN selector : FALSE
  BY <1>1
<1>3. QED
  BY <1>1, <1>2 DEF SInv, TypeOK

LEMMA SInvNext == SInv /\ [Next]_vars => SInv'
<1> SUFFICES ASSUME SInv, [Next]_vars PROVE SInv'
  OBVIOUS
<1>1. CASE BuildSelector
  <2>1. selector' = Selector(request, answer) /\ done'
        /\ request' = request /\ answer' = answer
    BY <1>1 DEF BuildSelector
  <2>2. request \in Requests /\ answer \in Answers
    BY DEF SInv, TypeOK
  <2>3. \A i \in DOMAIN selector' : BlockIdOK(selector'[i])
    BY <2>1, <2>2, SelectorOK
  <2>4. QED
    BY <2>1, <2>2, <2>3 DEF SInv, TypeOK, BlockIdOK
<1>2. CASE UNCHANGED vars
  BY <1>2 DEF SInv, TypeOK, vars
<1>3. QED
  BY <1>1, <1>2 DEF Next

(* Type correctness of the selector (main.rs:218-256): for any requests   *)
(* the decoder can produce and any answer of resolve_block_height, every  *)
(* block number the selector asks the provider for is a u64 reached       *)
(* without underflow.                                                      *)
THEOREM SelectorTypeCorrect == Spec => []TypeOK
<1>1. Init => SInv
  BY SInvInit
<1>2. SInv /\ [Next]_vars => SInv'
  BY SInvNext
<1>3. SInv => TypeOK
  BY DEF SInv
<1>4. QED
  BY <1>1, <1>2, <1>3, PTL DEF Spec

(* A request naming its block by hash, with max_headers <= 1, is served   *)
(* from that block only (main.rs:224-236): an unknown hash gives an empty  *)
(* selector, a provider error the hash alone, a resolved hash its height  *)
(* first.                                                                  *)
LEMMA SInvAnchored == SInv => HashRequestAnchored
<1> SUFFICES ASSUME SInv, done, request.block.k = "hash", request.max <= 1
             PROVE  CASE answer.k = "none" -> selector = <<>>
                      [] answer.k = "err"  -> selector = <<request.block>>
                      [] answer.k = "some" -> selector # <<>> /\ selector[1] = ByNumber(answer.v)
  BY DEF HashRequestAnchored
<1>1. selector = Selector(request, answer) /\ request \in Requests /\ answer \in Answers
  BY DEF SInv, TypeOK
<1>2. answer.k \in {"none", "err", "some"} /\ request.max \in Nat
  BY <1>1 DEF Answers, Requests
<1>3. CASE answer.k = "none"
  BY <1>1, <1>2, <1>3 DEF Selector
<1>4. CASE answer.k = "err"
  BY <1>1, <1>2, <1>4 DEF Selector
<1>5. CASE answer.k = "some"
  <2>1. request.block.k # "number"
    OBVIOUS
  <2>2. \/ selector = <<ByNumber(answer.v)>>
        \/ \E w \in Seq({ByNumber(answer.v)}) : selector = <<ByNumber(answer.v)>> \o w
    <3> DEFINE walk == [i \in 1 .. request.max |->
                          ByNumber(IF request.reverse THEN answer.v - request.skip * (i - 1)
                                   ELSE answer.v + request.skip * (i - 1))]
    <3>1. answer.v \in Nat /\ request.max \in 0 .. 1 /\ request.skip \in Nat
      BY <1>1, <1>5, SelectorAssumption DEF Answers, Requests
    <3>2. walk \in Seq({ByNumber(answer.v)})
      BY <3>1 DEF walk
    <3>3. selector = IF request.skip = 0 THEN <<ByNumber(answer.v)>>
                     ELSE <<ByNumber(answer.v)>> \o walk
      BY <1>1, <1>2, <1>5, <2>1, <3>1 DEF Selector, walk
    <3>4. QED
      BY <3>2, <3>3
  <2>3. QED
    BY <1>5, <2>2
<1>6. QED
  BY <1>2, <1>3, <1>4, <1>5

(* The same for every set of hashes, numbers and bounds.                  *)
THEOREM HashAnchoredHolds == Spec => []HashRequestAnchored
<1>1. Init => SInv
  BY SInvInit
<1>2. SInv /\ [Next]_vars => SInv'
  BY SInvNext
<1>3. SInv => HashRequestAnchored
  BY SInvAnchored
<1>4. QED
  BY <1>1, <1>2, <1>3, PTL DEF Spec
=============================================================================
