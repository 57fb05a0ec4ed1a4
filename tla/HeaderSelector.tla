--------------------------- MODULE HeaderSelector ---------------------------
(***************************************************************************)
(* The block selector handle_event builds for a GetBlockHeaders request    *)
(* (src/main.rs:214-256) before asking the data provider for headers.      *)
(* One request is handled per behaviour: the initial state picks the       *)
(* request and the data provider's answer to resolve_block_height, the     *)
(* single step computes the selector.                                      *)
(***************************************************************************)
EXTENDS Naturals, Sequences

CONSTANTS
    Numbers,    \* block numbers a request may name
    Hashes,     \* block hashes a request may name
    MaxHeaders, \* largest max_headers requested
    MaxSkip     \* largest skip requested

ASSUME SelectorAssumption ==
    Numbers \subseteq Nat /\ MaxHeaders \in Nat /\ MaxSkip \in Nat

(* BlockId::Number and BlockId::Hash.                                      *)
ByNumber(n) == [k |-> "number", v |-> n]
ByHash(h) == [k |-> "hash", v |-> h]

(* GetBlockHeaders { block, max_headers, skip, reverse }.                  *)
Requests ==
    [block : {ByNumber(n) : n \in Numbers} \cup {ByHash(h) : h \in Hashes},
     max : 0 .. MaxHeaders, skip : 0 .. MaxSkip, reverse : BOOLEAN]

(* What resolve_block_height answers: Ok(Some(n)), Ok(None) or Err.        *)
Answers == {[k |-> "some", v |-> n] : n \in Numbers} \cup {[k |-> "none"], [k |-> "err"]}

(* Mutant: a provider error answered with no block at all.                *)
SelectorErrEmpty(req, ans) ==
    IF req.max > 1 THEN <<req.block>>
    ELSE IF req.block.k = "hash" /\ ans.k # "some" THEN <<>>
    ELSE LET anchor == IF req.block.k = "number" THEN req.block.v ELSE ans.v IN
         IF req.skip = 0 THEN <<ByNumber(anchor)>>
         ELSE <<ByNumber(anchor)>> \o
              [i \in 1 .. req.max |->
                 ByNumber(IF req.reverse THEN anchor - req.skip * (i - 1)
                          ELSE anchor + req.skip * (i - 1))]

(* Mutant: the range written 0..=max_headers; a reverse walk then goes    *)
(* below block 0, where u64 subtraction underflows.                        *)
SelectorInclusiveRange(req, ans) ==
    IF req.max > 1 THEN <<req.block>>
    ELSE IF req.block.k = "hash" /\ ans.k = "none" THEN <<>>
    ELSE IF req.block.k = "hash" /\ ans.k = "err" THEN <<req.block>>
    ELSE LET anchor == IF req.block.k = "number" THEN req.block.v ELSE ans.v IN
         IF req.skip = 0 THEN <<ByNumber(anchor)>>
         ELSE <<ByNumber(anchor)>> \o
              [i \in 1 .. req.max + 1 |->
                 ByNumber(IF req.reverse THEN anchor - req.skip * (i - 1)
                          ELSE anchor + req.skip * (i - 1))]

(* The selector of main.rs:218-256: one block when more than one header is *)
(* asked for; otherwise the anchor (a hash is resolved first: no block, no *)
(* headers; an error, the hash alone), then, unless skip is 0, the anchor  *)
(* once more followed by anchor -/+ skip * i for i in 0 .. max_headers-1.  *)
(* The u64 arithmetic cannot wrap: this branch has max_headers <= 1, so i  *)
(* is 0.                                                                   *)
Selector(req, ans) ==
    IF req.max > 1 THEN <<req.block>>
    ELSE IF req.block.k = "hash" /\ ans.k = "none" THEN <<>>
    ELSE IF req.block.k = "hash" /\ ans.k = "err" THEN <<req.block>>
    ELSE LET anchor == IF req.block.k = "number" THEN req.block.v ELSE ans.v IN
         IF req.skip = 0 THEN <<ByNumber(anchor)>>
         ELSE <<ByNumber(anchor)>> \o
              [i \in 1 .. req.max |->
                 ByNumber(IF req.reverse THEN anchor - req.skip * (i - 1)
                          ELSE anchor + req.skip * (i - 1))]

VARIABLES request, answer, selector, done

vars == <<request, answer, selector, done>>

Init ==
    /\ request \in Requests
    /\ answer \in Answers
    /\ selector = <<>>
    /\ done = FALSE

(* handle_event's GetBlockHeaders branch up to get_block_headers.          *)
BuildSelector ==
    /\ ~done
    /\ selector' = Selector(request, answer)
    /\ done' = TRUE
    /\ UNCHANGED <<request, answer>>

Next == BuildSelector

Spec == Init /\ [][Next]_vars

-----------------------------------------------------------------------------
(* Type invariant.  Every block number in the selector is a u64 that the  *)
(* walk anchor - skip * i reached without going below block 0.            *)
TypeOK ==
    /\ request \in Requests
    /\ answer \in Answers
    /\ \A i \in DOMAIN selector :
          \/ selector[i].k = "number" /\ selector[i] = ByNumber(selector[i].v) /\ selector[i].v \in Nat
          \/ selector[i] \in {ByHash(h) : h \in Hashes}
    /\ done \in BOOLEAN

(* Spec 4.6 and 7: a request whose block is named by hash is answered by   *)
(* that block only: an unknown hash yields no block, a provider error     *)
(* falls back to the hash itself, and a resolved hash is asked for by its *)
(* number; the peer is never answered from a block it did not name.       *)
HashRequestAnchored ==
    done /\ request.block.k = "hash" /\ request.max <= 1 =>
        CASE answer.k = "none" -> selector = <<>>
          [] answer.k = "err"  -> selector = <<request.block>>
          [] answer.k = "some" -> selector # <<>> /\ selector[1] = ByNumber(answer.v)
=============================================================================
