------------------------------ MODULE Mailbox ------------------------------
(***************************************************************************)
(* What the per-peer mailbox of the capability server promises (spec 4.4, *)
(* 5 and 9): one FIFO of outbound events per connected peer, opened with   *)
(* its first events, to which in-process senders append and from which    *)
(* the Swarm's next(peer) takes the oldest event; a taken event is never   *)
(* taken again and none is skipped.  The prelude-chained channel(1) of    *)
(* src/main.rs is one implementation (CapabilityServer refines this).     *)
(***************************************************************************)
EXTENDS Sequences

CONSTANTS
    Peers,   \* peer ids
    Events,  \* outbound events
    Firsts,  \* the sequences of first events a mailbox may open with
    EndEvent \* what next(peer) yields once the stream has ended

(* Firsts \subseteq Seq(Events) and EndEvent \in Events: the instance in   *)
(* CapabilityServer gives both, and its proofs show the first one.        *)

VARIABLES
    open,  \* the peers whose mailbox exists
    box,   \* box[p]: the events put and not yet taken, oldest first
    out    \* out[p]: the events taken in this connection, in order

mvars == <<open, box, out>>

MInit ==
    /\ open = {}
    /\ box = [p \in Peers |-> <<>>]
    /\ out = [p \in Peers |-> <<>>]

(* A connection opens the mailbox with its first events.                  *)
Open(p) ==
    /\ p \notin open
    /\ open' = open \cup {p}
    /\ \E f \in Firsts : box' = [box EXCEPT ![p] = f]
    /\ out' = [out EXCEPT ![p] = <<>>]

(* A sender appends an event.                                              *)
Put(p, e) ==
    /\ p \in open
    /\ box' = [box EXCEPT ![p] = Append(@, e)]
    /\ UNCHANGED <<open, out>>

(* next(peer) takes the oldest event.                                      *)
Take(p) ==
    /\ p \in open
    /\ box[p] # <<>>
    /\ out' = [out EXCEPT ![p] = Append(@, Head(box[p]))]
    /\ box' = [box EXCEPT ![p] = Tail(@)]
    /\ UNCHANGED open

(* Teardown discards the mailbox.                                          *)
Close(p) ==
    /\ p \in open
    /\ open' = open \ {p}
    /\ box' = [box EXCEPT ![p] = <<>>]
    /\ UNCHANGED out

(* next(peer) on an ended stream reports its end (spec 4.4).               *)
Ended(p) ==
    /\ p \notin open
    /\ out' = [out EXCEPT ![p] = Append(@, EndEvent)]
    /\ UNCHANGED <<open, box>>

MNext ==
    \E p \in Peers :
        Open(p) \/ (\E e \in Events : Put(p, e)) \/ Take(p) \/ Close(p) \/ Ended(p)

(* An event waiting in an open mailbox is taken unless the mailbox closes. *)
MSpec == MInit /\ [][MNext]_mvars /\ \A p \in Peers : WF_mvars(Take(p))
=============================================================================
