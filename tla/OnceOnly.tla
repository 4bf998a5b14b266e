------------------------------ MODULE OnceOnly ------------------------------
(***************************************************************************)
(* What the consumer inbox promises a handler: whatever is delivered, how  *)
(* often, and however the processor stops, the effect of an event takes    *)
(* place once; a delivery is only accepted after the effect of its own     *)
(* envelope took place, and only rejected because another envelope already *)
(* used its id.                                                            *)
(***************************************************************************)
EXTENDS Sequences

CONSTANTS
    Ids,                \* event ids
    Deliveries,         \* records with an id field, at least
    Envelope(_),        \* what the handler is given of a delivery
    Same(_, _)          \* an envelope and a delivery of the same event

VARIABLES
    effects,            \* effects[i]: the committed effects for id i
    accepted,           \* deliveries answered with success
    rejected            \* deliveries answered with a permanent failure

vars == <<effects, accepted, rejected>>

Init ==
    /\ effects = [i \in Ids |-> <<>>]
    /\ accepted = {}
    /\ rejected = {}

Apply(d) ==
    /\ effects[d.id] = <<>>
    /\ effects' = [effects EXCEPT ![d.id] = <<Envelope(d)>>]
    /\ UNCHANGED <<accepted, rejected>>

Accept(d) ==
    /\ effects[d.id] # <<>>
    /\ Same(effects[d.id][1], d)
    /\ accepted' = accepted \cup {d}
    /\ UNCHANGED <<effects, rejected>>

Reject(d) ==
    /\ effects[d.id] # <<>>
    /\ ~Same(effects[d.id][1], d)
    /\ rejected' = rejected \cup {d}
    /\ UNCHANGED <<effects, accepted>>

Next == \E d \in Deliveries : Apply(d) \/ Accept(d) \/ Reject(d)

Spec == Init /\ [][Next]_vars

=============================================================================
