----------------------------- MODULE AtLeastOnce -----------------------------
(***************************************************************************)
(* What the transactional outbox promises the rest of the platform: every  *)
(* committed event reaches the event bus one or more times, nothing that   *)
(* was not committed ever does, and an event is only ever recorded as      *)
(* published after a copy of it reached the bus.                           *)
(*                                                                         *)
(* Events are numbered in the order in which their transactions commit.    *)
(***************************************************************************)
EXTENDS Naturals, Sequences

CONSTANT NumEvents      \* how many events are ever committed

Events == 1 .. NumEvents

VARIABLES
    committed,          \* the events whose transaction has committed
    topic,              \* the log of copies on the bus, oldest first
    acked               \* the events recorded as published

vars == <<committed, topic, acked>>

OnTopic == {topic[i] : i \in DOMAIN topic}

Init == committed = {} /\ topic = <<>> /\ acked = {}

Commit(e) ==
    /\ e \in Events \ committed
    /\ committed' = committed \cup {e}
    /\ UNCHANGED <<topic, acked>>

\* A copy may arrive even after the event was recorded as published: the
\* promise is at least once, by senders that do not wait for each other.
Deliver(e) ==
    /\ e \in committed
    /\ topic' = Append(topic, e)
    /\ UNCHANGED <<committed, acked>>

FirstDelivery(e) == e \notin OnTopic /\ Deliver(e)

Ack(e) ==
    /\ e \in OnTopic \ acked
    /\ acked' = acked \cup {e}
    /\ UNCHANGED <<committed, topic>>

Next == \E e \in Events : Commit(e) \/ Deliver(e) \/ Ack(e)

SafeSpec == Init /\ [][Next]_vars

Spec ==
    /\ SafeSpec
    /\ \A e \in Events : WF_vars(FirstDelivery(e)) /\ WF_vars(Ack(e))

EventuallyAcked == \A e \in Events : (e \in committed) ~> (e \in acked)
==============================================================================
