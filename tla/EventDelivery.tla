---------------------------- MODULE EventDelivery ----------------------------
(***************************************************************************)
(* A domain event from the transaction that commits it to its effects: the *)
(* outbox and its relays, as the at-least-once channel they implement, the *)
(* Kafka consumers of every group, and each group's inbox, as the once-    *)
(* only effect it implements.                                              *)
(*                                                                         *)
(* The steps that join two components are the relay's publish (the channel *)
(* delivers a copy, the base topic grows by a record) and the handler (the *)
(* inbox transaction commits an effect, the consumer gets its answer).     *)
(***************************************************************************)
EXTENDS EventConsumer

VARIABLES
    stored,             \* events whose domain transaction has committed
    recorded,           \* events whose outbox row has published_at
    effects             \* effects[g][e]: committed effects of e in group g

sources == <<stored, recorded>>
dvars   == <<vars, stored, recorded, effects>>

OnBaseTopic == [i \in DOMAIN log["base"] |-> log["base"][i].event]

\* The outbox: see Outbox, which is shown to implement AtLeastOnce.
Channel == INSTANCE AtLeastOnce WITH
    committed <- stored, topic <- OnBaseTopic, acked <- recorded

DeliveryInit ==
    /\ Init
    /\ stored = {}
    /\ recorded = {}
    /\ effects = [g \in Groups |-> [e \in Events |-> 0]]

\* A domain transaction commits its event to the outbox.
Store(e) ==
    /\ UNCHANGED <<vars, effects>>
    /\ Channel!Commit(e)

\* A relay publishes a committed event, for the first time or again.
Relay(e) ==
    /\ Publish(e)
    /\ Channel!Deliver(e)
    /\ UNCHANGED effects

MarkUnpublished(e) ==
    /\ e \in stored \ recorded
    /\ recorded' = recorded \cup {e}
    /\ UNCHANGED <<vars, stored, effects>>

\* The relay marks the row published.
MarkPublished(e) ==
    /\ UNCHANGED <<vars, effects>>
    /\ Channel!Ack(e)

HasEffect(g, e)     == effects[g][e] > 0
ReceiptUnread(g, e) == TRUE
NoReceiptYet(g, e)  == ~HasEffect(g, e)

\* The inbox transaction of the record in hand commits effect and receipt;
\* with a receipt there already, the delivery is a duplicate and nothing is
\* written.  Either way the answer to the consumer is a step of its own.
Apply(m) ==
    /\ pc[m] = "handle"
    /\ Current(m).event \notin Malformed
    /\ NoReceiptYet(GroupOf[m], Current(m).event)
    /\ effects' = [effects EXCEPT ![GroupOf[m]][Current(m).event] = @ + 1]
    /\ UNCHANGED <<vars, sources>>

Success(m) ==
    /\ HandlerOk(m)
    /\ HasEffect(GroupOf[m], Current(m).event)
    /\ UNCHANGED <<sources, effects>>

\* A handler or the commit of its transaction fails, or the commit took place
\* and its answer was lost.
Retryable(m) ==
    /\ HandlerRetryable(m)
    /\ UNCHANGED <<sources, effects>>

\* An event with a receipt is a duplicate before its handler can refuse it.
Permanent(m) ==
    /\ HandlerPermanent(m)
    /\ ~HasEffect(GroupOf[m], Current(m).event)
    /\ UNCHANGED <<sources, effects>>

Transport(m) ==
    \/ \E t \in Topics : Poll(m, t)
    \/ Wake(m)
    \/ DropPoison(m)
    \/ ProduceOk(m)
    \/ CommitOk(m)

Handling(m) ==
    \/ Apply(m)
    \/ Success(m)
    \/ Retryable(m)
    \/ Permanent(m)
    \/ Transport(m) /\ UNCHANGED <<sources, effects>>

TransportFault(m) ==
    /\ Fault(m)
    /\ UNCHANGED <<sources, effects>>

DeliveryNext ==
    \/ \E e \in Events : Store(e) \/ Relay(e) \/ MarkPublished(e)
    \/ \E m \in Members : Handling(m) \/ TransportFault(m)

FirstRelay(e) == ~OnBase(e) /\ Relay(e)

\* The channel's own fairness (Outbox implements it once crashes are over) and
\* the consumers'.
DeliverySpec ==
    /\ DeliveryInit
    /\ [][DeliveryNext]_dvars
    /\ \A e \in Events : WF_dvars(FirstRelay(e)) /\ WF_dvars(MarkPublished(e))
    /\ \A m \in Members : WF_dvars(Handling(m))
-----------------------------------------------------------------------------
\* An event recorded as published is out of the relay's hands for good: from
\* then on every group has handled it, has dead-lettered it, or still has a
\* record of it to read, whatever restarts on either side.
RecordedIsSafe ==
    produceFailures = 0 =>
        \A e \in recorded, g \in Groups :
            HasEffect(g, e) \/ e \in Dead(g) \/ Ahead(g, e)

\* What the consumer answered for is there: no handled event without exactly
\* one effect, and no effect of an event that no transaction committed.
EffectsAreEarned ==
    \A g \in Groups, e \in Events :
        /\ e \in succeeded[g] => effects[g][e] = 1
        /\ effects[g][e] > 0 => e \in stored

\* The whole chain: a committed event has its effect in every group, unless
\* that group dead-lettered it or failed to publish a replacement.
EveryEventTakesEffect ==
    \A g \in Groups, e \in Events :
        (e \in stored) ~> (HasEffect(g, e) \/ e \in Dead(g) \/ produceFailures > 0)

\* What the chain takes from the outbox is what the outbox promises.
UsesOutbox == Channel!SafeSpec

\* So is what it takes from each group's inbox, where every delivery of an event
\* carries the one envelope the outbox wrote.
EventOf(d)      == d.id
SameEvent(x, d) == x = d.id

InboxOf(g) == INSTANCE OnceOnly WITH
    Ids <- Events, Deliveries <- [id : Events], Envelope <- EventOf, Same <- SameEvent,
    effects  <- [e \in Events |-> [n \in 1..effects[g][e] |-> e]],
    accepted <- {[id |-> e] : e \in succeeded[g]},
    rejected <- {}

UsesInbox ==
    /\ \A g \in Groups : InboxOf(g)!Init
    /\ [][\A g \in Groups : [InboxOf(g)!Next]_(InboxOf(g)!vars)]_dvars

=============================================================================
