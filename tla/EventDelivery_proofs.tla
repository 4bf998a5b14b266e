------------------------- MODULE EventDelivery_proofs ------------------------
(***************************************************************************)
(* Proofs about the whole chain.  Every step of the chain is a step of the *)
(* consumers or leaves them alone, so what was proved about the consumers  *)
(* holds here; the rest relates the outbox row and the effects to them.    *)
(***************************************************************************)
EXTENDS EventDelivery, EventConsumer_proofs

\* Only committed events are in the topics, and recorded ones are on the base.
SourceInv ==
    /\ \A t \in Topics : \A i \in DOMAIN log[t] : log[t][i].event \in stored
    /\ \A e \in recorded : e \in Events /\ OnBase(e)

\* A handled event has its one effect, and an effect has a committed event.
EffectInv ==
    /\ effects \in [Groups -> [Events -> {0, 1}]]
    /\ EffectsAreEarned

DInv == IInv /\ SourceInv /\ EffectInv

LEMMA InitDInv == DeliveryInit => DInv
  BY InitIInv DEF DeliveryInit, DInv, SourceInv, EffectInv, EffectsAreEarned, Init, Topics

\* A step of the chain, seen by the consumers.
LEMMA ConsumerStep == [DeliveryNext]_dvars => [Next]_vars
<1> SUFFICES ASSUME [DeliveryNext]_dvars PROVE [Next]_vars
  OBVIOUS
<1>1. ASSUME NEW e \in Events, Store(e) \/ Relay(e) \/ MarkPublished(e) PROVE [Next]_vars
  BY <1>1 DEF Store, Relay, MarkPublished, Next
<1>2. ASSUME NEW m \in Members, Handling(m) PROVE [Next]_vars
  <2>1. CASE Apply(m)
    BY <2>1 DEF Apply
  <2>2. CASE Success(m) \/ Retryable(m) \/ Permanent(m) \/ Transport(m)
    <3>1. Loop(m)
      BY <2>2 DEF Success, Retryable, Permanent, Transport, Loop
    <3> QED  BY <3>1 DEF Next
  <2> QED  BY <1>2, <2>1, <2>2 DEF Handling
<1>3. ASSUME NEW m \in Members, TransportFault(m) PROVE [Next]_vars
  BY <1>3 DEF TransportFault, Next
<1>4. CASE UNCHANGED dvars
  BY <1>4 DEF dvars
<1> QED  BY <1>1, <1>2, <1>3, <1>4 DEF DeliveryNext

\* Topics that grow by a record of a committed event hold committed events, and
\* keep what they held.
LEMMA GrowthOfStored ==
    ASSUME Shape, NEW S, \A t \in Topics : \A i \in DOMAIN log[t] : log[t][i].event \in S,
           NEW u \in Topics, NEW r \in LogRecord, r.event \in S,
           log' = [log EXCEPT ![u] = Append(@, r)]
    PROVE  /\ \A t \in Topics : \A i \in DOMAIN log'[t] : log'[t][i].event \in S
           /\ \A e \in Events : OnBase(e) => OnBase(e)'
<1>1. /\ log' \in [Topics -> Seq(LogRecord)] /\ Grows
      /\ Len(log'[u]) = Len(log[u]) + 1
      /\ log'[u][Len(log[u]) + 1] = r
      /\ \A t \in Topics \ {u} : log'[t] = log[t]
  BY AppendGrows DEF Shape
<1>2. \A t \in Topics : \A i \in DOMAIN log[t] : i \in DOMAIN log'[t] /\ log'[t][i] = log[t][i]
  BY <1>1, GrowthKeeps
<1>3. ASSUME NEW t \in Topics, NEW i \in DOMAIN log'[t] PROVE log'[t][i].event \in S
  <2>1. CASE t # u
    BY <1>1, <2>1
  <2>2. CASE t = u
    <3>1. log[u] \in Seq(LogRecord) /\ log'[u] \in Seq(LogRecord)
      BY <1>1 DEF Shape, TypeOK, LogRecord
    <3>2. i \in 1 .. Len(log[u]) \/ i = Len(log[u]) + 1
      BY <1>1, <2>2, <3>1
    <3> QED  BY <1>1, <1>2, <2>2, <3>1, <3>2
  <2> QED  BY <2>1, <2>2
<1>4. "base" \in Topics
  BY DEF Topics
<1> QED  BY <1>2, <1>3, <1>4 DEF OnBase

\* A record in hand is of a committed event.
LEMMA CurrentIsStored ==
    ASSUME DInv, NEW m \in Members, pc[m] # "poll"
    PROVE  Current(m).event \in stored /\ Current(m).event \in Events
<1>1. /\ at[m].topic \in Topics /\ at[m].offset \in 1 .. Len(log[at[m].topic])
      /\ Current(m) \in LogRecord
  BY CurrentIsRecord DEF DInv, IInv
<1>2. log[at[m].topic] \in Seq(LogRecord)
  BY <1>1 DEF DInv, IInv, Shape, TypeOK, LogRecord
<1> QED  BY <1>1, <1>2 DEF DInv, SourceInv, Current, LogRecord, RecordType

\* Whatever a loop produces leaves the topics with committed events only.
LEMMA ProduceStored ==
    ASSUME DInv, NEW m \in Members, pc[m] = "produce", Produce(out[m]) \/ UNCHANGED log,
           UNCHANGED sources
    PROVE  SourceInv'
<1>1. CASE UNCHANGED log
  BY <1>1 DEF DInv, SourceInv, OnBase, sources
<1>2. CASE Produce(out[m]) /\ out[m].topic = "retry"
  <2>1. log' = [log EXCEPT !["retry"] = Append(@, out[m].record)] /\ "retry" \in Topics
    BY <1>2 DEF Produce, Topics
  <2>2. out[m].record \in LogRecord /\ out[m].record.event = Current(m).event
    BY <1>2 DEF DInv, IInv, Shape, TypeOK, OutInv, Outputs, NoOutput, LogRecord, RecordType
  <2>3. out[m].record.event \in stored
    BY <2>2, CurrentIsStored
  <2>4. /\ \A t \in Topics : \A i \in DOMAIN log'[t] : log'[t][i].event \in stored
        /\ \A e \in Events : OnBase(e) => OnBase(e)'
    BY <2>1, <2>2, <2>3, GrowthOfStored DEF DInv, IInv, SourceInv
  <2> QED  BY <2>4 DEF DInv, SourceInv, sources
<1>3. CASE Produce(out[m]) /\ out[m].topic # "retry"
  BY <1>1, <1>3 DEF Produce
<1> QED  BY <1>1, <1>2, <1>3
-----------------------------------------------------------------------------
LEMMA StepDInv == DInv /\ [DeliveryNext]_dvars => DInv'
<1> SUFFICES ASSUME DInv, [DeliveryNext]_dvars PROVE DInv'
  OBVIOUS
<1>0. IInv'
  BY ConsumerStep, StepIInv DEF DInv
<1>1. ASSUME NEW e \in Events, Store(e) PROVE DInv'
  <2>1. stored \subseteq stored' /\ UNCHANGED <<vars, recorded, effects>>
    BY <1>1 DEF Store, Channel!Commit
  <2>2. SourceInv'
    BY <2>1 DEF DInv, SourceInv, OnBase, vars
  <2>3. EffectInv'
    BY <2>1 DEF DInv, EffectInv, EffectsAreEarned, vars
  <2> QED  BY <1>0, <2>2, <2>3 DEF DInv
<1>2. ASSUME NEW e \in Events, Relay(e) PROVE DInv'
  <2>1. /\ e \in stored /\ log' = [log EXCEPT !["base"] = Append(@, BaseRecord(e))]
        /\ UNCHANGED <<succeeded, sources, effects>>
    BY <1>2 DEF Relay, Channel!Deliver, Publish, sources
  <2>2. BaseRecord(e) \in LogRecord /\ BaseRecord(e).event = e /\ "base" \in Topics
    BY ConsumerAssumption DEF LogRecord, RecordType, BaseRecord, Record, Topics
  <2>3. /\ \A t \in Topics : \A i \in DOMAIN log'[t] : log'[t][i].event \in stored
        /\ \A f \in Events : OnBase(f) => OnBase(f)'
    BY <2>1, <2>2, GrowthOfStored DEF DInv, IInv, SourceInv
  <2>4. SourceInv' /\ EffectInv'
    BY <2>1, <2>3 DEF DInv, SourceInv, EffectInv, EffectsAreEarned, sources
  <2> QED  BY <1>0, <2>4 DEF DInv
<1>3. ASSUME NEW e \in Events, MarkPublished(e) PROVE DInv'
  <2>1. e \in Channel!OnTopic /\ recorded' = recorded \cup {e} /\ UNCHANGED <<vars, stored, effects>>
    BY <1>3 DEF MarkPublished, Channel!Ack
  <2>2. OnBase(e)
    BY <2>1 DEF Channel!OnTopic, OnBaseTopic, OnBase
  <2>3. SourceInv' /\ EffectInv'
    BY <2>1, <2>2 DEF DInv, SourceInv, EffectInv, EffectsAreEarned, OnBase, vars
  <2> QED  BY <1>0, <2>3 DEF DInv
<1>4. ASSUME NEW m \in Members, Apply(m) PROVE DInv'
  <2>0. PICK g \in Groups : g = GroupOf[m]
    BY GroupIsGroup
  <2>1. /\ pc[m] = "handle" /\ ~HasEffect(g, Current(m).event)
        /\ effects' = [effects EXCEPT ![g][Current(m).event] = @ + 1]
        /\ UNCHANGED <<vars, sources>>
    BY <1>4, <2>0 DEF Apply, NoReceiptYet
  <2>2. Current(m).event \in stored /\ Current(m).event \in Events
    BY <2>1, CurrentIsStored
  <2>3. effects \in [Groups -> [Events -> {0, 1}]]
    BY DEF DInv, EffectInv
  <2>4. effects[g] \in [Events -> {0, 1}] /\ effects[g][Current(m).event] = 0
    BY <2>1, <2>2, <2>3 DEF HasEffect
  <2>5. effects' = [effects EXCEPT ![g] = [effects[g] EXCEPT ![Current(m).event] = 1]]
    BY <2>1, <2>2, <2>4
  <2>6. effects' \in [Groups -> [Events -> {0, 1}]]
    BY <2>2, <2>3, <2>4, <2>5
  <2>7. \A h \in Groups, e \in Events :
            \/ effects'[h][e] = effects[h][e]
            \/ h = g /\ e = Current(m).event /\ effects'[h][e] = 1
    BY <2>2, <2>3, <2>4, <2>5
  <2>8. SourceInv' /\ EffectsAreEarned'
    BY <2>1, <2>2, <2>7 DEF DInv, EffectInv, SourceInv, EffectsAreEarned, OnBase, vars, sources
  <2> QED  BY <1>0, <2>6, <2>8 DEF DInv, EffectInv
<1>5. ASSUME NEW m \in Members, Success(m) PROVE DInv'
  <2>0. PICK g \in Groups : g = GroupOf[m]
    BY GroupIsGroup
  <2>1. /\ pc[m] = "handle" /\ HasEffect(g, Current(m).event)
        /\ succeeded' = [succeeded EXCEPT ![g] = @ \cup {Current(m).event}]
        /\ UNCHANGED <<log, sources, effects>>
    BY <1>5, <2>0 DEF Success, HandlerOk
  <2>2. Current(m).event \in Events
    BY <2>1, CurrentIsStored
  <2>3. effects[g][Current(m).event] = 1
    BY <2>1, <2>2 DEF HasEffect, DInv, EffectInv
  <2>4. succeeded \in [Groups -> SUBSET Events]
    BY DEF DInv, IInv, Shape, TypeOK
  <2>5. \A h \in Groups, e \in Events :
            e \in succeeded'[h] => e \in succeeded[h] \/ (h = g /\ e = Current(m).event)
    BY <2>1, <2>4
  <2>6. SourceInv' /\ EffectInv'
    BY <2>1, <2>3, <2>5 DEF DInv, EffectInv, SourceInv, EffectsAreEarned, OnBase, sources
  <2> QED  BY <1>0, <2>6 DEF DInv
<1>6. ASSUME NEW m \in Members,
             \/ Retryable(m) \/ Permanent(m)
             \/ Transport(m) /\ UNCHANGED <<sources, effects>>
             \/ TransportFault(m)
      PROVE  DInv'
  <2>1. UNCHANGED <<sources, effects, succeeded>>
    BY <1>6 DEF Retryable, Permanent, Transport, TransportFault, HandlerRetryable, HandlerPermanent,
                DropPoison, Fail, Fault, Poll, Wake, ProduceOk, ProduceFail, CommitOk, CommitFail,
                Restart, HandOver
  <2>2. EffectInv'
    BY <2>1 DEF DInv, EffectInv, EffectsAreEarned, sources
  <2>3. UNCHANGED log \/ (pc[m] = "produce" /\ Produce(out[m]))
    BY <1>6 DEF Retryable, Permanent, Transport, TransportFault, HandlerRetryable, HandlerPermanent,
                DropPoison, Fail, Fault, Poll, Wake, ProduceOk, ProduceFail, CommitOk, CommitFail,
                Restart, HandOver
  <2>4. SourceInv'
    <3>1. CASE UNCHANGED log
      BY <2>1, <3>1 DEF DInv, SourceInv, OnBase, sources
    <3> QED  BY <2>1, <2>3, <3>1, ProduceStored
  <2> QED  BY <1>0, <2>2, <2>4 DEF DInv
<1>7. CASE UNCHANGED dvars
  BY <1>0, <1>7
     DEF DInv, SourceInv, EffectInv, EffectsAreEarned, OnBase, dvars, vars
<1> QED
  BY <1>1, <1>2, <1>3, <1>4, <1>5, <1>6, <1>7 DEF DeliveryNext, Handling

LEMMA DeliveryInvariance == DeliverySpec => []DInv
  BY InitDInv, StepDInv, PTL DEF DeliverySpec

\* No event takes effect twice in a group or without its transaction, and what
\* a consumer has answered for has taken effect.
THEOREM EffectsEarned == DeliverySpec => []EffectsAreEarned
<1>1. DInv => EffectsAreEarned
  BY DEF DInv, EffectInv
<1> QED  BY <1>1, DeliveryInvariance, PTL

\* Once the outbox row says published the event is safe in every group, as long
\* as retry and dead-letter publishes succeed.
THEOREM RecordedSafe == DeliverySpec => []RecordedIsSafe
<1>1. DInv => RecordedIsSafe
  <2> SUFFICES ASSUME DInv, produceFailures = 0, NEW e \in recorded, NEW g \in Groups
               PROVE  HasEffect(g, e) \/ e \in Dead(g) \/ Ahead(g, e)
    BY DEF RecordedIsSafe
  <2>1. e \in Events /\ OnBase(e)
    BY DEF DInv, SourceInv
  <2>2. NothingLostButByProduce
    BY NothingLostNow DEF DInv
  <2>3. e \in succeeded[g] \/ e \in Dead(g) \/ Ahead(g, e)
    BY <2>1, <2>2 DEF NothingLostButByProduce, NoEventLost
  <2>4. e \in succeeded[g] => HasEffect(g, e)
    BY <2>1 DEF DInv, EffectInv, EffectsAreEarned, HasEffect
  <2> QED  BY <2>3, <2>4
<1> QED  BY <1>1, DeliveryInvariance, PTL


\* RetryAmplification in the composition: behind the outbox and in front of the
\* inbox, too, the groups multiply a failing event by their number and no more.
THEOREM DeliveryRetriesMultiplyOnly == DeliverySpec => []RetryAmplification
<1>1. DeliveryInit => Init
  BY DEF DeliveryInit
<1>2. AmpParts => RetryAmplification
  BY OnceImplies DEF AmpParts, EarnParts, IInv, Shape
<1> QED  BY <1>1, <1>2, ConsumerStep, AmpInductive, PTL DEF DeliverySpec

-----------------------------------------------------------------------------
\* The chain keeps to the outbox's promise: its steps are the channel's or the
\* channel does not see them.
LEMMA ChannelStep == DInv /\ [DeliveryNext]_dvars => [Channel!Next]_(Channel!vars)
<1> SUFFICES ASSUME DInv, [DeliveryNext]_dvars PROVE [Channel!Next]_(Channel!vars)
  OBVIOUS
<1>1. ASSUME NEW e \in Events, Store(e) PROVE Channel!Next
  BY <1>1 DEF Store, Channel!Next, Events, Channel!Events
<1>2. ASSUME NEW e \in Events, Relay(e) PROVE Channel!Next
  BY <1>2 DEF Relay, Channel!Next, Events, Channel!Events
<1>3. ASSUME NEW e \in Events, MarkPublished(e) PROVE Channel!Next
  BY <1>3 DEF MarkPublished, Channel!Next, Events, Channel!Events
<1>4. ASSUME NEW m \in Members, Handling(m) \/ TransportFault(m) PROVE UNCHANGED Channel!vars
  <2>1. UNCHANGED sources
    BY <1>4 DEF Handling, TransportFault, Apply, Success, Retryable, Permanent
  <2>2. log'["base"] = log["base"]
    <3>1. \/ UNCHANGED log
          \/ pc[m] = "produce" /\ Produce(out[m])
      BY <1>4 DEF Handling, Apply, Success, Retryable, Permanent, Transport, TransportFault, Fault, vars,
                  HandlerOk, HandlerRetryable, HandlerPermanent, DropPoison, Fail, Poll, Wake,
                  ProduceOk, ProduceFail, CommitOk, CommitFail, Restart, HandOver
    <3>2. CASE UNCHANGED log
      BY <3>2
    <3>3. CASE Produce(out[m]) /\ ~UNCHANGED log
      <4>1. log' = [log EXCEPT !["retry"] = Append(@, out[m].record)]
        BY <3>3 DEF Produce
      <4> QED  BY <4>1 DEF DInv, IInv, Shape, TypeOK, Topics
    <3> QED  BY <3>1, <3>2, <3>3
  <2>3. OnBaseTopic' = OnBaseTopic
    BY <2>2 DEF OnBaseTopic
  <2> QED  BY <2>1, <2>3 DEF Channel!vars, sources
<1>5. CASE UNCHANGED dvars
  <2>1. OnBaseTopic' = OnBaseTopic
    BY <1>5 DEF dvars, vars, OnBaseTopic
  <2> QED  BY <1>5, <2>1 DEF Channel!vars, dvars
<1> QED  BY <1>1, <1>2, <1>3, <1>4, <1>5 DEF DeliveryNext

\* The outbox in front of the consumers stays an at-least-once channel: nothing
\* the groups do reaches the base topic or the outbox rows.
THEOREM ComposesOutbox == DeliverySpec => UsesOutbox
<1>1. DeliveryInit => Channel!Init
  BY DEF DeliveryInit, Init, Channel!Init, OnBaseTopic, Topics
<1> QED
  BY <1>1, InitDInv, StepDInv, ChannelStep, PTL DEF DeliverySpec, UsesOutbox, Channel!SafeSpec
-----------------------------------------------------------------------------
\* The effects of a group, as its inbox is seen to keep them.
Effects(g) == [e \in Events |-> [n \in 1..effects[g][e] |-> e]]

\* What a group's inbox is seen to do in a step of the chain.
LEMMA InboxStep ==
    ASSUME DInv, [DeliveryNext]_dvars, NEW g \in Groups
    PROVE  [InboxOf(g)!Next]_(InboxOf(g)!vars)
<1>0. /\ effects \in [Groups -> [Events -> {0, 1}]]
      /\ succeeded \in [Groups -> SUBSET Events]
  BY DEF DInv, EffectInv, IInv, Shape, TypeOK
<1>1. ASSUME NEW m \in Members, Apply(m) PROVE [InboxOf(g)!Next]_(InboxOf(g)!vars)
  <2>0. PICK h \in Groups : h = GroupOf[m]
    BY GroupIsGroup
  <2>1. /\ pc[m] = "handle" /\ effects[h][Current(m).event] = 0
        /\ effects' = [effects EXCEPT ![h][Current(m).event] = @ + 1]
        /\ UNCHANGED succeeded
        /\ Current(m).event \in Events
    <3>1. /\ pc[m] = "handle" /\ ~HasEffect(h, Current(m).event)
          /\ effects' = [effects EXCEPT ![h][Current(m).event] = @ + 1]
          /\ UNCHANGED succeeded
      BY <1>1, <2>0 DEF Apply, NoReceiptYet, vars
    <3>2. Current(m).event \in Events
      BY <3>1, CurrentIsStored
    <3> QED  BY <1>0, <3>1, <3>2 DEF HasEffect
  <2>2. CASE h # g
    <3>1. effects'[g] = effects[g]
      BY <1>0, <2>1, <2>2
    <3> QED  BY <2>1, <3>1 DEF InboxOf!vars
  <2>3. CASE h = g
    <3> DEFINE d == [id |-> Current(m).event]
    <3>1. \A e \in Events : effects'[g][e] = IF e = d.id THEN 1 ELSE effects[g][e]
      BY <1>0, <2>1, <2>3
    <3>2. d \in [id : Events]
      BY <2>1, <2>3
    <3>3. /\ Effects(g)[d.id] = <<>>
          /\ Effects(g)' = [Effects(g) EXCEPT ![d.id] = <<EventOf(d)>>]
      <4>1. Effects(g)[d.id] = <<>>
        BY <1>0, <2>1, <2>3, <3>2 DEF Effects
      <4>2. \A e \in Events : Effects(g)'[e] = IF e = d.id THEN <<d.id>> ELSE Effects(g)[e]
        <5>1. [n \in 1..1 |-> d.id] = <<d.id>>
          OBVIOUS
        <5> QED  BY <3>1, <5>1 DEF Effects
      <4>3. d.id \in Events /\ EventOf(d) = d.id
        BY <3>2 DEF EventOf
      <4> HIDE DEF d
      <4>4. Effects(g)' = [e \in Events |-> IF e = d.id THEN <<d.id>> ELSE Effects(g)[e]]
        BY <4>2 DEF Effects
      <4>5. [Effects(g) EXCEPT ![d.id] = <<d.id>>]
              = [e \in Events |-> IF e = d.id THEN <<d.id>> ELSE Effects(g)[e]]
        BY <4>3 DEF Effects
      <4> QED  BY <4>1, <4>3, <4>4, <4>5
    <3>4. {[id |-> e] : e \in succeeded[g]}' = {[id |-> e] : e \in succeeded[g]}
      BY <2>1
    <3> HIDE DEF d
    <3>5. InboxOf(g)!Next
      BY <3>2, <3>3, <3>4 DEF InboxOf!Next, InboxOf!Apply, Effects
    <3> QED  BY <3>5
  <2> QED  BY <2>2, <2>3
<1>2. ASSUME NEW m \in Members, Success(m) PROVE [InboxOf(g)!Next]_(InboxOf(g)!vars)
  <2>0. PICK h \in Groups : h = GroupOf[m]
    BY GroupIsGroup
  <2>1. /\ pc[m] = "handle" /\ HasEffect(h, Current(m).event)
        /\ succeeded' = [succeeded EXCEPT ![h] = @ \cup {Current(m).event}]
        /\ UNCHANGED effects
    BY <1>2, <2>0 DEF Success, HandlerOk
  <2>2. Current(m).event \in Events
    BY <2>1, CurrentIsStored
  <2>3. CASE h # g
    BY <1>0, <2>1, <2>3 DEF InboxOf!vars
  <2>4. CASE h = g
    <3> DEFINE d == [id |-> Current(m).event]
    <3>1. d \in [id : Events] /\ effects[g][d.id] = 1
      BY <1>0, <2>1, <2>2, <2>4 DEF HasEffect
    <3>2. Effects(g)[d.id] = [n \in 1..1 |-> d.id]
      BY <3>1 DEF Effects
    <3>3. Effects(g)[d.id] # <<>> /\ SameEvent(Effects(g)[d.id][1], d)
      BY <3>2 DEF SameEvent
    <3>4. {[id |-> e] : e \in succeeded[g]}' = {[id |-> e] : e \in succeeded[g]} \cup {d}
      BY <1>0, <2>1, <2>4
    <3> HIDE DEF d
    <3>5. InboxOf(g)!Next
      BY <2>1, <3>1, <3>3, <3>4 DEF InboxOf!Next, InboxOf!Accept, Effects
    <3> QED  BY <3>5
  <2> QED  BY <2>3, <2>4
<1>3. CASE UNCHANGED <<effects, succeeded>>
  BY <1>3 DEF InboxOf!vars
<1>4. ASSUME NEW e \in Events, Store(e) \/ Relay(e) \/ MarkPublished(e)
      PROVE  UNCHANGED <<effects, succeeded>>
  BY <1>4 DEF Store, Relay, MarkPublished, Publish, vars
<1>5. ASSUME NEW m \in Members,
             \/ Retryable(m) \/ Permanent(m)
             \/ Transport(m) /\ UNCHANGED <<sources, effects>>
             \/ TransportFault(m)
      PROVE  UNCHANGED <<effects, succeeded>>
  BY <1>5 DEF Retryable, Permanent, Transport, TransportFault, HandlerRetryable, HandlerPermanent,
              DropPoison, Fail, Fault, Poll, Wake, ProduceOk, ProduceFail, CommitOk, CommitFail,
              Restart, HandOver
<1>6. CASE UNCHANGED dvars
  BY <1>6 DEF dvars, vars, InboxOf!vars
<1> QED
  BY <1>1, <1>2, <1>3, <1>4, <1>5, <1>6 DEF DeliveryNext, Handling

LEMMA InboxStart == DeliveryInit => \A g \in Groups : InboxOf(g)!Init
<1> SUFFICES ASSUME DeliveryInit, NEW g \in Groups PROVE InboxOf(g)!Init
  OBVIOUS
<1>1. /\ \A e \in Events : effects[g][e] = 0
      /\ succeeded[g] = {}
  BY DEF DeliveryInit, Init
<1>2. \A e \in Events : [n \in 1..effects[g][e] |-> e] = <<>>
  BY <1>1
<1> QED  BY <1>1, <1>2 DEF InboxOf!Init

\* Behind the consumers every group's inbox stays a once-only effect, whatever is
\* redelivered, rewound or restarted in front of it, and a handler's success is
\* always the answer to an effect that is there.
THEOREM ComposesInbox == DeliverySpec => UsesInbox
<1> DEFINE Step == \A g \in Groups : [InboxOf(g)!Next]_(InboxOf(g)!vars)
<1>1. DInv /\ [DeliveryNext]_dvars => Step
  BY InboxStep
<1> HIDE DEF Step
<1>2. DeliverySpec => [][Step]_dvars
  BY <1>1, InitDInv, StepDInv, PTL DEF DeliverySpec
<1>3. DeliverySpec => DeliveryInit
  BY PTL DEF DeliverySpec
<1> QED  BY <1>2, <1>3, InboxStart DEF UsesInbox, Step

===============================================================================
