------------------------ MODULE EventConsumer_proofs ------------------------
(***************************************************************************)
(* Proofs about the Kafka consumers.                                       *)
(*                                                                         *)
(* That no event is lost is about committed offsets, but it is not carried *)
(* from step to step by them: a commit moves over records whose fate was   *)
(* settled before, and a former owner of a topic may commit behind its     *)
(* successor's back.  The inductive statement speaks of every way a record *)
(* can be left behind: by the offset, by the owner's fetch position, or by *)
(* a loop, of the owner or a former one, that holds a later record.  An    *)
(* event without outcome has a record that none of them has passed.        *)
(***************************************************************************)
EXTENDS EventConsumer, FiniteSetTheorems, FunctionTheorems, TLAPS

LogRecord == RecordType(Groups \cup {"relay"})

\* Offsets point into the topics, which belong to members of the group.
PositionInv ==
    \A g \in Groups, t \in Topics :
        /\ committed[g][t] <= Len(log[t]) /\ position[g][t] <= Len(log[t])
        /\ GroupOf[owner[g][t]] = g

\* The record in hand is one of its topic's.
HandInv ==
    \A m \in Members : pc[m] # "poll" => at[m].offset \in 1 .. Len(log[at[m].topic])

\* The replacement about to be produced is one for the event in hand.
OutInv ==
    \A m \in Members : pc[m] = "produce" =>
        /\ out[m] # NoOutput
        /\ out[m].record.event = Current(m).event
        /\ out[m].record.by = GroupOf[m]

\* The loop has the record and has not settled it yet.
Holds(m, t, i) ==
    pc[m] \in {"wait", "handle", "produce"} /\ at[m].topic = t /\ at[m].offset = i

\* The loop has a later record of the topic, or has settled this one.
Behind(m, t, i) ==
    /\ pc[m] # "poll" /\ at[m].topic = t
    /\ i < at[m].offset \/ (i = at[m].offset /\ pc[m] = "commit")

Passed(g, t, i) ==
    \/ i <= committed[g][t]
    \/ i <= position[g][t] /\ ~ Holds(owner[g][t], t, i)
    \/ \E m \in Members : GroupOf[m] = g /\ Behind(m, t, i)

Open(g, e) == \E t \in Topics : \E i \in DOMAIN log[t] :
                  log[t][i].event = e /\ ~ Passed(g, t, i)

Outcome(g, e) == e \in succeeded[g] \/ e \in Dead(g) \/ Open(g, e)

NoneForgotten ==
    produceFailures = 0 => \A g \in Groups, e \in Events : OnBase(e) => Outcome(g, e)

Shape == TypeOK /\ PositionInv /\ HandInv /\ OutInv
IInv  == Shape /\ NoneForgotten

LEMMA InitIInv == Init => IInv
<1> SUFFICES ASSUME Init PROVE IInv
  OBVIOUS
<1> USE ConsumerAssumption
<1>1. TypeOK
  BY DEF Init, TypeOK, Topics, NoRecord, NoOutput
<1>2. PositionInv /\ HandInv /\ OutInv
  BY DEF Init, PositionInv, HandInv, OutInv, Topics
<1>3. NoneForgotten
  BY DEF Init, NoneForgotten, OnBase, Topics
<1> QED  BY <1>1, <1>2, <1>3 DEF IInv, Shape

\* What the types say of one group or one member.
LEMMA OffsetTypes ==
    ASSUME Shape, NEW g \in Groups, NEW t \in Topics
    PROVE  /\ committed[g][t] \in Nat /\ position[g][t] \in Nat /\ Len(log[t]) \in Nat
           /\ committed[g][t] <= Len(log[t]) /\ position[g][t] <= Len(log[t])
           /\ owner[g][t] \in Members /\ GroupOf[owner[g][t]] = g
           /\ log[t] \in Seq(LogRecord) /\ DOMAIN log[t] = 1 .. Len(log[t])
<1>1. /\ committed[g] \in [Topics -> Nat] /\ position[g] \in [Topics -> Nat]
      /\ owner[g] \in [Topics -> Members] /\ log \in [Topics -> Seq(LogRecord)]
  BY DEF Shape, TypeOK, LogRecord
<1>2. log[t] \in Seq(LogRecord)
  BY <1>1
<1> QED  BY <1>1, <1>2 DEF Shape, PositionInv

LEMMA CurrentIsRecord ==
    ASSUME Shape, NEW m \in Members, pc[m] # "poll"
    PROVE  /\ at[m].topic \in Topics
           /\ at[m].offset \in 1 .. Len(log[at[m].topic]) /\ at[m].offset \in Nat
           /\ Current(m) \in LogRecord
<1>1. at[m].topic \in Topics /\ at[m].offset \in Nat
  BY DEF Shape, TypeOK
<1>2. at[m].offset \in 1 .. Len(log[at[m].topic])
  BY DEF Shape, HandInv
<1>3. log[at[m].topic] \in Seq(LogRecord)
  BY <1>1 DEF Shape, TypeOK, LogRecord
<1> QED  BY <1>1, <1>2, <1>3 DEF Current

LEMMA GroupIsGroup == ASSUME NEW m \in Members PROVE GroupOf[m] \in Groups
  BY ConsumerAssumption

\* A topic only grows at its end.
Grows == \A t \in Topics : /\ Len(log'[t]) \in Nat /\ Len(log'[t]) >= Len(log[t])
                           /\ \A i \in 1 .. Len(log[t]) : log'[t][i] = log[t][i]

LEMMA StillGrows ==
    ASSUME Shape, UNCHANGED log
    PROVE  Grows /\ log' \in [Topics -> Seq(LogRecord)]
<1>1. log \in [Topics -> Seq(LogRecord)]
  BY DEF Shape, TypeOK, LogRecord
<1>2. \A t \in Topics : Len(log[t]) \in Nat
  BY <1>1
<1> QED  BY <1>1, <1>2 DEF Grows

LEMMA AppendGrows ==
    ASSUME TypeOK, NEW t \in Topics, NEW r \in LogRecord, log' = [log EXCEPT ![t] = Append(@, r)]
    PROVE  /\ log' \in [Topics -> Seq(LogRecord)]
           /\ Grows
           /\ Len(log'[t]) = Len(log[t]) + 1
           /\ log'[t][Len(log[t]) + 1] = r
           /\ \A u \in Topics \ {t} : log'[u] = log[u]
<1>1. log \in [Topics -> Seq(LogRecord)]
  BY DEF TypeOK, LogRecord
<1>2. log'[t] = Append(log[t], r) /\ \A u \in Topics \ {t} : log'[u] = log[u]
  BY <1>1
<1>3. /\ Append(log[t], r) \in Seq(LogRecord)
      /\ Len(Append(log[t], r)) = Len(log[t]) + 1
      /\ \A i \in 1 .. Len(log[t]) : Append(log[t], r)[i] = log[t][i]
      /\ Append(log[t], r)[Len(log[t]) + 1] = r
  BY <1>1
<1>4. \A u \in Topics : log[u] \in Seq(LogRecord) /\ Len(log[u]) \in Nat
  BY <1>1
<1>5. log' \in [Topics -> Seq(LogRecord)]
  BY <1>1, <1>3
<1>6. Grows
  BY <1>2, <1>3, <1>4 DEF Grows
<1> QED  BY <1>2, <1>3, <1>5, <1>6

\* Records stay where they are while topics grow.
LEMMA GrowthKeeps ==
    ASSUME Shape, Grows, log' \in [Topics -> Seq(LogRecord)]
    PROVE  \A t \in Topics : /\ DOMAIN log[t] = 1 .. Len(log[t]) /\ Len(log[t]) \in Nat
                             /\ DOMAIN log'[t] = 1 .. Len(log'[t])
                             /\ \A i \in DOMAIN log[t] : i \in DOMAIN log'[t] /\ log'[t][i] = log[t][i]
<1> SUFFICES ASSUME NEW t \in Topics
             PROVE  /\ DOMAIN log[t] = 1 .. Len(log[t]) /\ Len(log[t]) \in Nat
                    /\ DOMAIN log'[t] = 1 .. Len(log'[t])
                    /\ \A i \in DOMAIN log[t] : i \in DOMAIN log'[t] /\ log'[t][i] = log[t][i]
  OBVIOUS
<1>1. log[t] \in Seq(LogRecord) /\ log'[t] \in Seq(LogRecord)
  BY DEF Shape, TypeOK, LogRecord
<1>2. /\ DOMAIN log[t] = 1 .. Len(log[t]) /\ DOMAIN log'[t] = 1 .. Len(log'[t])
      /\ Len(log[t]) \in Nat
  BY <1>1
<1> QED  BY <1>2 DEF Grows

LEMMA GrowthKeepsHand ==
    ASSUME Shape, Grows, log' \in [Topics -> Seq(LogRecord)], NEW m \in Members, pc[m] # "poll"
    PROVE  /\ log'[at[m].topic][at[m].offset] = Current(m)
           /\ at[m].offset \in 1 .. Len(log'[at[m].topic])
  BY CurrentIsRecord, GrowthKeeps DEF Current

\* Loops that stay where they are, move on with their record, or return to their
\* poll keep their shape while topics grow.
LEMMA GrowthKeepsShape ==
    ASSUME Shape, Grows, log' \in [Topics -> Seq(LogRecord)], TypeOK', UNCHANGED offsets,
           \A m \in Members :
               \/ pc'[m] = "poll"
               \/ /\ pc[m] # "poll" /\ at'[m] = at[m]
                  /\ pc'[m] = "produce" =>
                        \/ pc[m] = "produce" /\ out'[m] = out[m]
                        \/ /\ out'[m] # NoOutput
                           /\ out'[m].record.event = Current(m).event
                           /\ out'[m].record.by = GroupOf[m]
    PROVE  Shape'
<1>1. PositionInv'
  <2> SUFFICES ASSUME NEW g \in Groups, NEW t \in Topics
               PROVE  /\ committed[g][t] <= Len(log'[t]) /\ position[g][t] <= Len(log'[t])
                      /\ GroupOf[owner[g][t]] = g
    BY DEF PositionInv, offsets
  <2>1. Len(log'[t]) \in Nat /\ Len(log'[t]) >= Len(log[t])
    BY DEF Grows
  <2> QED  BY <2>1, OffsetTypes
<1>2. HandInv'
  <2> SUFFICES ASSUME NEW m \in Members, pc'[m] # "poll"
               PROVE  at'[m].offset \in 1 .. Len(log'[at'[m].topic])
    BY DEF HandInv
  <2> QED  BY GrowthKeepsHand
<1>3. OutInv'
  <2> SUFFICES ASSUME NEW m \in Members, pc'[m] = "produce"
               PROVE  (/\ out[m] # NoOutput
                       /\ out[m].record.event = Current(m).event
                       /\ out[m].record.by = GroupOf[m])'
    BY DEF OutInv
  <2>1. pc[m] # "poll" /\ at'[m] = at[m]
    OBVIOUS
  <2>2. Current(m)' = Current(m)
    BY <2>1, GrowthKeepsHand DEF Current
  <2>3. CASE pc[m] = "produce" /\ out'[m] = out[m]
    BY <2>2, <2>3 DEF Shape, OutInv, NoOutput, BaseRecord, Record
  <2>4. CASE ~(pc[m] = "produce" /\ out'[m] = out[m])
    BY <2>1, <2>2, <2>4 DEF NoOutput, BaseRecord, Record
  <2> QED  BY <2>3, <2>4
<1> QED  BY <1>1, <1>2, <1>3 DEF Shape

\* What has an outcome keeps it unless its records are passed by the step.
LEMMA OutcomeKept ==
    ASSUME Shape, Grows, log' \in [Topics -> Seq(LogRecord)],
           dlq \subseteq dlq', NEW g \in Groups, succeeded[g] \subseteq succeeded'[g],
           NEW e \in Events, Outcome(g, e),
           \A t \in Topics : \A i \in DOMAIN log[t] :
               log[t][i].event = e /\ Passed(g, t, i)' => Passed(g, t, i)
    PROVE  Outcome(g, e)'
<1>1. CASE e \in succeeded[g]
  BY <1>1 DEF Outcome
<1>2. CASE e \in Dead(g)
  BY <1>2 DEF Outcome, Dead
<1>3. CASE Open(g, e)
  <2>1. PICK t \in Topics : \E i \in DOMAIN log[t] : log[t][i].event = e /\ ~ Passed(g, t, i)
    BY <1>3 DEF Open
  <2>2. PICK i \in DOMAIN log[t] : log[t][i].event = e /\ ~ Passed(g, t, i)
    BY <2>1
  <2>3. i \in DOMAIN log'[t] /\ log'[t][i] = log[t][i]
    BY GrowthKeeps
  <2>4. ~ Passed(g, t, i)'
    BY <2>2
  <2>5. Open(g, e)'
    BY <2>2, <2>3, <2>4 DEF Open
  <2> QED  BY <2>5 DEF Outcome
<1> QED  BY <1>1, <1>2, <1>3 DEF Outcome

\* A loop that goes on with its record passes no other record than this one, and
\* this one when it has settled it.
LEMMA HandPasses ==
    ASSUME Shape, NEW m \in Members, pc[m] # "poll", UNCHANGED <<offsets, at>>,
           \A n \in Members \ {m} : pc'[n] = pc[n],
           NEW g \in Groups, NEW t \in Topics, NEW i \in Nat, Passed(g, t, i)'
    PROVE  \/ Passed(g, t, i)
           \/ /\ g = GroupOf[m] /\ t = at[m].topic /\ i = at[m].offset
              /\ pc'[m] \notin {"wait", "handle", "produce"}
<1>1. owner[g][t] \in Members /\ GroupOf[owner[g][t]] = g
  BY OffsetTypes
<1>2. CASE i <= committed[g][t]
  BY <1>2 DEF Passed
<1>3. CASE i <= position[g][t] /\ ~ Holds(owner[g][t], t, i)'
  <2>1. CASE owner[g][t] = m
    BY <1>1, <1>3, <2>1 DEF Passed, Holds, offsets
  <2>2. CASE owner[g][t] # m
    BY <1>1, <1>3, <2>2 DEF Passed, Holds, offsets
  <2> QED  BY <2>1, <2>2
<1>4. CASE \E n \in Members : GroupOf[n] = g /\ Behind(n, t, i)'
  <2>1. PICK n \in Members : GroupOf[n] = g /\ Behind(n, t, i)'
    BY <1>4
  <2>2. CASE n # m
    BY <2>1, <2>2 DEF Passed, Behind
  <2>3. CASE n = m
    BY <2>1, <2>3 DEF Passed, Behind
  <2> QED  BY <2>2, <2>3
<1> QED  BY <1>2, <1>3, <1>4 DEF Passed, offsets
-----------------------------------------------------------------------------
\* A record appended to a topic is open for every group.
LEMMA AppendedIsOpen ==
    ASSUME Shape, log' \in [Topics -> Seq(LogRecord)], NEW t \in Topics,
           Len(log'[t]) = Len(log[t]) + 1, NEW g \in Groups, UNCHANGED <<offsets, at>>,
           \A m \in Members : pc[m] = "poll" => pc'[m] = "poll",
           NEW e, log'[t][Len(log[t]) + 1].event = e
    PROVE  Open(g, e)'
<1>1. /\ committed[g][t] \in Nat /\ position[g][t] \in Nat /\ Len(log[t]) \in Nat
      /\ committed[g][t] <= Len(log[t]) /\ position[g][t] <= Len(log[t])
  BY OffsetTypes
<1>2. PICK i : i = Len(log[t]) + 1
  OBVIOUS
<1>3. ASSUME NEW m \in Members, Behind(m, t, i)' PROVE FALSE
  <2>1. pc[m] # "poll" /\ at[m].topic = t
    BY <1>3 DEF Behind
  <2>2. at[m].offset \in 1 .. Len(log[t])
    BY <2>1, CurrentIsRecord
  <2> QED  BY <1>1, <1>2, <1>3, <2>2 DEF Behind
<1>4. ~ Passed(g, t, i)'
  BY <1>1, <1>2, <1>3 DEF Passed, offsets
<1>5. log'[t] \in Seq(LogRecord)
  OBVIOUS
<1>6. i \in DOMAIN log'[t]
  BY <1>1, <1>2, <1>5
<1> QED  BY <1>2, <1>4, <1>6 DEF Open

\* The dead letters and the shape of a step that only appends to a topic.
LEMMA PublishIInv == ASSUME IInv, NEW e \in Events, Publish(e) PROVE IInv'
<1>1. /\ log' = [log EXCEPT !["base"] = Append(@, BaseRecord(e))]
      /\ UNCHANGED <<dlq, offsets, owner, committed, position, loops, pc, at, out, succeeded,
                     faults, produceFailures>>
  BY DEF Publish, offsets, loops
<1>2. BaseRecord(e) \in LogRecord /\ BaseRecord(e).event = e
  BY ConsumerAssumption DEF LogRecord, RecordType, BaseRecord, Record
<1>3. "base" \in Topics
  BY DEF Topics
<1>4. /\ log' \in [Topics -> Seq(LogRecord)] /\ Grows
      /\ Len(log'["base"]) = Len(log["base"]) + 1
      /\ log'["base"][Len(log["base"]) + 1] = BaseRecord(e)
  BY <1>1, <1>2, <1>3, AppendGrows DEF IInv, Shape
<1>5. Shape'
  <2>1. TypeOK'
    BY <1>1, <1>4 DEF IInv, Shape, TypeOK, LogRecord
  <2> QED  BY <1>1, <1>4, <2>1, GrowthKeepsShape DEF IInv
<1>6. ASSUME produceFailures' = 0, NEW g \in Groups, NEW f \in Events, OnBase(f)'
      PROVE  Outcome(g, f)'
  <2>1. CASE f = e
    BY <1>1, <1>2, <1>3, <1>4, <2>1, AppendedIsOpen DEF IInv, Outcome
  <2>2. CASE f # e
    <3>1. PICK i \in DOMAIN log'["base"] : log'["base"][i].event = f
      BY <1>6 DEF OnBase
    <3>2. log["base"] \in Seq(LogRecord) /\ log'["base"] \in Seq(LogRecord)
      BY <1>3, <1>4 DEF IInv, Shape, TypeOK, LogRecord
    <3>3. i # Len(log["base"]) + 1
      BY <1>2, <1>4, <2>2, <3>1
    <3>4. i \in 1 .. Len(log["base"])
      BY <1>4, <3>2, <3>3
    <3>5. OnBase(f)
      BY <1>3, <1>4, <3>1, <3>2, <3>4 DEF OnBase, Grows
    <3>6. Outcome(g, f)
      BY <1>1, <1>6, <3>5 DEF IInv, NoneForgotten
    <3>7. \A t \in Topics : \A j \in DOMAIN log[t] : Passed(g, t, j)' => Passed(g, t, j)
      BY <1>1 DEF Passed, Holds, Behind
    <3> QED  BY <1>1, <1>4, <3>6, <3>7, OutcomeKept DEF IInv
  <2> QED  BY <2>1, <2>2
<1> QED  BY <1>5, <1>6 DEF IInv, NoneForgotten

\* Steps that leave the topics alone and settle nothing.
LEMMA QuietStep ==
    ASSUME IInv, Shape', UNCHANGED <<log, dlq, produceFailures>>,
           \A g \in Groups : succeeded[g] \subseteq succeeded'[g],
           \A g \in Groups, t \in Topics : \A i \in DOMAIN log[t] :
               Passed(g, t, i)' => Passed(g, t, i) \/ log[t][i].event \in succeeded'[g]
    PROVE  IInv'
<1> SUFFICES ASSUME produceFailures = 0, NEW g \in Groups, NEW e \in Events, OnBase(e)
             PROVE  Outcome(g, e)'
  BY DEF IInv, NoneForgotten, OnBase
<1>1. Outcome(g, e)
  BY DEF IInv, NoneForgotten
<1>2. CASE e \in succeeded'[g]
  BY <1>2 DEF Outcome
<1>3. CASE e \notin succeeded'[g]
  BY <1>1, <1>3, StillGrows, OutcomeKept DEF IInv
<1> QED  BY <1>2, <1>3

\* Reading moves the fetch position over a record that the loop now holds; all
\* before it had been passed.
LEMMA PollIInv == ASSUME IInv, NEW m \in Members, NEW t \in Topics, Poll(m, t) PROVE IInv'
<1>1. PICK g \in Groups : g = GroupOf[m]
  BY GroupIsGroup
<1>2. /\ pc[m] = "poll" /\ owner[g][t] = m /\ position[g][t] < Len(log[t])
      /\ position' = [position EXCEPT ![g][t] = @ + 1]
      /\ at' = [at EXCEPT ![m] = [topic |-> t, offset |-> position[g][t] + 1]]
      /\ pc' = [pc EXCEPT ![m] = IF t = "retry" THEN "wait" ELSE "handle"]
      /\ UNCHANGED <<log, dlq, owner, committed, out, succeeded, faults, produceFailures>>
  BY <1>1 DEF Poll
<1>3. /\ position \in [Groups -> [Topics -> Nat]]
      /\ at \in [Members -> [topic : Topics, offset : Nat]]
      /\ pc \in [Members -> {"poll", "wait", "handle", "produce", "commit"}]
      /\ position[g][t] \in Nat /\ Len(log[t]) \in Nat
  BY OffsetTypes DEF IInv, Shape, TypeOK
<1>4. /\ position'[g][t] = position[g][t] + 1
      /\ \A h \in Groups, u \in Topics : ~(h = g /\ u = t) => position'[h][u] = position[h][u]
      /\ \A n \in Members \ {m} : at'[n] = at[n] /\ pc'[n] = pc[n]
      /\ at'[m].topic = t /\ at'[m].offset = position[g][t] + 1
      /\ pc'[m] \in {"wait", "handle"}
  BY <1>2, <1>3
<1>5. TypeOK'
  <2>1. position' \in [Groups -> [Topics -> Nat]]
    BY <1>2, <1>3
  <2>2. at' \in [Members -> [topic : Topics, offset : Nat]]
    BY <1>2, <1>3
  <2>3. pc' \in [Members -> {"poll", "wait", "handle", "produce", "commit"}]
    BY <1>2, <1>3
  <2> QED  BY <1>2, <2>1, <2>2, <2>3 DEF IInv, Shape, TypeOK
<1>6. PositionInv'
  <2> SUFFICES ASSUME NEW h \in Groups, NEW u \in Topics
               PROVE  /\ committed[h][u] <= Len(log[u]) /\ position'[h][u] <= Len(log[u])
                      /\ GroupOf[owner[h][u]] = h
    BY <1>2 DEF PositionInv
  <2>1. CASE h = g /\ u = t
    BY <1>2, <1>3, <1>4, <2>1, OffsetTypes DEF IInv
  <2>2. CASE ~(h = g /\ u = t)
    BY <1>4, <2>2, OffsetTypes DEF IInv
  <2> QED  BY <2>1, <2>2
<1>7. HandInv' /\ OutInv'
  <2>1. ASSUME NEW n \in Members, pc'[n] # "poll" PROVE at'[n].offset \in 1 .. Len(log[at'[n].topic])
    <3>1. CASE n = m
      BY <1>2, <1>3, <1>4, <3>1
    <3>2. CASE n # m
      BY <1>4, <2>1, <3>2, CurrentIsRecord DEF IInv
    <3> QED  BY <3>1, <3>2
  <2>2. OutInv'
    BY <1>2, <1>4 DEF IInv, Shape, OutInv, Current
  <2> QED  BY <1>2, <2>1, <2>2 DEF HandInv
<1>8. ASSUME NEW h \in Groups, NEW u \in Topics, NEW i \in Nat, Passed(h, u, i)'
      PROVE  Passed(h, u, i)
  <2>1. owner[h][u] \in Members /\ position[h][u] \in Nat
    BY OffsetTypes DEF IInv
  <2>2. \A v, j : ~ Holds(m, v, j)
    BY <1>2 DEF Holds
  <2>3. CASE i <= committed[h][u]
    BY <2>3 DEF Passed
  <2>4. CASE i <= position'[h][u] /\ ~ Holds(owner[h][u], u, i)'
    <3>1. CASE h = g /\ u = t
      <4>1. i # position[g][t] + 1
        BY <1>2, <1>4, <2>4, <3>1 DEF Holds
      <4>2. i <= position[g][t]
        BY <1>3, <1>4, <2>4, <3>1, <4>1
      <4> QED  BY <1>2, <2>2, <3>1, <4>2 DEF Passed
    <3>2. CASE ~(h = g /\ u = t) /\ owner[h][u] = m
      BY <1>4, <2>2, <2>4, <3>2 DEF Passed
    <3>3. CASE ~(h = g /\ u = t) /\ owner[h][u] # m
      <4>1. PICK n \in Members \ {m} : n = owner[h][u]
        BY <2>1, <3>3
      <4>2. owner'[h][u] = n /\ at'[n] = at[n] /\ pc'[n] = pc[n] /\ position'[h][u] = position[h][u]
        BY <1>2, <1>4, <3>3, <4>1
      <4>3. ~ Holds(n, u, i)
        BY <2>4, <4>1, <4>2 DEF Holds
      <4> QED  BY <2>4, <4>1, <4>2, <4>3 DEF Passed
    <3> QED  BY <3>1, <3>2, <3>3
  <2>5. CASE \E n \in Members : GroupOf[n] = h /\ Behind(n, u, i)'
    <3>1. PICK n \in Members : GroupOf[n] = h /\ Behind(n, u, i)'
      BY <2>5
    <3>2. CASE n # m
      BY <1>4, <3>1, <3>2 DEF Passed, Behind
    <3>3. CASE n = m
      <4>1. u = t /\ h = g /\ i < position[g][t] + 1
        BY <1>1, <1>4, <3>1, <3>3 DEF Behind
      <4>2. i <= position[g][t]
        BY <1>3, <4>1
      <4> QED  BY <1>2, <2>2, <4>1, <4>2 DEF Passed
    <3> QED  BY <3>2, <3>3
  <2> QED  BY <1>2, <1>8, <2>3, <2>4, <2>5 DEF Passed
<1>9. \A u \in Topics : \A i \in DOMAIN log[u] : i \in Nat
  BY OffsetTypes DEF IInv
<1> QED  BY <1>2, <1>5, <1>6, <1>7, <1>8, <1>9, QuietStep DEF IInv, Shape

\* Waking, an accepting handler and a failing one move the loop on; only the
\* accepting handler lets go of its event, and that event has succeeded.
LEMMA HandIInv ==
    ASSUME IInv, NEW m \in Members, pc[m] # "poll", TypeOK',
           UNCHANGED <<log, dlq, offsets, at, produceFailures>>,
           \A n \in Members \ {m} : pc'[n] = pc[n] /\ out'[n] = out[n],
           \A g \in Groups : succeeded[g] \subseteq succeeded'[g],
           pc'[m] \in {"wait", "handle", "produce"} \/ Current(m).event \in succeeded'[GroupOf[m]],
           pc'[m] # "poll",
           pc'[m] = "produce" => /\ out'[m] # NoOutput
                                 /\ out'[m].record.event = Current(m).event
                                 /\ out'[m].record.by = GroupOf[m]
    PROVE  IInv'
<1>1. Grows /\ log' \in [Topics -> Seq(LogRecord)]
  BY StillGrows DEF IInv
<1>2. \A n \in Members :
          \/ pc'[n] = "poll"
          \/ /\ pc[n] # "poll" /\ at'[n] = at[n]
             /\ pc'[n] = "produce" =>
                    \/ pc[n] = "produce" /\ out'[n] = out[n]
                    \/ /\ out'[n] # NoOutput
                       /\ out'[n].record.event = Current(n).event
                       /\ out'[n].record.by = GroupOf[n]
  <2> SUFFICES ASSUME NEW n \in Members, pc'[n] # "poll"
               PROVE  /\ pc[n] # "poll" /\ at'[n] = at[n]
                      /\ pc'[n] = "produce" =>
                             \/ pc[n] = "produce" /\ out'[n] = out[n]
                             \/ /\ out'[n] # NoOutput
                                /\ out'[n].record.event = Current(n).event
                                /\ out'[n].record.by = GroupOf[n]
    OBVIOUS
  <2>1. CASE n = m
    BY <2>1
  <2>2. CASE n # m
    BY <2>2
  <2> QED  BY <2>1, <2>2
<1>3. Shape'
  BY <1>1, <1>2, GrowthKeepsShape DEF IInv
<1>4. ASSUME NEW g \in Groups, NEW t \in Topics, NEW i \in DOMAIN log[t], Passed(g, t, i)'
      PROVE  Passed(g, t, i) \/ log[t][i].event \in succeeded'[g]
  <2>1. i \in Nat
    BY OffsetTypes DEF IInv
  <2> QED  BY <1>4, <2>1, HandPasses DEF IInv, Current
<1> QED  BY <1>3, <1>4, QuietStep

LEMMA WakeIInv == ASSUME IInv, NEW m \in Members, Wake(m) PROVE IInv'
<1>1. /\ pc[m] = "wait" /\ pc' = [pc EXCEPT ![m] = "handle"]
      /\ UNCHANGED <<log, dlq, offsets, owner, committed, position, at, out, succeeded, faults,
                     produceFailures>>
  BY DEF Wake, offsets
<1>2. TypeOK' /\ pc'[m] = "handle" /\ \A n \in Members \ {m} : pc'[n] = pc[n]
  BY <1>1 DEF IInv, Shape, TypeOK
<1> QED  BY <1>1, <1>2, HandIInv

LEMMA HandlerOkIInv == ASSUME IInv, NEW m \in Members, HandlerOk(m) PROVE IInv'
<1>1. PICK g \in Groups : g = GroupOf[m]
  BY GroupIsGroup
<1>2. /\ pc[m] = "handle" /\ pc' = [pc EXCEPT ![m] = "commit"]
      /\ succeeded' = [succeeded EXCEPT ![g] = @ \cup {Current(m).event}]
      /\ UNCHANGED <<log, dlq, offsets, owner, committed, position, at, out, faults,
                     produceFailures>>
  BY <1>1 DEF HandlerOk, offsets
<1>3. Current(m).event \in Events
  BY <1>2, CurrentIsRecord DEF IInv, LogRecord, RecordType
<1>4. /\ succeeded' \in [Groups -> SUBSET Events]
      /\ \A h \in Groups : succeeded[h] \subseteq succeeded'[h]
      /\ Current(m).event \in succeeded'[g]
  BY <1>2, <1>3 DEF IInv, Shape, TypeOK
<1>5. TypeOK' /\ pc'[m] = "commit" /\ \A n \in Members \ {m} : pc'[n] = pc[n]
  BY <1>2, <1>4 DEF IInv, Shape, TypeOK
<1> QED  BY <1>1, <1>2, <1>4, <1>5, HandIInv

LEMMA FailIInv ==
    ASSUME IInv, NEW m \in Members, pc[m] = "handle", NEW replacement \in Outputs,
           replacement.record.event = Current(m).event, replacement.record.by = GroupOf[m],
           Fail(m, replacement)
    PROVE  IInv'
<1>1. /\ pc' = [pc EXCEPT ![m] = "produce"] /\ out' = [out EXCEPT ![m] = replacement]
      /\ UNCHANGED <<log, dlq, offsets, owner, committed, position, at, succeeded, faults,
                     produceFailures>>
  BY DEF Fail, AfterFailure, offsets
<1>2. /\ pc' \in [Members -> {"poll", "wait", "handle", "produce", "commit"}]
      /\ out' \in [Members -> Outputs \cup {NoOutput}]
      /\ \A n \in Members \ {m} : pc'[n] = pc[n] /\ out'[n] = out[n]
      /\ pc'[m] = "produce" /\ out'[m] = replacement
  BY <1>1 DEF IInv, Shape, TypeOK
<1>3. TypeOK'
  BY <1>1, <1>2 DEF IInv, Shape, TypeOK
<1>4. replacement # NoOutput
  BY DEF NoOutput, Outputs
<1> QED  BY <1>1, <1>2, <1>3, <1>4, HandIInv

\* The replacements the three failures ask for.
Answers(m) ==
    {ToDeadLetter(GroupOf[m], Current(m), why) : why \in {"poison", "permanent"}} \cup
    {RetryOrDeadLetter(GroupOf[m], Current(m))}

LEMMA Replacements ==
    ASSUME IInv, NEW m \in Members, pc[m] = "handle"
    PROVE  \A x \in Answers(m) :
               /\ x \in Outputs
               /\ x.record.event = Current(m).event
               /\ x.record.by = GroupOf[m]
<1>1. PICK g \in Groups : g = GroupOf[m]
  BY GroupIsGroup
<1>2. /\ Current(m).event \in Events /\ Current(m).attempt \in 1 .. MaxAttempts
  BY CurrentIsRecord DEF IInv, LogRecord, RecordType
<1>3. ~Exhausted(Current(m)) => Current(m).attempt + 1 \in 1 .. MaxAttempts
  BY <1>2, ConsumerAssumption DEF Exhausted
<1>4. \A why \in {"poison", "permanent", "exhausted"} :
          ToDeadLetter(g, Current(m), why).record \in DeadLetterType
  BY <1>2 DEF ToDeadLetter, DeadLetter, DeadLetterType
<1>5. ~Exhausted(Current(m)) => ToRetry(g, Current(m)).record \in RecordType(Groups)
  BY <1>2, <1>3 DEF ToRetry, Record, RecordType
<1>6. \A why \in {"poison", "permanent", "exhausted"} :
          /\ ToDeadLetter(g, Current(m), why) \in Outputs
          /\ ToDeadLetter(g, Current(m), why).record.event = Current(m).event
          /\ ToDeadLetter(g, Current(m), why).record.by = g
  BY <1>4 DEF ToDeadLetter, DeadLetter, Outputs
<1>7. ~Exhausted(Current(m)) =>
          /\ ToRetry(g, Current(m)) \in Outputs
          /\ ToRetry(g, Current(m)).record.event = Current(m).event
          /\ ToRetry(g, Current(m)).record.by = g
  BY <1>5 DEF ToRetry, Record, Outputs
<1> QED  BY <1>1, <1>6, <1>7 DEF Answers, RetryOrDeadLetter

LEMMA FailureIInv ==
    ASSUME IInv, NEW m \in Members, HandlerPermanent(m) \/ HandlerRetryable(m) \/ DropPoison(m)
    PROVE  IInv'
<1>1. /\ pc[m] = "handle"
      /\ \E x \in Answers(m) : Fail(m, x)
  BY DEF HandlerPermanent, HandlerRetryable, DropPoison, Answers
<1>2. PICK x \in Answers(m) : Fail(m, x)
  BY <1>1
<1> QED  BY <1>1, <1>2, Replacements, FailIInv

\* A publish leaves the replacement in the dead-letter topic or at the end of the
\* retry topic.
LEMMA ProduceGrows ==
    ASSUME Shape, NEW m \in Members, pc[m] = "produce", Produce(out[m])
    PROVE  /\ log' \in [Topics -> Seq(LogRecord)] /\ Grows
           /\ log'["base"] = log["base"]
           /\ dlq \subseteq dlq' /\ dlq' \subseteq DeadLetterType
           /\ \/ out[m].record.event \in {r.event : r \in {x \in dlq' : x.by = GroupOf[m]}}
              \/ /\ Len(log'["retry"]) = Len(log["retry"]) + 1
                 /\ log'["retry"][Len(log["retry"]) + 1] = out[m].record
<1>1. out[m] \in Outputs /\ out[m].record.by = GroupOf[m]
  BY DEF Shape, TypeOK, OutInv
<1>2. "base" \in Topics /\ "retry" \in Topics
  BY DEF Topics
<1>3. log \in [Topics -> Seq(LogRecord)] /\ dlq \subseteq DeadLetterType
  BY DEF Shape, TypeOK, LogRecord
<1>4. CASE out[m].topic = "retry"
  <2>1. log' = [log EXCEPT !["retry"] = Append(@, out[m].record)] /\ dlq' = dlq
    BY <1>4 DEF Produce
  <2>2. out[m].record \in LogRecord
    BY <1>1, <1>4 DEF Outputs, RecordType, LogRecord
  <2> QED  BY <1>2, <1>3, <2>1, <2>2, AppendGrows DEF Shape
<1>5. CASE out[m].topic # "retry"
  <2>1. dlq' = dlq \cup {out[m].record} /\ log' = log
    BY <1>5 DEF Produce
  <2>2. out[m].record \in {x \in dlq' : x.by = GroupOf[m]}
    BY <1>1, <2>1
  <2>3. out[m].record \in DeadLetterType
    BY <1>1, <1>5 DEF Outputs
  <2> QED  BY <1>3, <2>1, <2>2, <2>3, StillGrows
<1> QED  BY <1>4, <1>5

\* The replacement is in its topic before the loop lets go of the event.
LEMMA ProduceOkIInv == ASSUME IInv, NEW m \in Members, ProduceOk(m) PROVE IInv'
<1>1. /\ pc[m] = "produce" /\ Produce(out[m])
      /\ out' = [out EXCEPT ![m] = NoOutput] /\ pc' = [pc EXCEPT ![m] = "commit"]
      /\ UNCHANGED <<offsets, owner, committed, position, at, succeeded, faults, produceFailures>>
  BY DEF ProduceOk, offsets
<1>2. /\ log' \in [Topics -> Seq(LogRecord)] /\ Grows
      /\ log'["base"] = log["base"]
      /\ dlq \subseteq dlq' /\ dlq' \subseteq DeadLetterType
      /\ \/ out[m].record.event \in {r.event : r \in {x \in dlq' : x.by = GroupOf[m]}}
         \/ /\ Len(log'["retry"]) = Len(log["retry"]) + 1
            /\ log'["retry"][Len(log["retry"]) + 1] = out[m].record
  BY <1>1, ProduceGrows DEF IInv
<1>3. /\ pc' \in [Members -> {"poll", "wait", "handle", "produce", "commit"}]
      /\ out' \in [Members -> Outputs \cup {NoOutput}]
      /\ \A n \in Members \ {m} : pc'[n] = pc[n] /\ out'[n] = out[n]
      /\ pc'[m] = "commit"
  BY <1>1 DEF IInv, Shape, TypeOK
<1>4. TypeOK'
  BY <1>1, <1>2, <1>3 DEF IInv, Shape, TypeOK, LogRecord
<1>5. \A n \in Members : \/ pc'[n] = "poll"
                         \/ /\ pc[n] # "poll" /\ at'[n] = at[n]
                            /\ pc'[n] = "produce" => pc[n] = "produce" /\ out'[n] = out[n]
  BY <1>1, <1>3
<1>6. Shape'
  BY <1>1, <1>2, <1>4, <1>5, GrowthKeepsShape DEF IInv
<1>7. ASSUME produceFailures' = 0, NEW g \in Groups, NEW e \in Events, OnBase(e)'
      PROVE  Outcome(g, e)'
  <2>1. Outcome(g, e)
    BY <1>1, <1>2, <1>7 DEF IInv, NoneForgotten, OnBase
  <2>2. CASE g = GroupOf[m] /\ Current(m).event = e
    <3>1. out[m].record.event = e
      BY <1>1, <2>2 DEF IInv, Shape, OutInv
    <3>2. CASE out[m].record.event \in {r.event : r \in {x \in dlq' : x.by = GroupOf[m]}}
      BY <2>2, <3>1, <3>2 DEF Outcome, Dead
    <3>3. CASE /\ Len(log'["retry"]) = Len(log["retry"]) + 1
               /\ log'["retry"][Len(log["retry"]) + 1] = out[m].record
      <4>1. "retry" \in Topics
        BY DEF Topics
      <4>2. Open(g, e)'
        BY <1>1, <1>2, <1>3, <3>1, <3>3, <4>1, AppendedIsOpen DEF IInv
      <4> QED  BY <4>2 DEF Outcome
    <3> QED  BY <1>2, <3>2, <3>3
  <2>3. CASE ~(g = GroupOf[m] /\ Current(m).event = e)
    <3>1. ASSUME NEW t \in Topics, NEW i \in DOMAIN log[t], log[t][i].event = e, Passed(g, t, i)'
          PROVE  Passed(g, t, i)
      <4>1. i \in Nat
        BY OffsetTypes DEF IInv
      <4> QED  BY <1>1, <1>3, <2>3, <3>1, <4>1, HandPasses DEF IInv, Current
    <3> QED  BY <1>1, <1>2, <2>1, <3>1, OutcomeKept DEF IInv
  <2> QED  BY <2>2, <2>3
<1> QED  BY <1>6, <1>7 DEF IInv, NoneForgotten

\* A failed publish is counted; what it leaves behind is in shape.
LEMMA ProduceFailIInv == ASSUME IInv, NEW m \in Members, ProduceFail(m) PROVE IInv'
<1>1. /\ pc[m] = "produce" /\ (Produce(out[m]) \/ UNCHANGED <<log, dlq>>)
      /\ out' = [out EXCEPT ![m] = NoOutput] /\ pc' = [pc EXCEPT ![m] = "poll"]
      /\ at' = [at EXCEPT ![m] = NoRecord]
      /\ produceFailures' = produceFailures + 1
      /\ UNCHANGED <<offsets, owner, committed, position, succeeded, faults>>
  BY DEF ProduceFail, offsets
<1>2. log' \in [Topics -> Seq(LogRecord)] /\ Grows /\ dlq' \subseteq DeadLetterType
  <2>1. CASE Produce(out[m])
    BY <1>1, <2>1, ProduceGrows DEF IInv
  <2>2. CASE UNCHANGED <<log, dlq>>
    BY <2>2, StillGrows DEF IInv, Shape, TypeOK
  <2> QED  BY <1>1, <2>1, <2>2
<1>3. /\ pc' \in [Members -> {"poll", "wait", "handle", "produce", "commit"}]
      /\ out' \in [Members -> Outputs \cup {NoOutput}]
      /\ at' \in [Members -> [topic : Topics, offset : Nat]]
      /\ \A n \in Members \ {m} : pc'[n] = pc[n] /\ out'[n] = out[n] /\ at'[n] = at[n]
      /\ pc'[m] = "poll"
      /\ produceFailures' \in Nat /\ produceFailures' # 0
  BY <1>1 DEF IInv, Shape, TypeOK, NoRecord, Topics
<1>4. TypeOK'
  BY <1>1, <1>2, <1>3 DEF IInv, Shape, TypeOK, LogRecord
<1>5. \A n \in Members : \/ pc'[n] = "poll"
                         \/ /\ pc[n] # "poll" /\ at'[n] = at[n]
                            /\ pc'[n] = "produce" => pc[n] = "produce" /\ out'[n] = out[n]
  BY <1>3
<1>6. Shape'
  BY <1>1, <1>2, <1>4, <1>5, GrowthKeepsShape DEF IInv
<1> QED  BY <1>3, <1>6 DEF IInv, NoneForgotten

\* A commit moves the offset over records its loop had left behind, and where it
\* takes the offset back it passes fewer.
LEMMA CommitIInv ==
    ASSUME IInv, NEW m \in Members, pc[m] = "commit", CommitOffset(m) \/ UNCHANGED committed,
           pc' = [pc EXCEPT ![m] = "poll"], at' = [at EXCEPT ![m] = NoRecord],
           faults' \in Nat, UNCHANGED <<log, dlq, owner, position, out, succeeded, produceFailures>>
    PROVE  IInv'
<1>1. PICK g \in Groups, o \in Topics, k \in Nat :
          g = GroupOf[m] /\ o = at[m].topic /\ k = at[m].offset
  <2>1. GroupOf[m] \in Groups /\ at[m].topic \in Topics /\ at[m].offset \in Nat
    BY CurrentIsRecord, GroupIsGroup DEF IInv
  <2> QED  BY <2>1
<1>2. /\ k \in Nat /\ k <= Len(log[o])
      /\ committed \in [Groups -> [Topics -> Nat]]
  <2>1. at[m].offset \in 1 .. Len(log[at[m].topic]) /\ Len(log[at[m].topic]) \in Nat
    BY <1>1, CurrentIsRecord, OffsetTypes DEF IInv
  <2> QED  BY <1>1, <2>1 DEF IInv, Shape, TypeOK
<1>3. /\ committed' \in [Groups -> [Topics -> Nat]]
      /\ \A h \in Groups, t \in Topics :
             \/ committed'[h][t] = committed[h][t]
             \/ h = g /\ t = o /\ committed'[h][t] = k
  <2>1. CASE UNCHANGED committed
    BY <1>2, <2>1
  <2>2. CASE CommitOffset(m)
    <3>1. committed' = [committed EXCEPT ![g] = [committed[g] EXCEPT ![o] = k]]
      BY <1>1, <2>2 DEF CommitOffset
    <3>2. [committed[g] EXCEPT ![o] = k] \in [Topics -> Nat]
      BY <1>2
    <3>3. committed' \in [Groups -> [Topics -> Nat]]
      BY <1>2, <3>1, <3>2
    <3>4. /\ committed'[g] = [committed[g] EXCEPT ![o] = k]
          /\ \A h \in Groups \ {g} : committed'[h] = committed[h]
      BY <1>2, <3>1
    <3>5. \A t \in Topics : committed'[g][t] = IF t = o THEN k ELSE committed[g][t]
      BY <1>2, <3>4
    <3> QED  BY <3>3, <3>4, <3>5
  <2> QED  BY <2>1, <2>2
<1>4. /\ pc' \in [Members -> {"poll", "wait", "handle", "produce", "commit"}]
      /\ at' \in [Members -> [topic : Topics, offset : Nat]]
      /\ \A n \in Members \ {m} : pc'[n] = pc[n] /\ at'[n] = at[n]
      /\ pc'[m] = "poll"
  BY DEF IInv, Shape, TypeOK, NoRecord, Topics
<1>5. TypeOK'
  BY <1>3, <1>4 DEF IInv, Shape, TypeOK
<1>6. PositionInv'
  <2> SUFFICES ASSUME NEW h \in Groups, NEW t \in Topics
               PROVE  /\ committed'[h][t] <= Len(log[t]) /\ position[h][t] <= Len(log[t])
                      /\ GroupOf[owner[h][t]] = h
    BY DEF PositionInv
  <2> QED  BY <1>2, <1>3, OffsetTypes DEF IInv
<1>7. HandInv' /\ OutInv'
  BY <1>4 DEF IInv, Shape, HandInv, OutInv, Current
<1>8. ASSUME NEW h \in Groups, NEW t \in Topics, NEW i \in Nat, Passed(h, t, i)'
      PROVE  Passed(h, t, i)
  <2>1. owner[h][t] \in Members
    BY OffsetTypes DEF IInv
  <2>2. CASE i <= committed'[h][t]
    <3>1. CASE committed'[h][t] = committed[h][t]
      BY <2>2, <3>1 DEF Passed
    <3>2. CASE h = g /\ t = o /\ committed'[h][t] = k
      <4>1. i < k \/ i = k
        BY <1>2, <2>2, <3>2
      <4> QED  BY <1>1, <3>2, <4>1 DEF Passed, Behind
    <3> QED  BY <1>3, <3>1, <3>2
  <2>3. CASE i <= position[h][t] /\ ~ Holds(owner[h][t], t, i)'
    <3>1. ~ Holds(owner[h][t], t, i)
      BY <1>4, <2>1, <2>3 DEF Holds
    <3> QED  BY <2>3, <3>1 DEF Passed
  <2>4. CASE \E n \in Members : GroupOf[n] = h /\ Behind(n, t, i)'
    BY <1>4, <2>4 DEF Passed, Behind
  <2> QED  BY <1>8, <2>2, <2>3, <2>4 DEF Passed
<1>9. \A t \in Topics : \A i \in DOMAIN log[t] : i \in Nat
  BY OffsetTypes DEF IInv
<1> QED  BY <1>5, <1>6, <1>7, <1>8, <1>9, QuietStep DEF IInv, Shape

\* A restart forgets what is in hand, but resumes from the committed offset: what
\* it had passed beyond that is open again.
LEMMA RestartIInv == ASSUME IInv, NEW m \in Members, Restart(m) PROVE IInv'
<1>1. PICK g \in Groups : g = GroupOf[m]
  BY GroupIsGroup
<1>2. /\ position' = [position EXCEPT ![g] =
                         [t \in Topics |-> IF owner[g][t] = m THEN committed[g][t]
                                                              ELSE position[g][t]]]
      /\ pc' = [pc EXCEPT ![m] = "poll"] /\ at' = [at EXCEPT ![m] = NoRecord]
      /\ out' = [out EXCEPT ![m] = NoOutput] /\ faults' = faults + 1
      /\ UNCHANGED <<log, dlq, owner, committed, succeeded, produceFailures>>
  <2>1. /\ position' = [position EXCEPT ![g] =
                           [t \in Topics |-> IF t \in {u \in Topics : owner[g][u] = m}
                                             THEN ResumeFrom(g, t) ELSE @[t]]]
        /\ pc' = [pc EXCEPT ![m] = "poll"] /\ at' = [at EXCEPT ![m] = NoRecord]
        /\ out' = [out EXCEPT ![m] = NoOutput] /\ faults' = faults + 1
        /\ UNCHANGED <<log, dlq, owner, committed, succeeded, produceFailures>>
    BY <1>1 DEF Restart
  <2> QED  BY <2>1 DEF ResumeFrom
<1>3. position \in [Groups -> [Topics -> Nat]] /\ committed \in [Groups -> [Topics -> Nat]]
  BY DEF IInv, Shape, TypeOK
<1>4. /\ position' \in [Groups -> [Topics -> Nat]]
      /\ \A h \in Groups, t \in Topics :
             position'[h][t] = IF h = g /\ owner[h][t] = m THEN committed[h][t] ELSE position[h][t]
      /\ \A n \in Members \ {m} : pc'[n] = pc[n] /\ at'[n] = at[n] /\ out'[n] = out[n]
      /\ pc' \in [Members -> {"poll", "wait", "handle", "produce", "commit"}]
      /\ at' \in [Members -> [topic : Topics, offset : Nat]]
      /\ out' \in [Members -> Outputs \cup {NoOutput}]
      /\ pc'[m] = "poll" /\ faults' \in Nat
  <2>1. /\ position' \in [Groups -> [Topics -> Nat]]
         /\ \A h \in Groups, t \in Topics :
                position'[h][t] = IF h = g /\ owner[h][t] = m THEN committed[h][t] ELSE position[h][t]
    <3> DEFINE p == [t \in Topics |-> IF owner[g][t] = m THEN committed[g][t] ELSE position[g][t]]
    <3>1. p \in [Topics -> Nat]
      BY <1>3
    <3>2. position' = [position EXCEPT ![g] = p]
      BY <1>2
    <3>3. \A t \in Topics : p[t] = IF owner[g][t] = m THEN committed[g][t] ELSE position[g][t]
      OBVIOUS
    <3> HIDE DEF p
    <3>4. position'[g] = p /\ \A h \in Groups \ {g} : position'[h] = position[h]
      BY <1>3, <3>2
    <3> QED  BY <1>3, <3>1, <3>2, <3>3, <3>4
  <2> QED  BY <1>2, <2>1 DEF IInv, Shape, TypeOK, NoRecord, Topics
<1>5. TypeOK'
  BY <1>2, <1>4 DEF IInv, Shape, TypeOK
<1>6. PositionInv'
  <2> SUFFICES ASSUME NEW h \in Groups, NEW t \in Topics
               PROVE  /\ committed[h][t] <= Len(log[t]) /\ position'[h][t] <= Len(log[t])
                      /\ GroupOf[owner[h][t]] = h
    BY <1>2 DEF PositionInv
  <2> QED  BY <1>4, OffsetTypes DEF IInv
<1>7. HandInv' /\ OutInv'
  BY <1>2, <1>4 DEF IInv, Shape, HandInv, OutInv, Current
<1>8. ASSUME NEW h \in Groups, NEW t \in Topics, NEW i \in Nat, Passed(h, t, i)'
      PROVE  Passed(h, t, i)
  <2>1. owner[h][t] \in Members /\ GroupOf[owner[h][t]] = h
    BY OffsetTypes DEF IInv
  <2>2. CASE i <= committed[h][t]
    BY <2>2 DEF Passed
  <2>3. CASE i <= position'[h][t] /\ ~ Holds(owner[h][t], t, i)'
    <3>1. CASE owner[h][t] = m
      BY <1>1, <1>4, <2>1, <2>3, <3>1 DEF Passed
    <3>2. CASE owner[h][t] # m
      <4>1. PICK n \in Members \ {m} : n = owner[h][t]
        BY <2>1, <3>2
      <4>2. owner'[h][t] = n /\ at'[n] = at[n] /\ pc'[n] = pc[n] /\ position'[h][t] = position[h][t]
        BY <1>2, <1>4, <3>2, <4>1
      <4>3. ~ Holds(n, t, i)
        BY <2>3, <4>1, <4>2 DEF Holds
      <4> QED  BY <2>3, <4>1, <4>2, <4>3 DEF Passed
    <3> QED  BY <3>1, <3>2
  <2>4. CASE \E n \in Members : GroupOf[n] = h /\ Behind(n, t, i)'
    BY <1>4, <2>4 DEF Passed, Behind
  <2> QED  BY <1>2, <1>8, <2>2, <2>3, <2>4 DEF Passed
<1>9. \A t \in Topics : \A i \in DOMAIN log[t] : i \in Nat
  BY OffsetTypes DEF IInv
<1> QED  BY <1>2, <1>5, <1>6, <1>7, <1>8, <1>9, QuietStep DEF IInv, Shape

\* So does the new owner of a topic; the former owner's loop keeps its record.
LEMMA HandOverIInv ==
    ASSUME IInv, NEW m \in Members, NEW o \in Topics, HandOver(m, o) PROVE IInv'
<1>1. PICK g \in Groups : g = GroupOf[m]
  BY GroupIsGroup
<1>2. /\ owner' = [owner EXCEPT ![g][o] = m]
      /\ position' = [position EXCEPT ![g][o] = committed[g][o]]
      /\ faults' = faults + 1
      /\ UNCHANGED <<log, dlq, committed, pc, at, out, succeeded, produceFailures>>
  BY <1>1 DEF HandOver, ResumeFrom, loops
<1>3. /\ position \in [Groups -> [Topics -> Nat]] /\ committed \in [Groups -> [Topics -> Nat]]
      /\ owner \in [Groups -> [Topics -> Members]]
  BY DEF IInv, Shape, TypeOK
<1>4. /\ position' \in [Groups -> [Topics -> Nat]] /\ owner' \in [Groups -> [Topics -> Members]]
      /\ position'[g][o] = committed[g][o] /\ owner'[g][o] = m
      /\ \A h \in Groups, t \in Topics : ~(h = g /\ t = o) =>
             position'[h][t] = position[h][t] /\ owner'[h][t] = owner[h][t]
      /\ faults' \in Nat
  <2>1. /\ owner' = [owner EXCEPT ![g] = [owner[g] EXCEPT ![o] = m]]
        /\ position' = [position EXCEPT ![g] = [position[g] EXCEPT ![o] = committed[g][o]]]
    BY <1>2
  <2>2. /\ [owner[g] EXCEPT ![o] = m] \in [Topics -> Members]
        /\ [position[g] EXCEPT ![o] = committed[g][o]] \in [Topics -> Nat]
    BY <1>3
  <2>3. faults' \in Nat
    BY <1>2 DEF IInv, Shape, TypeOK
  <2> QED  BY <1>3, <2>1, <2>2, <2>3
<1>5. TypeOK'
  BY <1>2, <1>4 DEF IInv, Shape, TypeOK
<1>6. PositionInv'
  <2> SUFFICES ASSUME NEW h \in Groups, NEW t \in Topics
               PROVE  /\ committed[h][t] <= Len(log[t]) /\ position'[h][t] <= Len(log[t])
                      /\ GroupOf[owner'[h][t]] = h
    BY <1>2 DEF PositionInv
  <2>1. CASE h = g /\ t = o
    BY <1>1, <1>4, <2>1, OffsetTypes DEF IInv
  <2>2. CASE ~(h = g /\ t = o)
    BY <1>4, <2>2, OffsetTypes DEF IInv
  <2> QED  BY <2>1, <2>2
<1>7. HandInv' /\ OutInv'
  BY <1>2 DEF IInv, Shape, HandInv, OutInv, Current
<1>8. ASSUME NEW h \in Groups, NEW t \in Topics, NEW i \in Nat, Passed(h, t, i)'
      PROVE  Passed(h, t, i)
  <2>1. CASE h = g /\ t = o
    BY <1>2, <1>4, <1>8, <2>1 DEF Passed, Behind
  <2>2. CASE ~(h = g /\ t = o)
    BY <1>2, <1>4, <1>8, <2>2 DEF Passed, Behind, Holds
  <2> QED  BY <2>1, <2>2
<1>9. \A t \in Topics : \A i \in DOMAIN log[t] : i \in Nat
  BY OffsetTypes DEF IInv
<1> QED  BY <1>2, <1>5, <1>6, <1>7, <1>8, <1>9, QuietStep DEF IInv, Shape

LEMMA StepIInv == IInv /\ [Next]_vars => IInv'
<1> SUFFICES ASSUME IInv, [Next]_vars PROVE IInv'
  OBVIOUS
<1>1. ASSUME NEW m \in Members, CommitOk(m) \/ CommitFail(m) PROVE IInv'
  <2>1. faults \in Nat
    BY DEF IInv, Shape, TypeOK
  <2>2. /\ pc[m] = "commit" /\ (CommitOffset(m) \/ UNCHANGED committed)
        /\ pc' = [pc EXCEPT ![m] = "poll"] /\ at' = [at EXCEPT ![m] = NoRecord]
        /\ faults' \in Nat
        /\ UNCHANGED <<log, dlq, owner, position, out, succeeded, produceFailures>>
    BY <1>1, <2>1 DEF CommitOk, CommitFail
  <2> QED  BY <2>2, CommitIInv
<1>2. CASE UNCHANGED vars
  <2>1. Shape'
    BY <1>2 DEF IInv, Shape, TypeOK, PositionInv, HandInv, OutInv, Current, vars
  <2>2. NoneForgotten'
    BY <1>2
       DEF IInv, NoneForgotten, OnBase, Outcome, Dead, Open, Passed, Holds, Behind, vars
  <2> QED  BY <2>1, <2>2 DEF IInv
<1>3. ASSUME NEW m \in Members, Loop(m) PROVE IInv'
  BY <1>1, <1>3, PollIInv, WakeIInv, HandlerOkIInv, FailureIInv, ProduceOkIInv DEF Loop
<1>4. ASSUME NEW m \in Members, Fault(m) PROVE IInv'
  BY <1>1, <1>4, ProduceFailIInv, RestartIInv, HandOverIInv DEF Fault
<1> QED  BY <1>2, <1>3, <1>4, PublishIInv DEF Next

LEMMA Invariance == Spec => []IInv
  BY InitIInv, StepIInv, PTL DEF Spec
-----------------------------------------------------------------------------
\* Topics, offsets and loops keep their types.
THEOREM TypeCorrect == Spec => []TypeOK
  BY Invariance, PTL DEF IInv, Shape

\* An event without outcome has a record no offset has passed.
LEMMA NothingLostNow == IInv => NothingLostButByProduce
<1> SUFFICES ASSUME IInv, produceFailures = 0, NEW g \in Groups, NEW e \in Events, OnBase(e)
             PROVE  e \in succeeded[g] \/ e \in Dead(g) \/ Ahead(g, e)
  BY DEF NothingLostButByProduce, NoEventLost
<1>1. Outcome(g, e)
  BY DEF IInv, NoneForgotten
<1>2. CASE Open(g, e)
  <2>1. PICK t \in Topics : \E i \in DOMAIN log[t] : log[t][i].event = e /\ ~ Passed(g, t, i)
    BY <1>2 DEF Open
  <2>2. PICK i \in DOMAIN log[t] : log[t][i].event = e /\ ~ Passed(g, t, i)
    BY <2>1
  <2>3. i \in Nat /\ committed[g][t] \in Nat
    BY OffsetTypes DEF IInv
  <2>4. i > committed[g][t]
    BY <2>2, <2>3 DEF Passed
  <2> QED  BY <2>2, <2>4 DEF Ahead
<1> QED  BY <1>1, <1>2 DEF Outcome

\* As long as every retry and dead-letter publish succeeds, no event is lost to
\* any group: for any number of groups, members, events, copies, restarts and
\* failed commits, and any hand-over of a topic, whatever its former owner still
\* produces and commits.
THEOREM NothingLost == Spec => []NothingLostButByProduce
  BY NothingLostNow, Invariance, PTL

-----------------------------------------------------------------------------
(***************************************************************************)
(* Attempts.  Base records are first attempts, retry records later ones,   *)
(* and a replacement that is about to be produced to the retry topic is    *)
(* the next attempt of the record in hand.                                 *)
(***************************************************************************)
Precedes(s, r) == s.event = r.event /\ s.attempt = r.attempt - 1 /\ s.by \in Groups

Earned(r, n) == IF r.attempt = 2 THEN OnBase(r.event)
                                 ELSE \E j \in 1 .. n : Precedes(log["retry"][j], r)

EarnInv ==
    /\ \A i \in DOMAIN log["base"] : log["base"][i].attempt = 1
    /\ \A i \in DOMAIN log["retry"] :
           /\ log["retry"][i].attempt > 1 /\ log["retry"][i].by \in Groups
           /\ Earned(log["retry"][i], i - 1)
    /\ \A m \in Members : pc[m] = "produce" /\ out[m].topic = "retry" =>
           out[m].record.attempt = Current(m).attempt + 1

LEMMA EarnedRecord ==
    ASSUME NEW r \in LogRecord, NEW s \in LogRecord, Precedes(s, r)
    PROVE  s \in {[r EXCEPT !.attempt = r.attempt - 1, !.by = g] : g \in Groups}
<1>1. PICK g \in Groups : g = s.by
  BY DEF Precedes
<1>2. PICK x : x = [r EXCEPT !.attempt = r.attempt - 1, !.by = g]
  OBVIOUS
<1>3. x = [event |-> x.event, attempt |-> x.attempt, by |-> x.by]
  <2>1. r \in [event : Events, attempt : Int, by : Groups \cup {"relay"}]
    BY ConsumerAssumption DEF LogRecord, RecordType
  <2>2. r.attempt - 1 \in Int
    BY <2>1
  <2>3. x \in [event : Events, attempt : Int, by : Groups \cup {"relay"}]
    BY <1>2, <2>1, <2>2
  <2> QED  BY <2>3
<1>4. x.event = r.event /\ x.attempt = r.attempt - 1 /\ x.by = g
  BY <1>2 DEF LogRecord, RecordType
<1>5. s = [event |-> s.event, attempt |-> s.attempt, by |-> s.by]
  BY DEF LogRecord, RecordType
<1>6. s = x
  BY <1>1, <1>3, <1>4, <1>5 DEF Precedes
<1> QED  BY <1>2, <1>6

\* The retry topic has the event under every attempt up to n.
RetriedUpTo(retry, e, n) ==
    \A k \in 2 .. n : \E i \in DOMAIN retry : retry[i].event = e /\ retry[i].attempt = k

SpentInv ==
    /\ \A i \in DOMAIN log["retry"] :
           RetriedUpTo(log["retry"], log["retry"][i].event, log["retry"][i].attempt)
    /\ \A d \in dlq : d.reason = "exhausted" => RetriedUpTo(log["retry"], d.event, MaxAttempts)
    /\ \A m \in Members :
           pc[m] = "produce" /\ out[m].topic = "dlq" /\ out[m].record.reason = "exhausted" =>
               RetriedUpTo(log["retry"], out[m].record.event, MaxAttempts)

LEMMA EarnImplies == ASSUME TypeOK, EarnInv, SpentInv PROVE AttemptsEarned
<1>1. log["retry"] \in Seq(LogRecord)
  BY DEF TypeOK, LogRecord, Topics
<1>2. ASSUME NEW i \in DOMAIN log["retry"], NEW r, r = log["retry"][i]
      PROVE  IF r.attempt = 2 THEN OnBase(r.event)
             ELSE \E j \in 1 .. i - 1 : log["retry"][j] \in
                      {[r EXCEPT !.attempt = r.attempt - 1, !.by = g] : g \in Groups}
  <2>1. Earned(r, i - 1) /\ r \in LogRecord
    BY <1>1, <1>2 DEF EarnInv
  <2>2. CASE r.attempt # 2
    <3>1. PICK j \in 1 .. i - 1 : Precedes(log["retry"][j], r)
      BY <2>1, <2>2 DEF Earned
    <3>2. PICK s \in LogRecord : s = log["retry"][j]
      BY <1>1, <1>2
    <3>3. s \in {[r EXCEPT !.attempt = r.attempt - 1, !.by = g] : g \in Groups}
      BY <2>1, <3>1, <3>2, EarnedRecord
    <3> QED  BY <2>2, <3>2, <3>3
  <2> QED  BY <2>1, <2>2 DEF Earned
<1>3. \A d \in dlq : d.reason = "exhausted" =>
          \A n \in 2 .. MaxAttempts : \E i \in DOMAIN log["retry"] :
              log["retry"][i].event = d.event /\ log["retry"][i].attempt = n
  BY DEF SpentInv, RetriedUpTo
<1> QED  BY <1>2, <1>3 DEF AttemptsEarned

\* Steps that produce nothing.
LEMMA EarnKept ==
    ASSUME EarnInv, UNCHANGED log,
           \A h \in Members : pc'[h] = "produce" =>
               \/ pc[h] = "produce" /\ out'[h] = out[h] /\ at'[h] = at[h]
               \/ out'[h].topic = "retry" =>
                      out'[h].record.attempt = log[at'[h].topic][at'[h].offset].attempt + 1
    PROVE  EarnInv'
<1>1. \A r, n : Earned(r, n) => Earned(r, n)'
  BY DEF Earned, OnBase
<1>2. ASSUME NEW h \in Members, pc'[h] = "produce", out'[h].topic = "retry"
      PROVE  out'[h].record.attempt = log[at'[h].topic][at'[h].offset].attempt + 1
  BY <1>2 DEF EarnInv, Current
<1> QED  BY <1>1, <1>2 DEF EarnInv, Current

\* What earned its attempt has earned it while topics grow.
LEMMA EarnGrows ==
    ASSUME Shape, Grows, log' \in [Topics -> Seq(LogRecord)],
           NEW r, NEW n \in Nat, n <= Len(log["retry"]), Earned(r, n)
    PROVE  Earned(r, n)'
<1>1. /\ log["retry"] \in Seq(LogRecord) /\ log["base"] \in Seq(LogRecord)
      /\ log'["base"] \in Seq(LogRecord) /\ "base" \in Topics /\ "retry" \in Topics
  BY DEF Shape, TypeOK, LogRecord, Topics
<1>2. /\ \A j \in 1 .. Len(log["retry"]) : log'["retry"][j] = log["retry"][j]
      /\ \A j \in 1 .. Len(log["base"]) : log'["base"][j] = log["base"][j]
      /\ Len(log'["base"]) >= Len(log["base"])
  BY <1>1 DEF Grows
<1>3. CASE r.attempt = 2
  <2>1. PICK j \in DOMAIN log["base"] : log["base"][j].event = r.event
    BY <1>3 DEF Earned, OnBase
  <2>2. j \in 1 .. Len(log["base"])
    BY <1>1
  <2>3. j \in 1 .. Len(log'["base"]) /\ log'["base"][j] = log["base"][j]
    BY <1>1, <1>2, <2>2
  <2>4. j \in DOMAIN log'["base"]
    BY <1>1, <2>3
  <2> QED  BY <1>3, <2>1, <2>3, <2>4 DEF Earned, OnBase
<1>4. CASE r.attempt # 2
  <2>1. PICK j \in 1 .. n : Precedes(log["retry"][j], r)
    BY <1>4 DEF Earned
  <2>2. j \in 1 .. Len(log["retry"])
    BY <1>1
  <2>3. Precedes(log'["retry"][j], r)
    BY <1>2, <2>1, <2>2
  <2> QED  BY <1>4, <2>1, <2>3 DEF Earned, Precedes
<1> QED  BY <1>3, <1>4

\* A loop that stays at its replacement keeps it while topics grow.
LEMMA EarnOut ==
    ASSUME Shape, Grows, log' \in [Topics -> Seq(LogRecord)], EarnInv,
           NEW h \in Members, pc[h] = "produce", UNCHANGED <<out[h], at[h]>>,
           out[h].topic = "retry"
    PROVE  out'[h].record.attempt = Current(h)'.attempt + 1
<1>1. Current(h)' = Current(h)
  BY GrowthKeepsHand DEF Current
<1> QED  BY <1>1 DEF EarnInv

LEMMA EarnPublish ==
    ASSUME IInv, EarnInv, NEW e \in Events, Publish(e)
    PROVE  EarnInv'
<1>1. log' = [log EXCEPT !["base"] = Append(@, BaseRecord(e))] /\ UNCHANGED <<pc, at, out>>
  BY DEF Publish, loops
<1>2. BaseRecord(e) \in LogRecord /\ BaseRecord(e).attempt = 1 /\ "base" \in Topics
      /\ "retry" \in Topics
  BY ConsumerAssumption DEF LogRecord, RecordType, BaseRecord, Record, Topics
<1>3. /\ log' \in [Topics -> Seq(LogRecord)] /\ Grows
      /\ Len(log'["base"]) = Len(log["base"]) + 1
      /\ log'["base"][Len(log["base"]) + 1] = BaseRecord(e)
      /\ log'["retry"] = log["retry"]
  BY <1>1, <1>2, AppendGrows DEF IInv, Shape
<1>4. log["base"] \in Seq(LogRecord) /\ log'["base"] \in Seq(LogRecord)
  BY <1>2, <1>3 DEF IInv, Shape, TypeOK, LogRecord
<1>5. \A i \in DOMAIN log'["base"] : log'["base"][i].attempt = 1
  <2> SUFFICES ASSUME NEW i \in DOMAIN log'["base"] PROVE log'["base"][i].attempt = 1
    OBVIOUS
  <2>1. i \in 1 .. Len(log["base"]) \/ i = Len(log["base"]) + 1
    BY <1>3, <1>4
  <2>2. i \in 1 .. Len(log["base"]) => log'["base"][i] = log["base"][i]
    BY <1>2, <1>3 DEF Grows
  <2> QED  BY <1>2, <1>3, <1>4, <2>1, <2>2 DEF EarnInv
<1>6. ASSUME NEW i \in DOMAIN log'["retry"], NEW r, r = log'["retry"][i]
      PROVE  Earned(r, i - 1)'
  <2>1. log["retry"] \in Seq(LogRecord)
    BY <1>2 DEF IInv, Shape, TypeOK, LogRecord
  <2>2. i \in DOMAIN log["retry"] /\ i - 1 \in Nat /\ i - 1 <= Len(log["retry"])
    BY <1>3, <1>6, <2>1
  <2>3. Earned(r, i - 1)
    BY <1>3, <1>6, <2>2 DEF EarnInv
  <2>4. PICK n : n = i - 1
    OBVIOUS
  <2>5. Earned(r, n)'
    BY <1>3, <2>2, <2>3, <2>4, EarnGrows DEF IInv
  <2> QED  BY <2>4, <2>5
<1>7. ASSUME NEW h \in Members, pc'[h] = "produce", out'[h].topic = "retry"
      PROVE  out'[h].record.attempt = Current(h)'.attempt + 1
  BY <1>1, <1>3, <1>7, EarnOut DEF IInv
<1>8. \A i \in DOMAIN log'["retry"] :
          log'["retry"][i].attempt > 1 /\ log'["retry"][i].by \in Groups
  BY <1>3 DEF EarnInv
<1> QED  BY <1>5, <1>6, <1>7, <1>8 DEF EarnInv, Earned, OnBase

\* The replacement of the record in hand earns its attempt.
LEMMA EarnNext ==
    ASSUME IInv, EarnInv, NEW m \in Members, pc[m] = "produce", out[m].topic = "retry"
    PROVE  LET r == out[m].record
               n == Len(log["retry"])
           IN  /\ r \in LogRecord /\ r.attempt > 1 /\ r.by \in Groups /\ n \in Nat
               /\ Earned(r, n)
<1>1. /\ out[m].record \in RecordType(Groups)
      /\ out[m].record.event = Current(m).event /\ out[m].record.by = GroupOf[m]
      /\ out[m].record.attempt = Current(m).attempt + 1
  BY DEF IInv, Shape, TypeOK, OutInv, EarnInv, Outputs
<1>2. /\ at[m].topic \in Topics /\ at[m].offset \in 1 .. Len(log[at[m].topic])
      /\ Current(m) \in LogRecord
  BY CurrentIsRecord DEF IInv
<1>3. PICK r, c : r = out[m].record /\ c = Current(m)
  OBVIOUS
<1>4. /\ r \in LogRecord /\ r.attempt = c.attempt + 1 /\ r.event = c.event /\ r.by \in Groups
      /\ c.attempt \in Nat \ {0} /\ r.attempt \in Nat
  BY <1>1, <1>2, <1>3, GroupIsGroup, ConsumerAssumption DEF LogRecord, RecordType
<1>5. log["retry"] \in Seq(LogRecord) /\ log["base"] \in Seq(LogRecord)
  BY DEF IInv, Shape, TypeOK, LogRecord, Topics
<1>6. CASE at[m].topic = "base"
  <2>1. at[m].offset \in DOMAIN log["base"] /\ log["base"][at[m].offset] = c
    BY <1>2, <1>3, <1>5, <1>6 DEF Current
  <2>2. c.attempt = 1 /\ OnBase(c.event)
    BY <2>1 DEF EarnInv, OnBase
  <2>3. r.attempt = 2 /\ OnBase(r.event)
    BY <1>4, <2>2
  <2> QED  BY <1>3, <1>4, <1>5, <2>3 DEF Earned
<1>7. CASE at[m].topic = "retry"
  <2>1. PICK j \in 1 .. Len(log["retry"]) : log["retry"][j] = c
    BY <1>2, <1>3, <1>7 DEF Current
  <2>2. c.attempt > 1 /\ c.by \in Groups
    BY <1>5, <2>1 DEF EarnInv
  <2>3. Precedes(log["retry"][j], r) /\ r.attempt # 2 /\ r.attempt > 1
    BY <1>4, <2>1, <2>2 DEF Precedes
  <2> QED  BY <1>3, <1>4, <1>5, <2>3 DEF Earned
<1> QED  BY <1>2, <1>6, <1>7 DEF Topics

LEMMA EarnProduce ==
    ASSUME IInv, EarnInv, NEW m \in Members, ProduceOk(m) \/ ProduceFail(m)
    PROVE  EarnInv'
<1>1. /\ pc[m] = "produce" /\ (Produce(out[m]) \/ UNCHANGED <<log, dlq>>)
      /\ pc'[m] # "produce"
      /\ \A h \in Members \ {m} : pc'[h] = pc[h] /\ out'[h] = out[h] /\ at'[h] = at[h]
  BY DEF ProduceOk, ProduceFail, IInv, Shape, TypeOK
<1>2. CASE UNCHANGED log
  BY <1>1, <1>2, EarnKept
<1>3. CASE log' = [log EXCEPT !["retry"] = Append(@, out[m].record)] /\ out[m].topic = "retry"
  <2>1. PICK r, n : r = out[m].record /\ n = Len(log["retry"])
    OBVIOUS
  <2>2. /\ r \in LogRecord /\ r.attempt > 1 /\ r.by \in Groups /\ n \in Nat
        /\ Earned(r, n)
    BY <1>1, <1>3, <2>1, EarnNext
  <2>3. "retry" \in Topics /\ "base" \in Topics
    BY DEF Topics
  <2>4. /\ log' \in [Topics -> Seq(LogRecord)] /\ Grows
        /\ Len(log'["retry"]) = n + 1 /\ log'["retry"][n + 1] = r
        /\ log'["base"] = log["base"]
    BY <1>3, <2>1, <2>2, <2>3, AppendGrows DEF IInv, Shape
  <2>5. log["retry"] \in Seq(LogRecord) /\ log'["retry"] \in Seq(LogRecord)
    BY <2>3, <2>4 DEF IInv, Shape, TypeOK, LogRecord
  <2>6. /\ DOMAIN log["retry"] = 1 .. n /\ DOMAIN log'["retry"] = 1 .. n + 1
        /\ \A i \in 1 .. n : log'["retry"][i] = log["retry"][i]
    BY <2>1, <2>3, <2>4, <2>5 DEF Grows
  <2>7. ASSUME NEW i \in 1 .. n + 1, NEW s, s = log'["retry"][i]
        PROVE  s.attempt > 1 /\ s.by \in Groups /\ Earned(s, i - 1)'
    <3>1. PICK k : k = i - 1
      OBVIOUS
    <3>2. CASE i \in 1 .. n
      <4>1. s = log["retry"][i] /\ i \in DOMAIN log["retry"]
        BY <2>6, <2>7, <3>2
      <4>2. s.attempt > 1 /\ s.by \in Groups /\ Earned(s, k)
        BY <3>1, <4>1 DEF EarnInv
      <4>3. k \in Nat /\ k <= n
        BY <2>2, <3>1, <3>2
      <4>4. Earned(s, k)'
        BY <2>1, <2>4, <4>2, <4>3, EarnGrows DEF IInv
      <4> QED  BY <3>1, <4>2, <4>4
    <3>3. CASE i = n + 1
      <4>1. s = r /\ k = n
        BY <2>2, <2>4, <2>7, <3>1, <3>3
      <4>2. Earned(s, k)'
        BY <2>1, <2>2, <2>4, <4>1, EarnGrows DEF IInv
      <4> QED  BY <2>2, <3>1, <4>1, <4>2
    <3> QED  BY <2>2, <3>2, <3>3
  <2>9. ASSUME NEW h \in Members, pc'[h] = "produce", out'[h].topic = "retry"
        PROVE  out'[h].record.attempt = Current(h)'.attempt + 1
    BY <1>1, <2>4, <2>9, EarnOut DEF IInv
  <2> QED  BY <2>4, <2>6, <2>7, <2>9 DEF EarnInv, Earned, OnBase
<1> QED  BY <1>1, <1>2, <1>3 DEF Produce

LEMMA EarnFail ==
    ASSUME IInv, EarnInv, NEW m \in Members,
           HandlerPermanent(m) \/ HandlerRetryable(m) \/ DropPoison(m)
    PROVE  EarnInv'
<1>1. PICK x \in Answers(m) : Fail(m, x)
  BY DEF HandlerPermanent, HandlerRetryable, DropPoison, Answers
<1>2. /\ out' = [out EXCEPT ![m] = x] /\ pc' = [pc EXCEPT ![m] = "produce"]
      /\ UNCHANGED <<log, at>>
  BY <1>1 DEF Fail, AfterFailure
<1>3. /\ out'[m] = x
      /\ \A h \in Members \ {m} : pc'[h] = pc[h] /\ out'[h] = out[h] /\ at'[h] = at[h]
  BY <1>2 DEF IInv, Shape, TypeOK
<1>4. x.topic = "retry" => x.record.attempt = Current(m).attempt + 1
  BY <1>1 DEF Answers, ToDeadLetter, ToRetry, RetryOrDeadLetter, Record
<1> QED  BY <1>2, <1>3, <1>4, EarnKept DEF Current

LEMMA EarnStep == ASSUME IInv, EarnInv, [Next]_vars PROVE EarnInv'
<1>1. ASSUME NEW m \in Members, NEW t \in Topics, Poll(m, t) PROVE EarnInv'
  <2>1. /\ pc' = [pc EXCEPT ![m] = IF t = "retry" THEN "wait" ELSE "handle"]
        /\ \E x : at' = [at EXCEPT ![m] = x]
        /\ UNCHANGED <<log, out>>
    BY <1>1 DEF Poll
  <2>2. pc'[m] # "produce" /\ \A h \in Members \ {m} : pc'[h] = pc[h] /\ at'[h] = at[h]
    BY <2>1 DEF IInv, Shape, TypeOK
  <2> QED  BY <2>1, <2>2, EarnKept
<1>2. ASSUME NEW m \in Members, Wake(m) \/ HandlerOk(m) \/ CommitOk(m) \/ CommitFail(m)
      PROVE  EarnInv'
  <2>1. /\ pc'[m] # "produce" /\ UNCHANGED <<log, out>>
        /\ \A h \in Members \ {m} : pc'[h] = pc[h] /\ at'[h] = at[h]
    BY <1>2 DEF Wake, HandlerOk, CommitOk, CommitFail, IInv, Shape, TypeOK
  <2> QED  BY <2>1, EarnKept
<1>3. ASSUME NEW m \in Members, Restart(m) PROVE EarnInv'
  <2>1. /\ pc'[m] # "produce" /\ UNCHANGED log
        /\ \A h \in Members \ {m} : pc'[h] = pc[h] /\ at'[h] = at[h] /\ out'[h] = out[h]
    BY <1>3 DEF Restart, IInv, Shape, TypeOK
  <2> QED  BY <2>1, EarnKept
<1>4. ASSUME NEW m \in Members, NEW t \in Topics, HandOver(m, t) PROVE EarnInv'
  BY <1>4, EarnKept DEF HandOver, loops
<1>5. CASE UNCHANGED vars
  BY <1>5, EarnKept DEF vars
<1> QED
  BY <1>1, <1>2, <1>3, <1>4, <1>5, EarnPublish, EarnProduce, EarnFail DEF Next, Loop, Fault

\* What was retried stays so while topics grow.
LEMMA RetriedGrows ==
    ASSUME Shape, Grows, log' \in [Topics -> Seq(LogRecord)], NEW e, NEW n,
           RetriedUpTo(log["retry"], e, n)
    PROVE  RetriedUpTo(log'["retry"], e, n)
<1> SUFFICES ASSUME NEW k \in 2 .. n
             PROVE  \E i \in DOMAIN log'["retry"] :
                        log'["retry"][i].event = e /\ log'["retry"][i].attempt = k
  BY DEF RetriedUpTo
<1>1. PICK i \in DOMAIN log["retry"] : log["retry"][i].event = e /\ log["retry"][i].attempt = k
  BY DEF RetriedUpTo
<1>2. i \in DOMAIN log'["retry"] /\ log'["retry"][i] = log["retry"][i]
  BY GrowthKeeps DEF Topics
<1> QED  BY <1>1, <1>2

\* The record in hand is the last of the attempts that led to it.
LEMMA CurrentRetried ==
    ASSUME Shape, EarnInv, SpentInv, NEW m \in Members, pc[m] # "poll"
    PROVE  /\ Current(m).attempt \in 1 .. MaxAttempts
           /\ RetriedUpTo(log["retry"], Current(m).event, Current(m).attempt)
<1>1. /\ at[m].topic \in Topics /\ at[m].offset \in DOMAIN log[at[m].topic]
      /\ Current(m) \in LogRecord
  BY CurrentIsRecord, OffsetTypes
<1>2. CASE at[m].topic = "base"
  <2>1. Current(m).attempt = 1
    BY <1>1, <1>2 DEF EarnInv, Current
  <2> QED  BY <1>1, <2>1 DEF RetriedUpTo, LogRecord, RecordType
<1>3. CASE at[m].topic = "retry"
  BY <1>1, <1>3 DEF SpentInv, Current, LogRecord, RecordType
<1> QED  BY <1>1, <1>2, <1>3 DEF Topics

\* Steps that produce nothing.
LEMMA SpentKept ==
    ASSUME SpentInv, log'["retry"] = log["retry"], dlq' = dlq,
           \A m \in Members : pc'[m] = "produce" =>
               \/ pc[m] = "produce" /\ out'[m] = out[m]
               \/ out'[m].topic = "dlq" /\ out'[m].record.reason = "exhausted" =>
                      RetriedUpTo(log["retry"], out'[m].record.event, MaxAttempts)
    PROVE  SpentInv'
<1>1. \A e, n : RetriedUpTo(log'["retry"], e, n) <=> RetriedUpTo(log["retry"], e, n)
  BY DEF RetriedUpTo
<1>2. ASSUME NEW m \in Members, pc'[m] = "produce",
             out'[m].topic = "dlq", out'[m].record.reason = "exhausted"
      PROVE  RetriedUpTo(log["retry"], out'[m].record.event, MaxAttempts)
  BY <1>2 DEF SpentInv
<1>3. \A i \in DOMAIN log'["retry"] :
          RetriedUpTo(log'["retry"], log'["retry"][i].event, log'["retry"][i].attempt)
  BY <1>1 DEF SpentInv
<1>4. \A d \in dlq' : d.reason = "exhausted" => RetriedUpTo(log'["retry"], d.event, MaxAttempts)
  BY <1>1 DEF SpentInv
<1>5. \A m \in Members : pc'[m] = "produce" /\ out'[m].topic = "dlq"
                            /\ out'[m].record.reason = "exhausted" =>
          RetriedUpTo(log'["retry"], out'[m].record.event, MaxAttempts)
  BY <1>1, <1>2
<1> QED  BY <1>3, <1>4, <1>5 DEF SpentInv

LEMMA SpentFail ==
    ASSUME IInv, EarnInv, SpentInv, NEW m \in Members,
           HandlerPermanent(m) \/ HandlerRetryable(m) \/ DropPoison(m)
    PROVE  SpentInv'
<1>1. pc[m] = "handle" /\ \E x \in Answers(m) : Fail(m, x)
  BY DEF HandlerPermanent, HandlerRetryable, DropPoison, Answers
<1>2. PICK x \in Answers(m) : Fail(m, x)
  BY <1>1
<1>3. /\ UNCHANGED <<log, dlq>> /\ out'[m] = x
      /\ \A n \in Members \ {m} : pc'[n] = pc[n] /\ out'[n] = out[n]
  BY <1>2 DEF Fail, IInv, Shape, TypeOK
<1>4. ASSUME x.topic = "dlq", x.record.reason = "exhausted"
      PROVE  RetriedUpTo(log["retry"], x.record.event, MaxAttempts)
  <2>1. /\ Current(m).attempt \in 1 .. MaxAttempts
        /\ RetriedUpTo(log["retry"], Current(m).event, Current(m).attempt)
    BY <1>1, CurrentRetried DEF IInv
  <2>2. Exhausted(Current(m)) /\ x.record.event = Current(m).event
    BY <1>4 DEF Answers, RetryOrDeadLetter, ToRetry, ToDeadLetter, DeadLetter
  <2>3. Current(m).attempt = MaxAttempts
    BY <2>1, <2>2, ConsumerAssumption DEF Exhausted
  <2> QED  BY <2>1, <2>2, <2>3
<1> QED  BY <1>3, <1>4, SpentKept

\* A retry record follows the attempts of the record it replaces, and a dead
\* letter those its loop had counted.
LEMMA SpentProduce ==
    ASSUME IInv, EarnInv, SpentInv, NEW m \in Members, ProduceOk(m) \/ ProduceFail(m)
    PROVE  SpentInv'
<1>1. /\ pc[m] = "produce" /\ (Produce(out[m]) \/ UNCHANGED <<log, dlq>>)
      /\ pc'[m] # "produce"
      /\ \A n \in Members \ {m} : pc'[n] = pc[n] /\ out'[n] = out[n]
      /\ out[m] \in Outputs /\ out[m].record.event = Current(m).event
  BY DEF ProduceOk, ProduceFail, IInv, Shape, TypeOK, OutInv
<1>2. CASE UNCHANGED <<log, dlq>>
  BY <1>1, <1>2, SpentKept
<1>3. CASE dlq' = dlq \cup {out[m].record} /\ out[m].topic = "dlq" /\ UNCHANGED log
  <2>1. \A e, n : RetriedUpTo(log'["retry"], e, n) <=> RetriedUpTo(log["retry"], e, n)
    BY <1>3 DEF RetriedUpTo
  <2>2. \A d \in dlq' : d.reason = "exhausted" => RetriedUpTo(log'["retry"], d.event, MaxAttempts)
    BY <1>1, <1>3, <2>1 DEF SpentInv
  <2>3. \A n \in Members : pc'[n] = "produce" /\ out'[n].topic = "dlq"
                              /\ out'[n].record.reason = "exhausted" =>
            RetriedUpTo(log'["retry"], out'[n].record.event, MaxAttempts)
    BY <1>1, <2>1 DEF SpentInv
  <2>4. \A i \in DOMAIN log'["retry"] :
            RetriedUpTo(log'["retry"], log'["retry"][i].event, log'["retry"][i].attempt)
    BY <1>3, <2>1 DEF SpentInv
  <2> QED  BY <2>2, <2>3, <2>4 DEF SpentInv
<1>4. CASE log' = [log EXCEPT !["retry"] = Append(@, out[m].record)] /\ out[m].topic = "retry"
           /\ UNCHANGED dlq
  <2>1. PICK r, k : r = out[m].record /\ k = Len(log["retry"])
    OBVIOUS
  <2>2. r \in LogRecord /\ r.attempt = Current(m).attempt + 1 /\ r.event = Current(m).event
    BY <1>1, <1>4, <2>1, EarnNext DEF EarnInv
  <2>3. /\ Current(m).attempt \in 1 .. MaxAttempts
        /\ RetriedUpTo(log["retry"], Current(m).event, Current(m).attempt)
    BY <1>1, CurrentRetried DEF IInv
  <2>4. "retry" \in Topics
    BY DEF Topics
  <2>5. /\ log' \in [Topics -> Seq(LogRecord)] /\ Grows
        /\ Len(log'["retry"]) = k + 1 /\ log'["retry"][k + 1] = r
    BY <1>4, <2>1, <2>2, <2>4, AppendGrows DEF IInv, Shape
  <2>6. /\ DOMAIN log["retry"] = 1 .. k /\ DOMAIN log'["retry"] = 1 .. k + 1 /\ k \in Nat
        /\ \A i \in 1 .. k : log'["retry"][i] = log["retry"][i]
    BY <2>1, <2>4, <2>5, GrowthKeeps DEF IInv
  <2>7. \A e, n : RetriedUpTo(log["retry"], e, n) => RetriedUpTo(log'["retry"], e, n)
    BY <2>5, RetriedGrows DEF IInv
  <2>8. RetriedUpTo(log'["retry"], r.event, r.attempt)
    <3> SUFFICES ASSUME NEW n \in 2 .. r.attempt
                 PROVE  \E i \in DOMAIN log'["retry"] :
                            log'["retry"][i].event = r.event /\ log'["retry"][i].attempt = n
      BY DEF RetriedUpTo
    <3>1. CASE n = r.attempt
      BY <2>5, <2>6, <3>1
    <3>2. CASE n # r.attempt
      <4>1. n \in 2 .. Current(m).attempt
        BY <2>2, <2>3, <3>2, ConsumerAssumption
      <4>2. RetriedUpTo(log'["retry"], r.event, Current(m).attempt)
        BY <2>2, <2>3, <2>7
      <4> QED  BY <4>1, <4>2 DEF RetriedUpTo
    <3> QED  BY <3>1, <3>2
  <2>9. ASSUME NEW i \in DOMAIN log'["retry"]
        PROVE  RetriedUpTo(log'["retry"], log'["retry"][i].event, log'["retry"][i].attempt)
    <3>1. CASE i \in 1 .. k
      BY <2>6, <2>7, <3>1 DEF SpentInv
    <3>2. CASE i = k + 1
      BY <2>5, <2>8, <3>2
    <3> QED  BY <2>6, <3>1, <3>2
  <2>10. \A d \in dlq' : d.reason = "exhausted" => RetriedUpTo(log'["retry"], d.event, MaxAttempts)
    BY <1>4, <2>7 DEF SpentInv
  <2>11. \A n \in Members : pc'[n] = "produce" /\ out'[n].topic = "dlq"
                               /\ out'[n].record.reason = "exhausted" =>
             RetriedUpTo(log'["retry"], out'[n].record.event, MaxAttempts)
    BY <1>1, <2>7 DEF SpentInv
  <2> QED  BY <2>9, <2>10, <2>11 DEF SpentInv
<1>5. out[m].topic = "retry" \/ out[m].topic = "dlq"
  BY <1>1 DEF Outputs
<1> QED  BY <1>1, <1>2, <1>3, <1>4, <1>5 DEF Produce

LEMMA SpentStep == ASSUME IInv, EarnInv, SpentInv, [Next]_vars PROVE SpentInv'
<1>1. ASSUME NEW e \in Events, Publish(e) PROVE SpentInv'
  <2>1. log'["retry"] = log["retry"] /\ UNCHANGED <<dlq, pc, out>>
    BY <1>1 DEF Publish, loops, IInv, Shape, TypeOK, Topics
  <2> QED  BY <2>1, SpentKept
<1>2. ASSUME NEW m \in Members,
             \/ \E t \in Topics : Poll(m, t)
             \/ Wake(m) \/ HandlerOk(m) \/ CommitOk(m) \/ CommitFail(m) \/ Restart(m)
      PROVE  SpentInv'
  <2>1. /\ UNCHANGED <<log, dlq>> /\ pc'[m] # "produce"
        /\ \A n \in Members \ {m} : pc'[n] = pc[n] /\ out'[n] = out[n]
    BY <1>2 DEF Poll, Wake, HandlerOk, CommitOk, CommitFail, Restart, IInv, Shape, TypeOK
  <2> QED  BY <2>1, SpentKept
<1>3. ASSUME NEW m \in Members, NEW t \in Topics, HandOver(m, t) PROVE SpentInv'
  BY <1>3, SpentKept DEF HandOver, loops
<1>4. CASE UNCHANGED vars
  BY <1>4, SpentKept DEF vars
<1> QED
  BY <1>1, <1>2, <1>3, <1>4, SpentProduce, SpentFail DEF Next, Loop, Fault

LEMMA EarnInit == Init => EarnInv /\ SpentInv
  BY DEF Init, EarnInv, SpentInv, Topics

EarnParts == IInv /\ EarnInv /\ SpentInv

LEMMA EarnInductive ==
    /\ Init => EarnParts
    /\ EarnParts /\ [Next]_vars => EarnParts'
BY InitIInv, EarnInit, StepIInv, EarnStep, SpentStep DEF EarnParts

\* AttemptsEarned: no record on the retry topic skips an attempt and no event is
\* given up as exhausted before its last one, whatever members interleave, lose
\* their topics and restart between producing and committing (HandleOne).
THEOREM NoAttemptSkipped == Spec => []AttemptsEarned
<1>1. EarnParts => AttemptsEarned
  BY EarnImplies DEF EarnParts, IInv, Shape
<1> QED  BY <1>1, EarnInductive, PTL DEF Spec

-----------------------------------------------------------------------------
(***************************************************************************)
(* Amplification.  Until the first fault a topic stays with its owner,     *)
(* every retry record replaces a record its group has done with, and no    *)
(* group replaces a record twice: p[i] is the offset of the record that    *)
(* retry record i replaced.                                                *)
(***************************************************************************)
From(r) == IF r.attempt = 2 THEN "base" ELSE "retry"

DoneWith(g, t, k) == k <= position[g][t] /\ ~ Holds(owner[g][t], t, k)

Replaced(r, k) ==
    /\ k \in DOMAIN log[From(r)]
    /\ log[From(r)][k].event = r.event
    /\ log[From(r)][k].attempt = r.attempt - 1
    /\ DoneWith(r.by, From(r), k)

Twice(r, s) == r.by = s.by /\ From(r) = From(s)

Replaces(p) ==
    /\ \A i \in DOMAIN log["retry"] : Replaced(log["retry"][i], p[i])
    /\ \A i, j \in DOMAIN log["retry"] :
           Twice(log["retry"][i], log["retry"][j]) /\ p[i] = p[j] => i = j

OnceInv == faults = 0 => \E p \in [DOMAIN log["retry"] -> Nat] : Replaces(p)

\* The loop that holds a record owns its topic, and has read no further.
LastRead(m) == /\ owner[GroupOf[m]][at[m].topic] = m
               /\ at[m].offset = position[GroupOf[m]][at[m].topic]

OwnInv == faults = 0 => \A m \in Members : pc[m] # "poll" => LastRead(m)

LEMMA OwnStep == ASSUME IInv, OwnInv, [Next]_vars PROVE OwnInv'
<1> SUFFICES ASSUME faults' = 0, NEW n \in Members, pc'[n] # "poll" PROVE LastRead(n)'
  BY DEF OwnInv
<1>1. ASSUME NEW m \in Members, NEW t \in Topics, Poll(m, t) PROVE LastRead(n)'
  <2>1. PICK g \in Groups : g = GroupOf[m]
    BY GroupIsGroup
  <2>2. /\ owner[g][t] = m /\ UNCHANGED <<owner, faults>>
        /\ position' = [position EXCEPT ![g][t] = @ + 1]
        /\ at' = [at EXCEPT ![m] = [topic |-> t, offset |-> position[g][t] + 1]]
        /\ pc' = [pc EXCEPT ![m] = IF t = "retry" THEN "wait" ELSE "handle"]
    BY <1>1, <2>1 DEF Poll
  <2>3. /\ position \in [Groups -> [Topics -> Nat]] /\ position[g] \in [Topics -> Nat]
        /\ at \in [Members -> [topic : Topics, offset : Nat]]
        /\ pc \in [Members -> {"poll", "wait", "handle", "produce", "commit"}]
    BY DEF IInv, Shape, TypeOK
  <2>4. CASE n = m
    <3>1. at'[m].topic = t /\ at'[m].offset = position[g][t] + 1
          /\ position'[g][t] = position[g][t] + 1
      BY <2>2, <2>3
    <3> QED  BY <2>1, <2>2, <2>4, <3>1 DEF LastRead
  <2>5. CASE n # m
    <3>1. PICK h \in Groups, u \in Topics : h = GroupOf[n] /\ u = at[n].topic
      BY <2>3, GroupIsGroup
    <3>2. at'[n] = at[n] /\ pc'[n] = pc[n]
      BY <2>2, <2>3, <2>5
    <3>3. owner[h][u] = n /\ at[n].offset = position[h][u]
      BY <2>2, <3>1, <3>2 DEF OwnInv, LastRead
    <3>4. position'[h][u] = position[h][u]
      BY <2>2, <2>3, <2>5, <3>3
    <3> QED  BY <2>2, <3>1, <3>2, <3>3, <3>4 DEF LastRead
  <2> QED  BY <2>4, <2>5
<1>2. ASSUME UNCHANGED <<owner, position, faults>>,
             NEW m \in Members, \A h \in Members \ {m} : pc'[h] = pc[h] /\ at'[h] = at[h],
             pc'[m] # "poll" => pc[m] # "poll" /\ at'[m] = at[m]
      PROVE  LastRead(n)'
  <2>1. pc[n] # "poll" /\ at'[n] = at[n]
    BY <1>2
  <2> QED  BY <1>2, <2>1 DEF OwnInv, LastRead
<1>3. ASSUME NEW m \in Members,
             \/ Wake(m) \/ HandlerOk(m) \/ HandlerPermanent(m) \/ HandlerRetryable(m)
             \/ DropPoison(m) \/ ProduceOk(m) \/ ProduceFail(m) \/ CommitOk(m)
      PROVE  LastRead(n)'
  <2>1. /\ UNCHANGED <<owner, position, faults>>
        /\ \A h \in Members \ {m} : pc'[h] = pc[h] /\ at'[h] = at[h]
        /\ pc'[m] # "poll" => pc[m] # "poll" /\ at'[m] = at[m]
    BY <1>3 DEF Wake, HandlerOk, HandlerPermanent, HandlerRetryable, DropPoison, Fail,
                ProduceOk, ProduceFail, CommitOk, offsets, IInv, Shape, TypeOK
  <2> QED  BY <1>2, <2>1
<1>4. ASSUME NEW m \in Members,
             CommitFail(m) \/ Restart(m) \/ \E t \in Topics : HandOver(m, t)
      PROVE  FALSE
  <2>1. faults' = faults + 1 /\ faults \in Nat
    BY <1>4 DEF CommitFail, Restart, HandOver, IInv, Shape, TypeOK
  <2> QED  BY <2>1
<1>5. CASE UNCHANGED vars \/ \E e \in Events : Publish(e)
  <2>1. UNCHANGED <<owner, position, faults, pc, at>>
    BY <1>5 DEF vars, Publish, offsets, loops
  <2> QED  BY <2>1 DEF OwnInv, LastRead
<1> QED  BY <1>1, <1>3, <1>4, <1>5 DEF Next, Loop, Fault

\* Without faults, steps that produce no retry record take nothing back.
LEMMA ReplacedKept ==
    ASSUME Shape, Grows, log' \in [Topics -> Seq(LogRecord)],
           \A g \in Groups, t \in Topics : \A k \in DOMAIN log[t] :
               DoneWith(g, t, k) => DoneWith(g, t, k)',
           NEW r, r.by \in Groups, NEW k, Replaced(r, k)
    PROVE  Replaced(r, k)'
<1>1. From(r) \in Topics /\ From(r)' = From(r)
  BY DEF From, Topics
<1>2. k \in DOMAIN log[From(r)]
  BY DEF Replaced
<1>3. k \in DOMAIN log'[From(r)] /\ log'[From(r)][k] = log[From(r)][k]
  BY <1>1, <1>2, GrowthKeeps
<1>4. DoneWith(r.by, From(r), k)'
  <2>1. PICK g \in Groups, t \in Topics : g = r.by /\ t = From(r)
    BY <1>1
  <2>2. DoneWith(g, t, k)
    BY <2>1 DEF Replaced
  <2>3. DoneWith(g, t, k)'
    BY <1>2, <2>1, <2>2
  <2> QED  BY <1>1, <2>1, <2>3
<1> QED  BY <1>1, <1>3, <1>4 DEF Replaced

LEMMA OnceKept ==
    ASSUME Shape, EarnInv, OnceInv, Grows, log' \in [Topics -> Seq(LogRecord)],
           log'["retry"] = log["retry"], faults' = faults,
           \A g \in Groups, t \in Topics : \A k \in DOMAIN log[t] :
               DoneWith(g, t, k) => DoneWith(g, t, k)'
    PROVE  OnceInv'
<1> SUFFICES ASSUME faults' = 0
             PROVE  \E p \in [DOMAIN log'["retry"] -> Nat] : Replaces(p)'
  BY DEF OnceInv
<1>1. PICK p \in [DOMAIN log["retry"] -> Nat] : Replaces(p)
  BY DEF OnceInv
<1>2. ASSUME NEW i \in DOMAIN log["retry"] PROVE Replaced(log["retry"][i], p[i])'
  <2>1. PICK r, k : r = log["retry"][i] /\ k = p[i]
    OBVIOUS
  <2>2. r.by \in Groups /\ Replaced(r, k)
    BY <1>1, <2>1 DEF EarnInv, Replaces
  <2>3. Replaced(r, k)'
    BY <2>2, ReplacedKept
  <2> QED  BY <2>1, <2>3
<1>3. Replaces(p)'
  BY <1>1, <1>2 DEF Replaces, Twice, From
<1> QED  BY <1>1, <1>3

\* A loop's step between two polls leaves records behind it, or in hand.
LEMMA OnceStill ==
    ASSUME Shape, EarnInv, OnceInv, NEW m \in Members,
           UNCHANGED <<log, owner, position, faults>>,
           \A h \in Members \ {m} : pc'[h] = pc[h] /\ at'[h] = at[h],
           pc'[m] \in {"handle", "produce"} =>
               pc[m] \in {"wait", "handle", "produce"} /\ at'[m] = at[m],
           pc'[m] # "wait"
    PROVE  OnceInv'
<1>1. \A n \in Members : \A t, k : Holds(n, t, k)' => Holds(n, t, k)
  BY DEF Holds
<1>2. \A h \in Groups, t \in Topics : \A k \in DOMAIN log[t] :
          DoneWith(h, t, k) => DoneWith(h, t, k)'
  <2> SUFFICES ASSUME NEW h \in Groups, NEW t \in Topics, NEW k \in DOMAIN log[t],
                      DoneWith(h, t, k)
               PROVE  DoneWith(h, t, k)'
    OBVIOUS
  <2>1. PICK n \in Members : n = owner[h][t]
    BY OffsetTypes
  <2>2. ~ Holds(n, t, k)'
    BY <1>1, <2>1 DEF DoneWith
  <2>3. k <= position[h][t]
    BY DEF DoneWith
  <2>4. DoneWith(h, t, k)' <=> (k <= position[h][t] /\ ~ Holds(n, t, k)')
    BY <2>1 DEF DoneWith, Holds
  <2> QED  BY <2>2, <2>3, <2>4
<1> QED  BY <1>2, StillGrows, OnceKept

LEMMA OncePoll ==
    ASSUME Shape, EarnInv, OnceInv, NEW m \in Members, NEW t \in Topics, Poll(m, t)
    PROVE  OnceInv'
<1>1. PICK g \in Groups : g = GroupOf[m]
  BY GroupIsGroup
<1>2. /\ position' = [position EXCEPT ![g][t] = @ + 1]
      /\ at' = [at EXCEPT ![m] = [topic |-> t, offset |-> position[g][t] + 1]]
      /\ pc[m] = "poll" /\ owner[g][t] = m
      /\ UNCHANGED <<log, owner, faults>>
      /\ \A n \in Members \ {m} : pc'[n] = pc[n] /\ at'[n] = at[n]
  BY <1>1 DEF Poll, Shape, TypeOK
<1>3. /\ position \in [Groups -> [Topics -> Nat]]
      /\ at \in [Members -> [topic : Topics, offset : Nat]]
      /\ log \in [Topics -> Seq(LogRecord)]
  BY DEF Shape, TypeOK, LogRecord
<1>4. ASSUME NEW h \in Groups, NEW u \in Topics, NEW k \in DOMAIN log[u], DoneWith(h, u, k)
      PROVE  DoneWith(h, u, k)'
  <2>1. k \in Nat /\ position[h][u] \in Nat /\ position[g][t] \in Nat
    BY <1>3
  <2>2. position'[h][u] = IF h = g /\ u = t THEN position[g][t] + 1 ELSE position[h][u]
    BY <1>2, <1>3
  <2>3. k <= position[h][u] /\ k <= position'[h][u]
    BY <1>4, <2>1, <2>2 DEF DoneWith
  <2>4. PICK n \in Members : n = owner[h][u] /\ GroupOf[n] = h
    BY OffsetTypes
  <2>5. ~ Holds(n, u, k)'
    <3>1. CASE n = m
      <4>1. at'[m].topic = t /\ at'[m].offset = position[g][t] + 1 /\ h = g
        BY <1>1, <1>2, <1>3, <2>4, <3>1
      <4> QED  BY <2>1, <2>3, <3>1, <4>1 DEF Holds
    <3>2. CASE n # m
      <4>1. ~ Holds(n, u, k)
        BY <1>4, <2>4 DEF DoneWith
      <4> QED  BY <1>2, <3>2, <4>1 DEF Holds
    <3> QED  BY <3>1, <3>2
  <2>6. DoneWith(h, u, k)' <=> (k <= position'[h][u] /\ ~ Holds(n, u, k)')
    BY <1>2, <2>4 DEF DoneWith, Holds
  <2> QED  BY <2>3, <2>5, <2>6
<1> QED  BY <1>2, <1>4, StillGrows, OnceKept

LEMMA OncePublish ==
    ASSUME Shape, EarnInv, OnceInv, NEW e \in Events, Publish(e)
    PROVE  OnceInv'
<1>1. log' = [log EXCEPT !["base"] = Append(@, BaseRecord(e))]
      /\ UNCHANGED <<pc, at, owner, position, faults>>
  BY DEF Publish, loops, offsets
<1>2. BaseRecord(e) \in LogRecord /\ "base" \in Topics /\ "retry" \in Topics
  BY ConsumerAssumption DEF LogRecord, RecordType, BaseRecord, Record, Topics
<1>3. log' \in [Topics -> Seq(LogRecord)] /\ Grows /\ log'["retry"] = log["retry"]
  BY <1>1, <1>2, AppendGrows DEF Shape
<1>4. \A h \in Groups, t \in Topics : \A k \in DOMAIN log[t] :
          DoneWith(h, t, k) => DoneWith(h, t, k)'
  BY <1>1 DEF DoneWith, Holds
<1> QED  BY <1>1, <1>3, <1>4, OnceKept

\* A publish to the retry topic replaces the record in hand, which its group
\* had not replaced: it was not done with it.
LEMMA OnceProduce ==
    ASSUME IInv, EarnInv, OnceInv, OwnInv,
           NEW m \in Members, ProduceOk(m) \/ ProduceFail(m)
    PROVE  OnceInv'
<1>1. /\ pc[m] = "produce" /\ (Produce(out[m]) \/ UNCHANGED <<log, dlq>>)
      /\ pc'[m] \in {"commit", "poll"}
      /\ UNCHANGED <<owner, position, faults>>
      /\ \A h \in Members \ {m} : pc'[h] = pc[h] /\ at'[h] = at[h]
  BY DEF ProduceOk, ProduceFail, IInv, Shape, TypeOK, offsets
<1>2. CASE UNCHANGED log
  BY <1>1, <1>2, OnceStill DEF IInv
<1>3. CASE log' = [log EXCEPT !["retry"] = Append(@, out[m].record)] /\ out[m].topic = "retry"
  <2> SUFFICES ASSUME faults' = 0
               PROVE  \E p \in [DOMAIN log'["retry"] -> Nat] : Replaces(p)'
    BY DEF OnceInv
  <2>0. PICK g \in Groups : g = GroupOf[m]
    BY GroupIsGroup
  <2>1. PICK r, n, c, k, t : r = out[m].record /\ n = Len(log["retry"]) /\ c = Current(m)
                             /\ k = at[m].offset /\ t = at[m].topic
    OBVIOUS
  <2>2. /\ r \in LogRecord /\ r.attempt > 1 /\ r.by = g /\ n \in Nat
        /\ r.event = c.event /\ r.attempt = c.attempt + 1
    BY <1>1, <1>3, <2>0, <2>1, EarnNext DEF EarnInv, OutInv, IInv, Shape
  <2>3. /\ "retry" \in Topics /\ "base" \in Topics
        /\ log' \in [Topics -> Seq(LogRecord)] /\ Grows
        /\ Len(log'["retry"]) = n + 1 /\ log'["retry"][n + 1] = r
    <3>1. "retry" \in Topics /\ "base" \in Topics
      BY DEF Topics
    <3> QED  BY <1>3, <2>1, <2>2, <3>1, AppendGrows DEF IInv, Shape
  <2>4. log["retry"] \in Seq(LogRecord) /\ log'["retry"] \in Seq(LogRecord)
    BY <2>3 DEF IInv, Shape, TypeOK, LogRecord
  <2>5. /\ DOMAIN log["retry"] = 1 .. n /\ DOMAIN log'["retry"] = 1 .. n + 1
        /\ \A i \in 1 .. n : log'["retry"][i] = log["retry"][i]
    BY <2>1, <2>3, <2>4 DEF Grows
  <2>6. PICK p \in [1 .. n -> Nat] : Replaces(p)
    BY <1>1, <2>5 DEF OnceInv
  <2>7. /\ t \in Topics /\ k \in 1 .. Len(log[t]) /\ c \in LogRecord /\ c = log[t][k]
        /\ k = position[g][t] /\ k \in Nat /\ owner[g][t] = m
    <3>1. t \in Topics /\ k \in 1 .. Len(log[t]) /\ k \in Nat /\ c \in LogRecord
      BY <1>1, <2>1, CurrentIsRecord DEF IInv
    <3>2. LastRead(m)
      BY <1>1 DEF OwnInv
    <3> QED  BY <2>0, <2>1, <3>1, <3>2 DEF LastRead, Current
  <2>8. From(r) = t /\ k \in DOMAIN log[t]
    <3>1. c.attempt \in Nat /\ r.attempt \in Nat /\ log[t] \in Seq(LogRecord)
      <4>1. c.attempt \in Nat /\ r.attempt \in Nat
        BY <2>2, <2>7, ConsumerAssumption DEF LogRecord, RecordType
      <4>2. log \in [Topics -> Seq(LogRecord)]
        BY DEF IInv, Shape, TypeOK, LogRecord
      <4> QED  BY <2>7, <4>1, <4>2
    <3>2. k \in DOMAIN log[t]
      BY <2>7, <3>1
    <3>3. t = "base" => c.attempt = 1
      BY <2>7, <3>2 DEF EarnInv
    <3>4. t = "retry" => c.attempt > 1
      BY <2>7, <3>2 DEF EarnInv
    <3> QED  BY <2>2, <2>7, <3>1, <3>2, <3>3, <3>4 DEF From, Topics
  <2>9. \A h \in Groups, u \in Topics : \A l \in DOMAIN log[u] :
            DoneWith(h, u, l) => DoneWith(h, u, l)'
    <3> SUFFICES ASSUME NEW h \in Groups, NEW u \in Topics, NEW l \in DOMAIN log[u],
                        DoneWith(h, u, l)
                 PROVE  DoneWith(h, u, l)'
      OBVIOUS
    <3>1. PICK x \in Members : x = owner[h][u]
      BY OffsetTypes DEF IInv
    <3>2. ~ Holds(x, u, l)'
      BY <1>1, <3>1 DEF DoneWith, Holds
    <3>3. DoneWith(h, u, l)' <=> (l <= position[h][u] /\ ~ Holds(x, u, l)')
      BY <1>1, <3>1 DEF DoneWith, Holds
    <3> QED  BY <3>2, <3>3 DEF DoneWith
  <2>10. Replaced(r, k)'
    <3>1. k \in DOMAIN log'[t] /\ log'[t][k] = c
      BY <2>3, <2>7, <2>8, GrowthKeeps DEF IInv
    <3>2. DoneWith(g, t, k)'
      BY <1>1, <2>7 DEF DoneWith, Holds
    <3>3. c.attempt = r.attempt - 1
      <4>1. c.attempt \in Nat /\ r.attempt \in Nat
        BY <2>2, <2>7, ConsumerAssumption DEF LogRecord, RecordType
      <4> QED  BY <2>2, <4>1
    <3> QED  BY <2>2, <2>8, <3>1, <3>2, <3>3 DEF Replaced, From
  <2>11. ASSUME NEW i \in 1 .. n, NEW s, s = log["retry"][i], NEW l, l = p[i]
         PROVE  Replaced(s, l)' /\ ~ (Twice(s, r) /\ l = k)
    <3>1. s.by \in Groups /\ Replaced(s, l)
      BY <2>5, <2>6, <2>11 DEF EarnInv, Replaces
    <3>2. Replaced(s, l)'
      BY <2>3, <2>9, <3>1, ReplacedKept DEF IInv
    <3>3. ~ (Twice(s, r) /\ l = k)
      BY <1>1, <2>1, <2>2, <2>7, <2>8, <3>1 DEF Replaced, DoneWith, Twice, Holds
    <3> QED  BY <3>2, <3>3
  <2>12. PICK q : q = [i \in 1 .. n + 1 |-> IF i = n + 1 THEN k ELSE p[i]]
    OBVIOUS
  <2>13. /\ q \in [1 .. n + 1 -> Nat] /\ q[n + 1] = k /\ \A i \in 1 .. n : q[i] = p[i]
         /\ \A i \in 1 .. n + 1 : i \in 1 .. n \/ i = n + 1
    BY <2>2, <2>6, <2>7, <2>12
  <2>14. ASSUME NEW i \in 1 .. n + 1, NEW s, s = log'["retry"][i], NEW l, l = q[i]
         PROVE  Replaced(s, l)'
    <3>1. CASE i \in 1 .. n
      <4>1. s = log["retry"][i] /\ l = p[i]
        BY <2>5, <2>13, <2>14, <3>1
      <4> QED  BY <2>11, <3>1, <4>1
    <3>2. CASE i = n + 1
      BY <2>3, <2>10, <2>13, <2>14, <3>2
    <3> QED  BY <2>13, <3>1, <3>2
  <2>15. ASSUME NEW i \in 1 .. n + 1, NEW j \in 1 .. n + 1,
                Twice(log'["retry"][i], log'["retry"][j]), q[i] = q[j]
         PROVE  i = j
    <3>1. CASE i \in 1 .. n /\ j \in 1 .. n
      BY <2>5, <2>6, <2>13, <2>15, <3>1 DEF Replaces
    <3>2. CASE i \in 1 .. n /\ j = n + 1
      BY <2>3, <2>5, <2>11, <2>13, <2>15, <3>2
    <3>3. CASE i = n + 1 /\ j \in 1 .. n
      BY <2>3, <2>5, <2>11, <2>13, <2>15, <3>3 DEF Twice
    <3> QED  BY <2>13, <3>1, <3>2, <3>3
  <2>16. Replaces(q)'
    <3>1. \A i \in DOMAIN log'["retry"] : Replaced(log["retry"][i], q[i])'
      <4> SUFFICES ASSUME NEW i \in DOMAIN log'["retry"]
                   PROVE  Replaced(log["retry"][i], q[i])'
        OBVIOUS
      <4>1. PICK s, l : s = log'["retry"][i] /\ l = q[i]
        OBVIOUS
      <4>2. Replaced(s, l)'
        BY <2>5, <2>14, <4>1
      <4> QED  BY <4>1, <4>2
    <3> QED  BY <2>5, <2>15, <3>1 DEF Replaces, Twice, From
  <2> QED  BY <2>5, <2>13, <2>16
<1> QED  BY <1>1, <1>2, <1>3 DEF Produce

LEMMA OnceStep == ASSUME IInv, EarnInv, OwnInv, OnceInv, [Next]_vars PROVE OnceInv'
<1> USE DEF IInv
<1>1. ASSUME NEW m \in Members, NEW t \in Topics, Poll(m, t) PROVE OnceInv'
  BY <1>1, OncePoll
<1>2. ASSUME NEW m \in Members, Wake(m) \/ HandlerOk(m) \/ CommitOk(m) PROVE OnceInv'
  <2>1. /\ UNCHANGED <<log, owner, position, faults>>
        /\ \A h \in Members \ {m} : pc'[h] = pc[h] /\ at'[h] = at[h]
        /\ pc'[m] = "handle" => pc[m] = "wait" /\ at'[m] = at[m]
        /\ pc'[m] \in {"handle", "commit", "poll"}
    BY <1>2 DEF Wake, HandlerOk, CommitOk, Shape, TypeOK, offsets
  <2> QED  BY <2>1, OnceStill
<1>3. ASSUME NEW m \in Members, HandlerPermanent(m) \/ HandlerRetryable(m) \/ DropPoison(m)
      PROVE  OnceInv'
  <2>1. pc[m] = "handle" /\ \E x : Fail(m, x)
    BY <1>3 DEF HandlerPermanent, HandlerRetryable, DropPoison
  <2>2. /\ UNCHANGED <<log, owner, position, faults, at>>
        /\ \A h \in Members \ {m} : pc'[h] = pc[h]
        /\ pc'[m] = "produce"
    BY <2>1 DEF Fail, AfterFailure, Shape, TypeOK, offsets
  <2> QED  BY <2>1, <2>2, OnceStill
<1>4. ASSUME NEW m \in Members, CommitFail(m) \/ Restart(m) \/ \E t \in Topics : HandOver(m, t)
      PROVE  OnceInv'
  <2>1. faults' = faults + 1 /\ faults \in Nat
    BY <1>4 DEF CommitFail, Restart, HandOver, Shape, TypeOK
  <2> QED  BY <2>1 DEF OnceInv
<1>5. CASE UNCHANGED vars
  <2>1. \A h \in Groups, t \in Topics : \A k \in DOMAIN log[t] :
            DoneWith(h, t, k) => DoneWith(h, t, k)'
    BY <1>5 DEF vars, loops, offsets, DoneWith, Holds
  <2> QED  BY <1>5, <2>1, StillGrows, OnceKept DEF vars
<1> QED
  BY <1>1, <1>2, <1>3, <1>4, <1>5, OncePublish, OnceProduce DEF Next, Loop, Fault

LEMMA OnceInit == Init => OnceInv /\ OwnInv
<1> SUFFICES ASSUME Init PROVE OnceInv /\ OwnInv
  OBVIOUS
<1>1. DOMAIN log["retry"] = {}
  BY DEF Init, Topics
<1>2. PICK p : p = [i \in DOMAIN log["retry"] |-> 0]
  OBVIOUS
<1>3. p \in [DOMAIN log["retry"] -> Nat] /\ Replaces(p)
  BY <1>1, <1>2 DEF Replaces
<1>4. OwnInv
  BY DEF Init, OwnInv
<1> QED  BY <1>3, <1>4 DEF OnceInv

\* Each retry record stands for one group and one record it replaced: there
\* are no more of them than such pairs.
LEMMA OnceImplies == ASSUME TypeOK, EarnInv, OnceInv PROVE RetryAmplification
<1> SUFFICES ASSUME faults = 0, NEW e \in Events, NEW n \in 1 .. MaxAttempts
             PROVE  NumAttempt(e, n + 1) <=
                        Cardinality(Groups) * (IF n = 1 THEN Copies(e) ELSE NumAttempt(e, n))
  BY DEF RetryAmplification
<1> DEFINE src == IF n = 1 THEN "base" ELSE "retry"
           S == {i \in DOMAIN log["retry"] :
                     log["retry"][i].event = e /\ log["retry"][i].attempt = n + 1}
           T == {i \in DOMAIN log[src] :
                     log[src][i].event = e /\ (n # 1 => log[src][i].attempt = n)}
<1>1. /\ \A t \in Topics : log[t] \in Seq(LogRecord)
      /\ src \in Topics /\ n \in Nat \ {0}
  <2>1. log \in [Topics -> Seq(LogRecord)]
    BY DEF TypeOK, LogRecord
  <2>2. n \in Nat \ {0}
    BY ConsumerAssumption
  <2> QED  BY <2>1, <2>2 DEF Topics
<1>2. IsFiniteSet(Groups) /\ IsFiniteSet(T)
  <2>1. DOMAIN log[src] = 1 .. Len(log[src]) /\ Len(log[src]) \in Int
    BY <1>1
  <2>2. IsFiniteSet(DOMAIN log[src])
    BY <2>1, FS_Interval
  <2> QED  BY <2>2, FS_Subset, ConsumerAssumption
<1>3. PICK p \in [DOMAIN log["retry"] -> Nat] : Replaces(p)
  BY DEF OnceInv
<1>4. \A i \in S : /\ log["retry"][i].by \in Groups /\ From(log["retry"][i]) = src
                    /\ p[i] \in T
  <2> SUFFICES ASSUME NEW i \in S
               PROVE  /\ log["retry"][i].by \in Groups /\ From(log["retry"][i]) = src
                      /\ p[i] \in T
    OBVIOUS
  <2>1. PICK r : r = log["retry"][i]
    OBVIOUS
  <2>2. r.by \in Groups /\ Replaced(r, p[i]) /\ r.event = e /\ r.attempt = n + 1
    BY <1>3, <2>1 DEF EarnInv, Replaces
  <2>3. From(r) = src
    BY <1>1, <2>2 DEF From
  <2>4. r.attempt - 1 = n
    BY <1>1, <2>2
  <2>5. p[i] \in T
    BY <2>2, <2>3, <2>4 DEF Replaced
  <2> QED  BY <2>1, <2>2, <2>3, <2>5
<1>5. PICK f : f = [i \in S |-> <<log["retry"][i].by, p[i]>>]
  OBVIOUS
<1>6. f \in [S -> Groups \X T]
  BY <1>4, <1>5
<1>7. ASSUME NEW i \in S, NEW j \in S, f[i] = f[j] PROVE i = j
  <2>1. log["retry"][i].by = log["retry"][j].by /\ p[i] = p[j]
    BY <1>5, <1>7
  <2> QED  BY <1>3, <1>4, <2>1 DEF Replaces, Twice
<1>8. f \in Injection(S, Groups \X T)
  BY <1>6, <1>7, Fun_IsInj
<1>9. Cardinality(S) <= Cardinality(Groups) * Cardinality(T)
  <2>1. /\ IsFiniteSet(Groups \X T)
        /\ Cardinality(Groups \X T) = Cardinality(Groups) * Cardinality(T)
    BY <1>2, FS_Product
  <2>2. Cardinality(S) <= Cardinality(Groups \X T)
    BY <1>8, <2>1, FS_Injection
  <2> QED  BY <2>1, <2>2
<1>10. NumAttempt(e, n + 1) = Cardinality(S)
  BY DEF NumAttempt
<1>11. Cardinality(T) = IF n = 1 THEN Copies(e) ELSE NumAttempt(e, n)
  BY DEF NumAttempt, Copies
<1> QED  BY <1>9, <1>10, <1>11

AmpParts == EarnParts /\ OwnInv /\ OnceInv

LEMMA AmpInductive ==
    /\ Init => AmpParts
    /\ AmpParts /\ [Next]_vars => AmpParts'
BY EarnInductive, OnceInit, OwnStep, OnceStep DEF AmpParts, EarnParts

\* RetryAmplification: until a commit fails, a member restarts or a topic changes
\* hands, the groups that share a retry topic multiply a failing event by their
\* number at every attempt and by no more: no group replaces a record twice
\* (retryAndCommit).
THEOREM RetriesMultiplyOnly == Spec => []RetryAmplification
<1>1. AmpParts => RetryAmplification
  BY OnceImplies DEF AmpParts, EarnParts, IInv, Shape
<1> QED  BY <1>1, AmpInductive, PTL DEF Spec

===============================================================================
