---------------------------- MODULE Outbox_proofs ----------------------------
(***************************************************************************)
(* Proofs about the outbox, for any number of events, relays and faults,   *)
(* any batch size, lease duration and table of delays.                     *)
(***************************************************************************)
EXTENDS Outbox, FiniteSetTheorems, TLAPS

(***************************************************************************)
(* The inductive invariant.  TypeOK alone is not inductive: the delay of a *)
(* released row is looked up by its attempts, which are positive only      *)
(* because the row was claimed.                                            *)
(***************************************************************************)
\* What a relay remembers of its batch agrees with the rows and the topic.
BatchInv ==
    \A r \in Relays :
        /\ pc[r] \in {"mark", "release"} => current[r] \in batch[r]
        /\ pc[r] = "mark" => current[r] \in OnTopic
        /\ pc[r] \in {"idle", "down"} => batch[r] = {}
        /\ \A e \in batch[r] : e <= enqueued /\ attempts[e] >= 1

\* A token is given to one batch and never again.
TokenInv ==
    /\ \A e \in Events : leaseToken[e] < nextToken
    /\ \A r \in Relays : token[r] < nextToken /\ (batch[r] # {} => token[r] # NoToken)
    /\ \A q, r \in Relays :
         (batch[q] # {} /\ batch[r] # {} /\ token[q] = token[r]) => q = r

\* Only committed events are on the topic, and published ones are there.
TopicInv ==
    /\ \A e \in OnTopic : e <= enqueued
    /\ \A e \in Events : published[e] => e \in OnTopic

IInv == TypeOK /\ BatchInv /\ TokenInv /\ TopicInv /\ LeaseSettled

LEMMA InitIInv == Init => IInv
  BY OutboxAssumption
     DEF Init, IInv, TypeOK, BatchInv, TokenInv, TopicInv, LeaseSettled, AtWork,
         OnTopic, Events, NoToken, NoEvent

\* A produce adds its event, and only that, to what the topic holds.
LEMMA AppendOnTopic ==
  ASSUME topic \in Seq(Events), NEW e \in Events, topic' = Append(topic, e)
  PROVE  /\ topic' \in Seq(Events)
         /\ OnTopic' = OnTopic \cup {e}
<1>1. topic' \in Seq(Events)
  OBVIOUS
<1>2. /\ DOMAIN topic = 1 .. Len(topic)
      /\ DOMAIN topic' = 1 .. Len(topic) + 1
      /\ \A i \in 1 .. Len(topic) : topic'[i] = topic[i]
      /\ topic'[Len(topic) + 1] = e
      /\ Len(topic) \in Nat
  OBVIOUS
<1>3. OnTopic' = OnTopic \cup {e}
  BY <1>2 DEF OnTopic
<1> QED
  BY <1>1, <1>3

\* What the rows of a claim become: only rows no one is at work on are taken.
LEMMA ClaimIInv ==
  ASSUME IInv, NEW r \in Relays, Claim(r)
  PROVE  IInv'
<1>1. PICK locked \in LockedByOthers(r) :
        /\ Oldest(Claimable \ locked) # {}
        /\ LeaseBatch(r, Oldest(Claimable \ locked))
  BY DEF Claim
<1> DEFINE C == Oldest(Claimable \ locked)
<1>2. C \subseteq Claimable
  BY DEF Oldest
<1> HIDE DEF C
<1>3. \A e \in C : e \in Events /\ e <= enqueued /\ ~published[e] /\ wait[e] = 0 /\ leaseLeft[e] = 0
  BY <1>2, OutboxAssumption DEF Claimable, IInv, TypeOK, Events
<1>4. /\ C # {}
      /\ LeaseBatch(r, C)
      /\ pc' = [pc EXCEPT ![r] = "publish"]
      /\ UNCHANGED <<enqueued, published, wait, legacy, current, topic, faults>>
  BY <1>1 DEF C, Claim
<1>5. OnTopic' = OnTopic
  BY <1>4 DEF OnTopic
<1>6. TypeOK'
  <2>1. batch' \in [Relays -> SUBSET Events]
    <3>1. C \in SUBSET Events
      BY <1>3
    <3> QED
      BY <3>1, <1>4 DEF IInv, TypeOK, LeaseBatch
  <2>2. attempts' \in [Events -> Nat]
    BY <1>4 DEF IInv, TypeOK, LeaseBatch
  <2>3. leaseToken' \in [Events -> Nat]
    BY <1>4 DEF IInv, TypeOK, LeaseBatch
  <2>4. leaseLeft' \in [Events -> 0 .. LeaseTicks]
    BY <1>4, OutboxAssumption DEF IInv, TypeOK, LeaseBatch
  <2>5. token' \in [Relays -> Nat] /\ nextToken' \in Nat \ {0}
    BY <1>4 DEF IInv, TypeOK, LeaseBatch, FreshToken
  <2> QED
    BY <1>4, <2>1, <2>2, <2>3, <2>4, <2>5 DEF IInv, TypeOK
<1>7. BatchInv'
  BY <1>3, <1>4, <1>5 DEF IInv, TypeOK, BatchInv, LeaseBatch
<1>8. TokenInv'
  <2>1. \A e \in Events : leaseToken'[e] < nextToken'
    BY <1>4 DEF IInv, TypeOK, TokenInv, LeaseBatch, FreshToken
  <2>2. ASSUME NEW q \in Relays
        PROVE  token'[q] < nextToken' /\ (batch'[q] # {} => token'[q] # NoToken)
    <3>1. CASE q = r
      BY <3>1, <1>4 DEF IInv, TypeOK, LeaseBatch, FreshToken, NoToken
    <3>2. CASE q # r
      BY <3>2, <1>4 DEF IInv, TypeOK, TokenInv, LeaseBatch, FreshToken
    <3> QED
      BY <3>1, <3>2
  <2>3. ASSUME NEW p \in Relays, NEW q \in Relays,
               batch'[p] # {}, batch'[q] # {}, token'[p] = token'[q]
        PROVE  p = q
    <3>1. token'[r] = nextToken /\ \A x \in Relays \ {r} : token'[x] = token[x] /\ batch'[x] = batch[x]
      BY <1>4 DEF IInv, TypeOK, LeaseBatch
    <3>2. \A x \in Relays \ {r} : token'[x] < token'[r]
      BY <3>1 DEF IInv, TypeOK, TokenInv
    <3>3. \A x \in Relays \ {r} : token'[x] # token'[r]
      BY <3>1, <3>2 DEF IInv, TypeOK
    <3>4. CASE p = r \/ q = r
      BY <3>3, <3>4, <2>3
    <3>5. CASE p # r /\ q # r
      BY <3>1, <3>5, <2>3 DEF IInv, TokenInv
    <3> QED
      BY <3>4, <3>5
  <2> QED
    BY <2>1, <2>2, <2>3 DEF TokenInv
<1>9. TopicInv'
  BY <1>4, <1>5 DEF IInv, TypeOK, TopicInv
<1>10. LeaseSettled'
  <2>1. \A e \in Events : published'[e] => leaseToken'[e] = NoToken /\ leaseLeft'[e] = 0
    BY <1>3, <1>4 DEF IInv, TypeOK, LeaseSettled, LeaseBatch
  <2>2. ASSUME NEW e \in Events, NEW q \in Relays, AtWork(q, e)'
        PROVE  ~published'[e] /\ wait'[e] = 0
    <3>1. CASE e \in C
      BY <3>1, <1>3, <1>4
    <3>2. CASE e \notin C
      BY <3>2, <2>2, <1>4 DEF IInv, TypeOK, TokenInv, LeaseSettled, AtWork, LeaseBatch
    <3> QED
      BY <3>1, <3>2
  <2> QED
    BY <2>1, <2>2 DEF LeaseSettled
<1> QED
  BY <1>6, <1>7, <1>8, <1>9, <1>10 DEF IInv

LEMMA EnqueueIInv ==
  ASSUME IInv, Enqueue
  PROVE  IInv'
<1>1. TypeOK'
  BY OutboxAssumption DEF IInv, TypeOK, Enqueue, relays
<1>2. OnTopic' = OnTopic
  BY DEF Enqueue, OnTopic
<1>3. BatchInv' /\ TopicInv'
  <2>1. \A n \in Events : n <= enqueued => n <= enqueued'
    BY OutboxAssumption DEF IInv, TypeOK, Enqueue, Events
  <2>2. OnTopic \subseteq Events
    BY DEF IInv, TypeOK, OnTopic
  <2> QED
    BY <1>2, <2>1, <2>2 DEF IInv, TypeOK, BatchInv, TopicInv, Enqueue, relays
<1>4. TokenInv' /\ LeaseSettled'
  BY DEF IInv, TokenInv, LeaseSettled, AtWork, Enqueue, relays
<1> QED
  BY <1>1, <1>3, <1>4 DEF IInv

\* A relay that stops or starts touches neither the rows nor the topic, and
\* holds nothing when it is done.
LEMMA IdleIInv ==
  ASSUME IInv, NEW r \in Relays, NEW s \in {"idle", "down"},
         pc' = [pc EXCEPT ![r] = s],
         batch' = [batch EXCEPT ![r] = {}],
         current' \in [Relays -> Events \cup {NoEvent}],
         \A q \in Relays \ {r} : current'[q] = current[q],
         faults' \in Nat,
         UNCHANGED <<rows, token, nextToken, topic>>
  PROVE  IInv'
<1>1. TypeOK'
  BY DEF IInv, TypeOK, rows
<1>2. OnTopic' = OnTopic
  BY DEF OnTopic
<1>3. BatchInv'
  BY <1>2 DEF IInv, TypeOK, BatchInv, rows
<1>4. TokenInv'
  BY DEF IInv, TypeOK, TokenInv, rows
<1>5. TopicInv'
  BY <1>2 DEF IInv, TopicInv, rows
<1>6. LeaseSettled'
  BY DEF IInv, TypeOK, LeaseSettled, AtWork, rows
<1> QED
  BY <1>1, <1>3, <1>4, <1>5, <1>6 DEF IInv

LEMMA AbandonIInv ==
  ASSUME IInv, NEW r \in Relays, Crash(r) \/ LeaseLost(r)
  PROVE  IInv'
<1>1. /\ pc' = [pc EXCEPT ![r] = "down"]
      /\ batch' = [batch EXCEPT ![r] = {}]
      /\ current' = [current EXCEPT ![r] = NoEvent]
      /\ UNCHANGED <<rows, token, nextToken, topic>>
  BY DEF Crash, LeaseLost, Abandon
<1>2. faults' \in Nat
  BY DEF Crash, LeaseLost, IInv, TypeOK
<1>3. current' \in [Relays -> Events \cup {NoEvent}]
  BY <1>1 DEF IInv, TypeOK
<1>4. \A q \in Relays \ {r} : current'[q] = current[q]
  BY <1>1 DEF IInv, TypeOK
<1> QED
  BY <1>1, <1>2, <1>3, <1>4, IdleIInv

LEMMA RestartIInv ==
  ASSUME IInv, NEW r \in Relays, ClaimLegacy(r) \/ Restart(r)
  PROVE  IInv'
<1>1. /\ pc[r] \in {"idle", "down"}
      /\ UNCHANGED <<rows, batch, token, current, nextToken, topic, faults>>
  BY DEF ClaimLegacy, Restart
<1>2. PICK s \in {"idle", "down"} : pc' = [pc EXCEPT ![r] = s]
  BY DEF ClaimLegacy, Restart
<1>3. batch' = [batch EXCEPT ![r] = {}]
  BY <1>1 DEF IInv, TypeOK, BatchInv
<1> QED
  BY <1>1, <1>2, <1>3, IdleIInv DEF IInv, TypeOK

LEMMA PublishIInv ==
  ASSUME IInv, NEW r \in Relays, PublishOk(r) \/ PublishError(r)
  PROVE  IInv'
<1>1. PICK e \in batch[r] :
        /\ current' = [current EXCEPT ![r] = e]
        /\ \/ topic' = Append(topic, e) /\ pc' = [pc EXCEPT ![r] = "mark"] /\ faults' = faults
           \/ /\ topic' \in {topic, Append(topic, e)}
              /\ pc' = [pc EXCEPT ![r] = "release"]
              /\ faults' = faults + 1
  <2>1. CASE PublishOk(r)
    BY <2>1 DEF PublishOk, AfterPublish
  <2>2. CASE PublishError(r)
    BY <2>2 DEF PublishError, AfterPublish
  <2> QED
    BY <2>1, <2>2
<1>2. UNCHANGED <<rows, batch, token, nextToken>>
  BY DEF PublishOk, PublishError
<1>3. e \in Events /\ e <= enqueued
  BY DEF IInv, TypeOK, BatchInv
<1>4. topic' \in Seq(Events) /\ OnTopic \subseteq OnTopic' /\ OnTopic' \subseteq OnTopic \cup {e}
  <2>1. CASE topic' = topic
    BY <2>1 DEF OnTopic, IInv, TypeOK
  <2>2. CASE topic' = Append(topic, e)
    BY <2>2, <1>3, AppendOnTopic DEF IInv, TypeOK
  <2> QED
    BY <1>1, <2>1, <2>2
<1>5. pc'[r] = "mark" => e \in OnTopic'
  <2>1. CASE topic' = Append(topic, e)
    BY <2>1, <1>3, AppendOnTopic DEF IInv, TypeOK
  <2>2. CASE pc' = [pc EXCEPT ![r] = "release"]
    BY <2>2 DEF IInv, TypeOK
  <2> QED
    BY <1>1, <2>1, <2>2
<1>6. TypeOK'
  <2>1. current' \in [Relays -> Events \cup {NoEvent}]
    BY <1>1, <1>3 DEF IInv, TypeOK
  <2>2. pc' \in [Relays -> {"idle", "publish", "mark", "release", "down"}]
    BY <1>1 DEF IInv, TypeOK
  <2>3. faults' \in Nat
    BY <1>1 DEF IInv, TypeOK
  <2> QED
    BY <1>2, <1>4, <2>1, <2>2, <2>3 DEF IInv, TypeOK, rows
<1>7. BatchInv'
  <2> SUFFICES ASSUME NEW q \in Relays
               PROVE  /\ pc'[q] \in {"mark", "release"} => current'[q] \in batch'[q]
                      /\ pc'[q] = "mark" => current'[q] \in OnTopic'
                      /\ pc'[q] \in {"idle", "down"} => batch'[q] = {}
                      /\ \A x \in batch'[q] : x <= enqueued' /\ attempts'[x] >= 1
    BY DEF BatchInv
  <2>1. CASE q = r
    BY <2>1, <1>1, <1>2, <1>5 DEF IInv, TypeOK, BatchInv, rows
  <2>2. CASE q # r
    BY <2>2, <1>1, <1>2, <1>4 DEF IInv, TypeOK, BatchInv, rows
  <2> QED
    BY <2>1, <2>2
<1>8. TokenInv' /\ LeaseSettled'
  BY <1>2 DEF IInv, TokenInv, LeaseSettled, AtWork, rows
<1>9. TopicInv'
  BY <1>2, <1>3, <1>4 DEF IInv, TopicInv, rows
<1> QED
  BY <1>6, <1>7, <1>8, <1>9 DEF IInv

\* The record a settling relay works on.
LEMMA CurrentRecord ==
  ASSUME IInv, NEW r \in Relays, pc[r] \in {"mark", "release"}
  PROVE  /\ current[r] \in batch[r]
         /\ current[r] \in Events
         /\ current[r] <= enqueued
         /\ attempts[current[r]] >= 1
  BY DEF IInv, TypeOK, BatchInv

LEMMA DelayType ==
  ASSUME NEW n \in Nat, n >= 1
  PROVE  RetryDelay(n) \in Nat
<1>1. Len(RetryDelays) \in Nat /\ Len(RetryDelays) >= 1
  BY OutboxAssumption
<1>2. \A i \in 1 .. Len(RetryDelays) : RetryDelays[i] \in Nat
  BY OutboxAssumption
<1> QED
  BY <1>1, <1>2 DEF RetryDelay

LEMMA SettleIInv ==
  ASSUME IInv, NEW r \in Relays, MarkPublished(r) \/ ReleaseForRetry(r)
  PROVE  IInv'
<1> DEFINE e == current[r]
<1>1. /\ pc[r] \in {"mark", "release"}
      /\ HoldsLease(r)
      /\ ClearLease(e)
      /\ NextRecord(r)
      /\ UNCHANGED <<enqueued, attempts, legacy, topic, faults>>
  BY DEF MarkPublished, ReleaseForRetry
<1>2. e \in batch[r] /\ e \in Events /\ e <= enqueued /\ attempts[e] >= 1
  BY <1>1, CurrentRecord
<1>3. \/ pc[r] = "mark" /\ published' = [published EXCEPT ![e] = TRUE] /\ wait' = wait
      \/ published' = published /\ wait' = [wait EXCEPT ![e] = RetryDelay(attempts[e])]
  BY DEF MarkPublished, ReleaseForRetry
<1> HIDE DEF e
<1>4. /\ leaseToken' = [leaseToken EXCEPT ![e] = NoToken]
      /\ leaseLeft'  = [leaseLeft EXCEPT ![e] = 0]
      /\ token' = token /\ nextToken' = nextToken
      /\ batch' = [batch EXCEPT ![r] = batch[r] \ {e}]
      /\ current' = [current EXCEPT ![r] = NoEvent]
      /\ pc' = [pc EXCEPT ![r] = IF batch[r] \ {e} = {} THEN "idle" ELSE "publish"]
  BY <1>1 DEF e, ClearLease, NextRecord
<1>5. RetryDelay(attempts[e]) \in Nat
  BY <1>2, DelayType DEF IInv, TypeOK
<1>6. OnTopic' = OnTopic
  BY <1>1 DEF OnTopic
<1>7. TypeOK'
  <2>1. published' \in [Events -> BOOLEAN] /\ wait' \in [Events -> Nat]
    BY <1>2, <1>3, <1>5 DEF IInv, TypeOK
  <2>2. leaseToken' \in [Events -> Nat] /\ leaseLeft' \in [Events -> 0 .. LeaseTicks]
    <3>1. NoToken \in Nat /\ 0 \in 0 .. LeaseTicks
      BY OutboxAssumption DEF NoToken
    <3> QED
      BY <3>1, <1>4 DEF IInv, TypeOK
  <2>3. batch' \in [Relays -> SUBSET Events] /\ current' \in [Relays -> Events \cup {NoEvent}]
    BY <1>4 DEF IInv, TypeOK
  <2>4. pc' \in [Relays -> {"idle", "publish", "mark", "release", "down"}]
    BY <1>4 DEF IInv, TypeOK
  <2> QED
    BY <1>1, <1>4, <2>1, <2>2, <2>3, <2>4 DEF IInv, TypeOK
<1>8. BatchInv'
  BY <1>1, <1>4, <1>6 DEF IInv, TypeOK, BatchInv
<1>9. TokenInv'
  <2>1. \A x \in Events : leaseToken'[x] < nextToken'
    BY <1>4 DEF IInv, TypeOK, TokenInv, NoToken
  <2>2. \A q \in Relays : batch'[q] # {} => batch[q] # {}
    BY <1>4 DEF IInv, TypeOK
  <2> QED
    BY <1>4, <2>1, <2>2 DEF IInv, TokenInv
<1>10. TopicInv'
  BY <1>1, <1>2, <1>3, <1>6 DEF IInv, TypeOK, TopicInv, BatchInv, e
<1>11. LeaseSettled'
  <2>1. ASSUME NEW x \in Events, published'[x]
        PROVE  leaseToken'[x] = NoToken /\ leaseLeft'[x] = 0
    <3>1. CASE x = e
      BY <3>1, <1>2, <1>4 DEF IInv, TypeOK
    <3>2. CASE x # e
      BY <3>2, <2>1, <1>2, <1>3, <1>4 DEF IInv, TypeOK, LeaseSettled
    <3> QED
      BY <3>1, <3>2
  <2>2. ASSUME NEW x \in Events, NEW q \in Relays, AtWork(q, x)'
        PROVE  ~published'[x] /\ wait'[x] = 0
    <3>1. x # e
      BY <2>2, <1>2, <1>4 DEF IInv, TypeOK, TokenInv, AtWork
    <3>2. AtWork(q, x)
      BY <3>1, <2>2, <1>2, <1>4 DEF IInv, TypeOK, AtWork
    <3>3. ~published[x] /\ wait[x] = 0
      BY <3>2 DEF IInv, LeaseSettled
    <3> QED
      BY <3>1, <3>3, <1>2, <1>3 DEF IInv, TypeOK
  <2> QED
    BY <2>1, <2>2 DEF LeaseSettled
<1> QED
  BY <1>7, <1>8, <1>9, <1>10, <1>11 DEF IInv

LEMMA TickIInv ==
  ASSUME IInv, Tick
  PROVE  IInv'
<1>1. /\ leaseLeft' = [e \in Events |-> Down(leaseLeft[e])]
      /\ wait' = [e \in Events |-> Down(wait[e])]
      /\ faults' \in {faults, faults + 1}
      /\ UNCHANGED <<enqueued, published, attempts, leaseToken, legacy, relays, topic>>
  BY DEF Tick
<1>2. TypeOK'
  BY <1>1, OutboxAssumption DEF IInv, TypeOK, Down, relays
<1>3. OnTopic' = OnTopic
  BY <1>1 DEF OnTopic
<1>4. BatchInv' /\ TopicInv'
  BY <1>1, <1>3 DEF IInv, BatchInv, TopicInv, relays
<1>5. TokenInv'
  BY <1>1 DEF IInv, TokenInv, relays
<1>6. LeaseSettled'
  BY <1>1 DEF IInv, LeaseSettled, AtWork, Down, relays
<1> QED
  BY <1>2, <1>4, <1>5, <1>6 DEF IInv

LEMMA StutterIInv ==
  ASSUME IInv, UNCHANGED vars
  PROVE  IInv'
<1>1. TypeOK'
  BY DEF vars, IInv, TypeOK
<1>2. OnTopic' = OnTopic
  BY DEF vars, OnTopic
<1>3. BatchInv' /\ TopicInv'
  BY <1>2 DEF vars, IInv, BatchInv, TopicInv
<1>4. TokenInv' /\ LeaseSettled'
  BY DEF vars, IInv, TokenInv, LeaseSettled, AtWork
<1> QED
  BY <1>1, <1>3, <1>4 DEF IInv

\* A step of any kind, and one that changes nothing, keep the invariant.
LEMMA NextIInv == IInv /\ [Next]_vars => IInv'
<1> SUFFICES ASSUME IInv, [Next]_vars PROVE IInv'
  OBVIOUS
<1>1. CASE Enqueue
  BY <1>1, EnqueueIInv
<1>2. CASE Tick
  BY <1>2, TickIInv
<1>3. ASSUME NEW r \in Relays, RelayStep(r) PROVE IInv'
  <2>1. CASE Claim(r)
    BY <2>1, ClaimIInv
  <2>2. CASE PollEmpty(r)
    BY <2>2, StutterIInv DEF PollEmpty
  <2>3. CASE ClaimLegacy(r) \/ Restart(r)
    BY <2>3, RestartIInv
  <2>4. CASE PublishOk(r) \/ PublishError(r)
    BY <2>4, PublishIInv
  <2>5. CASE MarkPublished(r) \/ ReleaseForRetry(r)
    BY <2>5, SettleIInv
  <2>6. CASE LeaseLost(r) \/ Crash(r)
    BY <2>6, AbandonIInv
  <2> QED
    BY <1>3, <2>1, <2>2, <2>3, <2>4, <2>5, <2>6 DEF RelayStep
<1>4. CASE UNCHANGED vars
  BY <1>4, StutterIInv
<1> QED
  BY <1>1, <1>2, <1>3, <1>4 DEF Next

LEMMA Invariance == Spec => []IInv
  BY InitIInv, NextIInv, PTL DEF Spec, SafeSpec

\* The rows, the relays and the topic keep their types in every execution.
THEOREM TypeCorrect == Spec => []TypeOK
  BY Invariance, PTL DEF IInv

\* MarkPublished and ReleaseForRetry of a relay that lost its lease never match:
\* two relays cannot hold one record under the row's current token.
THEOREM StaleRelaysExcluded == Spec => []LeaseExclusive
<1>1. IInv => LeaseExclusive
  BY DEF IInv, TokenInv, LeaseExclusive, AtWork
<1> QED
  BY <1>1, Invariance, PTL

\* A settled row has no lease, and a row at work is neither published nor delayed.
THEOREM RowsSettled == Spec => []LeaseSettled
  BY Invariance, PTL DEF IInv

(***************************************************************************)
(* The outbox implements the at-least-once channel: an Enqueue commits an  *)
(* event, a produce that reaches the broker delivers one, a MarkPublished  *)
(* acknowledges one, and every other step is a stutter.                    *)
(***************************************************************************)
LEMMA InitChannel == Init => Channel!Init
  BY OutboxAssumption DEF Init, Channel!Init, Events

LEMMA EnqueueChannel ==
  ASSUME IInv, Enqueue
  PROVE  Channel!Commit(enqueued + 1)
<1>1. enqueued + 1 \in Channel!Events \ (1 .. enqueued)
  BY OutboxAssumption DEF IInv, TypeOK, Enqueue, Channel!Events
<1>2. 1 .. enqueued' = (1 .. enqueued) \cup {enqueued + 1}
  BY OutboxAssumption DEF IInv, TypeOK, Enqueue
<1>3. UNCHANGED <<topic, {e \in Events : published[e]}>>
  BY DEF Enqueue
<1> QED
  BY <1>1, <1>2, <1>3 DEF Channel!Commit

LEMMA PublishChannel ==
  ASSUME IInv, NEW r \in Relays, PublishOk(r) \/ PublishError(r)
  PROVE  \/ \E e \in Channel!Events : Channel!Deliver(e)
         \/ UNCHANGED Channel!vars
<1>1. PICK e \in batch[r] : topic' \in {topic, Append(topic, e)}
  BY DEF PublishOk, PublishError
<1>2. UNCHANGED rows
  BY DEF PublishOk, PublishError
<1>3. UNCHANGED <<1 .. enqueued, {x \in Events : published[x]}>>
  BY <1>2 DEF rows
<1>4. e \in Events /\ e \in 1 .. enqueued
  BY OutboxAssumption DEF IInv, TypeOK, BatchInv, Events
<1>5. CASE topic' = topic
  BY <1>5, <1>3 DEF Channel!vars
<1>6. CASE topic' = Append(topic, e)
  BY <1>6, <1>3, <1>4 DEF Channel!Deliver, Channel!Events, Events
<1> QED
  BY <1>1, <1>5, <1>6

LEMMA MarkPublishedChannel ==
  ASSUME IInv, NEW r \in Relays, MarkPublished(r)
  PROVE  \E e \in Channel!Events : Channel!Ack(e)
<1>1. PICK e \in Events : e = current[r]
  BY CurrentRecord DEF MarkPublished
<1>2. e \in OnTopic /\ ~published[e]
  BY <1>1 DEF IInv, BatchInv, MarkPublished, HoldsLease
<1>3. published' = [published EXCEPT ![e] = TRUE]
  BY <1>1 DEF MarkPublished
<1>4. UNCHANGED <<enqueued, topic>>
  BY DEF MarkPublished
<1>5. {x \in Events : published'[x]} = {x \in Events : published[x]} \cup {e}
  BY <1>1, <1>3 DEF IInv, TypeOK
<1>6. e \in Channel!OnTopic \ {x \in Events : published[x]}
  BY <1>2 DEF Channel!OnTopic, OnTopic
<1>7. Channel!Ack(e)
  BY <1>4, <1>5, <1>6 DEF Channel!Ack
<1> QED
  BY <1>1, <1>7 DEF Channel!Events, Events

LEMMA NextChannel == IInv /\ [Next]_vars => [Channel!Next]_(Channel!vars)
<1> SUFFICES ASSUME IInv, [Next]_vars PROVE [Channel!Next]_(Channel!vars)
  OBVIOUS
<1>1. CASE Enqueue
  <2>1. enqueued + 1 \in Channel!Events
    BY <1>1, OutboxAssumption DEF IInv, TypeOK, Enqueue, Channel!Events
  <2> QED
    BY <1>1, <2>1, EnqueueChannel DEF Channel!Next
<1>2. CASE Tick
  BY <1>2 DEF Tick, Channel!vars
<1>3. ASSUME NEW r \in Relays, RelayStep(r) PROVE [Channel!Next]_(Channel!vars)
  <2>1. CASE PublishOk(r) \/ PublishError(r)
    BY <2>1, PublishChannel DEF Channel!Next
  <2>2. CASE MarkPublished(r)
    BY <2>2, MarkPublishedChannel DEF Channel!Next
  <2>3. CASE \/ Claim(r) \/ PollEmpty(r) \/ ClaimLegacy(r) \/ ReleaseForRetry(r)
             \/ LeaseLost(r) \/ Crash(r) \/ Restart(r)
    <3>1. UNCHANGED <<enqueued, published, topic>>
      BY <2>3 DEF Claim, PollEmpty, ClaimLegacy, ReleaseForRetry, LeaseLost, Crash,
                  Restart, Abandon, rows, vars
    <3> QED
      BY <3>1 DEF Channel!vars
  <2> QED
    BY <1>3, <2>1, <2>2, <2>3 DEF RelayStep
<1>4. CASE UNCHANGED vars
  BY <1>4 DEF vars, Channel!vars
<1> QED
  BY <1>1, <1>2, <1>3, <1>4 DEF Next

\* Relays, leases, crashes and retries add up to no more and no less than the
\* safety of an at-least-once channel.
THEOREM ImplementsChannel == Spec => ChannelSafe
  BY Invariance, InitChannel, NextChannel, PTL
     DEF Spec, SafeSpec, ChannelSafe, Channel!SafeSpec

(***************************************************************************)
(* How many copies of an event there can be.  A relay that has claimed a   *)
(* record and not tried to publish it yet owes it one produce; each claim  *)
(* counts one attempt, and at most one produce follows from it.            *)
(***************************************************************************)
Owes(r, e) == e \in batch[r] /\ ~(pc[r] \in {"mark", "release"} /\ current[r] = e)
Debtors(e) == {r \in Relays : Owes(r, e)}

CopiesInv == \A e \in Events : Copies(e) + Cardinality(Debtors(e)) <= attempts[e]

LEMMA Counts ==
  ASSUME TypeOK, NEW e \in Events
  PROVE  /\ IsFiniteSet({i \in DOMAIN topic : topic[i] = e})
         /\ IsFiniteSet(Debtors(e))
         /\ Copies(e) \in Nat
         /\ Cardinality(Debtors(e)) \in Nat
         /\ attempts[e] \in Nat
<1>1. IsFiniteSet(DOMAIN topic)
  <2>1. DOMAIN topic = 1 .. Len(topic) /\ Len(topic) \in Nat
    BY DEF TypeOK
  <2> QED
    BY <2>1, FS_Interval
<1>2. IsFiniteSet({i \in DOMAIN topic : topic[i] = e})
  BY <1>1, FS_Subset
<1>3. IsFiniteSet(Debtors(e))
  BY OutboxAssumption, FS_Subset DEF Debtors
<1> QED
  BY <1>2, <1>3, FS_CardinalityType DEF Copies, TypeOK

LEMMA AppendCopies ==
  ASSUME TypeOK, TypeOK', NEW x \in Events, topic' = Append(topic, x), NEW e \in Events
  PROVE  Copies(e)' = IF e = x THEN Copies(e) + 1 ELSE Copies(e)
<1> DEFINE At == {i \in DOMAIN topic : topic[i] = e}
<1>0. topic \in Seq(Events)
  BY DEF TypeOK
<1>1. /\ DOMAIN topic = 1 .. Len(topic)
      /\ DOMAIN topic' = 1 .. Len(topic) + 1
      /\ \A i \in 1 .. Len(topic) : topic'[i] = topic[i]
      /\ topic'[Len(topic) + 1] = x
      /\ Len(topic) \in Nat
  BY <1>0
<1>2. IsFiniteSet(At) /\ Len(topic) + 1 \notin At
  BY <1>1, Counts
<1>3. CASE e = x
  <2>1. {i \in DOMAIN topic' : topic'[i] = e} = At \cup {Len(topic) + 1}
    BY <1>1, <1>3
  <2> QED
    BY <2>1, <1>2, <1>3, FS_AddElement DEF Copies
<1>4. CASE e # x
  <2>1. {i \in DOMAIN topic' : topic'[i] = e} = At
    BY <1>1, <1>4
  <2> QED
    BY <2>1, <1>4 DEF Copies
<1> QED
  BY <1>3, <1>4

\* A step that publishes nothing and makes no relay a new debtor.
LEMMA NoNewDebt ==
  ASSUME TypeOK, TypeOK', CopiesInv, NEW e \in Events,
         topic' = topic, attempts'[e] = attempts[e], Debtors(e)' \subseteq Debtors(e)
  PROVE  Copies(e)' + Cardinality(Debtors(e)') <= attempts'[e]
<1>1. Copies(e)' = Copies(e)
  BY DEF Copies
<1>2. Cardinality(Debtors(e)') <= Cardinality(Debtors(e)) /\ Cardinality(Debtors(e)') \in Nat
  BY Counts, FS_Subset, FS_CardinalityType
<1>3. Copies(e) + Cardinality(Debtors(e)) <= attempts[e]
  BY DEF CopiesInv
<1>4. Copies(e) \in Nat /\ Cardinality(Debtors(e)) \in Nat /\ attempts[e] \in Nat
  BY Counts
<1> QED
  BY <1>1, <1>2, <1>3, <1>4

LEMMA ClaimCopies ==
  ASSUME IInv, IInv', CopiesInv, NEW r \in Relays, Claim(r)
  PROVE  CopiesInv'
<1>1. PICK C : LeaseBatch(r, C)
  BY DEF Claim
<1>2. /\ topic' = topic
      /\ pc' = [pc EXCEPT ![r] = "publish"]
      /\ current' = current
      /\ batch[r] = {}
  BY DEF Claim, IInv, BatchInv
<1> SUFFICES ASSUME NEW e \in Events
             PROVE  Copies(e)' + Cardinality(Debtors(e)') <= attempts'[e]
  BY DEF CopiesInv
<1>3. \A q \in Relays \ {r} : Owes(q, e)' <=> Owes(q, e)
  BY <1>1, <1>2 DEF IInv, TypeOK, LeaseBatch, Owes
<1>4. ~Owes(r, e) /\ (Owes(r, e)' => e \in C)
  BY <1>1, <1>2 DEF IInv, TypeOK, LeaseBatch, Owes
<1>5. CASE e \notin C
  <2>1. Debtors(e)' \subseteq Debtors(e)
    BY <1>3, <1>4, <1>5 DEF Debtors
  <2>2. attempts'[e] = attempts[e]
    BY <1>1, <1>5 DEF LeaseBatch
  <2> QED
    BY <2>1, <2>2, <1>2, NoNewDebt DEF IInv
<1>6. CASE e \in C
  <2>1. Debtors(e)' \subseteq Debtors(e) \cup {r}
    BY <1>3 DEF Debtors
  <2>2. attempts'[e] = attempts[e] + 1
    BY <1>1, <1>6 DEF LeaseBatch
  <2>3. /\ IsFiniteSet(Debtors(e) \cup {r})
        /\ Cardinality(Debtors(e) \cup {r}) <= Cardinality(Debtors(e)) + 1
    <3>1. IsFiniteSet(Debtors(e)) /\ Cardinality(Debtors(e)) \in Nat
      BY Counts DEF IInv
    <3> QED
      BY <3>1, FS_AddElement
  <2>4. /\ Cardinality(Debtors(e)') <= Cardinality(Debtors(e) \cup {r})
        /\ Cardinality(Debtors(e)') \in Nat
        /\ Cardinality(Debtors(e) \cup {r}) \in Nat
    BY <2>1, <2>3, FS_Subset, FS_CardinalityType
  <2>5. Copies(e)' = Copies(e)
    BY <1>2 DEF Copies
  <2>6. Copies(e) + Cardinality(Debtors(e)) <= attempts[e]
    BY DEF CopiesInv
  <2>7. Copies(e) \in Nat /\ Cardinality(Debtors(e)) \in Nat /\ attempts[e] \in Nat
    BY Counts DEF IInv
  <2> QED
    BY <2>2, <2>3, <2>4, <2>5, <2>6, <2>7
<1> QED
  BY <1>5, <1>6

LEMMA PublishCopies ==
  ASSUME IInv, IInv', CopiesInv, NEW r \in Relays, PublishOk(r) \/ PublishError(r)
  PROVE  CopiesInv'
<1>1. PICK x \in batch[r] :
        /\ current' = [current EXCEPT ![r] = x]
        /\ topic' \in {topic, Append(topic, x)}
        /\ pc' = [pc EXCEPT ![r] = "mark"] \/ pc' = [pc EXCEPT ![r] = "release"]
  BY DEF PublishOk, PublishError, AfterPublish
<1>2. UNCHANGED <<rows, batch>> /\ pc[r] = "publish" /\ x \in Events
  BY DEF PublishOk, PublishError, IInv, TypeOK
<1> SUFFICES ASSUME NEW e \in Events
             PROVE  Copies(e)' + Cardinality(Debtors(e)') <= attempts'[e]
  BY DEF CopiesInv
<1>3. \A q \in Relays \ {r} : Owes(q, e)' <=> Owes(q, e)
  BY <1>1, <1>2 DEF IInv, TypeOK, Owes
<1>4. (Owes(r, e)' => Owes(r, e)) /\ (e = x => Owes(r, e) /\ ~Owes(r, e)')
  BY <1>1, <1>2 DEF IInv, TypeOK, Owes
<1>5. attempts' = attempts /\ Debtors(e)' \subseteq Debtors(e)
  BY <1>2, <1>3, <1>4 DEF Debtors, rows
<1>6. CASE topic' = topic
  BY <1>5, <1>6, NoNewDebt DEF IInv
<1>7. Copies(e) \in Nat /\ Cardinality(Debtors(e)) \in Nat /\ attempts[e] \in Nat
  BY Counts DEF IInv
<1>8. CASE topic' = Append(topic, x)
  <2>1. CASE e # x
    <3>1. Copies(e)' = Copies(e)
      BY <2>1, <1>2, <1>8, AppendCopies DEF IInv
    <3>2. Cardinality(Debtors(e)') <= Cardinality(Debtors(e)) /\ Cardinality(Debtors(e)') \in Nat
      BY <1>5, Counts, FS_Subset, FS_CardinalityType DEF IInv
    <3>3. Copies(e) + Cardinality(Debtors(e)) <= attempts[e]
      BY DEF CopiesInv
    <3> QED
      BY <3>1, <3>2, <3>3, <1>5, <1>7
  <2>2. CASE e = x
    <3>1. Copies(e)' = Copies(e) + 1
      BY <2>2, <1>2, <1>8, AppendCopies DEF IInv
    <3>2. Debtors(e)' = Debtors(e) \ {r} /\ r \in Debtors(e)
      BY <2>2, <1>3, <1>4 DEF Debtors
    <3>3. Cardinality(Debtors(e)') = Cardinality(Debtors(e)) - 1
      BY <3>2, Counts, FS_RemoveElement DEF IInv
    <3>4. Copies(e) + Cardinality(Debtors(e)) <= attempts[e]
      BY DEF CopiesInv
    <3> QED
      BY <3>1, <3>3, <3>4, <1>5, <1>7
  <2> QED
    BY <2>1, <2>2
<1> QED
  BY <1>1, <1>6, <1>8

LEMMA NextCopies == IInv /\ IInv' /\ CopiesInv /\ [Next]_vars => CopiesInv'
<1> SUFFICES ASSUME IInv, IInv', CopiesInv, [Next]_vars PROVE CopiesInv'
  OBVIOUS
\* Every other step leaves the topic and the attempts alone and frees debtors.
<1>1. ASSUME UNCHANGED <<topic, attempts>>,
             \A r \in Relays, e \in Events : Owes(r, e)' => Owes(r, e)
      PROVE  CopiesInv'
  <2>1. ASSUME NEW e \in Events
        PROVE  Copies(e)' + Cardinality(Debtors(e)') <= attempts'[e]
    <3>1. Debtors(e)' \subseteq Debtors(e)
      BY <1>1 DEF Debtors
    <3> QED
      BY <1>1, <3>1, NoNewDebt DEF IInv
  <2> QED
    BY <2>1 DEF CopiesInv
<1>2. CASE Enqueue \/ Tick \/ UNCHANGED vars
  BY <1>1, <1>2 DEF Enqueue, Tick, vars, relays, Owes
<1>3. ASSUME NEW r \in Relays, RelayStep(r) PROVE CopiesInv'
  <2>1. CASE Claim(r)
    BY <2>1, ClaimCopies
  <2>2. CASE PollEmpty(r)
    BY <1>1, <2>2 DEF PollEmpty, vars, Owes
  <2>3. CASE ClaimLegacy(r) \/ Restart(r)
    <3>1. UNCHANGED <<topic, attempts, batch, current>>
      BY <2>3 DEF ClaimLegacy, Restart, rows
    <3>2. ASSUME NEW q \in Relays, NEW e \in Events, Owes(q, e)' PROVE Owes(q, e)
      <4>1. CASE q = r
        BY <4>1, <2>3, <3>1, <3>2 DEF ClaimLegacy, Restart, IInv, BatchInv, Owes
      <4>2. CASE q # r
        BY <4>2, <2>3, <3>1, <3>2 DEF ClaimLegacy, Restart, IInv, TypeOK, Owes
      <4> QED
        BY <4>1, <4>2
    <3> QED
      BY <1>1, <3>1, <3>2
  <2>4. CASE PublishOk(r) \/ PublishError(r)
    BY <2>4, PublishCopies
  <2>5. CASE MarkPublished(r) \/ ReleaseForRetry(r)
    <3>1. /\ UNCHANGED <<topic, attempts>>
          /\ NextRecord(r)
          /\ pc[r] \in {"mark", "release"}
      BY <2>5 DEF MarkPublished, ReleaseForRetry
    <3>2. ASSUME NEW q \in Relays, NEW e \in Events, Owes(q, e)' PROVE Owes(q, e)
      BY <3>1, <3>2 DEF NextRecord, IInv, TypeOK, Owes
    <3> QED
      BY <1>1, <3>1, <3>2
  <2>6. CASE LeaseLost(r) \/ Crash(r)
    <3>1. UNCHANGED <<topic, attempts>> /\ Abandon(r)
      BY <2>6 DEF LeaseLost, Crash, rows
    <3>2. ASSUME NEW q \in Relays, NEW e \in Events, Owes(q, e)' PROVE Owes(q, e)
      BY <3>1, <3>2 DEF Abandon, IInv, TypeOK, Owes
    <3> QED
      BY <1>1, <3>1, <3>2
  <2> QED
    BY <1>3, <2>1, <2>2, <2>3, <2>4, <2>5, <2>6 DEF RelayStep
<1> QED
  BY <1>2, <1>3 DEF Next

LEMMA InitCopies == Init => CopiesInv
<1> SUFFICES ASSUME Init, NEW e \in Events
             PROVE  Copies(e) + Cardinality(Debtors(e)) <= attempts[e]
  BY DEF CopiesInv
<1>1. {i \in DOMAIN topic : topic[i] = e} = {}
  BY DEF Init
<1>2. Debtors(e) = {}
  BY DEF Init, Debtors, Owes
<1> QED
  BY <1>1, <1>2, FS_EmptySet DEF Copies, Init

\* The attempts column bounds the copies a consumer can meet, whatever crashes,
\* loses its lease or fails.
THEOREM CopiesBounded == Spec => []CopiesWithinAttempts
<1>1. IInv /\ CopiesInv => CopiesWithinAttempts
  <2> SUFFICES ASSUME IInv, CopiesInv, NEW e \in Events PROVE Copies(e) <= attempts[e]
    BY DEF CopiesWithinAttempts
  <2>1. Copies(e) + Cardinality(Debtors(e)) <= attempts[e]
    BY DEF CopiesInv
  <2>2. Copies(e) \in Nat /\ Cardinality(Debtors(e)) \in Nat /\ attempts[e] \in Nat
    BY Counts DEF IInv
  <2> QED
    BY <2>1, <2>2
<1> QED
  BY <1>1, Invariance, InitCopies, NextCopies, PTL DEF Spec, SafeSpec

(***************************************************************************)
(* Duplicates come from faults only.  Until the first fault every record a *)
(* relay has claimed is still under that relay's lease, so no row is ever  *)
(* claimed a second time.                                                  *)
(***************************************************************************)
FaultFree ==
    /\ \A r \in Relays : pc[r] # "release"
    /\ \A r \in Relays : \A e \in batch[r] :
         leaseToken[e] = token[r] /\ leaseLeft[e] > 0 /\ ~published[e]
    /\ \A e \in Events :
         /\ attempts[e] <= 1
         /\ attempts[e] = 1 => published[e] \/ \E r \in Relays : e \in batch[r]

FaultFreeInv == faults = 0 => FaultFree

LEMMA ClaimFaultFree ==
  ASSUME IInv, FaultFree, NEW r \in Relays, Claim(r)
  PROVE  FaultFree'
<1>1. PICK locked \in LockedByOthers(r) : LeaseBatch(r, Oldest(Claimable \ locked))
  BY DEF Claim
<1> DEFINE C == Oldest(Claimable \ locked)
<1>2. \A e \in C : e \in Events /\ ~published[e] /\ leaseLeft[e] = 0
  BY OutboxAssumption DEF Oldest, Claimable, IInv, TypeOK, Events
<1>3. LeaseBatch(r, C)
  BY <1>1
<1> HIDE DEF C
<1>4. /\ pc' = [pc EXCEPT ![r] = "publish"]
      /\ published' = published
      /\ batch[r] = {}
  BY DEF Claim, IInv, BatchInv
<1>5. \A e \in C : attempts[e] = 0 /\ \A q \in Relays : e \notin batch[q]
  <2>1. \A e \in C : \A q \in Relays : e \notin batch[q]
    BY <1>2 DEF FaultFree
  <2> QED
    BY <2>1, <1>2 DEF FaultFree, IInv, TypeOK
<1>6. \A q \in Relays : pc'[q] # "release"
  BY <1>4 DEF FaultFree, IInv, TypeOK
<1>7. ASSUME NEW q \in Relays, NEW e \in batch'[q]
      PROVE  leaseToken'[e] = token'[q] /\ leaseLeft'[e] > 0 /\ ~published'[e]
  <2>1. CASE q = r
    <3>1. e \in C /\ token'[r] = nextToken
      BY <2>1, <1>3, <1>7 DEF LeaseBatch, IInv, TypeOK
    <3> QED
      BY <2>1, <3>1, <1>2, <1>3, <1>4, OutboxAssumption DEF LeaseBatch
  <2>2. CASE q # r
    <3>1. e \in batch[q] /\ token'[q] = token[q]
      BY <2>2, <1>3, <1>7 DEF LeaseBatch, IInv, TypeOK
    <3>2. e \notin C /\ e \in Events
      BY <3>1, <1>5 DEF IInv, TypeOK
    <3> QED
      BY <3>1, <3>2, <1>3, <1>4 DEF LeaseBatch, FaultFree
  <2> QED
    BY <2>1, <2>2
<1>8. ASSUME NEW e \in Events
      PROVE  /\ attempts'[e] <= 1
             /\ attempts'[e] = 1 => published'[e] \/ \E q \in Relays : e \in batch'[q]
  <2>1. CASE e \in C
    <3>1. e \in batch'[r] /\ attempts'[e] = 1
      BY <2>1, <1>3, <1>5 DEF LeaseBatch, IInv, TypeOK
    <3> QED
      BY <3>1
  <2>2. CASE e \notin C
    <3>1. attempts'[e] = attempts[e]
      BY <2>2, <1>3 DEF LeaseBatch
    <3>2. ASSUME NEW q \in Relays, e \in batch[q] PROVE e \in batch'[q]
      BY <3>2, <1>3, <1>4 DEF LeaseBatch, IInv, TypeOK
    <3> QED
      BY <3>1, <3>2, <1>4 DEF FaultFree
  <2> QED
    BY <2>1, <2>2
<1> QED
  BY <1>6, <1>7, <1>8 DEF FaultFree

LEMMA MarkPublishedFaultFree ==
  ASSUME IInv, FaultFree, NEW r \in Relays, MarkPublished(r)
  PROVE  FaultFree'
<1>1. PICK e \in Events : e = current[r]
  BY CurrentRecord DEF MarkPublished
<1>2. /\ published' = [published EXCEPT ![e] = TRUE]
      /\ leaseToken' = [leaseToken EXCEPT ![e] = NoToken]
      /\ leaseLeft'  = [leaseLeft EXCEPT ![e] = 0]
      /\ batch' = [batch EXCEPT ![r] = batch[r] \ {e}]
      /\ pc'[r] \in {"idle", "publish"}
      /\ \A q \in Relays \ {r} : pc'[q] = pc[q]
      /\ UNCHANGED <<attempts, token>>
      /\ e \in batch[r]
  BY <1>1, CurrentRecord DEF MarkPublished, ClearLease, NextRecord, IInv, TypeOK
<1>3. \A q \in Relays \ {r} : e \notin batch[q]
  BY <1>2 DEF FaultFree, IInv, TokenInv
<1>4. \A q \in Relays : e \notin batch'[q] /\ batch'[q] \subseteq batch[q]
  BY <1>2, <1>3 DEF IInv, TypeOK
<1>5. \A q \in Relays : pc'[q] # "release"
  BY <1>2 DEF FaultFree
<1>6. ASSUME NEW q \in Relays, NEW x \in batch'[q]
      PROVE  leaseToken'[x] = token'[q] /\ leaseLeft'[x] > 0 /\ ~published'[x]
  <2>1. x # e /\ x \in batch[q] /\ x \in Events
    BY <1>4, <1>6 DEF IInv, TypeOK
  <2> QED
    BY <2>1, <1>2 DEF FaultFree, IInv, TypeOK
<1>7. ASSUME NEW x \in Events
      PROVE  /\ attempts'[x] <= 1
             /\ attempts'[x] = 1 => published'[x] \/ \E q \in Relays : x \in batch'[q]
  <2>1. CASE x = e
    BY <2>1, <1>2 DEF FaultFree, IInv, TypeOK
  <2>2. CASE x # e
    <3>1. \A q \in Relays : x \in batch[q] => x \in batch'[q]
      BY <2>2, <1>2 DEF IInv, TypeOK
    <3> QED
      BY <2>2, <3>1, <1>2 DEF FaultFree, IInv, TypeOK
  <2> QED
    BY <2>1, <2>2
<1> QED
  BY <1>5, <1>6, <1>7 DEF FaultFree

LEMMA TickFaultFree ==
  ASSUME IInv, FaultFree, Tick, faults = 0, faults' = 0
  PROVE  FaultFree'
<1>1. ~Overrun
  BY DEF Tick
<1>2. UNCHANGED <<published, attempts, leaseToken, relays>>
  BY DEF Tick
<1>3. leaseLeft' = [e \in Events |-> Down(leaseLeft[e])]
  BY DEF Tick
<1>4. \A r \in Relays : \A e \in batch[r] : e \in Events /\ leaseLeft[e] > 1
  BY <1>1, OutboxAssumption DEF Overrun, AtWork, FaultFree, IInv, TypeOK
<1>5. \A r \in Relays : \A e \in batch[r] : leaseLeft'[e] > 0
  BY <1>3, <1>4, OutboxAssumption DEF Down, IInv, TypeOK
<1> QED
  BY <1>2, <1>5 DEF FaultFree, relays

LEMMA NextFaultFree == IInv /\ FaultFreeInv /\ [Next]_vars => FaultFreeInv'
<1> SUFFICES ASSUME IInv, FaultFreeInv, [Next]_vars, faults' = 0 PROVE FaultFree'
  BY DEF FaultFreeInv
<1>1. faults = 0 /\ faults' = faults
  <2>1. CASE Enqueue \/ Tick \/ UNCHANGED vars
    BY <2>1 DEF Enqueue, Tick, vars, IInv, TypeOK
  <2>2. ASSUME NEW r \in Relays, RelayStep(r) PROVE faults' \in {faults, faults + 1}
    <3>1. CASE Claim(r) \/ PollEmpty(r) \/ ClaimLegacy(r) \/ PublishOk(r) \/ Restart(r)
      BY <3>1 DEF Claim, PollEmpty, ClaimLegacy, PublishOk, Restart, vars
    <3>2. CASE MarkPublished(r) \/ ReleaseForRetry(r) \/ LeaseLost(r)
      BY <3>2 DEF MarkPublished, ReleaseForRetry, LeaseLost
    <3>3. CASE PublishError(r) \/ Crash(r)
      BY <3>3 DEF PublishError, Crash
    <3> QED
      BY <2>2, <3>1, <3>2, <3>3 DEF RelayStep
  <2> QED
    BY <2>1, <2>2 DEF Next, IInv, TypeOK
<1>2. FaultFree
  BY <1>1 DEF FaultFreeInv
<1>3. CASE Enqueue \/ UNCHANGED vars
  BY <1>2, <1>3 DEF Enqueue, vars, relays, FaultFree
<1>4. CASE Tick
  BY <1>1, <1>2, <1>4, TickFaultFree
<1>5. ASSUME NEW r \in Relays, RelayStep(r) PROVE FaultFree'
  <2>1. CASE Claim(r)
    BY <1>2, <2>1, ClaimFaultFree
  <2>2. CASE PollEmpty(r)
    BY <1>2, <2>2 DEF PollEmpty, vars, FaultFree
  <2>3. CASE ClaimLegacy(r) \/ Restart(r)
    BY <1>2, <2>3 DEF ClaimLegacy, Restart, rows, FaultFree, IInv, TypeOK
  <2>4. CASE PublishOk(r)
    BY <1>2, <2>4 DEF PublishOk, AfterPublish, rows, FaultFree, IInv, TypeOK
  <2>5. CASE PublishError(r) \/ Crash(r)
    BY <1>1, <2>5 DEF PublishError, Crash, IInv, TypeOK
  <2>6. CASE MarkPublished(r)
    BY <1>2, <2>6, MarkPublishedFaultFree
  <2>7. CASE ReleaseForRetry(r)
    BY <1>2, <2>7 DEF ReleaseForRetry, FaultFree
  <2>8. CASE LeaseLost(r)
    <3>1. HoldsLease(r)
      BY <1>2, <2>8, CurrentRecord DEF LeaseLost, FaultFree, HoldsLease
    <3> QED
      BY <3>1, <2>8 DEF LeaseLost
  <2> QED
    BY <1>5, <2>1, <2>2, <2>3, <2>4, <2>5, <2>6, <2>7, <2>8 DEF RelayStep
<1> QED
  BY <1>3, <1>4, <1>5 DEF Next

\* Relays polling the same tenant do not duplicate events by themselves: SKIP
\* LOCKED claims and leases that outlive the work keep the topic free of copies.
THEOREM NoDuplicateWithoutFault == Spec => []NoFaultNoDuplicate
<1>1. Init => FaultFreeInv
  BY DEF Init, FaultFreeInv, FaultFree
<1>2. IInv /\ CopiesInv /\ FaultFreeInv => NoFaultNoDuplicate
  <2> SUFFICES ASSUME IInv, CopiesInv, FaultFreeInv, faults = 0, NEW e \in Events
               PROVE  Copies(e) <= 1
    BY DEF NoFaultNoDuplicate
  <2>1. Copies(e) + Cardinality(Debtors(e)) <= attempts[e] /\ attempts[e] <= 1
    BY DEF CopiesInv, FaultFreeInv, FaultFree
  <2>2. Copies(e) \in Nat /\ Cardinality(Debtors(e)) \in Nat /\ attempts[e] \in Nat
    BY Counts DEF IInv
  <2> QED
    BY <2>1, <2>2
<1> QED
  BY <1>1, <1>2, NextFaultFree, Invariance, InitCopies, NextCopies, PTL DEF Spec, SafeSpec

\* The relays' duplicates are accounted for: by attempts always, by faults at all.
THEOREM DuplicatesAccounted == Spec => []DuplicatesBounded
  BY CopiesBounded, NoDuplicateWithoutFault, PTL DEF DuplicatesBounded

===============================================================================
