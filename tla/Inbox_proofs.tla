---------------------------- MODULE Inbox_proofs ----------------------------
(***************************************************************************)
(* Proofs about the consumer inbox.                                        *)
(***************************************************************************)
EXTENDS Inbox, TLAPS

\* An instant cut to microseconds stays what it is when it is cut again.
LEMMA MicroTwice == ASSUME NEW t \in Nat PROVE Micro(t) \in Nat /\ Micro(Micro(t)) = Micro(t)
<1>1. t % 2 \in 0 .. 1 /\ t % 2 <= t
  OBVIOUS
<1>2. (t - (t % 2)) % 2 = 0
  OBVIOUS
<1> QED  BY <1>1, <1>2 DEF Micro

\* The fingerprint comparison answers the question it is there for: whether the
\* receipt was written for the same event.
LEMMA MatchesIsSame ==
    ASSUME NEW x \in Deliveries, NEW d \in Deliveries, x.id = d.id
    PROVE  Matches(ReceiptOf(x), d) <=> Same(ReceiptOf(x).envelope, d)
<1>1. Micro(Micro(x.time)) = Micro(x.time)
  BY InboxAssumption, MicroTwice
<1>2. ReceiptOf(x).envelope = [id |-> x.id, body |-> x.body,
                               time |-> IF RetainTime THEN Micro(x.time) ELSE x.time]
  BY DEF ReceiptOf, Envelope
<1>3. RetainTime => ReceiptOf(x).observed = Micro(x.time)
  BY <1>1 DEF ReceiptOf, Envelope
<1> QED  BY <1>2, <1>3, InboxAssumption DEF Matches, Same
-----------------------------------------------------------------------------
\* The receipt of an id was written for a delivery of that id.
ReceiptInv ==
    \A i \in Ids : receipts[i] # None =>
        \E x \in Deliveries : x.id = i /\ receipts[i] = ReceiptOf(x)

\* A transaction past its lock statement holds the lock of its event.
LockInv ==
    \A w \in Workers : InTransaction(w) => lock[Key(w)] = w

\* What the check read is still so when the receipt is written.
FreshInv ==
    \A w \in Workers : pc[w] \in {"insert", "commit"} => receipts[item[w].id] = None

\* The answer a worker is about to give is the right one.
AnswerInv ==
    \A w \in Workers :
        /\ pc[w] = "accept" => /\ receipts[item[w].id] # None
                               /\ Same(receipts[item[w].id].envelope, item[w])
        /\ pc[w] = "reject" => /\ receipts[item[w].id] # None
                               /\ ~Same(receipts[item[w].id].envelope, item[w])

IInv ==
    /\ TypeOK
    /\ ReceiptInv
    /\ LockInv
    /\ FreshInv
    /\ AnswerInv
    /\ EffectWithReceipt
    /\ AnswersAreTrue

\* The delivery a busy worker handles, and its id and key.
LEMMA BusyItem ==
    ASSUME TypeOK, NEW w \in Workers, pc[w] # "idle"
    PROVE  item[w] \in Deliveries /\ item[w].id \in Ids /\ Key(w) \in Keys
<1>1. item[w] \in Deliveries
  BY DEF TypeOK
<1>2. item[w].id \in Ids
  BY <1>1 DEF Ids
<1> QED  BY <1>1, <1>2 DEF Keys, Key

\* Two transactions past the lock handle different keys, so different events.
LEMMA OneHolder ==
    ASSUME TypeOK, LockInv, NEW v \in Workers, NEW w \in Workers, v # w,
           InTransaction(v), InTransaction(w)
    PROVE  item[v].id # item[w].id
  BY DEF LockInv, Key

\* A receipt fits the type whatever delivery it was written for.
LEMMA ReceiptType ==
    ASSUME NEW d \in Deliveries
    PROVE  /\ Envelope(d) \in {Envelope(x) : x \in Deliveries}
           /\ ReceiptOf(d) \in [envelope : {Envelope(x) : x \in Deliveries}, observed : Nat]
           /\ ReceiptOf(d).envelope = Envelope(d)
           /\ ReceiptOf(d) # None
           /\ Same(Envelope(d), d)
<1>1. Envelope(d).time \in Nat
  BY InboxAssumption, MicroTwice DEF Envelope
<1>2. Micro(Envelope(d).time) \in Nat
  BY <1>1, MicroTwice
<1>3. Same(Envelope(d), d)
  BY InboxAssumption DEF Same, Envelope
<1> QED  BY <1>2, <1>3, NoneAssumption DEF ReceiptOf

LEMMA InitIInv == Init => IInv
<1> SUFFICES ASSUME Init PROVE IInv
  OBVIOUS
<1>1. TypeOK
  BY InboxAssumption DEF Init, TypeOK
<1> QED
  BY <1>1, InboxAssumption
     DEF Init, IInv, ReceiptInv, LockInv, FreshInv, AnswerInv, EffectWithReceipt,
         AnswersAreTrue, InTransaction

\* Releasing the lock of a transaction that ends takes no lock from another.
LEMMA OthersKeepLocks ==
    ASSUME TypeOK, LockInv, NEW w \in Workers, Release(w), pc'[w] \notin {"check", "insert", "commit"},
           \A v \in Workers \ {w} : pc'[v] = pc[v] /\ item'[v] = item[v]
    PROVE  LockInv'
<1> SUFFICES ASSUME NEW v \in Workers, InTransaction(v)' PROVE (lock[Key(v)] = v)'
  BY DEF LockInv
<1>1. v # w
  BY DEF InTransaction
<1>2. InTransaction(v) /\ item'[v] = item[v] /\ pc[v] # "idle"
  BY <1>1 DEF InTransaction
<1>3. lock[Key(v)] = v /\ Key(v) \in Keys
  BY <1>2, BusyItem DEF LockInv
<1> QED  BY <1>1, <1>2, <1>3 DEF Key, Release

\* Every step preserves the invariant.
LEMMA StepIInv == IInv /\ [Next]_vars => IInv'
<1> SUFFICES ASSUME IInv, [Next]_vars PROVE IInv'
  OBVIOUS
<1> USE InboxAssumption
<1>0. /\ TypeOK /\ ReceiptInv /\ LockInv /\ FreshInv /\ AnswerInv
      /\ EffectWithReceipt /\ AnswersAreTrue
  BY DEF IInv
<1>1. ASSUME NEW w \in Workers, NEW d \in Deliveries, Begin(w, d) PROVE IInv'
  <2>0. UNCHANGED <<receipts, effects, lock, accepted, rejected>>
    BY <1>1 DEF Begin, answers, bounds
  <2>1. TypeOK'
    BY <1>0, <1>1 DEF TypeOK, Begin, Step, answers, bounds
  <2>2. LockInv'
    BY <1>0, <1>1 DEF TypeOK, LockInv, InTransaction, Key, Begin, Step, answers, bounds
  <2>3. FreshInv' /\ AnswerInv'
    BY <1>0, <1>1 DEF TypeOK, FreshInv, AnswerInv, Begin, Step, answers, bounds
  <2> QED
    BY <1>0, <2>0, <2>1, <2>2, <2>3
       DEF IInv, ReceiptInv, EffectWithReceipt, AnswersAreTrue
<1>2. ASSUME NEW w \in Workers, NEW d \in Deliveries, BeginAgain(w, d) PROVE IInv'
  <2>0. UNCHANGED <<receipts, effects, lock, accepted, rejected>>
    BY <1>2 DEF BeginAgain, answers, bounds
  <2>1. TypeOK'
    BY <1>0, <1>2 DEF TypeOK, BeginAgain, Step, answers, bounds
  <2>2. LockInv'
    BY <1>0, <1>2 DEF TypeOK, LockInv, InTransaction, Key, BeginAgain, Step, answers, bounds
  <2>3. FreshInv' /\ AnswerInv'
    BY <1>0, <1>2 DEF TypeOK, FreshInv, AnswerInv, BeginAgain, Step, answers, bounds
  <2> QED
    BY <1>0, <2>0, <2>1, <2>2, <2>3
       DEF IInv, ReceiptInv, EffectWithReceipt, AnswersAreTrue
<1>3. ASSUME NEW w \in Workers, Lock(w) PROVE IInv'
  <2>0. UNCHANGED <<receipts, effects, item, accepted, rejected>> /\ pc[w] # "idle"
    BY <1>3 DEF Lock, Step, answers, bounds
  <2>1. item[w] \in Deliveries /\ item[w].id \in Ids /\ Key(w) \in Keys
    BY <1>0, <2>0, BusyItem
  <2>2. TypeOK'
    BY <1>0, <1>3, <2>1 DEF TypeOK, Lock, Step, Release, answers, bounds
  <2>3. LockInv'
    BY <1>0, <1>3, <2>1 DEF TypeOK, LockInv, InTransaction, Key, Lock, Step, LockFree, answers, bounds
  <2>4. FreshInv'
    BY <1>0, <1>3 DEF TypeOK, FreshInv, Lock, Step, answers, bounds
  <2>5. AnswerInv'
    BY <1>0, <1>3 DEF TypeOK, AnswerInv, Lock, Step, answers, bounds
  <2> QED
    BY <1>0, <2>0, <2>2, <2>3, <2>4, <2>5
       DEF IInv, ReceiptInv, EffectWithReceipt, AnswersAreTrue
<1>4. ASSUME NEW w \in Workers, Duplicate(w) PROVE IInv'
  <2>0. UNCHANGED <<receipts, effects, item, accepted, rejected>> /\ pc[w] # "idle"
    BY <1>4 DEF Duplicate, Step, answers, bounds
  <2>1. item[w] \in Deliveries /\ item[w].id \in Ids /\ Key(w) \in Keys
    BY <1>0, <2>0, BusyItem
  <2>2. TypeOK'
    BY <1>0, <1>4, <2>1 DEF TypeOK, Duplicate, Step, Release, answers, bounds
  <2>3. LockInv'
    <3>1. /\ Release(w) /\ pc'[w] \notin {"check", "insert", "commit"}
          /\ \A v \in Workers \ {w} : pc'[v] = pc[v] /\ item'[v] = item[v]
      BY <1>0, <1>4 DEF TypeOK, Duplicate, Step
    <3> QED  BY <1>0, <3>1, OthersKeepLocks
  <2>4. FreshInv'
    BY <1>0, <1>4 DEF TypeOK, FreshInv, Duplicate, Step, answers, bounds
  <2>6. Matches(receipts[item[w].id], item[w]) <=> Same(receipts[item[w].id].envelope, item[w])
    BY <1>0, <1>4, <2>1, MatchesIsSame DEF ReceiptInv, Duplicate
  <2>5. AnswerInv'
    BY <1>0, <1>4, <2>6 DEF TypeOK, AnswerInv, Duplicate, Step, answers, bounds
  <2> QED
    BY <1>0, <2>0, <2>2, <2>3, <2>4, <2>5
       DEF IInv, ReceiptInv, EffectWithReceipt, AnswersAreTrue
<1>5. ASSUME NEW w \in Workers, Collision(w) PROVE IInv'
  <2>0. UNCHANGED <<receipts, effects, item, accepted, rejected>> /\ pc[w] # "idle"
    BY <1>5 DEF Collision, Step, answers, bounds
  <2>1. item[w] \in Deliveries /\ item[w].id \in Ids /\ Key(w) \in Keys
    BY <1>0, <2>0, BusyItem
  <2>2. TypeOK'
    BY <1>0, <1>5, <2>1 DEF TypeOK, Collision, Step, Release, answers, bounds
  <2>3. LockInv'
    <3>1. /\ Release(w) /\ pc'[w] \notin {"check", "insert", "commit"}
          /\ \A v \in Workers \ {w} : pc'[v] = pc[v] /\ item'[v] = item[v]
      BY <1>0, <1>5 DEF TypeOK, Collision, Step
    <3> QED  BY <1>0, <3>1, OthersKeepLocks
  <2>4. FreshInv'
    BY <1>0, <1>5 DEF TypeOK, FreshInv, Collision, Step, answers, bounds
  <2>6. Matches(receipts[item[w].id], item[w]) <=> Same(receipts[item[w].id].envelope, item[w])
    BY <1>0, <1>5, <2>1, MatchesIsSame DEF ReceiptInv, Collision
  <2>5. AnswerInv'
    BY <1>0, <1>5, <2>6 DEF TypeOK, AnswerInv, Collision, Step, answers, bounds
  <2> QED
    BY <1>0, <2>0, <2>2, <2>3, <2>4, <2>5
       DEF IInv, ReceiptInv, EffectWithReceipt, AnswersAreTrue
<1>6. ASSUME NEW w \in Workers, Handle(w) PROVE IInv'
  <2>0. UNCHANGED <<receipts, effects, item, accepted, rejected>> /\ pc[w] # "idle"
    BY <1>6 DEF Handle, Step, answers, bounds
  <2>1. item[w] \in Deliveries /\ item[w].id \in Ids /\ Key(w) \in Keys
    BY <1>0, <2>0, BusyItem
  <2>2. TypeOK'
    BY <1>0, <1>6, <2>1 DEF TypeOK, Handle, Step, Release, answers, bounds
  <2>3. LockInv'
    BY <1>0, <1>6, <2>1 DEF TypeOK, LockInv, InTransaction, Key, Handle, Step, LockFree, answers, bounds
  <2>4. FreshInv'
    BY <1>0, <1>6 DEF TypeOK, FreshInv, Handle, Step, answers, bounds
  <2>5. AnswerInv'
    BY <1>0, <1>6 DEF TypeOK, AnswerInv, Handle, Step, answers, bounds
  <2> QED
    BY <1>0, <2>0, <2>2, <2>3, <2>4, <2>5
       DEF IInv, ReceiptInv, EffectWithReceipt, AnswersAreTrue
<1>7. ASSUME NEW w \in Workers, InsertReceipt(w) PROVE IInv'
  <2>0. UNCHANGED <<receipts, effects, item, accepted, rejected>> /\ pc[w] # "idle"
    BY <1>7 DEF InsertReceipt, Step, answers, bounds
  <2>1. item[w] \in Deliveries /\ item[w].id \in Ids /\ Key(w) \in Keys
    BY <1>0, <2>0, BusyItem
  <2>2. TypeOK'
    BY <1>0, <1>7, <2>1 DEF TypeOK, InsertReceipt, Step, Release, answers, bounds
  <2>3. LockInv'
    BY <1>0, <1>7, <2>1 DEF TypeOK, LockInv, InTransaction, Key, InsertReceipt, Step, LockFree, answers, bounds
  <2>4. FreshInv'
    BY <1>0, <1>7 DEF TypeOK, FreshInv, InsertReceipt, Step, answers, bounds
  <2>5. AnswerInv'
    BY <1>0, <1>7 DEF TypeOK, AnswerInv, InsertReceipt, Step, answers, bounds
  <2> QED
    BY <1>0, <2>0, <2>2, <2>3, <2>4, <2>5
       DEF IInv, ReceiptInv, EffectWithReceipt, AnswersAreTrue
<1>8. ASSUME NEW w \in Workers, pc[w] = "commit", CommitWrites(w),
             pc' \in [Workers -> {"idle", "lock", "check", "insert", "commit", "accept", "reject"}],
             item' \in [Workers -> Deliveries \cup {None}],
             \A v \in Workers \ {w} : pc'[v] = pc[v] /\ item'[v] = item[v],
             \/ pc'[w] = "accept" /\ item'[w] = item[w]
             \/ pc'[w] = "idle" /\ item'[w] = None,
             faults' \in Nat, redelivered' \in Nat, UNCHANGED answers
      PROVE  IInv'
  <2> DEFINE i == item[w].id
  <2>1. item[w] \in Deliveries /\ i \in Ids /\ Key(w) \in Keys
    BY <1>0, <1>8, BusyItem
  <2>2. receipts[i] = None /\ effects[i] = <<>>
    BY <1>0, <1>8, <2>1 DEF FreshInv, EffectWithReceipt
  <2>3. /\ receipts' = [receipts EXCEPT ![i] = ReceiptOf(item[w])]
        /\ effects'  = [effects EXCEPT ![i] = Append(@, Envelope(item[w]))]
        /\ lock' = [k \in Keys |-> IF lock[k] = w THEN None ELSE lock[k]]
    BY <1>8 DEF CommitWrites, Release
  <2>4. /\ ReceiptOf(item[w]) # None
        /\ ReceiptOf(item[w]).envelope = Envelope(item[w])
        /\ ReceiptOf(item[w]) \in [envelope : {Envelope(x) : x \in Deliveries}, observed : Nat]
        /\ Envelope(item[w]) \in {Envelope(x) : x \in Deliveries}
        /\ Same(Envelope(item[w]), item[w])
    BY <2>1, ReceiptType
  <2>5. effects'[i] = <<Envelope(item[w])>> /\ receipts'[i] = ReceiptOf(item[w])
    BY <1>0, <2>1, <2>2, <2>3 DEF TypeOK
  <2>6. \A j \in Ids \ {i} : effects'[j] = effects[j] /\ receipts'[j] = receipts[j]
    BY <1>0, <2>1, <2>3 DEF TypeOK
  <2>7. TypeOK'
    <3>1. effects' \in [Ids -> Seq({Envelope(d) : d \in Deliveries})]
      BY <1>0, <2>1, <2>2, <2>3, <2>4 DEF TypeOK
    <3>2. receipts' \in [Ids -> [envelope : {Envelope(d) : d \in Deliveries}, observed : Nat] \cup {None}]
      BY <1>0, <2>1, <2>3, <2>4 DEF TypeOK
    <3>3. lock' \in [Keys -> Workers \cup {None}]
      BY <1>0, <2>3 DEF TypeOK
    <3>4. \A v \in Workers : item'[v] = None <=> pc'[v] = "idle"
      BY <1>0, <1>8, <2>1 DEF TypeOK
    <3> QED  BY <1>0, <1>8, <3>1, <3>2, <3>3, <3>4 DEF TypeOK, answers
  <2>8. ReceiptInv'
    BY <1>0, <2>1, <2>5, <2>6 DEF ReceiptInv
  <2>9. LockInv'
    BY <1>0, <1>8, OthersKeepLocks DEF CommitWrites
  <2>10. FreshInv'
    <3> SUFFICES ASSUME NEW v \in Workers, (pc[v] \in {"insert", "commit"})'
                 PROVE  (receipts[item[v].id] = None)'
      BY DEF FreshInv
    <3>1. v # w
      BY <1>8
    <3>2. InTransaction(v) /\ InTransaction(w) /\ item'[v] = item[v] /\ pc[v] \in {"insert", "commit"}
      BY <1>8, <3>1 DEF InTransaction
    <3>3. item[v].id # i /\ item[v].id \in Ids
      BY <1>0, <3>1, <3>2, OneHolder, BusyItem
    <3> QED  BY <1>0, <2>6, <3>2, <3>3 DEF FreshInv
  <2>11. AnswerInv'
    <3> SUFFICES ASSUME NEW v \in Workers, (pc[v] \in {"accept", "reject"})'
                 PROVE  /\ (receipts[item[v].id] # None)'
                        /\ (pc[v] = "accept" => Same(receipts[item[v].id].envelope, item[v]))'
                        /\ (pc[v] = "reject" => ~Same(receipts[item[v].id].envelope, item[v]))'
      BY DEF AnswerInv
    <3>1. CASE v = w
      BY <1>8, <2>4, <2>5, <3>1
    <3>2. CASE v # w
      <4>1. item'[v] = item[v] /\ pc'[v] = pc[v] /\ item[v].id \in Ids
        BY <1>0, <1>8, <3>2, BusyItem
      <4>2. receipts[item[v].id] # None
        BY <1>0, <4>1 DEF AnswerInv
      <4>3. receipts'[item[v].id] = receipts[item[v].id]
        BY <2>2, <2>6, <4>1, <4>2
      <4> QED  BY <1>0, <4>1, <4>2, <4>3 DEF AnswerInv
    <3> QED  BY <3>1, <3>2
  <2>12. EffectWithReceipt'
    BY <1>0, <2>4, <2>5, <2>6 DEF EffectWithReceipt
  <2>13. AnswersAreTrue'
    <3>1. \A d \in accepted \cup rejected : d \in Deliveries /\ d.id \in Ids /\ receipts[d.id] # None
      BY <1>0 DEF TypeOK, AnswersAreTrue, Ids
    <3>2. \A d \in accepted \cup rejected : receipts'[d.id] = receipts[d.id]
      BY <2>2, <2>6, <3>1
    <3> QED  BY <1>0, <1>8, <3>2 DEF AnswersAreTrue, answers
  <2> QED  BY <2>7, <2>8, <2>9, <2>10, <2>11, <2>12, <2>13 DEF IInv
<1>9. ASSUME NEW w \in Workers, Commit(w) PROVE IInv'
  <2>1. /\ pc[w] = "commit" /\ CommitWrites(w) /\ UNCHANGED answers
        /\ pc' = [pc EXCEPT ![w] = "accept"] /\ UNCHANGED <<item, faults, redelivered>>
    BY <1>9 DEF Commit, Step, bounds
  <2>2. /\ pc' \in [Workers -> {"idle", "lock", "check", "insert", "commit", "accept", "reject"}]
        /\ item' \in [Workers -> Deliveries \cup {None}]
        /\ \A v \in Workers \ {w} : pc'[v] = pc[v] /\ item'[v] = item[v]
        /\ pc'[w] = "accept" /\ item'[w] = item[w]
        /\ faults' \in Nat /\ redelivered' \in Nat
    BY <1>0, <2>1 DEF TypeOK
  <2> QED  BY <1>8, <2>1, <2>2
<1>10. ASSUME NEW w \in Workers, Accept(w) PROVE IInv'
  <2>0. /\ UNCHANGED <<receipts, effects, lock, rejected>> /\ pc[w] = "accept"
        /\ accepted' = accepted \cup {item[w]} /\ pc' = [pc EXCEPT ![w] = "idle"]
        /\ item' = [item EXCEPT ![w] = None]
    BY <1>10 DEF Accept, Step, Forget
  <2>1. item[w] \in Deliveries
    BY <1>0, <2>0, BusyItem
  <2>2. TypeOK'
    BY <1>0, <1>10, <2>0, <2>1 DEF TypeOK, Accept, bounds
  <2>3. LockInv'
    BY <1>0, <2>0 DEF TypeOK, LockInv, InTransaction, Key
  <2>4. FreshInv' /\ AnswerInv'
    BY <1>0, <2>0 DEF TypeOK, FreshInv, AnswerInv
  <2>5. AnswersAreTrue'
    BY <1>0, <2>0 DEF AnswersAreTrue, AnswerInv
  <2> QED
    BY <1>0, <2>0, <2>2, <2>3, <2>4, <2>5 DEF IInv, ReceiptInv, EffectWithReceipt
<1>11. ASSUME NEW w \in Workers, Reject(w) PROVE IInv'
  <2>0. /\ UNCHANGED <<receipts, effects, lock, accepted>> /\ pc[w] = "reject"
        /\ rejected' = rejected \cup {item[w]} /\ pc' = [pc EXCEPT ![w] = "idle"]
        /\ item' = [item EXCEPT ![w] = None]
    BY <1>11 DEF Reject, Step, Forget
  <2>1. item[w] \in Deliveries
    BY <1>0, <2>0, BusyItem
  <2>2. TypeOK'
    BY <1>0, <1>11, <2>0, <2>1 DEF TypeOK, Reject, bounds
  <2>3. LockInv'
    BY <1>0, <2>0 DEF TypeOK, LockInv, InTransaction, Key
  <2>4. FreshInv' /\ AnswerInv'
    BY <1>0, <2>0 DEF TypeOK, FreshInv, AnswerInv
  <2>5. AnswersAreTrue'
    BY <1>0, <2>0 DEF AnswersAreTrue, AnswerInv
  <2> QED
    BY <1>0, <2>0, <2>2, <2>3, <2>4, <2>5 DEF IInv, ReceiptInv, EffectWithReceipt
<1>12. ASSUME NEW w \in Workers, Abort(w) PROVE IInv'
  <2>0. /\ UNCHANGED <<accepted, rejected, redelivered>> /\ faults' = faults + 1
        /\ pc' = [pc EXCEPT ![w] = "idle"]
        /\ item' = [item EXCEPT ![w] = None]
    BY <1>12 DEF Abort, Forget, answers
  <2>1. CASE pc[w] = "commit" /\ CommitWrites(w)
    <3>1. /\ pc' \in [Workers -> {"idle", "lock", "check", "insert", "commit", "accept", "reject"}]
          /\ item' \in [Workers -> Deliveries \cup {None}]
          /\ \A v \in Workers \ {w} : pc'[v] = pc[v] /\ item'[v] = item[v]
          /\ pc'[w] = "idle" /\ item'[w] = None
          /\ faults' \in Nat /\ redelivered' \in Nat
      BY <1>0, <2>0 DEF TypeOK
    <3> QED  BY <1>8, <2>0, <2>1, <3>1 DEF answers
  <2>2. CASE LostWrites(w)
    <3>1. TypeOK'
      BY <1>0, <2>0, <2>2 DEF TypeOK, LostWrites, Release
    <3>2. LockInv'
      <4>1. pc'[w] = "idle" /\ \A v \in Workers \ {w} : pc'[v] = pc[v] /\ item'[v] = item[v]
        BY <1>0, <2>0 DEF TypeOK
      <4> QED  BY <1>0, <2>2, <4>1, OthersKeepLocks DEF LostWrites
    <3>3. FreshInv' /\ AnswerInv'
      BY <1>0, <2>0, <2>2 DEF TypeOK, FreshInv, AnswerInv, LostWrites
    <3> QED
      BY <1>0, <2>0, <2>2, <3>1, <3>2, <3>3
         DEF IInv, ReceiptInv, EffectWithReceipt, AnswersAreTrue, LostWrites
  <2> QED  BY <1>12, <2>1, <2>2 DEF Abort
<1>13. CASE UNCHANGED vars
  BY <1>0, <1>13
     DEF IInv, TypeOK, ReceiptInv, LockInv, FreshInv, AnswerInv, EffectWithReceipt,
         AnswersAreTrue, InTransaction, Key, vars
<1> QED
  BY <1>1, <1>2, <1>3, <1>4, <1>5, <1>6, <1>7, <1>9, <1>10, <1>11, <1>12, <1>13 DEF Next, Work

LEMMA Invariance == Spec => []IInv
  BY InitIInv, StepIInv, PTL DEF Spec
-----------------------------------------------------------------------------
\* The tables, locks and workers keep their types.
THEOREM TypeCorrect == Spec => []TypeOK
  BY Invariance, PTL DEF IInv

\* Whatever is delivered, how often, to whom and with which interruptions, an
\* event has one committed effect if it has a receipt, and none otherwise.
THEOREM EffectsOnce == Spec => []EffectWithReceipt
  BY Invariance, PTL DEF IInv

\* A delivery is only answered with success after the effect of its own
\* envelope is committed, and with a collision only because of another one.
THEOREM AnswersTrue == Spec => []AnswersAreTrue
  BY Invariance, PTL DEF IInv

\* From the check for a receipt to the commit no other transaction handles the
\* same event: the primary key never has to decide between two effects.
THEOREM ChecksHold == Spec => []CheckStaysTrue
<1>1. IInv => CheckStaysTrue
  BY OneHolder DEF IInv, FreshInv, CheckStaysTrue, InTransaction
<1> QED  BY <1>1, Invariance, PTL
-----------------------------------------------------------------------------
\* The inbox implements OnceOnly: its commit is the promise's Apply, its two
\* answers are Accept and Reject, and every other step is invisible.
LEMMA InitRefines == Init => Promise!Init
  BY DEF Init, Promise!Init

LEMMA CommitApplies ==
    ASSUME IInv, NEW w \in Workers, pc[w] = "commit", CommitWrites(w), UNCHANGED answers
    PROVE  Promise!Next
<1>1. item[w] \in Deliveries /\ item[w].id \in Ids
  BY BusyItem DEF IInv
<1>2. effects[item[w].id] = <<>>
  BY <1>1 DEF IInv, FreshInv, EffectWithReceipt
<1>3. effects' = [effects EXCEPT ![item[w].id] = <<Envelope(item[w])>>]
  BY <1>1, <1>2 DEF CommitWrites
<1>4. Promise!Apply(item[w])
  BY <1>2, <1>3 DEF Promise!Apply, answers
<1> QED  BY <1>1, <1>4 DEF Promise!Next

LEMMA StepRefines == IInv /\ [Next]_vars => [Promise!Next]_(Promise!vars)
<1> SUFFICES ASSUME IInv, [Next]_vars PROVE [Promise!Next]_(Promise!vars)
  OBVIOUS
<1>1. ASSUME NEW w \in Workers, Commit(w) PROVE Promise!Next
  <2>1. pc[w] = "commit" /\ CommitWrites(w) /\ UNCHANGED answers
    BY <1>1 DEF Commit, Step
  <2> QED  BY <2>1, CommitApplies
<1>2. ASSUME NEW w \in Workers, Accept(w) PROVE Promise!Next
  <2>1. /\ pc[w] = "accept" /\ UNCHANGED <<effects, rejected>>
        /\ accepted' = accepted \cup {item[w]}
    BY <1>2 DEF Accept, Step
  <2>2. item[w] \in Deliveries /\ item[w].id \in Ids
    BY <2>1, BusyItem DEF IInv
  <2>3. receipts[item[w].id] # None /\ Same(receipts[item[w].id].envelope, item[w])
    BY <2>1 DEF IInv, AnswerInv
  <2>4. effects[item[w].id] = <<receipts[item[w].id].envelope>>
    BY <2>2, <2>3 DEF IInv, EffectWithReceipt
  <2>5. Promise!Accept(item[w])
    BY <2>1, <2>3, <2>4 DEF Promise!Accept
  <2> QED  BY <2>2, <2>5 DEF Promise!Next
<1>3. ASSUME NEW w \in Workers, Reject(w) PROVE Promise!Next
  <2>1. /\ pc[w] = "reject" /\ UNCHANGED <<effects, accepted>>
        /\ rejected' = rejected \cup {item[w]}
    BY <1>3 DEF Reject, Step
  <2>2. item[w] \in Deliveries /\ item[w].id \in Ids
    BY <2>1, BusyItem DEF IInv
  <2>3. receipts[item[w].id] # None /\ ~Same(receipts[item[w].id].envelope, item[w])
    BY <2>1 DEF IInv, AnswerInv
  <2>4. effects[item[w].id] = <<receipts[item[w].id].envelope>>
    BY <2>2, <2>3 DEF IInv, EffectWithReceipt
  <2>5. Promise!Reject(item[w])
    BY <2>1, <2>3, <2>4 DEF Promise!Reject
  <2> QED  BY <2>2, <2>5 DEF Promise!Next
<1>4. ASSUME NEW w \in Workers, Abort(w) PROVE [Promise!Next]_(Promise!vars)
  <2>1. CASE pc[w] = "commit" /\ CommitWrites(w)
    BY <1>4, <2>1, CommitApplies DEF Abort
  <2>2. CASE LostWrites(w)
    BY <1>4, <2>2 DEF Abort, LostWrites, answers, Promise!vars
  <2> QED  BY <1>4, <2>1, <2>2 DEF Abort
<1>5. ASSUME NEW w \in Workers, NEW d \in Deliveries, Begin(w, d) \/ BeginAgain(w, d)
      PROVE  UNCHANGED Promise!vars
  BY <1>5 DEF Begin, BeginAgain, answers, Promise!vars
<1>6. ASSUME NEW w \in Workers,
             Lock(w) \/ Duplicate(w) \/ Collision(w) \/ Handle(w) \/ InsertReceipt(w)
      PROVE  UNCHANGED Promise!vars
  BY <1>6 DEF Lock, Duplicate, Collision, Handle, InsertReceipt, answers, Promise!vars
<1>7. CASE UNCHANGED vars
  BY <1>7 DEF vars, Promise!vars
<1> QED  BY <1>1, <1>2, <1>3, <1>4, <1>5, <1>6, <1>7 DEF Next, Work

\* The inbox makes every event take effect once and answers truthfully.
THEOREM ImplementsOnceOnlyEffect == Spec => ImplementsOnceOnly
<1>1. Init /\ [][Next]_vars => Promise!Init /\ [][Promise!Next]_(Promise!vars)
  BY InitRefines, InitIInv, StepIInv, StepRefines, PTL
<1> QED  BY <1>1, PTL DEF Spec, ImplementsOnceOnly, Promise!Spec
=============================================================================
