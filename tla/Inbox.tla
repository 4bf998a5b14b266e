-------------------------------- MODULE Inbox --------------------------------
(***************************************************************************)
(* The consumer inbox of one tenant and one logical consumer: Processor.   *)
(* process runs the business handler and the insert of the receipt in one  *)
(* READ COMMITTED transaction, behind a transaction-scoped advisory lock   *)
(* derived from tenant, consumer and event id.                             *)
(*                                                                         *)
(* Writes of a transaction become visible at its commit, so what a worker  *)
(* has written is implied by its pc and committed in one step.  PostgreSQL *)
(* is external: the lock, the primary key of inbox_receipts and the        *)
(* rollback of an interrupted transaction.                                 *)
(***************************************************************************)
EXTENDS Integers, Sequences, FiniteSets

CONSTANTS
    Workers,            \* processes handling deliveries of this consumer
    Deliveries,         \* records [id, body, time]: what sources may deliver
    LockKey(_),         \* idempotencyLockKey: ids may share a key
    None,               \* no receipt, no item, no holder
    RetainTime,         \* ProcessWithFirstObservedTime instead of Process
    MaxFaults,          \* bound: rollbacks, crashes and lost answers
    MaxRedeliveries     \* bound: deliveries of what was already answered

Ids  == {d.id : d \in Deliveries}
Keys == {LockKey(i) : i \in Ids}

ASSUME InboxAssumption ==
    /\ \A d \in Deliveries : /\ d = [id |-> d.id, body |-> d.body, time |-> d.time]
                             /\ d.time \in Nat
    /\ RetainTime \in BOOLEAN
    /\ MaxFaults \in Nat
    /\ MaxRedeliveries \in Nat
    /\ None \notin Workers /\ None \notin Deliveries

VARIABLES
    receipts,           \* inbox_receipts: the envelope recorded for an id
    effects,            \* committed business effects of the handler, per id
    lock,               \* holder of the advisory lock
    pc,                 \* where each worker is in process
    item,               \* the delivery it handles
    accepted,           \* deliveries answered with success
    rejected,           \* deliveries answered with ErrCollision
    faults,             \* faults so far (bounded by MaxFaults)
    redelivered         \* redeliveries so far (bounded by MaxRedeliveries)

vars == <<receipts, effects, lock, pc, item, accepted, rejected, faults, redelivered>>

answers == <<accepted, rejected>>
bounds  == <<faults, redelivered>>

\* timestamptz keeps microseconds: an instant has one finer digit here.
Micro(t) == t - (t % 2)

Untruncated(d) == d

\* On the webhook path the arrival time is cut to microseconds before the
\* envelope is fingerprinted, handled and recorded.
Envelope(d) == [id |-> d.id, body |-> d.body,
                time |-> IF RetainTime THEN Micro(d.time) ELSE d.time]

\* The receipt keeps the fingerprint of the envelope and first_observed_at, on
\* the webhook path the arrival time (elsewhere nothing reads it).
ReceiptOf(d) == [envelope |-> Envelope(d), observed |-> Micro(Envelope(d).time)]

ASSUME NoneAssumption == \A d \in Deliveries : ReceiptOf(d) # None

\* The fingerprint covers the whole envelope; on the webhook path it is taken
\* with the time of the first delivery, as the receipt has it.
Matches(r, d) ==
    r.envelope = [id |-> d.id, body |-> d.body,
                  time |-> IF RetainTime THEN r.observed ELSE d.time]

\* The same event, delivered again: what a source means by it.
Same(e, d) == e.id = d.id /\ e.body = d.body /\ (RetainTime \/ e.time = d.time)

Init ==
    /\ receipts = [i \in Ids |-> None]
    /\ effects  = [i \in Ids |-> <<>>]
    /\ lock = [k \in Keys |-> None]
    /\ pc   = [w \in Workers |-> "idle"]
    /\ item = [w \in Workers |-> None]
    /\ accepted = {}
    /\ rejected = {}
    /\ faults = 0
    /\ redelivered = 0

Answered == accepted \cup rejected
Key(w)   == LockKey(item[w].id)
Step(w, from, to) == pc[w] = from /\ pc' = [pc EXCEPT ![w] = to]

HoldForever(w) == UNCHANGED lock
Release(w)     == lock' = [k \in Keys |-> IF lock[k] = w THEN None ELSE lock[k]]

KeepItem(w)    == UNCHANGED item
Forget(w)      == item' = [item EXCEPT ![w] = None]

\* BeginTx for a delivery the source has no answer for, or repeats.
Begin(w, d) ==
    /\ d \notin Answered
    /\ Step(w, "idle", "lock")
    /\ item' = [item EXCEPT ![w] = d]
    /\ UNCHANGED <<receipts, effects, lock, answers, bounds>>

BeginAgain(w, d) ==
    /\ d \in Answered
    /\ redelivered < MaxRedeliveries
    /\ redelivered' = redelivered + 1
    /\ Step(w, "idle", "lock")
    /\ item' = [item EXCEPT ![w] = d]
    /\ UNCHANGED <<receipts, effects, lock, answers, faults>>

LockFree(w) == lock[Key(w)] = None

\* pg_advisory_xact_lock waits for the holder's transaction to end.
Lock(w) ==
    /\ Step(w, "lock", "check")
    /\ LockFree(w)
    /\ lock' = [lock EXCEPT ![Key(w)] = w]
    /\ UNCHANGED <<receipts, effects, item, answers, bounds>>

\* The receipt is read by a statement of its own, after the lock: it sees what
\* the previous holder committed.
Duplicate(w) ==
    /\ Step(w, "check", "accept")
    /\ receipts[item[w].id] # None
    /\ Matches(receipts[item[w].id], item[w])
    /\ Release(w)
    /\ UNCHANGED <<receipts, effects, item, answers, bounds>>

Collision(w) ==
    /\ Step(w, "check", "reject")
    /\ receipts[item[w].id] # None
    /\ ~Matches(receipts[item[w].id], item[w])
    /\ Release(w)
    /\ UNCHANGED <<receipts, effects, item, answers, bounds>>

\* No receipt: the handler writes its effect in this transaction.
Handle(w) ==
    /\ Step(w, "check", "insert")
    /\ receipts[item[w].id] = None
    /\ UNCHANGED <<receipts, effects, lock, item, answers, bounds>>

\* The primary key makes the insert wait for, or fail on, a receipt of the same
\* id (a failure is an Abort).
InsertReceipt(w) ==
    /\ Step(w, "insert", "commit")
    /\ receipts[item[w].id] = None
    /\ \A v \in Workers \ {w} : pc[v] = "commit" => item[v].id # item[w].id
    /\ UNCHANGED <<receipts, effects, lock, item, answers, bounds>>

\* What the transaction wrote becomes visible, and its lock free, at once.
CommitWrites(w) ==
    /\ receipts' = [receipts EXCEPT ![item[w].id] = ReceiptOf(item[w])]
    /\ effects'  = [effects EXCEPT ![item[w].id] = Append(@, Envelope(item[w]))]
    /\ Release(w)

Commit(w) ==
    /\ Step(w, "commit", "accept")
    /\ CommitWrites(w)
    /\ UNCHANGED <<item, answers, bounds>>

\* EventHandler turns a processed or duplicate result into success, and a
\* collision into a permanent failure.
Accept(w) ==
    /\ Step(w, "accept", "idle")
    /\ accepted' = accepted \cup {item[w]}
    /\ Forget(w)
    /\ UNCHANGED <<receipts, effects, lock, rejected, bounds>>

Reject(w) ==
    /\ Step(w, "reject", "idle")
    /\ rejected' = rejected \cup {item[w]}
    /\ Forget(w)
    /\ UNCHANGED <<receipts, effects, lock, accepted, bounds>>

IndependentWrites(w) ==
    /\ effects' = IF pc[w] = "commit" THEN [effects EXCEPT ![item[w].id] = Append(@, Envelope(item[w]))]
                                      ELSE effects
    /\ Release(w)
    /\ UNCHANGED receipts

LostWrites(w) == UNCHANGED <<receipts, effects>> /\ Release(w)

\* A statement, the handler or the commit fails, or the process stops: the
\* transaction is rolled back, its lock goes, and no success is answered.  A
\* commit may have taken place although its answer is lost.
Abort(w) ==
    /\ pc[w] # "idle"
    /\ faults < MaxFaults
    /\ faults' = faults + 1
    /\ LostWrites(w) \/ (pc[w] = "commit" /\ CommitWrites(w))
    /\ pc'   = [pc EXCEPT ![w] = "idle"]
    /\ Forget(w)
    /\ UNCHANGED <<answers, redelivered>>

Work(w) ==
    \/ Lock(w) \/ Duplicate(w) \/ Collision(w) \/ Handle(w)
    \/ InsertReceipt(w) \/ Commit(w) \/ Accept(w) \/ Reject(w)

Next ==
    \E w \in Workers :
        \/ \E d \in Deliveries : Begin(w, d) \/ BeginAgain(w, d)
        \/ Work(w)
        \/ Abort(w)

\* A started transaction goes on, and the source repeats what has no answer.
Fairness ==
    /\ \A w \in Workers : WF_vars(Work(w))
    /\ \A d \in Deliveries : WF_vars(\E w \in Workers : Begin(w, d))

Spec == Init /\ [][Next]_vars /\ Fairness
-----------------------------------------------------------------------------
InTransaction(w) == pc[w] \in {"check", "insert", "commit"}

TypeOK ==
    /\ receipts \in [Ids -> [envelope : {Envelope(d) : d \in Deliveries}, observed : Nat] \cup {None}]
    /\ effects  \in [Ids -> Seq({Envelope(d) : d \in Deliveries})]
    /\ lock \in [Keys -> Workers \cup {None}]
    /\ pc \in [Workers -> {"idle", "lock", "check", "insert", "commit", "accept", "reject"}]
    /\ item \in [Workers -> Deliveries \cup {None}]
    /\ \A w \in Workers : item[w] = None <=> pc[w] = "idle"
    /\ accepted \in SUBSET Deliveries
    /\ rejected \in SUBSET Deliveries
    /\ faults \in Nat
    /\ redelivered \in Nat

\* Process "executes handler exactly once per committed tenant/consumer/event
\* ID": an effect is committed once, with the receipt that names its envelope,
\* and no receipt exists without its effect.
EffectWithReceipt ==
    \A i \in Ids :
        effects[i] = IF receipts[i] = None THEN <<>> ELSE <<receipts[i].envelope>>

\* Between the check for a receipt and the end of the transaction no other
\* worker is there for the same event: what the check read stays true.
CheckStaysTrue ==
    \A w \in Workers :
        pc[w] \in {"insert", "commit"} =>
            /\ receipts[item[w].id] = None
            /\ \A v \in Workers \ {w} : InTransaction(v) => item[v].id # item[w].id

\* Success answered to Kafka means that the effect of this very envelope is
\* committed; a permanent failure means another envelope has the id.
AnswersAreTrue ==
    /\ \A d \in accepted : receipts[d.id] # None /\ Same(receipts[d.id].envelope, d)
    /\ \A d \in rejected : receipts[d.id] # None /\ ~Same(receipts[d.id].envelope, d)

Promise == INSTANCE OnceOnly

\* The inbox implements OnceOnly.
ImplementsOnceOnly == Promise!Spec

\* Every delivery is answered in the end: no lock is left behind and no two
\* workers wait for each other.
EveryDeliveryAnswered == \A d \in Deliveries : <>(d \in Answered)

=============================================================================
