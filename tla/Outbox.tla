------------------------------- MODULE Outbox --------------------------------
(***************************************************************************)
(* The transactional outbox of one tenant: the rows of outbox_events, the  *)
(* relays that claim them under a lease, publish them to Kafka outside any *)
(* transaction, and then either record the publication or hand the row     *)
(* back with a delay.  A relay may stop between any two of these steps.    *)
(*                                                                         *)
(* Time is kept as countdowns: leaseLeft[e] is how long the lease of e     *)
(* still lasts (0: lease_expires_at is NULL or has passed) and wait[e] how *)
(* long until available_at.  Tick lets one unit pass for every row.        *)
(***************************************************************************)
EXTENDS Integers, Sequences, FiniteSets

CONSTANTS
    NumEvents,          \* events the domain commands ever commit
    Relays,             \* worker processes running the relay loop
    BatchSize,          \* RetryPolicy.BatchSize
    LeaseTicks,         \* RetryPolicy.LeaseDuration
    RetryDelays,        \* Relay.retryDelay by attempt, up to its ceiling
    MaxFaults           \* bound: crashes, failed publishes and slow leases

ASSUME OutboxAssumption ==
    /\ NumEvents \in Nat
    /\ IsFiniteSet(Relays)
    /\ BatchSize \in Nat \ {0}
    /\ LeaseTicks \in Nat \ {0}
    /\ MaxFaults \in Nat
    /\ RetryDelays \in Seq(Nat)
    /\ RetryDelays # <<>>

Events == 1 .. NumEvents

NoToken == 0            \* lease_token IS NULL
NoEvent == 0            \* the relay is not working on a record

VARIABLES
    enqueued,           \* rows committed so far: event e exists iff e <= enqueued
    published,          \* published[e]: published_at is set
    attempts,           \* the attempts column
    leaseToken,         \* the lease_token column
    leaseLeft,          \* time until lease_expires_at
    wait,               \* time until available_at
    legacy,             \* an unpublished row without event_envelope exists
    pc,                 \* where each relay is
    batch,              \* records the relay has claimed and not finished
    token,              \* the lease token of that batch
    current,            \* the record being published or settled
    nextToken,          \* tokens are random: here, never used before
    topic,              \* what Kafka has accepted, in order
    faults              \* faults so far (bounded by MaxFaults)

rows   == <<enqueued, published, attempts, leaseToken, leaseLeft, wait, legacy>>
relays == <<pc, batch, token, current, nextToken>>
vars   == <<enqueued, published, attempts, leaseToken, leaseLeft, wait, legacy,
            pc, batch, token, current, nextToken, topic, faults>>

OnTopic   == {topic[i] : i \in DOMAIN topic}
Copies(e) == Cardinality({i \in DOMAIN topic : topic[i] = e})

Init ==
    /\ enqueued = 0
    /\ published  = [e \in Events |-> FALSE]
    /\ attempts   = [e \in Events |-> 0]
    /\ leaseToken = [e \in Events |-> NoToken]
    /\ leaseLeft  = [e \in Events |-> 0]
    /\ wait       = [e \in Events |-> 0]
    /\ legacy \in BOOLEAN
    /\ pc      = [r \in Relays |-> "idle"]
    /\ batch   = [r \in Relays |-> {}]
    /\ token   = [r \in Relays |-> NoToken]
    /\ current = [r \in Relays |-> NoEvent]
    /\ nextToken = 1
    /\ topic = <<>>
    /\ faults = 0

(***************************************************************************)
(* The producer of events.                                                 *)
(***************************************************************************)

\* A domain transaction commits with the row it enqueued: one INSERT in the
\* caller's transaction.  Enqueueing the same envelope again changes nothing;
\* another envelope under the same id fails the caller's transaction.
Enqueue ==
    /\ enqueued < NumEvents
    /\ enqueued' = enqueued + 1
    /\ UNCHANGED <<published, attempts, leaseToken, leaseLeft, wait, legacy,
                   relays, topic, faults>>

(***************************************************************************)
(* Relay.RunOnce                                                           *)
(***************************************************************************)

ClaimableUnlessLeased == {e \in 1 .. enqueued : ~published[e] /\ wait[e] = 0 /\ leaseToken[e] = NoToken}
ClaimableThoughLeased == {e \in 1 .. enqueued : ~published[e] /\ wait[e] = 0}

Claimable == {e \in 1 .. enqueued : ~published[e] /\ wait[e] = 0 /\ leaseLeft[e] = 0}

\* FOR UPDATE SKIP LOCKED passes over the rows another relay's claim has
\* locked at that moment; only a relay that is idle can be in its claim.
LockedByOthers(r) ==
    IF \E q \in Relays \ {r} : pc[q] = "idle" THEN SUBSET Claimable ELSE {{}}

Oldest(S) == {e \in S : Cardinality({x \in S : x < e}) < BatchSize}

SameToken  == nextToken
FreshToken == nextToken + 1

\* One statement leases the whole batch under one fresh token.  The rows come
\* back in no particular order (UPDATE ... RETURNING promises none).
LeaseBatch(r, C) ==
    /\ batch' = [batch EXCEPT ![r] = C]
    /\ attempts'   = [e \in Events |-> IF e \in C THEN attempts[e] + 1 ELSE attempts[e]]
    /\ leaseToken' = [e \in Events |-> IF e \in C THEN nextToken ELSE leaseToken[e]]
    /\ leaseLeft'  = [e \in Events |-> IF e \in C THEN LeaseTicks ELSE leaseLeft[e]]
    /\ token' = [token EXCEPT ![r] = nextToken]
    /\ nextToken' = FreshToken

Claim(r) ==
    /\ pc[r] = "idle"
    /\ ~legacy
    /\ \E locked \in LockedByOthers(r) :
         /\ Oldest(Claimable \ locked) # {}
         /\ LeaseBatch(r, Oldest(Claimable \ locked))
    /\ pc' = [pc EXCEPT ![r] = "publish"]
    /\ UNCHANGED <<enqueued, published, wait, legacy, current, topic, faults>>

\* Nothing to claim: RunOnce returns 0 and the poll loop waits.
PollEmpty(r) ==
    /\ pc[r] = "idle"
    /\ ~legacy
    /\ Claimable = {}
    /\ UNCHANGED vars

\* ErrLegacyRows: RunOnce fails, and with it the worker process.
ClaimLegacy(r) ==
    /\ pc[r] = "idle"
    /\ legacy
    /\ pc' = [pc EXCEPT ![r] = "down"]
    /\ UNCHANGED <<rows, batch, token, current, nextToken, topic, faults>>

AfterAnyPublish(ok) == "mark"
AfterPublish(ok)    == IF ok THEN "mark" ELSE "release"

\* Publish is called whatever has become of the lease in the meantime.
PublishOk(r) ==
    /\ pc[r] = "publish"
    /\ \E e \in batch[r] :
         /\ current' = [current EXCEPT ![r] = e]
         /\ topic' = Append(topic, e)
    /\ pc' = [pc EXCEPT ![r] = AfterPublish(TRUE)]
    /\ UNCHANGED <<rows, batch, token, nextToken, faults>>

\* The producer reports an error; the record may have reached the broker.
PublishError(r) ==
    /\ pc[r] = "publish"
    /\ faults < MaxFaults
    /\ \E e \in batch[r] :
         /\ current' = [current EXCEPT ![r] = e]
         /\ topic' \in {topic, Append(topic, e)}
    /\ pc' = [pc EXCEPT ![r] = AfterPublish(FALSE)]
    /\ faults' = faults + 1
    /\ UNCHANGED <<rows, batch, token, nextToken>>

\* The WHERE clause shared by MarkPublished and ReleaseForRetry.
HoldsLease(r) ==
    /\ leaseToken[current[r]] = token[r]
    /\ ~published[current[r]]
    /\ leaseLeft[current[r]] > 0

SameRecordAgain(r) ==
    /\ pc' = [pc EXCEPT ![r] = "publish"]
    /\ current' = [current EXCEPT ![r] = NoEvent]
    /\ UNCHANGED <<batch, token, nextToken>>

\* The relay is done with its record and goes on to the next one, if any.
NextRecord(r) ==
    LET rest == batch[r] \ {current[r]} IN
    /\ batch' = [batch EXCEPT ![r] = rest]
    /\ pc' = [pc EXCEPT ![r] = IF rest = {} THEN "idle" ELSE "publish"]
    /\ current' = [current EXCEPT ![r] = NoEvent]
    /\ UNCHANGED <<token, nextToken>>

ClearLease(e) ==
    /\ leaseToken' = [leaseToken EXCEPT ![e] = NoToken]
    /\ leaseLeft'  = [leaseLeft EXCEPT ![e] = 0]

\* RunOnce returns an error, or the process stops: the rest of the batch is
\* dropped and keeps its lease until that runs out.
Abandon(r) ==
    /\ pc' = [pc EXCEPT ![r] = "down"]
    /\ batch' = [batch EXCEPT ![r] = {}]
    /\ current' = [current EXCEPT ![r] = NoEvent]
    /\ UNCHANGED <<token, nextToken>>

\* What plain doubling gives once it has left the range of a Duration.
OverflowingDelay(n) == IF n = 1 THEN RetryDelays[1] ELSE -1

\* The delay no longer changes once it has reached its ceiling.
RetryDelay(n) == RetryDelays[IF n < Len(RetryDelays) THEN n ELSE Len(RetryDelays)]

MarkPublished(r) ==
    /\ pc[r] = "mark"
    /\ HoldsLease(r)
    /\ published'  = [published EXCEPT ![current[r]] = TRUE]
    /\ ClearLease(current[r])
    /\ NextRecord(r)
    /\ UNCHANGED <<enqueued, attempts, wait, legacy, topic, faults>>

ReleaseForRetry(r) ==
    /\ pc[r] = "release"
    /\ HoldsLease(r)
    /\ wait' = [wait EXCEPT ![current[r]] = RetryDelay(attempts[current[r]])]
    /\ ClearLease(current[r])
    /\ NextRecord(r)
    /\ UNCHANGED <<enqueued, published, attempts, legacy, topic, faults>>

\* No row matched: ErrLeaseLost ends RunOnce and the worker.
LeaseLost(r) ==
    /\ pc[r] \in {"mark", "release"}
    /\ ~HoldsLease(r)
    /\ Abandon(r)
    /\ UNCHANGED <<rows, topic, faults>>

\* The process dies, is cancelled, or a database call fails.
Crash(r) ==
    /\ pc[r] # "down"
    /\ faults < MaxFaults
    /\ faults' = faults + 1
    /\ Abandon(r)
    /\ UNCHANGED <<rows, topic>>

Restart(r) ==
    /\ pc[r] = "down"
    /\ pc' = [pc EXCEPT ![r] = "idle"]
    /\ UNCHANGED <<rows, batch, token, current, nextToken, topic, faults>>

(***************************************************************************)
(* Time.  A lease that runs out while its relay is still at work is a      *)
(* fault: the relay was slower than the lease its policy gives it.         *)
(***************************************************************************)
AtWork(r, e) == e \in batch[r] /\ token[r] = leaseToken[e]

Overrun == \E e \in Events : leaseLeft[e] = 1 /\ \E r \in Relays : AtWork(r, e)

Down(n) == IF n > 0 THEN n - 1 ELSE 0

Tick ==
    /\ \E e \in Events : leaseLeft[e] > 0 \/ wait[e] > 0
    /\ leaseLeft' = [e \in Events |-> Down(leaseLeft[e])]
    /\ wait' = [e \in Events |-> Down(wait[e])]
    /\ Overrun => faults < MaxFaults
    /\ faults' = IF Overrun THEN faults + 1 ELSE faults
    /\ UNCHANGED <<enqueued, published, attempts, leaseToken, legacy, relays, topic>>

RelayStep(r) ==
    \/ Claim(r) \/ PollEmpty(r) \/ ClaimLegacy(r)
    \/ PublishOk(r) \/ PublishError(r)
    \/ MarkPublished(r) \/ ReleaseForRetry(r) \/ LeaseLost(r)
    \/ Crash(r) \/ Restart(r)

Next == Enqueue \/ Tick \/ \E r \in Relays : RelayStep(r)

SafeSpec == Init /\ [][Next]_vars

\* The worker's poll loop always comes back to RunOnce, a call to the broker
\* or to the database returns, a dead worker is restarted, and time passes.
\* Nothing makes a transaction of the domain happen.
Fairness ==
    /\ WF_vars(Tick)
    /\ \A r \in Relays :
         /\ WF_vars(Claim(r))
         /\ WF_vars(PublishOk(r))
         /\ WF_vars(MarkPublished(r) \/ ReleaseForRetry(r) \/ LeaseLost(r))
         /\ WF_vars(Restart(r))

Spec == SafeSpec /\ Fairness

(***************************************************************************)
(* Properties.                                                             *)
(***************************************************************************)
TypeOK ==
    /\ enqueued \in 0 .. NumEvents
    /\ published \in [Events -> BOOLEAN]
    /\ attempts \in [Events -> Nat]
    /\ leaseToken \in [Events -> Nat]
    /\ leaseLeft \in [Events -> 0 .. LeaseTicks]
    /\ wait \in [Events -> Nat]
    /\ legacy \in BOOLEAN
    /\ pc \in [Relays -> {"idle", "publish", "mark", "release", "down"}]
    /\ batch \in [Relays -> SUBSET Events]
    /\ token \in [Relays -> Nat]
    /\ current \in [Relays -> Events \cup {NoEvent}]
    /\ nextToken \in Nat \ {0}
    /\ topic \in Seq(Events)
    /\ faults \in Nat

\* Two relays never hold the same record under the same, still current lease
\* token: the compare-by-lease update of one always shuts the other out.
LeaseExclusive ==
    \A q, r \in Relays : \A e \in batch[q] \cap batch[r] :
        (AtWork(q, e) /\ AtWork(r, e)) => q = r

\* Every attempt puts at most one copy on the topic: the attempts column bounds
\* what consumers must deduplicate, over all relays, stale ones included.
CopiesWithinAttempts == \A e \in Events : Copies(e) <= attempts[e]

\* Without a crash, a failed publish or an overrun lease there is no duplicate,
\* however many relays poll the same tenant.
NoFaultNoDuplicate == faults = 0 => \A e \in Events : Copies(e) <= 1

\* What a consumer may be asked to deduplicate: no more copies than attempts, and
\* none at all until something goes wrong (Relay.RunOnce, OutboxRepository.Claim).
DuplicatesBounded == CopiesWithinAttempts /\ NoFaultNoDuplicate

\* A row the relay has handed back or settled carries no lease, and a row that
\* a relay still works on under the current lease is neither published nor waiting.
LeaseSettled ==
    \A e \in Events :
        /\ published[e] => leaseToken[e] = NoToken /\ leaseLeft[e] = 0
        /\ (\E r \in Relays : AtWork(r, e)) => ~published[e] /\ wait[e] = 0

\* The outbox is the at-least-once channel of AtLeastOnce.
Channel == INSTANCE AtLeastOnce WITH
    committed <- 1 .. enqueued,
    acked <- {e \in Events : published[e]}

ChannelSafe == Channel!SafeSpec

\* Once the legacy rows are gone, every committed event is published.
EveryEventPublished ==
    \A e \in Events : (e <= enqueued /\ ~legacy) ~> published[e]
==============================================================================
