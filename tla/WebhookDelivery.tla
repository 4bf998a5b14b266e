---------------------------- MODULE WebhookDelivery ----------------------------
(***************************************************************************)
(* Outbound webhooks of one subscription: projected events become durable  *)
(* deliveries, workers claim them under a lease, send them and record the  *)
(* attempt, and the management API deletes the subscription, rotates its   *)
(* signing secret and replays deliveries while they do.                    *)
(*                                                                         *)
(* Every SQL transaction is one step.  A claim raises the attempt and      *)
(* installs a fresh lease token, so the attempt names the claim and stands *)
(* for the token it is compared together with.  Time is whether a delivery *)
(* is available, whether its lease has run out and whether the overlap of  *)
(* a rotation is over.  The receiver, the secret provider, PostgreSQL and  *)
(* its driver are external.                                                *)
(***************************************************************************)
EXTENDS Integers, Sequences, FiniteSets

CONSTANTS
    Workers,            \* processes running Worker.ProcessOne
    Callers,            \* concurrent management requests
    Events,             \* events matching the subscription
    Answers,            \* what an attempt can meet, a subset of AllAnswers
    MaxAttempts,        \* BackoffPolicy.MaxAttempts (8)
    DisableAfter,       \* BackoffPolicy.DisableAfter (5)
    AttemptLimit,       \* webhook_deliveries_attempt_chk (32)
    ScansNull,          \* Scan stores NULL in a string (database/sql does not)
    Interleaves,        \* a statement may run between rows (not with pgx)
    None,               \* no job, no call, no secret, no origin
    MaxBusy,            \* bound: attempts and requests under way at a time
    MaxRows,            \* bound: deliveries, replays included
    MaxSecrets,         \* bound: signing secrets created
    MaxFaults           \* bound: crashes, overrun leases, failed calls

\* A 2xx; a failed request, 408, 425, 429 or 5xx; another status; a host name
\* that cannot be looked up, or has a blocked address; a status the http_status
\* CHECK refuses.
AllAnswers == {"ok", "retry", "permanent", "lookup", "unsafe", "unstorable"}
Unresolved == {"lookup", "unsafe"}

ASSUME WebhookAssumption ==
    /\ Answers \subseteq AllAnswers
    /\ IsFiniteSet(Workers) /\ Workers \cap Callers = {}
    /\ MaxAttempts \in Nat \ {0} /\ DisableAfter \in Nat \ {0}
    /\ AttemptLimit \in Nat /\ MaxAttempts <= AttemptLimit
    /\ ScansNull \in BOOLEAN /\ Interleaves \in BOOLEAN
    /\ MaxBusy \in Nat /\ MaxRows \in Nat /\ MaxFaults \in Nat /\ MaxSecrets \in Nat \ {0}
    /\ None \notin 0..MaxSecrets /\ None \notin 1..MaxRows

Secrets  == 1..MaxSecrets
Terminal == {"succeeded", "dlq"}

VARIABLES
    sub,                \* the webhook_subscriptions row
    rows,               \* webhook_deliveries, in order of creation
    history,            \* webhook_delivery_attempts
    jobs,               \* what each worker is working on
    projecting,         \* the projection transaction in progress
    projected,          \* events whose projection committed
    calls,              \* management requests in progress
    created,            \* signing secrets created so far, numbered from 1
    revoked,            \* those revoked
    deleted,            \* a DELETE has answered with success
    accepted,           \* 2xx answers the receiver gave, per delivery
    faults              \* faults so far (bounded by MaxFaults)

work   == <<rows, history, jobs, accepted>>
intake == <<projecting, projected>>
keys   == <<created, revoked, calls, deleted>>
vars   == <<sub, work, intake, keys, faults>>

NewRow(e, origin, secret) ==
    [event |-> e, origin |-> origin, secret |-> secret, status |-> "pending",
     attempt |-> 0, ready |-> TRUE, lapsed |-> FALSE]

Init ==
    /\ sub = [status |-> "active", failures |-> 0, secret |-> 1, previous |-> None,
              over |-> FALSE, late |-> FALSE]
    /\ rows = <<>>
    /\ history = {}
    /\ jobs = [w \in Workers |-> None]
    /\ projecting = None
    /\ projected = {}
    /\ calls = [c \in Callers |-> None]
    /\ created = 1
    /\ revoked = {}
    /\ deleted = FALSE
    /\ accepted = [d \in 1..MaxRows |-> 0]
    /\ faults = 0

Fault == faults < MaxFaults /\ faults' = faults + 1

\* updated_at is set; "late" says that it is past previous_valid_until.
Touch(s) == [s EXCEPT !.late = s.late \/ s.over]

\* Subscription.Validate, run by scanSubscription on every row read, wants
\* previous_valid_until after updated_at.
Readable(s) == ~s.late

\* Workers and management requests in the middle of something.
Busy == {w \in Workers : jobs[w] # None} \cup {c \in Callers : calls[c] # None}
Room == Cardinality(Busy) < MaxBusy

-----------------------------------------------------------------------------
(* Intake: Kafka projection and manual replay *)

\* ProjectEventTransaction reads the active subscriptions ...
ReadSubscription(e) ==
    /\ projecting = None /\ e \notin projected
    /\ sub.status = "active" => Readable(sub)
    /\ projecting' = [event |-> e, secret |-> IF sub.status = "active" THEN sub.secret ELSE None]
    /\ UNCHANGED <<sub, work, projected, keys, faults>>

\* ... and inserts a snapshot of what it read, with the receipt, unless the
\* event has its initial delivery.
CommitProjection ==
    /\ projecting # None
    /\ projected' = projected \cup {projecting.event}
    /\ \/ projecting.secret = None /\ rows' = rows
       \/ /\ projecting.secret # None /\ Interleaves /\ Len(rows) < MaxRows
          /\ rows' = Append(rows, NewRow(projecting.event, None, projecting.secret))
    /\ projecting' = None
    /\ UNCHANGED <<sub, history, jobs, accepted, keys, faults>>

ReceiptKept == projected' = projected \cup {projecting.event}
ReceiptRolledBack == projected' = projected

\* A failed projection is rolled back; the event bus delivers the event again.
AbortProjection ==
    /\ projecting # None
    /\ IF projecting.secret # None /\ ~Interleaves THEN faults' = faults ELSE Fault
    /\ ReceiptRolledBack
    /\ projecting' = None
    /\ UNCHANGED <<sub, work, keys>>

\* A delivery in any state, of a subscription in any state, is queued again
\* with the subscription's current secret.
Replay(d) ==
    /\ Len(rows) < MaxRows
    /\ rows' = Append(rows, NewRow(rows[d].event, d, sub.secret))
    /\ UNCHANGED <<sub, history, jobs, accepted, intake, keys, faults>>

-----------------------------------------------------------------------------
(* A worker's attempt: claim, send, complete *)

PendingOnly(d) == rows[d].status = "pending" /\ rows[d].ready

ClaimableAgain(d) == PendingOnly(d) \/ rows[d].status = "inflight"

\* FOR UPDATE SKIP LOCKED LIMIT 1, earliest available_at first: any candidate.
Claimable(d) ==
    \/ rows[d].status = "pending"  /\ rows[d].ready
    \/ rows[d].status = "inflight" /\ rows[d].lapsed

\* The subscription's failure count is read along with the claim.  It changes
\* nothing when the attempt is refused by its CHECK, or the returned row by Scan:
\* replay_of is NULL in a delivery that is no replay.
Claim(w, d) ==
    /\ jobs[w] = None /\ Room
    /\ Claimable(d) /\ rows[d].attempt < AttemptLimit
    /\ ScansNull \/ rows[d].origin # None
    /\ rows' = [rows EXCEPT ![d].status = "inflight", ![d].attempt = @ + 1,
                            ![d].ready = FALSE, ![d].lapsed = FALSE]
    /\ jobs' = [jobs EXCEPT ![w] = [row |-> d, attempt |-> rows[d].attempt + 1,
                                    failures |-> sub.failures, answer |-> None]]
    /\ UNCHANGED <<sub, history, accepted, intake, keys, faults>>

\* The endpoint is resolved first; then the delivery is signed with the secret in
\* its snapshot, if it is not revoked, and sent.
Send(w) ==
    /\ jobs[w] # None /\ jobs[w].answer = None
    /\ LET d == jobs[w].row IN \E a \in Answers :
         LET met == IF a \notin Unresolved /\ rows[d].secret \in revoked THEN "unsigned" ELSE a
         IN  /\ jobs' = [jobs EXCEPT ![w].answer = met]
             /\ accepted' = [accepted EXCEPT ![d] = IF met = "ok" THEN @ + 1 ELSE @]
    /\ UNCHANGED <<sub, rows, history, intake, keys, faults>>

\* http_permanent and endpoint_unsafe.
Permanent(job) == job.answer \in Unresolved \cup {"permanent"}

\* classify, and the retry budget.
Outcome(job) ==
    CASE job.answer = "ok"          -> "succeeded"
      [] Permanent(job)             -> "dlq"
      [] job.attempt >= MaxAttempts -> "dlq"
      [] OTHER                      -> "retry"

AnyInflight(job) == rows[job.row].status = "inflight"
OwnAttempt(job)  == rows[job.row].status = "inflight" /\ rows[job.row].attempt = job.attempt

DisablesLate(job) == job.failures + 1 > DisableAfter

\* Decided from the failure count the claim returned, not from the row.
Disables(job) == job.failures + 1 >= DisableAfter

Counts(job)        == job.answer = "ok" \/ Permanent(job)
FailuresAfter(job) == IF Permanent(job) THEN sub.failures + 1 ELSE 0

Answered(w) == jobs[w] # None /\ jobs[w].answer # None

\* Complete: the attempt is recorded, the delivery settled or put back, the
\* subscription's failures counted, in one transaction.
Complete(w) ==
    /\ Answered(w) /\ jobs[w].answer # "unstorable"
    /\ OwnAttempt(jobs[w])
    /\ LET job == jobs[w]
           o   == Outcome(job)
       IN  /\ history' = history \cup {[row |-> job.row, attempt |-> job.attempt, outcome |-> o]}
           /\ rows' = [rows EXCEPT ![job.row].status = IF o = "retry" THEN "pending" ELSE o,
                                   ![job.row].lapsed = FALSE]
           /\ sub' = IF Counts(job)
                     THEN Touch([sub EXCEPT !.failures = FailuresAfter(job),
                                            !.status = IF Permanent(job) /\ Disables(job)
                                                       THEN "disabled" ELSE @])
                     ELSE sub
    /\ jobs' = [jobs EXCEPT ![w] = None]
    /\ UNCHANGED <<accepted, intake, keys, faults>>

\* ErrConflict, or a row the CHECK refuses: ProcessOne returns the error, and
\* the worker process stops and is started again.
CompleteRefused(w) ==
    /\ Answered(w)
    /\ jobs[w].answer = "unstorable" \/ ~OwnAttempt(jobs[w])
    /\ jobs' = [jobs EXCEPT ![w] = None]
    /\ UNCHANGED <<sub, rows, history, accepted, intake, keys, faults>>

\* The worker stops, or the database fails it, at any point of an attempt.
Crash(w) ==
    /\ jobs[w] # None
    /\ Fault
    /\ jobs' = [jobs EXCEPT ![w] = None]
    /\ UNCHANGED <<sub, rows, history, accepted, intake, keys>>

Held(d) == \E w \in Workers : jobs[w] # None /\ jobs[w].row = d /\ jobs[w].attempt = rows[d].attempt

\* lease_expires_at passes; while the worker is still at it, that is a fault.
LeaseLapses(d) ==
    /\ rows[d].status = "inflight" /\ ~rows[d].lapsed
    /\ IF Held(d) THEN Fault ELSE faults' = faults
    /\ rows' = [rows EXCEPT ![d].lapsed = TRUE]
    /\ UNCHANGED <<sub, history, jobs, accepted, intake, keys>>

\* available_at passes.
BecomesAvailable(d) ==
    /\ rows[d].status = "pending" /\ ~rows[d].ready
    /\ rows' = [rows EXCEPT ![d].ready = TRUE]
    /\ UNCHANGED <<sub, history, jobs, accepted, intake, keys, faults>>

\* previous_valid_until passes.
OverlapEnds ==
    /\ sub.previous # None /\ ~sub.over
    /\ sub' = [sub EXCEPT !.over = TRUE]
    /\ UNCHANGED <<work, intake, keys, faults>>

-----------------------------------------------------------------------------
(* Management requests *)

Begin(c, call) == calls[c] = None /\ Room /\ calls' = [calls EXCEPT ![c] = call]
End(c)         == calls' = [calls EXCEPT ![c] = None]

CurrentKey  == {sub.secret}
BothColumns == {sub.secret, sub.previous}
SigningKeys == {sub.secret, sub.previous} \ {None}

\* DisableSubscription: the row first (once disabled it stays as it is), rolled
\* back if what it returns cannot be read ...
Disable(c) ==
    /\ Begin(c, [op |-> "revoke", left |-> SigningKeys, failed |-> FALSE])
    /\ sub' = IF sub.status = "active" THEN Touch([sub EXCEPT !.status = "disabled"]) ELSE sub
    /\ Readable(sub')
    /\ UNCHANGED <<work, intake, created, revoked, deleted, faults>>

\* ... then its secrets, one by one; one that fails is passed over.
RevokeKey(c) ==
    /\ calls[c] # None /\ calls[c].op = "revoke"
    /\ \E k \in calls[c].left :
         LET after(failed) == [op |-> "revoke", left |-> calls[c].left \ {k}, failed |-> failed]
         IN  \/ /\ revoked' = revoked \cup {k}
                /\ calls' = [calls EXCEPT ![c] = after(calls[c].failed)]
                /\ faults' = faults
             \/ /\ Fault
                /\ calls' = [calls EXCEPT ![c] = after(TRUE)]
                /\ revoked' = revoked
    /\ UNCHANGED <<sub, work, intake, created, deleted>>

AnswerDisable(c) ==
    /\ calls[c] # None /\ calls[c].op = "revoke" /\ calls[c].left = {}
    /\ deleted' = (deleted \/ ~calls[c].failed)
    /\ End(c)
    /\ UNCHANGED <<sub, work, intake, created, revoked, faults>>

\* RotateSigningSecret reads the subscription and creates a secret ...
BeginRotation(c) ==
    /\ Readable(sub)
    /\ created < MaxSecrets
    /\ created' = created + 1
    /\ Begin(c, [op |-> "rotate", old |-> sub.secret, new |-> created + 1])
    /\ UNCHANGED <<sub, work, intake, revoked, deleted, faults>>

AnyRotation(call) == sub.status = "active"
Rotatable(call)   == sub.status = "active" /\ sub.secret = call.old /\ sub.previous = None

InstallSecret(call) == sub' = [sub EXCEPT !.secret = call.new, !.previous = call.old]

\* ... installs it if nothing changed in between ...
Rotate(c) ==
    /\ calls[c] # None /\ calls[c].op = "rotate"
    /\ Rotatable(calls[c])
    /\ InstallSecret(calls[c])
    /\ End(c)
    /\ UNCHANGED <<work, intake, created, revoked, deleted, faults>>

\* ... and revokes it when that fails,
RotationRefused(c) ==
    /\ calls[c] # None /\ calls[c].op = "rotate"
    /\ ~Rotatable(calls[c])
    /\ revoked' = revoked \cup {calls[c].new}
    /\ End(c)
    /\ UNCHANGED <<sub, work, intake, created, deleted, faults>>

\* or when the answer to a COMMIT that succeeded is lost.
RotationUnanswered(c) ==
    /\ calls[c] # None /\ calls[c].op = "rotate"
    /\ Rotatable(calls[c])
    /\ Fault
    /\ InstallSecret(calls[c])
    /\ revoked' = revoked \cup {calls[c].new}
    /\ End(c)
    /\ UNCHANGED <<work, intake, created, deleted>>

\* FinalizeRotation, when the overlap is over: the previous secret is revoked ...
BeginFinalize(c) ==
    /\ Readable(sub)
    /\ sub.previous # None /\ sub.over
    /\ Begin(c, [op |-> "finalize", old |-> sub.previous])
    /\ UNCHANGED <<sub, work, intake, created, revoked, deleted, faults>>

RevokePrevious(c) ==
    /\ calls[c] # None /\ calls[c].op = "finalize"
    /\ revoked' = revoked \cup {calls[c].old}
    /\ calls' = [calls EXCEPT ![c].op = "clear"]
    /\ UNCHANGED <<sub, work, intake, created, deleted, faults>>

\* ... and cleared from the row, unless it is no longer there (ErrConflict).
ClearPrevious(c) ==
    /\ calls[c] # None /\ calls[c].op = "clear"
    /\ sub' = IF sub.previous = calls[c].old
               THEN [sub EXCEPT !.previous = None, !.over = FALSE, !.late = FALSE]
               ELSE sub
    /\ End(c)
    /\ UNCHANGED <<work, intake, created, revoked, deleted, faults>>

\* The API process stops, or a step fails, and the request ends there.
CallLost(c) ==
    /\ calls[c] # None
    /\ Fault
    /\ End(c)
    /\ UNCHANGED <<sub, work, intake, created, revoked, deleted>>

-----------------------------------------------------------------------------
Intake == \/ \E e \in Events : ReadSubscription(e)
          \/ CommitProjection
          \/ AbortProjection
          \/ \E d \in 1..Len(rows) : Replay(d)

Work(w) == \/ \E d \in 1..Len(rows) : Claim(w, d)
           \/ Send(w)
           \/ Complete(w)
           \/ CompleteRefused(w)

Manage(c) == \/ Disable(c) \/ RevokeKey(c) \/ AnswerDisable(c)
             \/ BeginRotation(c) \/ Rotate(c) \/ RotationRefused(c)
             \/ RotationUnanswered(c)
             \/ BeginFinalize(c) \/ RevokePrevious(c) \/ ClearPrevious(c)
             \/ CallLost(c)

TimePasses(d) == LeaseLapses(d) \/ BecomesAvailable(d)

Next == \/ Intake
        \/ \E w \in Workers : Work(w) \/ Crash(w)
        \/ \E d \in 1..Len(rows) : TimePasses(d)
        \/ OverlapEnds
        \/ \E c \in Callers : Manage(c)

\* The event bus retries, a worker polls for ever, pauses end.  A held lease need not lapse, a
\* request need not be made.
Fairness == /\ WF_vars(\E e \in Events : ReadSubscription(e))
            /\ WF_vars(CommitProjection)
            /\ \A w \in Workers : WF_vars(Work(w))
            /\ \A d \in 1..MaxRows : WF_vars(d <= Len(rows) /\ ~Held(d) /\ TimePasses(d))

Spec == Init /\ [][Next]_vars /\ Fairness

-----------------------------------------------------------------------------
Calls ==
    [op : {"revoke"}, left : SUBSET Secrets, failed : BOOLEAN]
        \cup [op : {"rotate"}, old : Secrets, new : Secrets]
        \cup [op : {"finalize", "clear"}, old : Secrets]

Rows == [event : Events, origin : 1..MaxRows \cup {None}, secret : Secrets,
         status : Terminal \cup {"pending", "inflight"},
         attempt : 0..AttemptLimit, ready : BOOLEAN, lapsed : BOOLEAN]

Jobs == [row : 1..MaxRows, attempt : 1..AttemptLimit, failures : Nat,
         answer : Answers \cup {"unsigned", None}]

ASSUME NoneIsNoJob    == None \notin Jobs
ASSUME NoneIsNoAnswer == None \notin Answers \cup {"unsigned"}

SubOK ==
    /\ sub \in [status : {"active", "disabled"}, failures : Nat, secret : Secrets,
                previous : Secrets \cup {None}, over : BOOLEAN, late : BOOLEAN]
    /\ sub.over => sub.previous # None

RowsOK     == rows \in Seq(Rows) /\ Len(rows) <= MaxRows
HistoryOK  == history \subseteq [row : 1..MaxRows, attempt : 1..AttemptLimit,
                                 outcome : Terminal \cup {"retry"}]
JobsOK     == jobs \in [Workers -> Jobs \cup {None}]
AcceptedOK == accepted \in [1..MaxRows -> Nat]
IntakeOK   == /\ projecting \in [event : Events, secret : Secrets \cup {None}] \cup {None}
              /\ projected \subseteq Events
CallsOK    == calls \in [Callers -> Calls \cup {None}]
KeysOK     == created \in Secrets /\ revoked \subseteq Secrets /\ deleted \in BOOLEAN
FaultsOK   == faults \in 0..MaxFaults

\* Rows, attempts, jobs and requests keep their types; an attempt fits its CHECK
\* (webhook_deliveries, webhook_subscriptions).
TypeOK == /\ SubOK /\ RowsOK /\ HistoryOK /\ JobsOK /\ AcceptedOK
          /\ IntakeOK /\ CallsOK /\ KeysOK /\ FaultsOK

\* The history and the delivery tell one story: every attempt is recorded at
\* most once, and none after the one that settled the delivery.
HistoryAgrees ==
    /\ \A h \in history : \A g \in history :
         h.row = g.row /\ h.attempt = g.attempt => h = g
    /\ \A h \in history :
         /\ h.row <= Len(rows) /\ h.attempt <= rows[h.row].attempt
         /\ h.outcome \in Terminal =>
              rows[h.row].status = h.outcome /\ rows[h.row].attempt = h.attempt
    /\ \A d \in 1..Len(rows) : rows[d].status \in Terminal =>
         [row |-> d, attempt |-> rows[d].attempt, outcome |-> rows[d].status] \in history

\* Every attempt beyond the budget of eight takes a crash or a lease overrun: a
\* retry is never scheduled past it (Worker.ProcessOne).
AttemptsBounded ==
    \A d \in 1..Len(rows) : rows[d].attempt <= MaxAttempts + faults

\* So does every time a receiver accepts a delivery it has accepted before.
AcceptedOnce ==
    \A d \in 1..Len(rows) : accepted[d] <= 1 + faults

\* A delivery whose lease is out of date cannot be settled by its old holder, and
\* a settled one never changes (Complete's checks, webhook_deliveries_guard_update).
SettledOnce ==
    [][\A d \in 1..Len(rows) :
        /\ rows[d].status \in Terminal => rows'[d] = rows[d]
        /\ rows'[d].attempt >= rows[d].attempt
        /\ rows'[d].secret = rows[d].secret]_vars

\* Once a DELETE has answered with success no delivery of the subscription, queued
\* before, meanwhile or after, can be signed any more (DisableSubscription).
SilentAfterDelete ==
    deleted => \A d \in 1..Len(rows) : rows[d].secret \in revoked

\* A secret that may have signed a delivery is revoked or still on record, where
\* a DELETE will find it (RotateSubscription, FinalizeRotation).
KeysOnRecord ==
    \A d \in 1..Len(rows) : rows[d].secret \in revoked \cup SigningKeys

\* Workers whose attempt, if it fails for good, will not disable the subscription.
Lenient == {w \in Workers : jobs[w] # None /\ jobs[w].failures + 1 < DisableAfter}

\* The count is read with the claim, before the request is sent: a subscription
\* stays active past DisableAfter failures in a row only by attempts begun before,
\* and those still under way cannot carry it more than one past for every worker
\* but one (Worker.ProcessOne).
FailuresBounded ==
    sub.status = "active" /\ sub.failures # 0 =>
        /\ DisableAfter > 1
        /\ sub.failures + Cardinality(Lenient) <= (DisableAfter - 1) + (Cardinality(Workers) - 1)

\* An event is projected once: it has one first delivery, written with the
\* receipt or not at all, and none only if the endpoint is disabled
\* (ProjectEventTransaction).
ProjectedOnce ==
    /\ \A e \in projected : sub.status = "disabled" \/ \E d \in 1..Len(rows) : rows[d].event = e
    /\ \A d \in 1..Len(rows) : rows[d].origin = None =>
           /\ rows[d].event \in projected
           /\ \A g \in 1..Len(rows) : rows[g].origin = None /\ rows[g].event = rows[d].event => g = d

\* An event has its delivery unless the endpoint is disabled first
\* (ProjectEventTransaction).
EveryEventProjected ==
    \A e \in Events : <>(sub.status = "disabled" \/ \E d \in 1..Len(rows) : rows[d].event = e)

\* Every queued delivery succeeds or reaches the dead letters.
EveryDeliverySettled ==
    \A d \in 1..MaxRows : (d <= Len(rows)) ~> (d <= Len(rows) /\ rows[d].status \in Terminal)
=============================================================================
