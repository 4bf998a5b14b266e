# Verification of TORGNEXA

TORGNEXA is a modular monolith for commerce, written in Go. PostgreSQL holds
the operational truth; what happens in it leaves through a transactional outbox
to Kafka, is consumed by groups that keep an inbox of what they have handled,
and reaches external systems as signed webhooks. Beside that event path, a
fleet of workers executes workflows, with approvals by people, and moves the
reservations of a warehouse that goes down to one that is up. This directory
models these parts in TLA+, checks them with TLC on small instances and proves
their main safety properties with TLAPS for every value of the constants.

Paths below are relative to the repository's root. `IInv`, `TypeOK` and so on
are definitions of the modules.

## 1. Inventory

### 1.1 The event path

| Component | State it keeps | Operations | Correct when |
|---|---|---|---|
| **Outbox and relay** (`internal/platform/outbox`, `postgres/outboxrepo`) | `outbox_events`: envelope, attempts, lease token and expiry, `available_at`, `published_at` | `Enqueue` in the domain's transaction; `Claim` of a batch under a lease; `RunOnce` publishes each record and calls `MarkPublished` or `ReleaseForRetry` | every committed event is published, nothing else is; a stale relay cannot settle a row; duplicates take a fault and are bounded |
| **Event consumers** (`kafkaeventbus`, `kafkatransport`) | offsets of each group, the retry and dead-letter topics, the attempt in a header | `Run` reads, `HandleOne` decides, `retryAndCommit`, `deadLetterAndCommit`, `commit` | an event is handled, dead-lettered or still to be read, for every group; attempts are counted right |
| **Inbox** (`postgres/inboxrepo`, `inbox`) | `inbox_receipts`, a transaction-scoped advisory lock | `Process`, `ProcessWithSQLTransaction`, `ProcessWithFirstObservedTime` | an effect is committed once, and success is answered only for it |
| **Outbound webhooks** (`webhooks`, `postgres/webhookrepo`) | subscription (status, failures, two secret references), deliveries (status, attempt, lease, snapshot of the secret), attempt history | projection from Kafka, `Replay`; `Claim`, `Send`, `Complete`; `DisableSubscription`, `RotateSigningSecret`, `FinalizeRotation` | every delivery settles once, within its budget; the endpoint is disabled when it should be; secrets are never lost or usable after a delete |
| **Worker runtime** (`app/worker`, `postgres/workerrepo`) | none of its own | `supervise` runs the components, `runTenantDispatch` polls tenants | one tenant or component does not stop the others |

They interact through shared tables (a domain transaction inserts the outbox
row; the inbox transaction inserts the webhook deliveries), through Kafka
messages (relay to consumers, consumers to their retry and dead-letter topics)
and through one process: the worker runs the relay, the consumers and the
webhook attempts as components of one supervisor, whose first error stops the
process, which is then started again.

The hard behaviour is the same everywhere: a lease that ends while its holder
is still at work; a step outside any transaction (publish, HTTP request) between
two that are inside one; an answer that is lost although the step took place; a
value read at the claim and used at the end; several processes polling the same
rows. `PROJECT.json` lists each such place with its line ("hazards").

### 1.2 What the workers execute

| Component | State it keeps | Operations | Correct when |
|---|---|---|---|
| **Workflow engine** (`workflowengine`, `core/workflow`, `postgres/workflowrepo`) | runs (status, attempts, lease, `available_at`, version), one step row per node, append-only evidence | `CreateRun`, `CancelRun`; `ClaimRuns`, then `Execute`: per node mark, call the adapter, record, append evidence; `ReleaseRun` | nothing runs before its parents opened it; a run ends as its steps did; a worker that lost its lease spoils nothing; every run ends |
| **Approval** (`approval`, `postgres/approvalrepo`) | requests: stage, votes, state, `expires_at` | `NewRequest`, `Decide` (approve, reject) | approved means the quorum of every stage, of distinct eligible people |
| **Reservations and failover** (`postgres/inventoryrepo`) | positions (on hand, reserved), tracked allocations of order items, operational state and incidents of warehouses | `ReserveOrderItem`, `SetOnHand`, `SetOperationalState`, `ProcessWarehouseIncidentBatch` | reserved units are allocated and on hand; an incident that completes leaves nothing behind; no deadlock; every incident is processed |
| **Runtime jobs** (`postgres/workerrepo`, `worker_runtime_jobs`) | one leased row per eligible item | `claim_`, `release_` and `complete_worker_runtime_job(s)` | an item is worked on by one worker while its lease lasts, and by another one after |

Here every call of the store is a transaction of its own, so a run or an
incident is worked on between leases, row locks and version checks that fail in
different ways. An approval is decided by people while the run that asked waits
for its next turn. Reservations, stock changes, orders that end and offers that
are archived meet the batches of a failover, at two warehouses that may fail at
the same time and be each other's fallback.

### 1.3 The other components

`PROJECT.json` lists all of them with the reason they are not modelled, or the
plan for it. Stateful ones with a protocol of their own: the leader-elected
scheduler (leases with fencing tokens, in memory), connector synchronisation
(runs with checkpoints and schedules), the warehouse ledger, the leased token
refresh of the secret store, uploads, social publication, reconciliation,
payments, returns, orders, entitlements and marketplace publication. Without one
that a model would show more of than the code does: reporting and search
projections, retention and privacy rules, notifications, audit, tenancy
(row-level security in SQL), the HTTP and MCP servers, provider connectors, the
frontend, the SDKs and the build tools.

## 2. Plan

Ordered by how much of the system rests on it.

1. *Done.* `Outbox`, refining `AtLeastOnce`.
2. *Done.* `EventConsumer`.
3. *Done.* `Inbox`, refining `OnceOnly`.
4. *Done.* `EventDelivery`: 1 to 3 composed, the outbox and the inbox by the
   abstract specifications they are shown to implement.
5. *Done.* `WebhookDelivery`.
6. *Done.* `WorkflowRun` with `Approval`: the engine, and the requests it waits
   for.
7. *Done.* `Fulfillment` over `RuntimeJobs`: reservations, warehouse incidents,
   and the leased queue that hands incidents to workers.
8. `WorkerRuntime`: `supervise`, `runTenantDispatch` and
   `list_worker_active_scopes` over several tenants. Question: does every
   tenant with due work get its turn when the batch of scopes is full of
   tenants whose work cannot proceed, and when one tenant's error ends the pass?
   Two or three tenants, a batch of one or two. Theorem: isolation of tenants'
   rows.
9. `Scheduler` (`internal/platform/background/scheduler.go`): leader lease and
   fencing token; at most one leader writes. Two or three instances, abstract
   specification "one writer per token". Theorem: fencing.
10. `SyncRun` (`syncengine`, `syncrepo`): run state machine, checkpoint, lease.
    Theorem: a checkpoint never goes back and never covers what was not applied.
11. `TokenRefresh` (`secretrepo/refresh_runtime.go`): single flight under a lease.

Each module there is has its safety properties proved; what a proof cannot reach
is listed in section 6. Refinements of abstract specifications stand for the
outbox, the inbox, the chain between them, the workflow run and the allocations.

## 3. The modules

| Module | Role |
|---|---|
| `AtLeastOnce` | abstract: what the outbox promises |
| `Outbox`, `MCOutbox`, `Outbox_proofs` | rows, relays, topic; instance; proofs |
| `Backoff` | the saturating doubling of the retry delay |
| `EventConsumer`, `MCEventConsumer`, `EventConsumer_proofs` | consumer groups of one base topic |
| `OnceOnly` | abstract: what the inbox promises |
| `Inbox`, `MCInbox`, `Inbox_proofs` | the inbox transaction |
| `EventDelivery`, `MCEventDelivery`, `EventDelivery_proofs` | the chain from commit to effect |
| `WebhookDelivery`, `MCWebhookDelivery`, `WebhookDelivery_proofs` | one subscription and its deliveries |
| `Approval` | approval requests |
| `PlanExecution` | abstract: what a run of a workflow promises |
| `WorkflowRun`, `MCWorkflow`, `WorkflowRun_proofs`, `WorkflowLeases_proofs` | the runs of one workflow version, and the requests of its approval nodes |
| `RuntimeJobs` | the leased queue of one kind of work |
| `Allocations` | abstract: what order items are promised of the stock |
| `Fulfillment`, `MCFulfillment`, `Fulfillment_proofs` | reservations, incidents and the workers that process them |

### 3.1 Outbox

State: the columns of `outbox_events` that decide anything (`published`,
`attempts`, `leaseToken`, `leaseLeft`, `wait`), the position of every relay in
`RunOnce`, its batch and its token, and the topic. `legacy` says whether a row
without an envelope exists, which makes every claim fail
(`outboxrepo/repository.go:207-213`).

`Enqueue`, `Claim`, `PollEmpty`, `ClaimLegacy`, `PublishOk`, `PublishError`,
`MarkPublished`, `ReleaseForRetry` and `LeaseLost` are the statements and
branches of `TransactionEnqueuer.Enqueue`, `Repository.Claim` and
`Relay.RunOnce`; `Crash` stops a relay between any two of them, `Restart` starts
it again. A claim leases up to `BatchSize` of the oldest claimable rows under one
fresh token; `FOR UPDATE SKIP LOCKED` lets it pass over rows another claim has
locked at that moment. Time is countdowns and `Tick`, so that a lease can end in
the middle of a batch. `PublishError` covers a record the broker took although
the producer reported an error.

### 3.2 EventConsumer

State: the records of the base and the retry topic (one partition each), the
dead letters, per group the member that owns each topic, the committed offset
and the owner's fetch position, and each member's place in `HandleOne`. `Poll`
is `Reader.Read`, `Wake` the sleep until `not_before`, `HandlerOk`,
`HandlerPermanent`, `HandlerRetryable` and `DropPoison` the outcomes of
`HandleOne`, `ProduceOk` and `ProduceFail`, `CommitOk` and `CommitFail` the two
steps that follow. A failed publish or commit may have taken effect. `Restart`
stops a process: the record in its hands is gone, and what it owns is read again
from the committed offset. `HandOver` is a rebalance: the new owner reads from
the committed offset, and the old owner's loop is not told
(`kafkaeventbus/franz.go` sets neither `BlockRebalanceOnPoll` nor
`OnPartitionsRevoked`, and `adapter.go:310-341` looks at nothing of the kind).
It goes on with its record, and its commit is still taken, so two members may be
at one record and the committed offset of a group may go back. That a base topic
and its retry topic are shared by all groups is what `NewConsumer` and the topic
names make of it.

### 3.3 Inbox

State: receipts, committed effects, the advisory lock, the workers' places in
`process`. Each statement of the transaction is a step; what it wrote becomes
visible with `Commit`, in one step with the release of the lock. `Abort` is any
failure or stop: a rollback, or a commit whose answer is lost. `RetainTime` picks
the path of inbound webhooks, where the arrival time is cut to microseconds and
the fingerprint is taken with the time of the first delivery. `LockKey` may map
several ids to one key, as a digest may. Instants have one digit finer than the
stored microsecond.

### 3.4 EventDelivery

Extends `EventConsumer` with the outbox as an instance of `AtLeastOnce` and
each group's inbox as a count of effects. `Relay` is the publish of the channel
and of the base topic at once; `Apply` is the inbox transaction; `Success`,
`Retryable` and `Permanent` are the consumer's steps on its answer. An event
with a receipt is a duplicate before its handler can refuse it, so `Permanent`
needs that there is none.

### 3.5 WebhookDelivery

State: the subscription row, the deliveries, the attempt history, each worker's
claim in hand (with the failure count the claim returned), the projection in
progress, the management requests in progress, and the secret provider's
created and revoked secrets.

| Actions | Code |
|---|---|
| `ReadSubscription`, `CommitProjection`, `AbortProjection` | `ProjectEventTransaction` inside the inbox transaction |
| `Replay` | `Repository.Replay` |
| `Claim`, `Send`, `Complete`, `CompleteRefused` | `Worker.ProcessOne` with `Repository.Claim`, `HTTPTransport.Send`, `classify` and `Repository.Complete` |
| `Crash`, `LeaseLapses`, `BecomesAvailable`, `OverlapEnds` | a stop of the worker, the three deadlines |
| `Disable`, `RevokeKey`, `AnswerDisable` | `Service.DisableSubscription` |
| `BeginRotation`, `Rotate`, `RotationRefused`, `RotationUnanswered` | `Service.RotateSigningSecret` |
| `BeginFinalize`, `RevokePrevious`, `ClearPrevious` | `Service.FinalizeRotation` |
| `CallLost` | a request that ends between two of its steps |

The attempt number stands for the lease token: every claim raises it and `Complete`
compares both. `late` is whether `updated_at` has passed
`previous_valid_until`, all that `Subscription.Validate` looks at in them.

Two constants stand for the database driver. `Interleaves` says whether a
statement may run on a transaction's connection while a result set on it is
being read, `ScansNull` whether `Scan` stores a NULL in a Go string. With pgx
behind `database/sql` both are `FALSE`, and a violation run shows what each of
the two alone does: with `Interleaves` false no event is projected
(`webhook_busy`), with `ScansNull` false no first delivery is ever claimed
(`webhook_null`).

The passing run `webhook` sets both to `TRUE`, which takes no behaviour away but
for the bound on faults: a step that is refused as built is allowed there, and a
projection may still be rolled back. It checks safety only. The seven invariants
it checks are proved for all four combinations of the two constants, so they
hold of the code as built and of the code with either call repaired; of the code
as built they say little, since it gets no further than an event that is not
projected. No liveness of webhooks is claimed by a passing run.

Left out: `CreateSubscription` (the initial state is a subscription just
created), `Service.Handle` and `Repository.Enqueue` (an older way to project
that the worker does not use), the limit of the projection's own retries (that
is `EventConsumer`), the order of `available_at` between claimable deliveries
(any of them may be claimed). With the order the second finding is worse than
the model says: the delivery that cannot be claimed is the oldest, and every
other delivery of the workspace waits behind it. `MaxBusy` bounds how many
attempts and management requests are under way at a time; it guards the step
that begins one and nothing else.

### 3.6 Approval and WorkflowRun

`Approval` is `NewRequest` and `ApplyDecision`, one step each, since `Decide`
holds the row of the request. That `expires_at` has passed is a fact of the request
(`late`): nothing in the program calls `Expire` or `Escalate`, so a request that
is late stays pending, and so does the run that waits for it.

`WorkflowRun` extends it. State: the run row, the step rows, the evidence, and
each worker's place in `Execute` with its copy of what it read.

| Actions | Code |
|---|---|
| `CreateRun`, `CancelRun` | `workflowrepo.CreateRun` under the advisory lock of the workspace, `CancelRun` |
| `ClaimRuns` | `workflowrepo.ClaimRuns`, called by `runWorkflowAutomation` |
| `LoadRun`, `BeginRun` | `GetRun`, the check of the plan, `UpdateRun` to running, with the version check, `workflow_run_guard` and the limit of the attempts column |
| `ReadStep`, `MarkStep`, `CallAdapter`, `RecordStep`, `AppendEvidence` | the body of the loop over `Plan.NodeIDs` |
| `ReleaseRun`, `FinishRun` | `ReleaseRun` with the outcome of a node that stops the run, or with completed |
| `Decide`, `Deadline` | people's votes, the TTL of a request |
| `BecomeDue`, `ExpireLease`, `StoreFails`, `Crash` | clocks and faults |

A step row never takes a value twice (its attempts grow), so comparing it with
the copy that was read is the version check. A run row can take one twice, hence
`stale`: the workers whose copy has been overtaken. `lapsed` and `calls` are
history variables that no guard reads. A delay is retryable until its step's
attempts are spent; an action succeeds or fails; an approval node asks once and
then answers as its request stands.

`PlanIntact` is whether the stored definition still compiles to the published
digest (`engine.go:104-108`). It need not: the definition is stored as `jsonb`
(`workflowrepo/repository.go:183`), which reorders the keys of a node's
configuration, and the digest is taken over the configuration as it is written
(`core/workflow/workflow.go:147`, `357-365`). Such a run is loaded, refused and
left as it was: the release as failed is refused by `workflow_run_guard`, whose
queued runs may only begin or be cancelled, and the error is dropped. The runs of
TLC have an intact plan; the other case is a theorem (`ChangedPlanNeverRuns`).
The two other early ends of `Execute` cannot happen: a version has its
`published_at` from the statement that inserts it (`repository.go:183`), and a
condition or delay with an invalid configuration (`engine.go:199-205`) is refused
by the validation that every definition passes when it is published and again
when it is read (`workflow.go:164-173`, `630-680`).

### 3.7 RuntimeJobs and Fulfillment

`RuntimeJobs` is the three SQL functions on `worker_runtime_jobs`. A claim first
deletes the rows of items that are no longer eligible, leased ones too, inserts
the new ones, and leases what is due: an eligible item cannot be forgotten, and
a worker's lease can vanish under it.

`Fulfillment` extends it with `JobItems` as the incidents. The variables hold
what is committed. Of a transaction that waits for several locks, each lock is
a step; what it is about to write is in `worker[v]` (`moves`, `last`,
`attention`) and takes effect with its commit.

| Actions | Code |
|---|---|
| `BeginReserve`, `CommitReserve`, `RollBackReserve` | `ReserveOrderItem` with `requireWarehouseAllocatable`, the trigger of `inventory_positions` and the unique index on reserved allocations |
| `SetOnHand`, `EndOrder`, `ArchiveOffer` | `SetOnHand`; the writes of orders and catalogue that the allocations meet |
| `SetOperationalState` | `SetOperationalState` |
| `Claim`, `Settle`, `Restart` | `runWarehouseIncidents` with the dispatch queue; a lost lease is an error that stops the process |
| `BeginBatch`, `CommitBatch` | `ProcessWarehouseIncidentBatch`: the lock on the incident, the batch of offers after the cursor, decisions and progress |
| `VisitOffer`, `LockSource`, `LockDestination` | `executeOfferFailoverTx` with `resolveDestinationForQuantityTx` |
| `Crash`, `FailBatch`, `Expire`, `ComeDue` | faults and clocks |

Every item asks for one unit, so a quantity is a number of items. `late` is a
history variable: the items whose reservation was committed at a warehouse that
had gone down by then. `n` numbers the incidents of a warehouse: a batch that
was begun for an incident that has been resolved finds it so.

## 4. What the runs check

Passing runs (states are distinct states):

| Run | Instance | Shows |
|---|---|---|
| `outbox` | 2 relays, 2 events, batches of 2, leases of 2 ticks, 2 faults (88,050) | `LeaseExclusive`, `DuplicatesBounded`; `ChannelSafe`: refinement of `AtLeastOnce`; `EveryEventPublished` |
| `consumer` | 1 group of 2 members that hand both topics to each other, 2 events, one of them malformed, 3 attempts, 2 faults of which 1 may be a failed publish (497,586) | `NothingLostButByProduce`, `AttemptsEarned`, `EveryEventSettled` |
| `inbox` | 2 workers, 2 ids under one lock key, one of them with two bodies and two times, retained arrival time, 1 fault (25,664) | `EffectWithReceipt`, `AnswersAreTrue`, `EveryDeliveryAnswered`; `ImplementsOnceOnly`: refinement of `OnceOnly` |
| `event_delivery` | 2 groups on one retry topic, 1 event, 2 attempts, 1 fault, which may be a failed publish (440,514) | `RecordedIsSafe`, `EffectsAreEarned`, `EveryEventTakesEffect` |
| `webhook` | 2 workers, 2 concurrent requests, 1 event, 2 deliveries of 2 attempts, 3 secrets, 2 things under way at a time, 1 fault (2,612,338) | `HistoryAgrees`, `AcceptedOnce`, `FailuresBounded`, `ProjectedOnce`, `SilentAfterDelete`, `KeysOnRecord` |
| `workflow` | 2 workers, 1 run of 6 nodes (condition, delay, approval of two stages, two actions behind it, closed branch), 3 actors of whom one filed the request, 1 fault (259,660) | `ApprovedByQuorum`, `OpenedByParents`, `CallsCounted`, `OverlapNeedsLapse`, `EndedRunsRest`, `EveryRunSettles`; `RunsThePlan`: refinement of `PlanExecution` |
| `fulfillment` | 2 warehouses that both go down and come back, each the other's fallback, 2 workers, 2 items of 2 orders, 1 client, 1 fault (1,037,964) | `ReservationsBacked`, `StrandedOnlyLate`, `NoCircularWait`, `OneWorkerPerIncident`; `KeepsAllocations`: refinement of `Allocations` |
| `fulfillment_batches` | 3 warehouses of which one goes down and one may be degraded, 2 offers in batches of 1, a legacy reservation, 1 change of stock, an offer that may be archived, 1 fault (249,194) | `StrandedOnlyLate` over several batches, `EveryIncidentSettles` |

Why the bounds are enough. Every hazard here is between two actors: two relays,
two workers, two requests or two warehouses, over one or two rows. Two of each
show every order of their steps; a second event, delivery or item is there
wherever one may overtake or cover another. The second action behind the
approval is there because `OpenedByParents` speaks of all that is behind a gate,
not of its children alone. The person who filed the request is among the
eligible of a stage, so that the separation of duties has somebody to refuse.
The webhook run has one answer for each way a delivery goes on (accepted,
retried, given up): `unsafe` does what `permanent` and `lookup` do, and also
when the secret is revoked. It takes workers and requests as symmetric, which is
sound since it checks invariants only. Attempt limits of 2 or 3 reach the
budget's edge from both sides. `MaxFaults`, `MaxCopies`, `MaxProduceFailures`,
`MaxRedeliveries`, `MaxRows`, `MaxSecrets`, `MaxBusy`, `MaxIncidents`,
`MaxChanges` and `MaxStock` bound what may go wrong or be created; they are
guards of the steps they count and appear in no other. `MaxRunAttempts` (4 for
the column's limit) is reached only by runs that fault or wait, which
`EveryRunSettles` excuses (`Spent`). Small instances stand for the code's
limits: 2 active runs for 8, one offer per batch for 200. The fulfillment run
has one incident per warehouse, which is enough for two opposite failovers at
once; that a second incident of a warehouse meets the batch of the first is
covered by the theorems only, which hold without any of these limits on size.
The runs take the harder of the two values of `RetainTime`; the theorems hold
for both.

`CHECK_DEADLOCK FALSE` is set where the modelled system comes to rest: all
events are handled, all deliveries settled, all runs ended, all incidents
processed, all faults used up. The outbox run checks deadlock, its relays poll
for ever. That nobody waits for ever in `Fulfillment` is `NoCircularWait` and
`EveryIncidentSettles`.

Violation runs, each a disagreement between the code and what the repository
says of it (quoted in `PROJECT.json`, "findings"):

| Run | Property | What happens |
|---|---|---|
| `consumer_lost` | `NoEventLost` | the retry publish fails, the loop reads on, the next commit moves the offset past the event |
| `webhook_busy` | `EveryEventProjected` | the projection inserts while its result set is open |
| `webhook_null` | `EveryDeliverySettled` | a first delivery has a NULL `replay_of`, which the claim cannot scan: it is rolled back each time |
| `workflow_full` | `EveryRunSettles` | runs that wait to be claimed count against the limit of active runs: at the limit nothing is claimed any more |

### Observations

Met while reading and modelling, without a run of their own; the modules contain
the behaviour wherever they contain the code.

* *Order.* `ReleaseForRetry` delays only the failed row, so a later event of the
  same aggregate overtakes it (`outbox.go:175`;
  `docs/04-event-platform-kafka.md:52` says "Ordering is per aggregate").
* *Shared retries.* A group sleeps on retry records that another group asked for
  (`adapter.go:359`; `worker.go:407` says the reporting consumer "never blocks or
  retries webhook delivery").
* *Lookups.* A failed DNS lookup is a permanent failure (`webhooks.go:545`;
  `docs/48-webhook-delivery.md:17` says network failures are retryable).
* *Unrecordable answers.* A status code the CHECK of `webhook_delivery_attempts`
  refuses (100 to 599 are accepted) can never be recorded: the delivery is sent
  until its attempt limit and never settled.
* *Disabling.* The failure count is read with the claim and compared after the
  request (`webhooks.go:698`): two deliveries claimed at one count leave the
  endpoint active past its limit. `FailuresBounded` says how far: by one for every
  worker but one.
* *Rotation.* A COMMIT whose answer is lost makes the compensation revoke the
  secret that the subscription now uses (`webhooks.go:335`): nothing can be
  signed until the next rotation. `KeysOnRecord` holds in that state too; no
  property of the runs tells it apart.
* *Overlap.* Recording a delivery moves `updated_at` (`repository.go:352`).
  After `previous_valid_until` the row no longer passes
  `Subscription.Validate` (`webhooks.go:84`), so the rotation cannot be finalized.
* *Late reservations.* The state of a warehouse is read without a lock
  (`allocations.go:136-148`), so a reservation can be committed at a warehouse
  that has gone down (`migrations/000011_runtime_operations.sql:549`:
  "LOST/UNAVAILABLE blocks new stock reservations"). If the incident's cursor has
  passed that offer, the allocation stays. `StrandedOnlyLate` says that this is
  the only way.
* *Archived offers.* The trigger refuses to raise the reservation of an archived
  offer (`migrations/000011_runtime_operations.sql`, `inactive operational
  parent`). A batch that moves one fails as a whole, each time it is tried, and
  the offers after it wait. `EveryIncidentSettles` excuses that case by name.
* *Ended orders.* Nothing ever marks an allocation consumed or cancelled, so
  one of a fulfilled order keeps its reservation, and blocks the failover of its
  whole offer (`allocation_conflict`).
* *Evidence.* It is appended after the step is recorded, in another transaction
  (`engine.go:267`). After a crash between them the step is passed over as
  completed and its evidence is never written.
* *Plans.* A configuration whose keys `jsonb` puts in another order makes the
  plan's digest another one: no run of that version is ever begun, each stays
  queued and holds one of the eight places until it is cancelled (section 3.6).
* *Spent attempts.* A run that waits for an approval is executed every minute and
  spends one of its 64 attempts each time; so does one whose worker stopped
  between a failed step and the release. After that it is active for ever.
  `EveryRunSettles` counts it as settled (`Spent`): it bounds the loop.
* *Unlisted workspaces.* A workspace with due runs and no other due work is not
  visited at all; `EveryRunSettles` assumes that it stays listed.
* *Cancelling.* `CancelRun` clears the lease but does not stop the worker; its
  adapter calls go on to the end of the plan. `EndedRunsRest` says what does hold.
* *Stale leases.* A worker whose lease was taken gets an error from
  `Complete` that ends the loop and, through `supervise`, the process
  (`worker.go:1115`).
* *Pick tasks.* `WMSCreateOrderPickTasks` (`wms.go:428-535`) queries while its
  rows are open, as the webhook projection does.

Each property of a passing run has a mutant in `PROJECT.json`: a definition of
the module replaced by a plausible mistake, which must violate it. The mutated
forms stand in the modules right before the definitions they replace and are
used by nothing else.

### Fairness

* `Outbox`: time passes; the poll loop returns to `RunOnce`
  (`worker.go:1170-1190`); a call to the broker or the database returns; a
  stopped worker is started again (`docker-compose.yml`, `restart:
  unless-stopped`). Nothing makes a domain transaction, a crash or a failed
  publish happen, and nothing makes a successful one: faults are bounded.
* `EventConsumer`, `EventDelivery`: each member's loop takes a step when it can.
  Which topic the client hands out, and which way a handler ends, is left open,
  as is every fault.
* `Inbox`: a transaction that began goes on, and a source repeats a delivery
  that has no answer, as Kafka does with an uncommitted record.
* `WebhookDelivery` (the two violation runs): the event bus delivers again, each
  worker polls, deadlines pass. A lease whose holder is at work need not lapse; no
  request need be made.
* `WorkflowRun`: workers poll and execute, runs become due, leases that nobody
  works under end. Nobody need vote. That a workspace is listed is assumed from
  some point on (`<>[]listed`): `list_worker_active_scopes` lists a workspace by
  its outbox, webhook and assistant work, not by its workflow runs.
* `Fulfillment`: workers poll and go on, transactions end, processes are
  started again (as above), clocks pass. No operator, order or client need act.

Weak fairness suffices throughout: none of these steps is disabled again and
again by another actor, except where a fault, of which there are finitely many,
does it, or an operator's declaration, stock change or reservation, which are
bounded too.

## 5. What is proved

For every number of events, relays, groups, workers, callers, deliveries and
secrets, and every bound. TLC evaluates each module's ASSUMEs on its runs.

**Outbox** (`Outbox_proofs`). The inductive invariant is `TypeOK`, `BatchInv`
(what a relay remembers agrees with the rows: its records are committed and have
been attempted, the one it is about to mark is on the topic), `TokenInv` (a token
belongs to one batch for ever), `TopicInv` (only committed events are on the
topic, published ones are) and `LeaseSettled`. `TypeOK` alone is not inductive:
the delay is looked up by the attempts of a row, positive only because it was
claimed. From it: `TypeCorrect`, `StaleRelaysExcluded`, `RowsSettled` and
`ImplementsChannel`, the refinement of `AtLeastOnce`. `CopiesBounded` adds that
copies plus the relays that still owe a publish (`Debtors`) never exceed the
attempts; `NoDuplicateWithoutFault` that before the first fault every batch
holds its leases; together they are `DuplicatesAccounted`.

**EventConsumer** (`EventConsumer_proofs`). Committed offsets carry nothing from
step to step here: a commit moves over records settled before it, and a former
owner may commit behind its successor. So the invariant says of a record when it
can be left behind (`Passed`): it is at or before the committed offset; or the
owner's client has handed it out and the owner does not hold it; or some member
of the group, owner or not, has a later record in its hands or has settled this
one and is about to commit. While no publish of a replacement has failed, an
event without outcome has a record in one of the topics that is not passed in
any of these ways (`NoneForgotten`), which every restart, hand-over and commit
leaves so; `NothingLost` follows, since such a record lies past the committed
offset. `Shape` is `TypeOK` with the offsets and the records in hand within the
topics, and replacements of the record in hand. `EarnInv` says base records are
first attempts, retry records later ones, and a replacement about to be produced
is the next attempt of the record in hand; `SpentInv` that an event about to be
given up as exhausted has been retried under every attempt before:
`NoAttemptSkipped`. `OnceInv` says that until the first fault there is a map
from retry records to the records they replaced, of which the group that
replaced them is done and replaced none twice; a map without repetition into the
pairs of a group and a record bounds their number: `RetriesMultiplyOnly`,
carried over to the composition as `DeliveryRetriesMultiplyOnly`. Both are
proved only: see section 6.
**Inbox** (`Inbox_proofs`). `IInv` joins the lock's holder to the worker inside
the transaction, each receipt to its one effect, the freshness of what was
checked, and the answers to the receipts. `EffectsOnce`, `AnswersTrue`,
`ChecksHold` are its parts; `ImplementsOnceOnlyEffect` is the refinement.
`MatchesIsSame` is the lemma on the webhook path: cutting to microseconds twice
is cutting once, so a receipt matches exactly what it should.

**EventDelivery** (`EventDelivery_proofs`). A step of the composition is a step
or a stutter of `EventConsumer` (`ConsumerStep`), so its invariant carries over;
`SourceInv` (what is on a topic was stored) and `EffectInv` (handled events have
an effect, none has two) are added. `EffectsEarned`, `RecordedSafe`. That the
composition uses its parts as they are promised is proved too: `ComposesOutbox`
(every behaviour of the chain is one of `AtLeastOnce`) and `ComposesInbox` (for
every group it is one of `OnceOnly`, where an effect is the count going to one
and an answer is success). The abstract modules are thus what the components
implement on one side and what the chain relies on on the other.

**WebhookDelivery** (`WebhookDelivery_proofs`). `Shape` is `TypeOK` with
`JobInv`: a worker's claim is of a row there is and not newer than it.
`HistoryConsistent` and `SettledForGood` add that an attempt in hand is not in the
history. `KeysInv` follows a secret through every half-done request
(`IntakeKey`, `CallKey`, `DeletedKeys`) and gives `KeysStayOnRecord` and
`DeleteSilences`. `BudgetKept` and `AcceptedOncePerFault` need that a fault has
happened whenever a delivery's lease is loose: no worker holds it, or it has
lapsed under one (`Loose`). They assume `"unstorable" \notin Answers`: with it,
the refused `Complete` is an attempt without a fault. The run `webhook` leaves
that answer out for the same reason; a delivery that gets it is sent up to its
attempt limit and never settled (observations). `ProjectedOnceOnly` joins
the receipts to the first deliveries: the transaction writes both or neither, and
one that is under way is of an event that has neither. `FailuresOfActive`
needs no strengthening once the count is taken over the workers that may still
raise it without disabling (`Lenient`): a claim adds one worker to them only
while the count is below the limit, and a recorded failure takes its worker out.

**WorkflowRun** (`WorkflowRun_proofs`). `TypeOK` is inductive
(`WorkflowTypeCorrect`). `ChangedPlanNeverRuns` is about a plan that is not
the published one: no run of it has an attempt and no worker gets past loading
it (`NeverBegun`), so the row is still queued when it is to be released. `FlowInv` follows what a worker remembers: the nodes it
has behind it are completed or skipped, those it holds open are completed with a
result that opens, the node it calls was opened, what it is about to record of
an approval node was answered by the request, and what it is about to release
the run with is the status of the step it wrote. Step rows that are completed or skipped never change
and approved requests stay so, which is why another worker cannot spoil any of
this. From it: `RunsEndWithTheirSteps`. `QuorumInv`
(every stage behind the current one has its quorum, all votes are of the
entitled) gives `ApprovalNeedsQuorum`.

`WorkflowLeases_proofs` adds what is about leases, versions and counters.
`LeaseInv`: an ended run has no lease (`RowsLeased`), and whoever works on an
active run that never lost a lease holds it and is the only one (`Alone`); from
it `OneWorkerUnlessLapsed`. `FailedBehind` (every node before a failed step is
completed or skipped, hence no worker can mark a node behind it) gives
`RunsRest`. `CountInv` counts calls and attempts together with those still to
come: the workers that marked a node and have not called it (`Callers`), and the
executions that have not passed it (`Markers`), by cardinality, so that every
step moves one unit from one side to the other: `CallsAreCounted`. It needs
that the plan names a node once, which `Definition.Validate` sees to.

The same module shows that the engine implements `PlanExecution`, where a node
is settled in one step, once, and there are no workers: `ImplementsPlan`. A step
row maps to an outcome when it is completed, skipped or failed for good;
marking, calling, retrying and losing a lease are stutters. `PlanInv` gives what
is missing: an execution keeps every open node before it in its set
(`OpenKept`), so that it skips a node only when no parent opens it. `GateInv`
gives `NothingRunsUnapproved` in its strong form: a node with parents is called
only behind a completed parent that opens it, and nothing from which every way
up leads to a gate (`Behind`, the union of the sets of nodes closed under going
to a parent, the gate aside) is ever called while the gate's request is not
approved. The argument runs over one such closed set, so no induction over the
graph is needed.

**Fulfillment** (`Fulfillment_proofs`). The invariant has four layers.
`Shapes` is `TypeOK` with the form of a worker's record at each place, and
that a batch belongs to an active incident of a warehouse that is down, one
batch each: `TypeInvariant`. `Circles` says that a batch holds positions only of
offers it has decided, besides the source of the offer at hand (`Ordered`), and
that of any batches at their destinations one waits for a warehouse that none of
the others is emptying (`Downhill`): the last to choose, since it chose a
warehouse that was up. Of the batches in a circle of waits, those at the highest offer
would hold their sources and wait for each other's: `NoCircle`.
`Checked` joins each lock to one holder and what was checked under it to what is
committed (`Locks`, `Calls`, `Sound`): room found at a locked position is still
there at the commit, so `ReservationsBacked` is kept (`Backed`) and the orders of
what is about to move have not ended (`EndedStay`). `Complete` follows the
cursor: every item at a warehouse that is down, of an offer the cursor has
passed, is late, is about to move, or has made the incident ask for attention
(`Passed`, `Thorough`): `NothingStranded`.

`ImplementsAllocations` is the refinement of `Allocations`: with the committed
allocation of an item as its place, every commit is one of an abstract
reservation, move, stock change or end of an order, each leaving what is
promised covered by what is on hand; every lock, decision, claim, roll-back and
crash is a stutter. Beside `Checked` it needs that a batch moves along the
routes of its warehouse and the items of one offer to one destination
(`Routed`). `LeaseHonoured` is about the queue: until something fails, a worker
engaged with an active incident holds its lease and no two are engaged with one
(`OneWorkerPerIncident`). Its invariant `Leased` adds that workers hold nothing
they have not claimed and not settled, and that an incident that stopped being
eligible, whose row a claim may delete under its worker, never becomes eligible
again.

## 6. What is only model-checked, and what is not shown

* Liveness (`EveryEventPublished`, `EveryEventSettled`, `EveryDeliveryAnswered`,
  `EveryEventTakesEffect`, `EveryRunSettles`, `EveryIncidentSettles`, and
  `EveryEventProjected` and `EveryDeliverySettled`, which are violated) and `ENABLED` are out of the
  prover's reach and checked by TLC only.
* `Backoff` is a recursive function; its values are computed by TLC in
  `MCOutbox`, nothing is proved by induction about it.
* Proved, and not a property of a run: `RowsSettled`, `RetriesMultiplyOnly`,
  `DeliveryRetriesMultiplyOnly`, `ChecksHold`, `ComposesOutbox`, `ComposesInbox`,
  `SettledForGood`, `BudgetKept`, `RunsEndWithTheirSteps`, `ChangedPlanNeverRuns`,
  `EndedStay`. The two about retries bound the records of attempt `n + 1` by those
  of attempt `n` times the groups. They say something new from the third attempt
  of two groups on, an instance too large for a run (TLC agreed on it without
  faults); with two attempts the bound is that of one record.
* `EventDelivery` uses the outbox and the inbox by their abstract
  specifications. The safety of the outbox's refinement is proved and checked; the
  fairness of the channel is assumed there and corresponds to
  `EveryEventPublished` of `Outbox`.
* Partitions: each topic has one. Order across partitions is not a promise of
  the code.
* Real durations: backoff sums, lease lengths and clock differences between the
  relay and the database are not modelled.
* Tenancy: each model is of one tenant; isolation is by row-level security.
* Workflows: `TriggerEvent` and `DispatchDueSchedules`, which only create more
  queued runs, and query while their rows are open; the limit of 120 runs per
  minute; the authoring of definitions.
* Inventory: `Reserve`, `Release` and `ConsumeReserved` of positions, which no
  program calls (reservations made so are `Legacy`); repeated requests answered
  from the first one's result; changes of routes; warehouses set inactive; the
  warehouse tasks and the ledger.
* Kafka, franz-go, PostgreSQL, `database/sql`, the secret provider, the
  receivers of webhooks and the adapters of actions are external and modelled from
  how the code uses them.
