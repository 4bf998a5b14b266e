----------------------------- MODULE Fulfillment -----------------------------
(***************************************************************************)
(* Reservations of order items at warehouses, and what happens to them     *)
(* when a warehouse goes down: SetOperationalState opens an incident, and  *)
(* workers move the tracked allocations, offer by offer in bounded         *)
(* batches, to a warehouse that is up (ProcessWarehouseIncidentBatch).     *)
(*                                                                         *)
(* Everything runs in READ COMMITTED transactions, so the variables hold   *)
(* what is committed, and a transaction is the steps between the locks it  *)
(* waits for: row locks on the incident and on the positions it changes,   *)
(* shared ones on the orders of the allocations it moves.  The operational *)
(* state is read without a lock.  Every item asks for one unit.            *)
(*                                                                         *)
(* Of the operational states unavailable and lost are one, "down".         *)
(***************************************************************************)
EXTENDS RuntimeJobs

CONSTANTS
    Warehouses,
    NumOffers,          \* offers, in the order of their ids: 1 .. NumOffers
    Items,              \* order items
    Orders,
    OfferOf,            \* order_items.offer_id
    OrderOf,            \* order_items.order_id
    Routes,             \* Routes[w]: enabled failover destinations of w
    Priority,           \* Priority[w][d] of that route
    Stock,              \* Stock[w][o]: units on hand at first
    Legacy,             \* Legacy[w][o]: units reserved without an allocation
    Clients,            \* callers of ReserveOrderItem
    Nowhere,            \* no warehouse
    Limit,              \* offers of one batch (200)
    Archivable,         \* offers the catalogue may archive
    Declared,           \* bound: Declared[w], the states operators declare of w
    MaxStock,           \* bound: units an operator sets a position to
    MaxChanges,         \* bound: operator's changes of stock
    MaxIncidents,       \* bound: incidents of a warehouse
    MaxFaults           \* bound: crashes, failed transactions, overrun leases

Offers == 1 .. NumOffers

ASSUME FulfillmentAssumption ==
    /\ Nowhere \notin Warehouses
    /\ Nobody \notin Workers \cup Items
    /\ Workers \cap Clients = {}
    /\ IsFiniteSet(Items) /\ IsFiniteSet(Warehouses) /\ IsFiniteSet(Workers)
    /\ NumOffers \in Nat
    /\ OfferOf \in [Items -> Offers]
    /\ OrderOf \in [Items -> Orders]
    /\ Routes \in [Warehouses -> SUBSET Warehouses]
    /\ \A w \in Warehouses : w \notin Routes[w]
    /\ Priority \in [Warehouses -> [Warehouses -> Nat]]
    /\ Stock \in [Warehouses -> [Offers -> Nat]]
    /\ Legacy \in [Warehouses -> [Offers -> Nat]]
    /\ \A w \in Warehouses, o \in Offers : Legacy[w][o] <= Stock[w][o]
    /\ Limit \in Nat \ {0}
    /\ Archivable \subseteq Offers
    /\ Declared \in [Warehouses -> SUBSET {"active", "degraded", "down"}]
    /\ MaxStock \in Nat /\ MaxChanges \in Nat
    /\ MaxIncidents \in Nat /\ MaxFaults \in Nat
    /\ JobItems = Warehouses \X (1 .. MaxIncidents)

VARIABLES
    state,      \* warehouse_operational_state: "active", "degraded", "down"
    incident,   \* incident[w]: the last incident of w (n = 0: none yet)
    onHand,     \* inventory_positions
    reserved,
    alloc,      \* alloc[i]: where the item's reserved allocation is
    ended,      \* orders fulfilled or cancelled
    archived,   \* archived offers
    client,     \* client[c]: the reservation c has yet to commit
    worker,     \* where each worker is, and its open transaction
    late,       \* items allocated at a warehouse that was down by then
    changes,    \* changes of stock so far (bounded by MaxChanges)
    faults      \* faults so far (bounded by MaxFaults)

stock == <<onHand, reserved>>
vars  == <<job, state, incident, onHand, reserved, alloc, ended, archived,
           client, worker, late, changes, faults>>

NoCall == [item |-> Nobody, at |-> Nowhere]
Idle   == [pc |-> "idle", queue |-> {}, at |-> Nowhere, n |-> 0, last |-> 0,
           offers |-> {}, items |-> {}, dest |-> Nowhere, held |-> {},
           moves |-> {}, attention |-> FALSE]

Init ==
    /\ InitJobs
    /\ state = [w \in Warehouses |-> "active"]
    /\ incident = [w \in Warehouses |->
                     [n |-> 0, status |-> "resolved", cursor |-> 0, attention |-> FALSE]]
    /\ onHand = Stock
    /\ reserved = Legacy
    /\ alloc = [i \in Items |-> Nowhere]
    /\ ended = {}
    /\ archived = {}
    /\ client = [c \in Clients |-> NoCall]
    /\ worker = [v \in Workers |-> Idle]
    /\ late = {}
    /\ changes = 0
    /\ faults = 0

Up(w)           == state[w] # "down"
Available(w, o) == onHand[w][o] - reserved[w][o]
Tracked(w, o)   == {i \in Items : alloc[i] = w /\ OfferOf[i] = o}

Active == {w \in Warehouses : incident[w].status \in {"open", "processing"}}
IsActive(w, n) == w \in Active /\ incident[w].n = n

\* A batch holds the row of its incident from its first statement to its last.
InBatch(v) == worker[v].pc \in {"offer", "source", "dest"}
Offer(v)   == CHOOSE o \in worker[v].offers : \A p \in worker[v].offers : o <= p

\* The items it moves, and where.
Moved(v)       == {m[1] : m \in worker[v].moves}
NewPlace(v, i) == CHOOSE d \in Warehouses : <<i, d>> \in worker[v].moves

\* Rows of inventory_positions under FOR UPDATE.
HeldBy(p) ==
    IF p \in Workers THEN worker[p].held
    ELSE {<<client[p].at, OfferOf[i]>> : i \in {client[p].item} \cap Items}

FreePosition(w, o) == \A p \in Workers \cup Clients : <<w, o>> \notin HeldBy(p)

(***************************************************************************)
(* ReserveOrderItem: locks the position, reads the warehouse's state (as   *)
(* the trigger does again), updates the position and inserts the           *)
(* allocation, which waits for whoever else is giving the item one         *)
(* (fulfillment_allocations_one_reserved_item_idx).                        *)
(***************************************************************************)
UnallocatedByOthers(i) == \A c \in Clients : client[c].item # i

Unallocated(i) ==
    /\ alloc[i] = Nowhere
    /\ \A c \in Clients : client[c].item # i

BeginReserve(c, i, w) ==
    /\ client[c] = NoCall
    /\ OrderOf[i] \notin ended
    /\ FreePosition(w, OfferOf[i])
    /\ Up(w) /\ OfferOf[i] \notin archived
    /\ Available(w, OfferOf[i]) >= 1
    /\ Unallocated(i)
    /\ client' = [client EXCEPT ![c] = [item |-> i, at |-> w]]
    /\ UNCHANGED <<job, state, incident, stock, alloc, ended, archived, worker,
                   late, changes, faults>>

CommitReserve(c) ==
    LET i == client[c].item
        w == client[c].at
    IN  /\ client[c] # NoCall
        /\ reserved' = [reserved EXCEPT ![w][OfferOf[i]] = @ + 1]
        /\ alloc' = [alloc EXCEPT ![i] = w]
        /\ late' = IF Up(w) THEN late ELSE late \cup {i}
        /\ client' = [client EXCEPT ![c] = NoCall]
        /\ UNCHANGED <<job, state, incident, onHand, ended, archived, worker,
                       changes, faults>>

RollBackReserve(c) ==
    /\ client[c] # NoCall
    /\ faults < MaxFaults
    /\ faults' = faults + 1
    /\ client' = [client EXCEPT ![c] = NoCall]
    /\ UNCHANGED <<job, state, incident, stock, alloc, ended, archived, worker,
                   late, changes>>

\* SetOnHand, of an operator or of a stock reconciliation.
SetOnHand(w, o, units) ==
    /\ changes < MaxChanges
    /\ FreePosition(w, o)
    /\ Up(w) /\ o \notin archived
    /\ units >= reserved[w][o] /\ units # onHand[w][o]
    /\ onHand' = [onHand EXCEPT ![w][o] = units]
    /\ changes' = changes + 1
    /\ UNCHANGED <<job, state, incident, reserved, alloc, ended, archived,
                   client, worker, late, faults>>

\* The end of an order waits for the batch that has its row FOR SHARE.
OrderReadOnly(r) == TRUE

OrderFree(r) ==
    \A v \in Workers, i \in Items : i \in worker[v].items \cup Moved(v) => OrderOf[i] # r

EndOrder(r) ==
    /\ r \notin ended
    /\ OrderFree(r)
    /\ ended' = ended \cup {r}
    /\ UNCHANGED <<job, state, incident, stock, alloc, archived, client, worker,
                   late, changes, faults>>

ArchiveOffer(o) ==
    /\ o \in Archivable \ archived
    /\ archived' = archived \cup {o}
    /\ UNCHANGED <<job, state, incident, stock, alloc, ended, client, worker,
                   late, changes, faults>>

(***************************************************************************)
(* SetOperationalState: resolves the incident at hand and, each time the   *)
(* warehouse is declared down, opens another.  The update of the incident  *)
(* waits for the batch that has its row.                                   *)
(***************************************************************************)
IncidentFree(w) == \A v \in Workers : InBatch(v) => worker[v].at # w

SetOperationalState(w, s) ==
    /\ IncidentFree(w)
    /\ IF s = "down"
       THEN /\ incident[w].n < MaxIncidents
            /\ incident' = [incident EXCEPT ![w] =
                 [n |-> @.n + 1, status |-> "open", cursor |-> 0, attention |-> FALSE]]
       ELSE /\ state[w] # s
            /\ incident' = [incident EXCEPT ![w].status =
                 IF @ = "completed" THEN @ ELSE "resolved"]
    /\ state' = [state EXCEPT ![w] = s]
    /\ UNCHANGED <<job, stock, alloc, ended, archived, client, worker, late,
                   changes, faults>>

(***************************************************************************)
(* runWarehouseIncidents: claim, then each claimed incident one batch.     *)
(***************************************************************************)
Eligible == {<<w, incident[w].n>> : w \in Active}

Claim(v) ==
    /\ worker[v].pc = "idle"
    /\ ClaimJobs(v, Eligible)
    /\ job' # job
    /\ worker' = [worker EXCEPT ![v].queue = Claimable(Eligible),
                                ![v].pc = IF Claimable(Eligible) = {} THEN "idle" ELSE "next"]
    /\ UNCHANGED <<state, incident, stock, alloc, ended, archived, client, late,
                   changes, faults>>

\* The offers after the cursor that have a position worth a decision.
Waiting(w, cursor) ==
    {o \in Offers : o > cursor /\ (onHand[w][o] # 0 \/ reserved[w][o] # 0)}

BatchUnordered(w) ==
    {o \in Waiting(w, incident[w].cursor) :
        Cardinality({p \in Waiting(w, incident[w].cursor) : p > o}) < Limit}

Batch(w) ==
    {o \in Waiting(w, incident[w].cursor) :
        Cardinality({p \in Waiting(w, incident[w].cursor) : p < o}) < Limit}

\* Takes the row of the incident; there is nothing to do for one that ended.
BeginBatch(v, w, n) ==
    /\ worker[v].pc = "next" /\ <<w, n>> \in worker[v].queue
    /\ IncidentFree(w)
    /\ worker' = [worker EXCEPT ![v] =
         [Idle EXCEPT !.queue = worker[v].queue \ {<<w, n>>}, !.at = w, !.n = n,
                      !.pc = IF IsActive(w, n) THEN "offer" ELSE "complete",
                      !.last = incident[w].cursor,
                      !.offers = IF IsActive(w, n) THEN Batch(w) ELSE {}]]
    /\ UNCHANGED <<job, state, incident, stock, alloc, ended, archived, client,
                   late, changes, faults>>

\* Enabled routes to a warehouse that is up and has the units; the active ones
\* before the degraded ones, then by priority (resolveDestinationForQuantityTx).
FitsDown(w, o, units) == {d \in Routes[w] : Available(d, o) >= units}

Fits(w, o, units) == {d \in Routes[w] : Up(d) /\ Available(d, o) >= units}

Before(w, d, e) ==
    \/ state[d] = "active" /\ state[e] = "degraded"
    \/ state[d] = state[e] /\ Priority[w][d] < Priority[w][e]

Destinations(w, o, units) ==
    {d \in Fits(w, o, units) : \A e \in Fits(w, o, units) : ~Before(w, e, d)}

\* The decision on the offer at hand is recorded, the next one's turn.
DecidedLeniently(v, needsAttention) ==
    [worker[v] EXCEPT !.pc = "offer", !.last = Offer(v), !.items = {},
                      !.dest = Nowhere, !.offers = @ \ {Offer(v)}]

DecidedPast(v, needsAttention) ==
    [worker[v] EXCEPT !.pc = "offer", !.last = Offer(v) + 1, !.items = {},
                      !.dest = Nowhere, !.offers = @ \ {Offer(v)},
                      !.attention = @ \/ needsAttention]

Decided(v, needsAttention) ==
    [worker[v] EXCEPT !.pc = "offer", !.last = Offer(v), !.items = {},
                      !.dest = Nowhere, !.offers = @ \ {Offer(v)},
                      !.attention = @ \/ needsAttention]

\* executeOfferFailoverTx reads and locks the allocations, and their orders.
\* Without any, there is only a route to name (resolveFailoverTx); a terminal
\* order stops the offer (allocation_conflict).
VisitOffer(v) ==
    LET w == worker[v].at
        o == Offer(v)
        items == Tracked(w, o)
    IN  /\ worker[v].pc = "offer" /\ worker[v].offers # {}
        /\ worker' = [worker EXCEPT ![v] =
             IF items = {} THEN Decided(v, Destinations(w, o, 1) = {})
             ELSE IF \E i \in items : OrderOf[i] \in ended THEN Decided(v, TRUE)
             ELSE [@ EXCEPT !.pc = "source", !.items = items]]
        /\ UNCHANGED <<job, state, incident, stock, alloc, ended, archived,
                       client, late, changes, faults>>

\* Then the source position, under which the reservation must cover them
\* (allocation_conflict); the destination is read, not locked
\* (insufficient_capacity without one).
LockSource(v) ==
    LET w == worker[v].at
        o == Offer(v)
        units == Cardinality(worker[v].items)
        locked == [worker EXCEPT ![v].held = @ \cup {<<w, o>>}]
    IN  /\ worker[v].pc = "source"
        /\ FreePosition(w, o)
        /\ IF reserved[w][o] < units \/ Destinations(w, o, units) = {}
           THEN worker' = [locked EXCEPT ![v] =
                             [Decided(v, TRUE) EXCEPT !.held = worker[v].held \cup {<<w, o>>}]]
           ELSE \E d \in Destinations(w, o, units) :
                  worker' = [locked EXCEPT ![v].pc = "dest", ![v].dest = d]
        /\ UNCHANGED <<job, state, incident, stock, alloc, ended, archived,
                       client, late, changes, faults>>

\* Then the destination position, where room and parents are checked again:
\* an error, the trigger's included, undoes the whole batch.  What is reserved
\* beyond the allocations stays (untracked_reservation).
LockDestination(v) ==
    LET w == worker[v].at
        d == worker[v].dest
        o == Offer(v)
        units == Cardinality(worker[v].items)
    IN  /\ worker[v].pc = "dest"
        /\ FreePosition(d, o)
        /\ worker' = [worker EXCEPT ![v] =
             IF Available(d, o) >= units /\ Up(d) /\ o \notin archived
             THEN [Decided(v, reserved[w][o] > units) EXCEPT
                     !.held = @ \cup {<<d, o>>},
                     !.moves = @ \cup {<<i, d>> : i \in worker[v].items}]
             ELSE [Idle EXCEPT !.pc = "retry", !.queue = worker[v].queue,
                               !.at = w, !.n = worker[v].n]]
        /\ UNCHANGED <<job, state, incident, stock, alloc, ended, archived,
                       client, late, changes, faults>>

\* The decisions, the moves and the incident's progress commit together.
CommitBatch(v) ==
    LET w == worker[v].at
        last == worker[v].last
        attention == incident[w].attention \/ worker[v].attention
        status == IF Waiting(w, last) # {} THEN "processing"
                  ELSE IF attention THEN "needs_attention" ELSE "completed"
        Leaving(x, o) == {i \in Moved(v) : x = w /\ OfferOf[i] = o}
        Coming(x, o)  == {i \in Moved(v) : NewPlace(v, i) = x /\ OfferOf[i] = o}
    IN  /\ worker[v].pc = "offer" /\ worker[v].offers = {}
        /\ incident' = [incident EXCEPT ![w] =
             [@ EXCEPT !.status = status, !.cursor = last, !.attention = attention]]
        /\ alloc' = [i \in Items |-> IF i \in Moved(v) THEN NewPlace(v, i) ELSE alloc[i]]
        /\ reserved' = [x \in Warehouses |-> [o \in Offers |->
             reserved[x][o] - Cardinality(Leaving(x, o)) + Cardinality(Coming(x, o))]]
        /\ late' = (late \ Moved(v)) \cup {i \in Moved(v) : ~Up(NewPlace(v, i))}
        /\ worker' = [worker EXCEPT ![v] =
             [Idle EXCEPT !.queue = worker[v].queue, !.at = w, !.n = worker[v].n,
                          !.pc = IF status = "processing" THEN "release" ELSE "complete"]]
        /\ UNCHANGED <<job, state, onHand, ended, archived, client, changes, faults>>

\* Complete, or Release at once or after a delay.  A lease that is gone is an
\* error that ends the loop, and with it the process (supervise).
Settle(v) ==
    LET x == <<worker[v].at, worker[v].n>>
        settled == [Idle EXCEPT !.queue = worker[v].queue,
                                !.pc = IF worker[v].queue = {} THEN "idle" ELSE "next"]
    IN  /\ worker[v].pc \in {"complete", "release", "retry"}
        /\ \/ /\ worker[v].pc = "complete"
              /\ CompleteJob(v, x)
              /\ worker' = [worker EXCEPT ![v] = settled]
           \/ /\ worker[v].pc # "complete"
              /\ ReleaseJob(v, x, worker[v].pc = "release")
              /\ worker' = [worker EXCEPT ![v] = settled]
           \/ /\ ~HoldsJob(v, x)
              /\ job' = job
              /\ worker' = [worker EXCEPT ![v] = [Idle EXCEPT !.pc = "stopped"]]
        /\ UNCHANGED <<state, incident, stock, alloc, ended, archived, client,
                       late, changes, faults>>

Restart(v) ==
    /\ worker[v].pc = "stopped"
    /\ worker' = [worker EXCEPT ![v] = Idle]
    /\ UNCHANGED <<job, state, incident, stock, alloc, ended, archived, client,
                   late, changes, faults>>

\* A crash rolls the transaction back and forgets the claims.
Crash(v) ==
    /\ worker[v].pc \notin {"idle", "stopped"}
    /\ faults < MaxFaults
    /\ faults' = faults + 1
    /\ worker' = [worker EXCEPT ![v] = [Idle EXCEPT !.pc = "stopped"]]
    /\ UNCHANGED <<job, state, incident, stock, alloc, ended, archived, client,
                   late, changes>>

\* A statement fails: the batch is undone and the job released.
FailBatch(v) ==
    /\ InBatch(v)
    /\ faults < MaxFaults
    /\ faults' = faults + 1
    /\ worker' = [worker EXCEPT ![v] =
         [Idle EXCEPT !.pc = "retry", !.queue = worker[v].queue,
                      !.at = worker[v].at, !.n = worker[v].n]]
    /\ UNCHANGED <<job, state, incident, stock, alloc, ended, archived, client,
                   late, changes>>

Engaged(v, x) ==
    x \in worker[v].queue \/ (worker[v].pc # "stopped" /\ x = <<worker[v].at, worker[v].n>>)

\* A lease that nobody works under runs out; another only by a fault.
Expire(x) ==
    /\ LeaseRunsOut(x)
    /\ IF \E v \in Workers : HoldsJob(v, x) /\ Engaged(v, x)
       THEN faults < MaxFaults /\ faults' = faults + 1
       ELSE faults' = faults
    /\ UNCHANGED <<state, incident, stock, alloc, ended, archived, client,
                   worker, late, changes>>

ComeDue(x) ==
    /\ ComesDue(x)
    /\ UNCHANGED <<state, incident, stock, alloc, ended, archived, client,
                   worker, late, changes, faults>>

Work(v) ==
    \/ Claim(v)
    \/ \E w \in Warehouses, n \in 1 .. MaxIncidents : BeginBatch(v, w, n)
    \/ VisitOffer(v) \/ LockSource(v) \/ LockDestination(v) \/ CommitBatch(v)
    \/ Settle(v) \/ Restart(v)

Next ==
    \/ \E c \in Clients : \/ \E i \in Items, w \in Warehouses : BeginReserve(c, i, w)
                          \/ CommitReserve(c) \/ RollBackReserve(c)
    \/ \E w \in Warehouses : \/ \E o \in Offers, units \in 0 .. MaxStock : SetOnHand(w, o, units)
                             \/ \E s \in Declared[w] : SetOperationalState(w, s)
    \/ \E r \in Orders : EndOrder(r)
    \/ \E o \in Offers : ArchiveOffer(o)
    \/ \E v \in Workers : Work(v) \/ Crash(v) \/ FailBatch(v)
    \/ \E x \in JobItems : Expire(x) \/ ComeDue(x)

\* Workers poll, transactions end, processes are started again, clocks go on.
Fairness ==
    /\ \A v \in Workers : WF_vars(Work(v))
    /\ \A c \in Clients : WF_vars(CommitReserve(c))
    /\ \A x \in JobItems : WF_vars(ComeDue(x)) /\ WF_vars(Expire(x) /\ faults' = faults)

Spec == Init /\ [][Next]_vars /\ Fairness

-----------------------------------------------------------------------------
Pcs == {"idle", "next", "offer", "source", "dest", "complete", "release",
        "retry", "stopped"}

WorkerType ==
    [pc : Pcs, queue : SUBSET JobItems, at : Warehouses \cup {Nowhere}, n : 0 .. MaxIncidents,
     last : 0 .. NumOffers, offers : SUBSET Offers, items : SUBSET Items,
     dest : Warehouses \cup {Nowhere}, held : SUBSET (Warehouses \X Offers),
     moves : SUBSET (Items \X Warehouses), attention : BOOLEAN]

(* Rows, calls and workers keep their types (inventory_positions,          *)
(* warehouse_incidents, fulfillment_allocations, worker_runtime_jobs).     *)
TypeOK ==
    /\ JobsOK
    /\ state \in [Warehouses -> {"active", "degraded", "down"}]
    /\ incident \in [Warehouses -> [n : 0 .. MaxIncidents,
           status : {"open", "processing", "completed", "needs_attention", "resolved"},
           cursor : 0 .. NumOffers, attention : BOOLEAN]]
    /\ onHand \in [Warehouses -> [Offers -> Nat]]
    /\ reserved \in [Warehouses -> [Offers -> Int]]
    /\ alloc \in [Items -> Warehouses \cup {Nowhere}]
    /\ ended \subseteq Orders
    /\ archived \subseteq Offers
    /\ client \in [Clients -> [item : Items \cup {Nobody}, at : Warehouses \cup {Nowhere}]]
    /\ worker \in [Workers -> WorkerType]
    /\ late \subseteq Items
    /\ changes \in Nat /\ faults \in Nat

(* What a position has reserved is what the allocations there ask for, and *)
(* the legacy reservations; and it is on hand (ReserveOrderItem,           *)
(* executeOfferFailoverTx, SetOnHand).                                     *)
ReservationsBacked ==
    \A w \in Warehouses, o \in Offers :
        /\ reserved[w][o] = Legacy[w][o] + Cardinality(Tracked(w, o))
        /\ reserved[w][o] <= onHand[w][o]

(* An incident completed without asking for attention has left no          *)
(* allocation behind: one that is at a warehouse still down was committed  *)
(* there after it went down (requireWarehouseAllocatable reads its state   *)
(* without a lock, and so does the choice of a destination).               *)
StrandedOnlyLate ==
    \A w \in Warehouses, i \in Items :
        incident[w].status = "completed" /\ ~Up(w) /\ alloc[i] = w => i \in late

WaitsFor(u, v) ==
    \/ /\ worker[u].pc = "source"
       /\ <<worker[u].at, Offer(u)>> \in worker[v].held
    \/ /\ worker[u].pc = "dest"
       /\ <<worker[u].dest, Offer(u)>> \in worker[v].held

(* Batches of different incidents, moving the same offers in opposite      *)
(* directions, never wait for each other in a circle.                      *)
NoCircularWait ==
    \A S \in SUBSET Workers :
        S # {} => \E u \in S : \A v \in S : ~WaitsFor(u, v)

(* The allocation of an ended order is never replaced by another.          *)
EndedOrdersStay ==
    [][\A i \in Items :
          OrderOf[i] \in ended /\ alloc[i] # Nowhere => alloc'[i] = alloc[i]]_vars

(* While nothing fails and no lease is overrun, an incident is in the      *)
(* hands of one worker at a time, and the lease is that worker's for as    *)
(* long as the incident is active: Complete and Release miss it only when  *)
(* the incident ended meanwhile (runWarehouseIncidents).                   *)
OneWorkerPerIncident ==
    faults = 0 =>
        \A v \in Workers, x \in JobItems : Engaged(v, x) =>
            /\ x \in Eligible => HoldsJob(v, x)
            /\ \A u \in Workers : Engaged(u, x) => u = v

(* An incident is processed to its end, through stops, crashes and failed  *)
(* batches, unless an archived offer is in the way.                        *)
EveryIncidentSettles ==
    \A w \in Warehouses : w \in Active ~> (w \notin Active \/ archived # {})

Promise == INSTANCE Allocations WITH place <- alloc

(* Reservations, failovers, changes of stock and ends of orders implement  *)
(* Allocations: locks, batches, workers that crash and repeat them, and    *)
(* states read without a lock put no item where the stock does not cover   *)
(* it, move none but along a route of the place it is at, and none of an   *)
(* ended order.                                                            *)
KeepsAllocations == Promise!Spec
=============================================================================
