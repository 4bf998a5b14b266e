-------------------------- MODULE Fulfillment_proofs --------------------------
(***************************************************************************)
(* What is proved of reservations and failover, for any warehouses,        *)
(* offers, items, routes, stock, workers and clients: the type invariant;  *)
(* that reservations are backed by allocations and by stock; that nothing  *)
(* is stranded but what came late; that batches never wait for each other  *)
(* in a circle; that the allocations of ended orders stay where they are;  *)
(* that all of it implements Allocations; and that a lease is honoured.    *)
(***************************************************************************)
EXTENDS Fulfillment, FiniteSetTheorems, WellFoundedInduction, TLAPS

(***************************************************************************)
(* The smallest and the largest of some numbers.                           *)
(***************************************************************************)
LEMMA Smallest ==
    ASSUME NEW N \in SUBSET Nat, N # {}
    PROVE  \E n \in N : \A m \in N : n <= m
<1>1. PICK n \in N : \A m \in N : <<m, n>> \notin OpToRel(<, Nat)
  BY WFMin, NatLessThanWellFounded, Zenon
<1>2. \A m \in N : ~ (m < n)
  BY <1>1, Zenon DEF OpToRel
<1> QED
  BY <1>2

LEMMA Largest ==
    ASSUME NEW b \in Nat, NEW N \in SUBSET (0 .. b), N # {}
    PROVE  \E n \in N : \A m \in N : m <= n
<1> DEFINE M == {b - n : n \in N}
<1>1. M \in SUBSET Nat
  OBVIOUS
<1>a. PICK p \in N : TRUE
  OBVIOUS
<1>b. b - p \in M
  OBVIOUS
<1>2. PICK k \in M : \A m \in M : k <= m
  BY <1>1, <1>b, Smallest
<1>3. PICK n \in N : k = b - n
  BY <1>2
<1>4. ASSUME NEW m \in N
      PROVE  m <= n
  <2>1. b - m \in M
    BY <1>4
  <2>2. b - n <= b - m
    BY <1>2, <1>3, <2>1
  <2> QED
    BY <2>2
<1> QED
  BY <1>4

LEMMA NextOffer ==
    ASSUME TypeOK, NEW v \in Workers, worker[v].offers # {}
    PROVE  /\ Offer(v) \in worker[v].offers
           /\ Offer(v) \in Offers
           /\ Offer(v) \in Nat
           /\ \A p \in worker[v].offers : Offer(v) <= p
<1>1. worker[v].offers \in SUBSET Offers
  BY DEF TypeOK, WorkerType
<1>2. Offers \in SUBSET Nat
  BY FulfillmentAssumption DEF Offers
<1>3. \E o \in worker[v].offers : \A p \in worker[v].offers : o <= p
  BY <1>1, <1>2, Smallest
<1>4. /\ Offer(v) \in worker[v].offers
      /\ \A p \in worker[v].offers : Offer(v) <= p
  BY <1>3 DEF Offer
<1> QED
  BY <1>1, <1>2, <1>4

LEMMA WorkerTyped ==
    ASSUME TypeOK, NEW v \in Workers
    PROVE  worker[v] \in WorkerType
BY DEF TypeOK

LEMMA DestinationsFit ==
    ASSUME NEW w \in Warehouses, NEW o, NEW k, NEW d \in Destinations(w, o, k)
    PROVE  d \in Warehouses /\ d # w /\ d \in Routes[w] /\ Up(d) /\ Available(d, o) >= k
BY FulfillmentAssumption DEF Destinations, Fits

LEMMA TrackedFinite ==
    ASSUME NEW w, NEW o
    PROVE  /\ Tracked(w, o) \in SUBSET Items
           /\ IsFiniteSet(Tracked(w, o))
           /\ Cardinality(Tracked(w, o)) \in Nat
<1>1. Tracked(w, o) \in SUBSET Items
  BY DEF Tracked
<1> QED
  BY <1>1, FulfillmentAssumption, FS_Subset, FS_CardinalityType

(***************************************************************************)
(* The type invariant                                                      *)
(***************************************************************************)
OutOfBatch == {"idle", "next", "complete", "release", "retry", "stopped"}

LEMMA IdleTyped ==
    ASSUME NEW pc \in OutOfBatch, NEW queue \in SUBSET JobItems,
           NEW w \in Warehouses \cup {Nowhere}, NEW n \in 0 .. MaxIncidents
    PROVE  [Idle EXCEPT !.pc = pc, !.queue = queue, !.at = w, !.n = n] \in WorkerType
<1>1. 0 \in 0 .. MaxIncidents /\ 0 \in 0 .. NumOffers
  BY FulfillmentAssumption
<1> QED
  BY <1>1 DEF Idle, WorkerType, Pcs, OutOfBatch

LEMMA DecidedTyped ==
    ASSUME TypeOK, NEW v \in Workers, worker[v].offers # {}, NEW a \in BOOLEAN
    PROVE  Decided(v, a) \in WorkerType
<1>1. worker[v] \in WorkerType
  BY WorkerTyped
<1>2. Offer(v) \in 0 .. NumOffers
  BY NextOffer, FulfillmentAssumption DEF Offers
<1> QED
  BY <1>1, <1>2 DEF Decided, WorkerType, Pcs

LEMMA JobsKept ==
    ASSUME JobsOK
    PROVE  /\ \A v \in Workers : \A E : ClaimJobs(v, E) => JobsOK'
           /\ \A v \in Workers, x \in JobItems, now \in BOOLEAN : ReleaseJob(v, x, now) => JobsOK'
           /\ \A v \in Workers, x \in JobItems : CompleteJob(v, x) => JobsOK'
           /\ \A x \in JobItems : ComesDue(x) \/ LeaseRunsOut(x) => JobsOK'
<1> DEFINE Job == [listed : BOOLEAN, due : BOOLEAN, lease : Workers \cup {Nobody},
                   expired : BOOLEAN]
<1>1. NoJob \in Job
  BY DEF NoJob
<1>2. ASSUME NEW v \in Workers, NEW E, ClaimJobs(v, E)
      PROVE  JobsOK'
  <2>1. ASSUME NEW x \in JobItems
        PROVE  job'[x] \in Job
    BY <1>1, <1>2, <2>1 DEF ClaimJobs, JobsOK
  <2>2. job' = [x \in JobItems |-> job'[x]]
    BY <1>2 DEF ClaimJobs
  <2> QED
    BY <2>1, <2>2 DEF JobsOK
<1>3. ASSUME NEW v \in Workers, NEW x \in JobItems, NEW now \in BOOLEAN, ReleaseJob(v, x, now)
      PROVE  JobsOK'
  BY <1>3 DEF ReleaseJob, JobsOK, NoJob
<1>4. ASSUME NEW v \in Workers, NEW x \in JobItems, CompleteJob(v, x)
      PROVE  JobsOK'
  BY <1>1, <1>4 DEF CompleteJob, JobsOK
<1>5. ASSUME NEW x \in JobItems, ComesDue(x) \/ LeaseRunsOut(x)
      PROVE  JobsOK'
  BY <1>5 DEF ComesDue, LeaseRunsOut, JobsOK
<1> QED
  BY <1>2, <1>3, <1>4, <1>5

LEMMA Placed ==
    ASSUME TypeOK, NEW v \in Workers, NEW i \in Moved(v)
    PROVE  /\ i \in Items
           /\ NewPlace(v, i) \in Warehouses
           /\ <<i, NewPlace(v, i)>> \in worker[v].moves
<1>1. worker[v].moves \in SUBSET (Items \X Warehouses)
  BY WorkerTyped DEF WorkerType
<1>2. PICK m \in worker[v].moves : i = m[1]
  BY DEF Moved
<1>3. i \in Items /\ m[2] \in Warehouses /\ <<i, m[2]>> \in worker[v].moves
  BY <1>1, <1>2
<1> QED
  BY <1>3 DEF NewPlace

LEMMA MovedItems ==
    ASSUME TypeOK, NEW v \in Workers
    PROVE  /\ Moved(v) \in SUBSET Items
           /\ \A i, d : <<i, d>> \in worker[v].moves => i \in Moved(v)
<1>1. Moved(v) \in SUBSET Items
  BY Placed
<1>2. ASSUME NEW i, NEW d, <<i, d>> \in worker[v].moves
      PROVE  i \in Moved(v)
  BY <1>2 DEF Moved
<1> QED
  BY <1>1, <1>2

\* What a worker's record looks like in each place of the code.
Shaped(r) ==
    /\ r \in WorkerType
    /\ r.pc \in OutOfBatch => r.items = {} /\ r.moves = {} /\ r.held = {}
    /\ r.pc \notin {"idle", "next", "stopped"} => r.at \in Warehouses /\ r.n >= 1
    /\ r.pc = "offer" => r.items = {}
    /\ r.pc \in {"source", "dest"} => r.offers # {} /\ r.items # {}
    /\ r.pc = "dest" => r.dest \in Warehouses /\ r.dest # r.at

\* A batch is of an active incident, and of one each; a call names its rows.
Shapes ==
    /\ TypeOK
    /\ \A v \in Workers : Shaped(worker[v])
    /\ \A w \in Active : incident[w].n >= 1 /\ ~ Up(w)
    /\ \A v \in Workers : InBatch(v) => worker[v].at \in Active
    /\ \A u, v \in Workers :
          InBatch(u) /\ InBatch(v) /\ worker[u].at = worker[v].at => u = v
    /\ \A c \in Clients :
          client[c] # NoCall => client[c].item \in Items /\ client[c].at \in Warehouses

LEMMA NoneShaped ==
    ASSUME NEW pc \in {"idle", "next", "stopped"}, NEW queue \in SUBSET JobItems
    PROVE  Shaped([Idle EXCEPT !.pc = pc, !.queue = queue])
<1>1. 0 \in 0 .. MaxIncidents /\ 0 \in 0 .. NumOffers
  BY FulfillmentAssumption
<1> QED
  BY <1>1 DEF Idle, WorkerType, Pcs, OutOfBatch, Shaped

LEMMA DoneShaped ==
    ASSUME NEW pc \in {"complete", "release", "retry"}, NEW queue \in SUBSET JobItems,
           NEW w \in Warehouses, NEW n \in 1 .. MaxIncidents
    PROVE  Shaped([Idle EXCEPT !.pc = pc, !.queue = queue, !.at = w, !.n = n])
<1> DEFINE r == [Idle EXCEPT !.pc = pc, !.queue = queue, !.at = w, !.n = n]
<1>1. n \in 0 .. MaxIncidents /\ n >= 1 /\ pc \in OutOfBatch
  BY FulfillmentAssumption DEF OutOfBatch
<1>2. r \in WorkerType
  BY <1>1, IdleTyped
<1>3. /\ r.pc = pc /\ r.at = w /\ r.n = n
      /\ r.items = {} /\ r.moves = {} /\ r.held = {}
  BY DEF Idle
<1> QED
  BY <1>1, <1>2, <1>3 DEF Shaped

LEMMA DecidedShaped ==
    ASSUME Shapes, NEW v \in Workers, InBatch(v), worker[v].offers # {}, NEW a \in BOOLEAN
    PROVE  Shaped(Decided(v, a))
<1>1. Decided(v, a) \in WorkerType
  BY DecidedTyped DEF Shapes
<1>2. worker[v] \in WorkerType /\ Shaped(worker[v])
  BY DEF Shapes, Shaped
<1> QED
  BY <1>1, <1>2 DEF Decided, Shaped, InBatch, OutOfBatch, WorkerType

(***************************************************************************)
(* What each step of a worker makes of its record.                         *)
(***************************************************************************)
Becomes(v, r) == worker' = [worker EXCEPT ![v] = r]

LEMMA Begun ==
    ASSUME Shapes, NEW v \in Workers, NEW w \in Warehouses, NEW n \in 1 .. MaxIncidents,
           BeginBatch(v, w, n)
    PROVE  \E r : Shaped(r) /\ Becomes(v, r)
<1> DEFINE r == [Idle EXCEPT !.queue = worker[v].queue \ {<<w, n>>}, !.at = w, !.n = n,
                      !.pc = IF IsActive(w, n) THEN "offer" ELSE "complete",
                      !.last = incident[w].cursor,
                      !.offers = IF IsActive(w, n) THEN Batch(w) ELSE {}]
<1>1. Becomes(v, r)
  BY DEF BeginBatch, Becomes
<1>2. /\ incident[w].cursor \in 0 .. NumOffers
      /\ n \in 0 .. MaxIncidents /\ n >= 1
      /\ worker[v].queue \ {<<w, n>>} \in SUBSET JobItems
      /\ Batch(w) \in SUBSET Offers
  BY FulfillmentAssumption, WorkerTyped DEF Shapes, TypeOK, WorkerType, Batch, Waiting
<1>3. Shaped(r)
  BY <1>2 DEF Shaped, Idle, WorkerType, Pcs, OutOfBatch
<1> QED
  BY <1>1, <1>3

LEMMA Visited ==
    ASSUME Shapes, NEW v \in Workers, VisitOffer(v)
    PROVE  \E r : Shaped(r) /\ Becomes(v, r)
<1> DEFINE items == Tracked(worker[v].at, Offer(v))
<1> DEFINE started == [worker[v] EXCEPT !.pc = "source", !.items = items]
<1>1. worker[v].offers # {} /\ worker[v].pc = "offer" /\ InBatch(v)
  BY DEF VisitOffer, InBatch
<1>2. items \in SUBSET Items
  BY TrackedFinite
<1>3. items # {} => Shaped(started)
  <2> HIDE DEF items
  <2>1. Shaped(worker[v])
    BY DEF Shapes
  <2> QED
    BY <1>1, <1>2, <2>1 DEF Shaped, WorkerType, Pcs, OutOfBatch
<1>4. Shaped(Decided(v, TRUE))
      /\ Shaped(Decided(v, Destinations(worker[v].at, Offer(v), 1) = {}))
  BY <1>1, DecidedShaped
<1>5. CASE items = {}
  BY <1>4, <1>5 DEF VisitOffer, Becomes
<1>6. CASE items # {} /\ \E i \in items : OrderOf[i] \in ended
  BY <1>4, <1>6 DEF VisitOffer, Becomes
<1>7. CASE items # {} /\ ~ \E i \in items : OrderOf[i] \in ended
  <2>1. Becomes(v, started)
    BY <1>7 DEF VisitOffer, Becomes, Shapes, TypeOK
  <2> QED
    BY <1>3, <1>7, <2>1
<1> QED
  BY <1>5, <1>6, <1>7

\* LockSource either names what it skips or locks and chooses.
SkipsLocked(v) ==
    Becomes(v, [Decided(v, TRUE) EXCEPT
                  !.held = worker[v].held \cup {<<worker[v].at, Offer(v)>>}])

Chooses(v, d) ==
    Becomes(v, [worker[v] EXCEPT
                  !.pc = "dest", !.dest = d,
                  !.held = @ \cup {<<worker[v].at, Offer(v)>>}])

LEMMA LockSourceCases ==
    ASSUME Shapes, NEW v \in Workers, LockSource(v)
    PROVE  \/ SkipsLocked(v)
           \/ \E d \in Destinations(worker[v].at, Offer(v), Cardinality(worker[v].items)) :
                 Chooses(v, d)
<1> DEFINE w == worker[v].at
<1> DEFINE o == Offer(v)
<1> DEFINE units == Cardinality(worker[v].items)
<1> DEFINE locked == [worker EXCEPT ![v].held = @ \cup {<<w, o>>}]
<1> DEFINE s == [Decided(v, TRUE) EXCEPT !.held = worker[v].held \cup {<<w, o>>}]
<1>0. worker \in [Workers -> WorkerType]
  BY DEF Shapes, TypeOK
<1>1. ASSUME worker' = [locked EXCEPT ![v] = s]
      PROVE  SkipsLocked(v)
  <2> HIDE DEF s
  <2>1. worker' = [worker EXCEPT ![v] = s]
    BY <1>0, <1>1
  <2> QED
    BY <2>1 DEF SkipsLocked, Becomes, s
<1>2. ASSUME NEW d, worker' = [locked EXCEPT ![v].pc = "dest", ![v].dest = d]
      PROVE  Chooses(v, d)
  <2> HIDE DEF o
  <2> DEFINE c == [worker[v] EXCEPT !.pc = "dest", !.dest = d, !.held = @ \cup {<<w, o>>}]
  <2>1. worker'[v] = c
    BY <1>0, <1>2 DEF WorkerType
  <2>2. worker' = [worker EXCEPT ![v] = worker'[v]]
    BY <1>0, <1>2
  <2> QED
    BY <2>1, <2>2 DEF Chooses, Becomes, o
<1>3. CASE reserved[w][o] < units \/ Destinations(w, o, units) = {}
  BY <1>1, <1>3 DEF LockSource
<1>4. CASE ~ (reserved[w][o] < units \/ Destinations(w, o, units) = {})
  BY <1>2, <1>4 DEF LockSource
<1> QED
  BY <1>3, <1>4

LEMMA SourceLocked ==
    ASSUME Shapes, NEW v \in Workers, LockSource(v)
    PROVE  \E r : Shaped(r) /\ Becomes(v, r)
<1> DEFINE p == <<worker[v].at, Offer(v)>>
<1>1. /\ worker[v].pc = "source" /\ InBatch(v)
      /\ Shaped(worker[v])
  BY DEF LockSource, InBatch, Shapes
<1>2. worker[v].offers # {} /\ worker[v].items # {} /\ worker[v].at \in Warehouses
  BY <1>1 DEF Shaped
<1>3. p \in Warehouses \X Offers
  BY <1>2, NextOffer DEF Shapes
<1>4. Shaped(Decided(v, TRUE)) /\ Decided(v, TRUE).pc = "offer"
  BY <1>1, <1>2, DecidedShaped DEF Decided, Shaped, WorkerType
<1>5. CASE SkipsLocked(v)
  <2> DEFINE x == Decided(v, TRUE)
  <2> DEFINE r == [x EXCEPT !.held = worker[v].held \cup {p}]
  <2>1. worker[v].held \cup {p} \in SUBSET (Warehouses \X Offers)
    BY <1>1, <1>3 DEF Shaped, WorkerType
  <2>2. Shaped(r)
    <3> HIDE DEF x, p
    <3> QED
      BY <1>4, <2>1 DEF Shaped, WorkerType, OutOfBatch, x
  <2> QED
    BY <1>5, <2>2 DEF SkipsLocked
<1>6. ASSUME NEW d \in Destinations(worker[v].at, Offer(v), Cardinality(worker[v].items)),
             Chooses(v, d)
      PROVE  \E r : Shaped(r) /\ Becomes(v, r)
  <2> DEFINE r == [worker[v] EXCEPT !.pc = "dest", !.dest = d, !.held = @ \cup {p}]
  <2>1. d \in Warehouses /\ d # worker[v].at
    BY <1>2, DestinationsFit
  <2>2. Shaped(r)
    <3> HIDE DEF p
    <3> QED
      BY <1>1, <1>2, <1>3, <2>1 DEF Shaped, WorkerType, OutOfBatch, Pcs
  <2> QED
    BY <1>6, <2>2 DEF Chooses
<1> QED
  BY <1>5, <1>6, LockSourceCases

\* LockDestination moves the items or undoes the batch.
Room(v) ==
    /\ Available(worker[v].dest, Offer(v)) >= Cardinality(worker[v].items)
    /\ Up(worker[v].dest) /\ Offer(v) \notin archived

Attends(v) == reserved[worker[v].at][Offer(v)] > Cardinality(worker[v].items)

Moves(v) ==
    Becomes(v, [Decided(v, Attends(v)) EXCEPT
                  !.held = @ \cup {<<worker[v].dest, Offer(v)>>},
                  !.moves = @ \cup {<<i, worker[v].dest>> : i \in worker[v].items}])

Undoes(v) ==
    Becomes(v, [Idle EXCEPT !.pc = "retry", !.queue = worker[v].queue,
                            !.at = worker[v].at, !.n = worker[v].n])

LEMMA LockDestinationCases ==
    ASSUME NEW v \in Workers, LockDestination(v)
    PROVE  (Room(v) /\ Moves(v)) \/ Undoes(v)
<1>1. CASE Room(v)
  BY <1>1 DEF LockDestination, Room, Moves, Attends, Becomes
<1>2. CASE ~ Room(v)
  BY <1>2 DEF LockDestination, Room, Undoes, Becomes
<1> QED
  BY <1>1, <1>2

LEMMA Undone ==
    ASSUME Shapes, NEW v \in Workers, InBatch(v), Undoes(v)
    PROVE  \E r : Shaped(r) /\ Becomes(v, r)
<1>1. Shaped(worker[v])
  BY DEF Shapes
<1>2. /\ worker[v].at \in Warehouses
      /\ worker[v].n \in 1 .. MaxIncidents
      /\ worker[v].queue \in SUBSET JobItems
  BY <1>1, FulfillmentAssumption DEF Shaped, WorkerType, InBatch
<1>3. Shaped([Idle EXCEPT !.pc = "retry", !.queue = worker[v].queue,
                          !.at = worker[v].at, !.n = worker[v].n])
  BY <1>2, DoneShaped
<1> QED
  BY <1>3 DEF Undoes

LEMMA DestinationLocked ==
    ASSUME Shapes, NEW v \in Workers, LockDestination(v)
    PROVE  \E r : Shaped(r) /\ Becomes(v, r)
<1> DEFINE p == <<worker[v].dest, Offer(v)>>
<1> DEFINE placed == {<<i, worker[v].dest>> : i \in worker[v].items}
<1>1. /\ worker[v].pc = "dest" /\ InBatch(v)
      /\ Shaped(worker[v])
  BY DEF LockDestination, InBatch, Shapes
<1>2. worker[v].offers # {} /\ worker[v].dest \in Warehouses
  BY <1>1 DEF Shaped
<1>3. /\ p \in Warehouses \X Offers
      /\ placed \in SUBSET (Items \X Warehouses)
  BY <1>1, <1>2, NextOffer DEF Shapes, Shaped, WorkerType
<1>4. CASE Moves(v)
  <2> DEFINE x == Decided(v, Attends(v))
  <2> DEFINE r == [x EXCEPT !.held = @ \cup {p}, !.moves = @ \cup placed]
  <2>0. Attends(v) \in BOOLEAN
    BY DEF Attends
  <2>a. Shaped(x)
    BY <1>1, <1>2, <2>0, DecidedShaped
  <2>b. x.pc = "offer"
    BY <1>1 DEF Decided, Shaped, WorkerType
  <2>1. Shaped(x) /\ x.pc = "offer"
    BY <2>a, <2>b
  <2>2. Shaped(r)
    <3> HIDE DEF x, p, placed
    <3> QED
      BY <1>3, <2>1 DEF Shaped, WorkerType, OutOfBatch
  <2> QED
    BY <1>4, <2>2 DEF Moves
<1> QED
  BY <1>1, <1>4, LockDestinationCases, Undone

\* A worker is left without a batch.
Leaves(v) == \E r : Shaped(r) /\ r.pc \in OutOfBatch /\ Becomes(v, r)

LEMMA EligibleItems ==
    ASSUME Shapes
    PROVE  Claimable(Eligible) \in SUBSET JobItems
<1>1. ASSUME NEW w \in Active
      PROVE  <<w, incident[w].n>> \in JobItems
  <2>1. w \in Warehouses /\ incident[w].n \in 0 .. MaxIncidents /\ incident[w].n >= 1
    BY DEF Shapes, TypeOK, Active
  <2> QED
    BY <2>1, FulfillmentAssumption
<1>2. Eligible \in SUBSET JobItems
  BY <1>1 DEF Eligible
<1> QED
  BY <1>2 DEF Claimable

LEMMA ClaimLeaves ==
    ASSUME Shapes, NEW v \in Workers, Claim(v)
    PROVE  Leaves(v)
<1> DEFINE queue == Claimable(Eligible)
<1> DEFINE pc == IF queue = {} THEN "idle" ELSE "next"
<1> DEFINE r == [worker[v] EXCEPT !.queue = queue, !.pc = pc]
<1>1. queue \in SUBSET JobItems
  BY EligibleItems
<1>2. worker' = [worker EXCEPT ![v].queue = queue, ![v].pc = pc] /\ worker[v].pc = "idle"
  BY DEF Claim
<1> HIDE DEF queue
<1>3. pc \in {"idle", "next"}
  OBVIOUS
<1> HIDE DEF pc
<1>4. worker'[v] = r
  BY <1>2 DEF Shapes, TypeOK, WorkerType
<1>5. Becomes(v, r)
  <2>1. worker' = [worker EXCEPT ![v] = worker'[v]]
    BY <1>2 DEF Shapes, TypeOK
  <2> QED
    BY <1>4, <2>1 DEF Becomes
<1>6. Shaped(r) /\ r.pc \in OutOfBatch
  <2>1. Shaped(worker[v])
    BY DEF Shapes
  <2> QED
    BY <1>1, <1>2, <1>3, <2>1 DEF Shaped, WorkerType, Pcs, OutOfBatch
<1> QED
  BY <1>5, <1>6 DEF Leaves

LEMMA NoneLeaves ==
    ASSUME NEW v, NEW pc \in {"idle", "next", "stopped"}, NEW queue \in SUBSET JobItems,
           Becomes(v, [Idle EXCEPT !.pc = pc, !.queue = queue])
    PROVE  Leaves(v)
<1>1. Shaped([Idle EXCEPT !.pc = pc, !.queue = queue])
  BY NoneShaped
<1>2. [Idle EXCEPT !.pc = pc, !.queue = queue].pc \in OutOfBatch
  BY DEF Idle, OutOfBatch
<1> QED
  BY <1>1, <1>2 DEF Leaves

LEMMA StopLeaves ==
    ASSUME NEW v, Becomes(v, [Idle EXCEPT !.pc = "stopped"])
    PROVE  Leaves(v)
<1> DEFINE r == [Idle EXCEPT !.pc = "stopped"]
<1>1. 0 \in 0 .. MaxIncidents /\ 0 \in 0 .. NumOffers
  BY FulfillmentAssumption
<1>2. Shaped(r) /\ r.pc \in OutOfBatch
  BY <1>1 DEF Idle, WorkerType, Pcs, OutOfBatch, Shaped
<1> QED
  BY <1>2 DEF Leaves

LEMMA UndoneLeaves ==
    ASSUME Shapes, NEW v \in Workers, InBatch(v), Undoes(v)
    PROVE  Leaves(v)
<1>1. \E r : Shaped(r) /\ Becomes(v, r)
  BY Undone
<1>2. worker'[v].pc = "retry"
  BY DEF Undoes, Becomes, Idle, Shapes, TypeOK
<1> QED
  BY <1>1, <1>2 DEF Leaves, Becomes, Shapes, TypeOK, OutOfBatch

LEMMA SettleLeaves ==
    ASSUME Shapes, NEW v \in Workers, Settle(v)
    PROVE  Leaves(v)
<1> DEFINE pc == IF worker[v].queue = {} THEN "idle" ELSE "next"
<1>1. worker[v].queue \in SUBSET JobItems /\ pc \in {"idle", "next", "stopped"}
  BY WorkerTyped DEF Shapes, WorkerType
<1>2. \/ worker' = [worker EXCEPT ![v] =
             [Idle EXCEPT !.queue = worker[v].queue, !.pc = pc]]
      \/ worker' = [worker EXCEPT ![v] = [Idle EXCEPT !.pc = "stopped"]]
  BY DEF Settle
<1>3. [Idle EXCEPT !.queue = worker[v].queue, !.pc = pc]
         = [Idle EXCEPT !.pc = pc, !.queue = worker[v].queue]
  BY DEF Idle
<1> QED
  BY <1>1, <1>2, <1>3, NoneLeaves, StopLeaves DEF Becomes

LEMMA CommitLeaves ==
    ASSUME Shapes, NEW v \in Workers, CommitBatch(v)
    PROVE  Leaves(v)
<1> DEFINE status == incident'[worker[v].at].status
<1> DEFINE pc == IF status = "processing" THEN "release" ELSE "complete"
<1>1. Shaped(worker[v]) /\ worker[v].pc = "offer"
  BY DEF Shapes, CommitBatch
<1>2. /\ worker[v].at \in Warehouses
      /\ worker[v].n \in 1 .. MaxIncidents
      /\ worker[v].queue \in SUBSET JobItems
  BY <1>1, FulfillmentAssumption DEF Shaped, WorkerType
<1>3. worker' = [worker EXCEPT ![v] =
         [Idle EXCEPT !.queue = worker[v].queue, !.at = worker[v].at, !.n = worker[v].n,
                      !.pc = pc]]
  BY <1>2 DEF CommitBatch, Shapes, TypeOK
<1> HIDE DEF status
<1>4. pc \in {"complete", "release", "retry"}
  OBVIOUS
<1> HIDE DEF pc
<1> DEFINE r == [Idle EXCEPT !.pc = pc, !.queue = worker[v].queue,
                             !.at = worker[v].at, !.n = worker[v].n]
<1>5. Becomes(v, r)
  BY <1>3 DEF Becomes, Idle
<1>6. Shaped(r)
  BY <1>2, <1>4, DoneShaped
<1>7. r.pc \in OutOfBatch
  BY <1>4 DEF Idle, OutOfBatch
<1> QED
  BY <1>5, <1>6, <1>7 DEF Leaves

LEMMA InactiveLeaves ==
    ASSUME Shapes, NEW v \in Workers, NEW w \in Warehouses, NEW n \in 1 .. MaxIncidents,
           BeginBatch(v, w, n), ~ IsActive(w, n)
    PROVE  Leaves(v)
<1>1. \E r : Shaped(r) /\ Becomes(v, r)
  BY Begun
<1>2. worker'[v].pc = "complete"
  BY DEF BeginBatch, Idle, Shapes, TypeOK
<1> QED
  BY <1>1, <1>2 DEF Leaves, Becomes, Shapes, TypeOK, OutOfBatch

(***************************************************************************)
(* The steps of the system, by what they do to the worker's record and to  *)
(* what is committed.                                                      *)
(***************************************************************************)
data == <<state, incident, stock, alloc, ended, client, late>>

\* A worker's steps inside its batch.
Within(v) ==
    /\ VisitOffer(v) \/ LockSource(v) \/ (LockDestination(v) /\ Room(v) /\ Moves(v))
    /\ \E r : Shaped(r) /\ Becomes(v, r) /\ r.at = worker[v].at
    /\ UNCHANGED data

Enters(v, w, n) ==
    /\ BeginBatch(v, w, n) /\ IsActive(w, n)
    /\ \E r : Shaped(r) /\ Becomes(v, r)
    /\ UNCHANGED data

Other ==
    \/ \E c \in Clients : \/ \E i \in Items, w \in Warehouses : BeginReserve(c, i, w)
                          \/ CommitReserve(c) \/ RollBackReserve(c)
    \/ \E w \in Warehouses : \/ \E o \in Offers, units \in 0 .. MaxStock : SetOnHand(w, o, units)
                             \/ \E s \in Declared[w] : SetOperationalState(w, s)
    \/ \E r \in Orders : EndOrder(r)

Quiet == UNCHANGED <<data, worker>>

LEMMA WithinSteps ==
    ASSUME Shapes, NEW v \in Workers,
           VisitOffer(v) \/ LockSource(v) \/ (LockDestination(v) /\ Room(v) /\ Moves(v))
    PROVE  Within(v) /\ InBatch(v)
<1>1. worker[v] \in WorkerType /\ worker \in [Workers -> WorkerType]
  BY DEF Shapes, TypeOK
<1>2. \A a : Decided(v, a).at = worker[v].at
  BY <1>1 DEF Decided, WorkerType
<1>3. \E r : Shaped(r) /\ Becomes(v, r)
  BY Visited, SourceLocked, DestinationLocked
<1>4. worker'[v].at = worker[v].at
  <2>1. CASE VisitOffer(v)
    BY <1>1, <1>2, <2>1 DEF VisitOffer, WorkerType
  <2>2. CASE LockSource(v)
    <3>1. CASE SkipsLocked(v)
      <4>1. Decided(v, TRUE) \in WorkerType
        BY <2>2, <1>1, DecidedTyped DEF LockSource, Shapes, Shaped
      <4> QED
        BY <1>1, <1>2, <3>1, <4>1 DEF SkipsLocked, Becomes, WorkerType
    <3>2. ASSUME NEW d, Chooses(v, d)
          PROVE  worker'[v].at = worker[v].at
      BY <1>1, <3>2 DEF Chooses, Becomes, WorkerType
    <3> QED
      BY <2>2, <3>1, <3>2, LockSourceCases
  <2>3. CASE LockDestination(v) /\ Moves(v)
    <3> DEFINE a == Attends(v)
    <3>1. a \in BOOLEAN /\ worker[v].offers # {}
      BY <2>3 DEF Attends, LockDestination, Shapes, Shaped
    <3>2. Moves(v)
      BY <2>3
    <3>3. worker'[v] = [Decided(v, a) EXCEPT
                  !.held = @ \cup {<<worker[v].dest, Offer(v)>>},
                  !.moves = @ \cup {<<i, worker[v].dest>> : i \in worker[v].items}]
      BY <1>1, <3>2 DEF Moves, Becomes
    <3> HIDE DEF a
    <3>4. Decided(v, a) \in WorkerType
      BY <3>1, DecidedTyped DEF Shapes
    <3> QED
      BY <1>2, <3>3, <3>4 DEF WorkerType
  <2> QED
    BY <2>1, <2>2, <2>3
<1>5. UNCHANGED data
  BY DEF VisitOffer, LockSource, LockDestination, data, stock
<1>6. \E r : Shaped(r) /\ Becomes(v, r) /\ r.at = worker[v].at
  BY <1>1, <1>3, <1>4 DEF Becomes
<1>7. InBatch(v)
  BY DEF VisitOffer, LockSource, LockDestination, InBatch
<1> QED
  BY <1>5, <1>6, <1>7 DEF Within

LEMMA StepCases ==
    ASSUME Shapes, [Next]_vars
    PROVE  \/ Quiet
           \/ \E v \in Workers : Leaves(v) /\ UNCHANGED data
           \/ \E v \in Workers, w \in Warehouses, n \in 1 .. MaxIncidents : Enters(v, w, n)
           \/ \E v \in Workers : Within(v) /\ InBatch(v)
           \/ \E v \in Workers : CommitBatch(v)
           \/ Other
<1>1. ASSUME NEW v \in Workers, Claim(v) \/ Settle(v) \/ Restart(v) \/ Crash(v) \/ FailBatch(v)
      PROVE  Leaves(v) /\ UNCHANGED data
  <2>1. UNCHANGED data
    BY <1>1 DEF Claim, Settle, Restart, Crash, FailBatch, data
  <2>2. CASE Restart(v)
    <3>1. Becomes(v, Idle)
      BY <2>2 DEF Restart, Becomes
    <3>2. Shaped(Idle) /\ Idle.pc \in OutOfBatch
      <4>1. 0 \in 0 .. MaxIncidents /\ 0 \in 0 .. NumOffers
        BY FulfillmentAssumption
      <4> QED
        BY <4>1 DEF Idle, WorkerType, Pcs, OutOfBatch, Shaped
    <3> QED
      BY <2>1, <3>1, <3>2 DEF Leaves
  <2>3. CASE Crash(v)
    BY <2>1, <2>3, StopLeaves DEF Crash, Becomes
  <2>4. CASE FailBatch(v)
    BY <2>1, <2>4, UndoneLeaves DEF FailBatch, Undoes, Becomes
  <2> QED
    BY <1>1, <2>1, <2>2, <2>3, <2>4, ClaimLeaves, SettleLeaves
<1>2. ASSUME NEW v \in Workers, NEW w \in Warehouses, NEW n \in 1 .. MaxIncidents,
             BeginBatch(v, w, n)
      PROVE  (Leaves(v) /\ UNCHANGED data) \/ Enters(v, w, n)
  <2>1. UNCHANGED data
    BY <1>2 DEF BeginBatch, data
  <2> QED
    BY <1>2, <2>1, InactiveLeaves, Begun DEF Enters
<1>3. ASSUME NEW v \in Workers, LockDestination(v)
      PROVE  (Leaves(v) /\ UNCHANGED data) \/ (Within(v) /\ InBatch(v))
  <2>1. UNCHANGED data /\ InBatch(v)
    BY <1>3 DEF LockDestination, data, InBatch
  <2> QED
    BY <1>3, <2>1, LockDestinationCases, UndoneLeaves, WithinSteps
<1>4. ASSUME NEW v \in Workers, Work(v)
      PROVE  \/ Leaves(v) /\ UNCHANGED data
             \/ \E w \in Warehouses, n \in 1 .. MaxIncidents : Enters(v, w, n)
             \/ Within(v) /\ InBatch(v)
             \/ CommitBatch(v)
  BY <1>1, <1>2, <1>3, <1>4, WithinSteps DEF Work
<1>5. ASSUME NEW o \in Offers, ArchiveOffer(o)
      PROVE  Quiet
  BY <1>5 DEF ArchiveOffer, Quiet, data
<1>6. ASSUME NEW x \in JobItems, Expire(x) \/ ComeDue(x)
      PROVE  Quiet
  BY <1>6 DEF Expire, ComeDue, Quiet, data
<1>7. UNCHANGED vars => Quiet
  BY DEF vars, Quiet, data, stock
<1>8. CASE Next
  BY <1>1, <1>4, <1>5, <1>6, <1>8 DEF Next, Other
<1> QED
  BY <1>7, <1>8

(***************************************************************************)
(* The type invariant is inductive.                                        *)
(***************************************************************************)
LEMMA JobsStep ==
    ASSUME Shapes, [Next]_vars
    PROVE  JobsOK'
<1>1. JobsOK
  BY DEF Shapes, TypeOK
<1>2. ASSUME NEW v \in Workers, Settle(v)
      PROVE  JobsOK'
  <2>1. <<worker[v].at, worker[v].n>> \in JobItems
    <3>1. Shaped(worker[v]) /\ worker[v].pc \in {"complete", "release", "retry"}
      BY <1>2 DEF Shapes, Settle
    <3>2. worker[v].at \in Warehouses /\ worker[v].n \in 1 .. MaxIncidents
      BY <3>1, FulfillmentAssumption DEF Shaped, WorkerType
    <3> QED
      BY <3>2, FulfillmentAssumption
  <2>2. job' = job \/ CompleteJob(v, <<worker[v].at, worker[v].n>>)
        \/ ReleaseJob(v, <<worker[v].at, worker[v].n>>, worker[v].pc = "release")
    BY <1>2 DEF Settle
  <2>3. (worker[v].pc = "release") \in BOOLEAN
    OBVIOUS
  <2> QED
    BY <1>1, <2>1, <2>2, <2>3, JobsKept DEF JobsOK
<1>3. ASSUME NEW v \in Workers, Claim(v)
      PROVE  JobsOK'
  BY <1>1, <1>3, JobsKept DEF Claim
<1>4. ASSUME NEW v \in Workers, Work(v) \/ Crash(v) \/ FailBatch(v)
      PROVE  JobsOK'
  <2>1. CASE Work(v)
    BY <1>1, <1>2, <1>3, <2>1 DEF Work, BeginBatch, VisitOffer, LockSource, LockDestination,
       CommitBatch, Restart, JobsOK
  <2> QED
    BY <1>1, <1>4, <2>1 DEF Crash, FailBatch, JobsOK
<1>5. ASSUME NEW x \in JobItems, Expire(x) \/ ComeDue(x)
      PROVE  JobsOK'
  BY <1>1, <1>5, JobsKept DEF Expire, ComeDue
<1>6. CASE Next
  BY <1>1, <1>4, <1>5, <1>6 DEF Next, BeginReserve, CommitReserve, RollBackReserve,
     SetOnHand, SetOperationalState, EndOrder, ArchiveOffer, JobsOK
<1>7. CASE UNCHANGED vars
  BY <1>1, <1>7 DEF vars, JobsOK
<1> QED
  BY <1>6, <1>7

LEMMA CountersStep ==
    ASSUME TypeOK, [Next]_vars
    PROVE  changes' \in Nat /\ faults' \in Nat /\ archived' \subseteq Offers
<1>1. changes \in Nat /\ faults \in Nat /\ archived \subseteq Offers
      /\ changes + 1 \in Nat /\ faults + 1 \in Nat
  BY DEF TypeOK
<1>2. CASE UNCHANGED vars
  BY <1>1, <1>2 DEF vars
<1>3. ASSUME NEW v \in Workers, Work(v) \/ Crash(v) \/ FailBatch(v)
      PROVE  changes' \in Nat /\ faults' \in Nat /\ archived' \subseteq Offers
  <2>1. CASE Work(v)
    BY <1>1, <2>1 DEF Work, Claim, BeginBatch, VisitOffer, LockSource, LockDestination,
       CommitBatch, Settle, Restart
  <2> QED
    BY <1>1, <1>3, <2>1 DEF Crash, FailBatch
<1>4. CASE Next
  BY <1>1, <1>3, <1>4 DEF Next, BeginReserve, CommitReserve, RollBackReserve,
     SetOnHand, SetOperationalState, EndOrder, ArchiveOffer, Expire, ComeDue
<1> QED
  BY <1>2, <1>4

LEMMA RecordsShaped ==
    ASSUME Shapes, NEW v \in Workers, NEW r, Shaped(r), Becomes(v, r)
    PROVE  /\ worker' \in [Workers -> WorkerType]
           /\ worker'[v] = r
           /\ \A u \in Workers : Shaped(worker'[u])
           /\ \A u \in Workers : u # v => worker'[u] = worker[u]
BY DEF Shapes, TypeOK, Becomes, Shaped

IncidentType ==
    [n : 0 .. MaxIncidents,
     status : {"open", "processing", "completed", "needs_attention", "resolved"},
     cursor : 0 .. NumOffers, attention : BOOLEAN]

DataTyped ==
    /\ state \in [Warehouses -> {"active", "degraded", "down"}]
    /\ incident \in [Warehouses -> IncidentType]
    /\ onHand \in [Warehouses -> [Offers -> Nat]]
    /\ reserved \in [Warehouses -> [Offers -> Int]]
    /\ alloc \in [Items -> Warehouses \cup {Nowhere}]
    /\ ended \subseteq Orders
    /\ client \in [Clients -> [item : Items \cup {Nobody}, at : Warehouses \cup {Nowhere}]]
    /\ late \subseteq Items

LEMMA TypedStep ==
    ASSUME Shapes, [Next]_vars, DataTyped', worker' \in [Workers -> WorkerType]
    PROVE  TypeOK'
<1>1. JobsOK' /\ changes' \in Nat /\ faults' \in Nat /\ archived' \subseteq Offers
  BY JobsStep, CountersStep DEF Shapes
<1> QED
  BY <1>1 DEF DataTyped, TypeOK, IncidentType

LEMMA CommitTyped ==
    ASSUME Shapes, NEW v \in Workers, CommitBatch(v)
    PROVE  /\ DataTyped'
           /\ state' = state /\ client' = client /\ ended' = ended /\ onHand' = onHand
           /\ \A w \in Warehouses : w # worker[v].at => incident'[w] = incident[w]
           /\ incident'[worker[v].at].n = incident[worker[v].at].n
<1> DEFINE w == worker[v].at
<1> DEFINE attention == incident[w].attention \/ worker[v].attention
<1> DEFINE status == IF Waiting(w, worker[v].last) # {} THEN "processing"
                     ELSE IF attention THEN "needs_attention" ELSE "completed"
<1> DEFINE Leaving(x, o) == {i \in Moved(v) : x = w /\ OfferOf[i] = o}
<1> DEFINE Coming(x, o)  == {i \in Moved(v) : NewPlace(v, i) = x /\ OfferOf[i] = o}
<1>1. DataTyped /\ Shaped(worker[v]) /\ w \in Warehouses /\ TypeOK
  BY DEF Shapes, TypeOK, DataTyped, IncidentType, Shaped, CommitBatch
<1>2. state' = state /\ client' = client /\ ended' = ended /\ onHand' = onHand
  BY DEF CommitBatch
<1>4. worker[v].last \in 0 .. NumOffers /\ attention \in BOOLEAN
  BY <1>1 DEF Shaped, WorkerType, DataTyped, IncidentType
<1>5. status \in {"open", "processing", "completed", "needs_attention", "resolved"}
  OBVIOUS
<1> DEFINE next == [incident[w] EXCEPT !.status = status, !.cursor = worker[v].last,
                                       !.attention = attention]
<1>3. incident' = [incident EXCEPT ![w] = next]
  BY DEF CommitBatch
<1>a. next \in IncidentType /\ next.n = incident[w].n
  <2>1. incident[w] \in IncidentType
    BY <1>1 DEF DataTyped
  <2> HIDE DEF status, attention
  <2> QED
    BY <1>4, <1>5, <2>1 DEF IncidentType
<1>6. /\ incident' \in [Warehouses -> IncidentType]
      /\ \A x \in Warehouses : x # w => incident'[x] = incident[x]
      /\ incident'[w].n = incident[w].n
  <2> HIDE DEF next
  <2> QED
    BY <1>1, <1>3, <1>a DEF DataTyped
<1>7. alloc' \in [Items -> Warehouses \cup {Nowhere}]
  <2>1. alloc' = [i \in Items |-> IF i \in Moved(v) THEN NewPlace(v, i) ELSE alloc[i]]
    BY DEF CommitBatch
  <2> QED
    BY <1>1, <2>1, Placed DEF DataTyped
<1>8. reserved' \in [Warehouses -> [Offers -> Int]]
  <2>1. reserved' = [x \in Warehouses |-> [o \in Offers |->
             reserved[x][o] - Cardinality(Leaving(x, o)) + Cardinality(Coming(x, o))]]
    BY DEF CommitBatch
  <2>2. ASSUME NEW x \in Warehouses, NEW o \in Offers
        PROVE  reserved[x][o] - Cardinality(Leaving(x, o)) + Cardinality(Coming(x, o)) \in Int
    <3>1. Leaving(x, o) \in SUBSET Items /\ Coming(x, o) \in SUBSET Items
      BY <1>1, MovedItems
    <3>2. Cardinality(Leaving(x, o)) \in Nat /\ Cardinality(Coming(x, o)) \in Nat
      BY <3>1, FulfillmentAssumption, FS_Subset, FS_CardinalityType
    <3>3. reserved[x][o] \in Int
      BY <1>1 DEF DataTyped
    <3> QED
      BY <3>2, <3>3
  <2> QED
    BY <2>1, <2>2
<1>9. late' \subseteq Items
  <2>1. Moved(v) \in SUBSET Items
    BY <1>1, MovedItems
  <2> QED
    BY <1>1, <2>1 DEF CommitBatch, DataTyped
<1> QED
  BY <1>1, <1>2, <1>6, <1>7, <1>8, <1>9 DEF DataTyped

LEMMA OtherTyped ==
    ASSUME Shapes, Other
    PROVE  DataTyped' /\ worker' = worker
<1>1. DataTyped
  BY DEF Shapes, TypeOK, DataTyped, IncidentType
<1>2. ASSUME NEW c \in Clients, NEW i \in Items, NEW w \in Warehouses, BeginReserve(c, i, w)
      PROVE  DataTyped' /\ worker' = worker
  BY <1>1, <1>2 DEF BeginReserve, DataTyped, stock
<1>3. ASSUME NEW c \in Clients, CommitReserve(c)
      PROVE  DataTyped' /\ worker' = worker
  <2>0. client[c].item \in Items /\ client[c].at \in Warehouses
    BY <1>3 DEF CommitReserve, Shapes
  <2>1. reserved' \in [Warehouses -> [Offers -> Int]]
    <3> DEFINE w == client[c].at
    <3> DEFINE o == OfferOf[client[c].item]
    <3>0. reserved[w] \in [Offers -> Int] /\ o \in Offers
      BY <1>1, <2>0, FulfillmentAssumption DEF DataTyped
    <3>1. [reserved[w] EXCEPT ![o] = @ + 1] \in [Offers -> Int]
      BY <3>0
    <3>2. reserved' = [reserved EXCEPT ![w] = [reserved[w] EXCEPT ![o] = @ + 1]]
      BY <1>3 DEF CommitReserve
    <3> QED
      BY <1>1, <2>0, <3>1, <3>2 DEF DataTyped
  <2>2. /\ alloc' \in [Items -> Warehouses \cup {Nowhere}]
        /\ client' \in [Clients -> [item : Items \cup {Nobody}, at : Warehouses \cup {Nowhere}]]
    BY <1>1, <1>3 DEF CommitReserve, DataTyped, NoCall
  <2>3. late' \subseteq Items
    BY <1>1, <1>3, <2>0 DEF CommitReserve, DataTyped
  <2> QED
    BY <1>1, <1>3, <2>1, <2>2, <2>3 DEF CommitReserve, DataTyped
<1>4. ASSUME NEW c \in Clients, RollBackReserve(c)
      PROVE  DataTyped' /\ worker' = worker
  BY <1>1, <1>4 DEF RollBackReserve, DataTyped, NoCall, stock
<1>5. ASSUME NEW w \in Warehouses, NEW o \in Offers, NEW units \in 0 .. MaxStock,
             SetOnHand(w, o, units)
      PROVE  DataTyped' /\ worker' = worker
  BY <1>1, <1>5, FulfillmentAssumption DEF SetOnHand, DataTyped
<1>6. ASSUME NEW w \in Warehouses, NEW s \in Declared[w], SetOperationalState(w, s)
      PROVE  DataTyped' /\ worker' = worker
  <2>1. s \in {"active", "degraded", "down"}
    BY FulfillmentAssumption
  <2>2. state' \in [Warehouses -> {"active", "degraded", "down"}]
    BY <1>1, <1>6, <2>1 DEF SetOperationalState, DataTyped
  <2>3. incident' \in [Warehouses -> IncidentType]
    <3>0. incident[w] \in IncidentType /\ 0 \in 0 .. NumOffers
      BY <1>1, FulfillmentAssumption DEF DataTyped
    <3>1. CASE s = "down"
      <4> DEFINE opened == [n |-> incident[w].n + 1, status |-> "open", cursor |-> 0,
                            attention |-> FALSE]
      <4>1. opened \in IncidentType
        BY <1>6, <3>0, <3>1, FulfillmentAssumption DEF SetOperationalState, IncidentType
      <4>2. incident' = [incident EXCEPT ![w] = opened]
        BY <1>6, <3>1 DEF SetOperationalState
      <4> QED
        BY <1>1, <4>1, <4>2 DEF DataTyped
    <3>2. CASE s # "down"
      <4> DEFINE closed == [incident[w] EXCEPT !.status =
                              IF @ = "completed" THEN @ ELSE "resolved"]
      <4>1. closed \in IncidentType
        BY <3>0 DEF IncidentType
      <4>2. incident' = [incident EXCEPT ![w] = closed]
        BY <1>1, <1>6, <3>2 DEF SetOperationalState, DataTyped
      <4> QED
        BY <1>1, <4>1, <4>2 DEF DataTyped
    <3> QED
      BY <3>1, <3>2
  <2> QED
    BY <1>1, <1>6, <2>2, <2>3 DEF SetOperationalState, DataTyped, stock
<1>7. ASSUME NEW r \in Orders, EndOrder(r)
      PROVE  DataTyped' /\ worker' = worker
  BY <1>1, <1>7 DEF EndOrder, DataTyped, stock
<1> QED
  BY <1>2, <1>3, <1>4, <1>5, <1>6, <1>7 DEF Other

LEMMA RecordStepShapes ==
    ASSUME Shapes, [Next]_vars, NEW v \in Workers, NEW r, Shaped(r), Becomes(v, r),
           UNCHANGED data,
           \/ r.pc \in OutOfBatch
           \/ InBatch(v) /\ r.at = worker[v].at
           \/ /\ r.at \in Active
              /\ \A u \in Workers : InBatch(u) => worker[u].at # r.at
    PROVE  Shapes'
<1>1. /\ worker' \in [Workers -> WorkerType]
      /\ worker'[v] = r
      /\ \A u \in Workers : Shaped(worker'[u])
      /\ \A u \in Workers : u # v => worker'[u] = worker[u]
  BY RecordsShaped
<1>2. DataTyped'
  BY DEF Shapes, TypeOK, DataTyped, IncidentType, data, stock
<1>3. TypeOK'
  BY <1>1, <1>2, TypedStep
<1>4. /\ Active' = Active
      /\ \A w \in Active : incident'[w].n >= 1 /\ ~ Up(w)'
  BY DEF Active, Shapes, data, Up
<1>5. \A u \in Workers : u # v => InBatch(u)' = InBatch(u) /\ worker'[u].at = worker[u].at
  BY <1>1 DEF InBatch
<1>6. \/ ~ InBatch(v)'
      \/ InBatch(v) /\ worker'[v].at = worker[v].at
      \/ /\ worker'[v].at \in Active
         /\ \A u \in Workers : InBatch(u) => worker[u].at # worker'[v].at
  BY <1>1 DEF InBatch, OutOfBatch
<1>7. \A u \in Workers : InBatch(u)' => worker'[u].at \in Active
  BY <1>5, <1>6 DEF Shapes
<1>8. \A t, u \in Workers :
          InBatch(t)' /\ InBatch(u)' /\ worker'[t].at = worker'[u].at => t = u
  BY <1>5, <1>6 DEF Shapes
<1>9. \A c \in Clients :
          client'[c] # NoCall => client'[c].item \in Items /\ client'[c].at \in Warehouses
  BY DEF Shapes, data
<1> QED
  BY <1>1, <1>3, <1>4, <1>7, <1>8, <1>9 DEF Shapes

LEMMA CommitShapes ==
    ASSUME Shapes, [Next]_vars, NEW v \in Workers, CommitBatch(v)
    PROVE  Shapes'
<1>1. PICK r : Shaped(r) /\ r.pc \in OutOfBatch /\ Becomes(v, r)
  BY CommitLeaves DEF Leaves
<1>2. /\ worker' \in [Workers -> WorkerType]
      /\ worker'[v] = r
      /\ \A u \in Workers : Shaped(worker'[u])
      /\ \A u \in Workers : u # v => worker'[u] = worker[u]
  BY <1>1, RecordsShaped
<1>3. TypeOK'
  BY <1>2, CommitTyped, TypedStep
<1>4. InBatch(v) /\ worker[v].at \in Active
  BY DEF Shapes, CommitBatch, InBatch
<1>5. Active' \subseteq Active /\ Active \ {worker[v].at} \subseteq Active'
  BY <1>4, CommitTyped DEF Active
<1>6. \A w \in Active' : incident'[w].n >= 1 /\ ~ Up(w)'
  BY <1>5, CommitTyped DEF Shapes, Up, Active
<1>7. \A u \in Workers : InBatch(u)' => u # v /\ InBatch(u) /\ worker'[u].at = worker[u].at
  BY <1>1, <1>2 DEF InBatch, OutOfBatch
<1>8. \A u \in Workers : InBatch(u)' => worker'[u].at \in Active'
  BY <1>4, <1>5, <1>7 DEF Shapes
<1>9. \A c \in Clients :
          client'[c] # NoCall => client'[c].item \in Items /\ client'[c].at \in Warehouses
  BY CommitTyped DEF Shapes
<1> QED
  BY <1>2, <1>3, <1>6, <1>7, <1>8, <1>9 DEF Shapes

LEMMA OtherShapes ==
    ASSUME Shapes, [Next]_vars, Other
    PROVE  Shapes'
<1>1. TypeOK' /\ worker' = worker
  BY OtherTyped, TypedStep DEF Shapes, TypeOK
<1>2. /\ \A u \in Workers : Shaped(worker'[u])
      /\ \A u \in Workers : InBatch(u)' = InBatch(u)
  BY <1>1 DEF Shapes, InBatch
<1>3. \A c \in Clients :
          client'[c] # NoCall => client'[c].item \in Items /\ client'[c].at \in Warehouses
  <2>1. ASSUME NEW c \in Clients, NEW i \in Items, NEW w \in Warehouses, BeginReserve(c, i, w)
        PROVE  \A d \in Clients : client'[d] # NoCall =>
                   client'[d].item \in Items /\ client'[d].at \in Warehouses
    BY <2>1 DEF BeginReserve, Shapes, TypeOK
  <2>2. ASSUME NEW c \in Clients, CommitReserve(c) \/ RollBackReserve(c)
        PROVE  \A d \in Clients : client'[d] # NoCall =>
                   client'[d].item \in Items /\ client'[d].at \in Warehouses
    BY <2>2 DEF CommitReserve, RollBackReserve, Shapes, TypeOK
  <2> QED
    BY <2>1, <2>2 DEF Other, SetOnHand, SetOperationalState, EndOrder, Shapes
<1>4. /\ \A w \in Active' : incident'[w].n >= 1 /\ ~ Up(w)'
      /\ \A u \in Workers : InBatch(u) => worker[u].at \in Active'
  <2>1. CASE UNCHANGED <<incident, state>>
    BY <2>1 DEF Shapes, Active, Up
  <2>2. ASSUME NEW x \in Warehouses, NEW s \in Declared[x], SetOperationalState(x, s)
        PROVE  /\ \A w \in Active' : incident'[w].n >= 1 /\ ~ Up(w)'
               /\ \A u \in Workers : InBatch(u) => worker[u].at \in Active'
    <3>1. /\ \A w \in Warehouses : w # x => incident'[w] = incident[w] /\ state'[w] = state[w]
          /\ state'[x] = s
      BY <2>2 DEF SetOperationalState, Shapes, TypeOK
    <3>2. \A u \in Workers : InBatch(u) => worker[u].at # x
      BY <2>2 DEF SetOperationalState, IncidentFree
    <3>3. IF s = "down" THEN incident'[x].n = incident[x].n + 1 ELSE x \notin Active'
      <4>1. incident[x] \in IncidentType
        BY DEF Shapes, TypeOK, IncidentType
      <4>2. CASE s = "down"
        BY <2>2, <4>2 DEF SetOperationalState, Shapes, TypeOK
      <4>3. CASE s # "down"
        <5>1. incident'[x].status \in {"completed", "resolved"}
          BY <2>2, <4>1, <4>3 DEF SetOperationalState, Shapes, TypeOK, IncidentType
        <5> QED
          BY <4>3, <5>1 DEF Active
      <4> QED
        BY <4>2, <4>3
    <3>4. incident[x].n \in Nat
      BY FulfillmentAssumption DEF Shapes, TypeOK
    <3>5. \A w \in Active' : incident'[w].n >= 1 /\ ~ Up(w)'
      BY <3>1, <3>3, <3>4 DEF Shapes, Active, Up
    <3> QED
      BY <3>1, <3>2, <3>5 DEF Shapes, Active
  <2> QED
    BY <2>1, <2>2 DEF Other, BeginReserve, CommitReserve, RollBackReserve, SetOnHand, EndOrder
<1> QED
  BY <1>1, <1>2, <1>3, <1>4 DEF Shapes

LEMMA ShapesStep ==
    ASSUME Shapes, [Next]_vars
    PROVE  Shapes'
<1>1. CASE Quiet
  <2>1. DataTyped' /\ worker' \in [Workers -> WorkerType]
    BY <1>1 DEF Quiet, Shapes, TypeOK, DataTyped, IncidentType, data, stock
  <2>2. TypeOK'
    BY <2>1, TypedStep
  <2> QED
    BY <1>1, <2>2 DEF Quiet, data, Shapes, Active, Up, InBatch
<1>2. ASSUME NEW v \in Workers, Leaves(v), UNCHANGED data
      PROVE  Shapes'
  BY <1>2, RecordStepShapes DEF Leaves
<1>3. ASSUME NEW v \in Workers, NEW w \in Warehouses, NEW n \in 1 .. MaxIncidents,
             Enters(v, w, n)
      PROVE  Shapes'
  <2>1. PICK r : Shaped(r) /\ Becomes(v, r)
    BY <1>3 DEF Enters
  <2>2. r.at = w /\ w \in Active /\ \A u \in Workers : InBatch(u) => worker[u].at # w
    <3>1. w \in Active /\ \A u \in Workers : InBatch(u) => worker[u].at # w
      BY <1>3 DEF Enters, BeginBatch, IsActive, IncidentFree
    <3>2. worker'[v].at = w
      BY <1>3 DEF Enters, BeginBatch, Idle, Shapes, TypeOK
    <3>3. worker'[v] = r
      BY <2>1 DEF Becomes, Shapes, TypeOK
    <3> QED
      BY <3>1, <3>2, <3>3
  <2> QED
    BY <1>3, <2>1, <2>2, RecordStepShapes DEF Enters
<1>4. ASSUME NEW v \in Workers, Within(v), InBatch(v)
      PROVE  Shapes'
  BY <1>4, RecordStepShapes DEF Within
<1> QED
  BY <1>1, <1>2, <1>3, <1>4, StepCases, CommitShapes, OtherShapes

LEMMA InitShapes == Init => Shapes
<1> SUFFICES ASSUME Init
             PROVE  Shapes
  OBVIOUS
<1>1. 0 \in 0 .. MaxIncidents /\ 0 \in 0 .. NumOffers /\ 0 \in Nat
  BY FulfillmentAssumption
<1>2. Shaped(Idle) /\ Idle \in WorkerType /\ Idle.pc = "idle"
  BY <1>1 DEF Idle, WorkerType, Pcs, OutOfBatch, Shaped
<1>3. JobsOK
  BY DEF Init, InitJobs, NoJob, JobsOK
<1>4. DataTyped
  BY <1>1, FulfillmentAssumption DEF Init, DataTyped, IncidentType, NoCall
<1>5. TypeOK
  BY <1>1, <1>2, <1>3, <1>4 DEF Init, TypeOK, DataTyped, IncidentType
<1>6. Active = {}
  BY DEF Init, Active
<1> QED
  BY <1>2, <1>5, <1>6 DEF Init, Shapes, InBatch

(* Rows, calls and workers keep their types (inventory_positions,          *)
(* warehouse_incidents, fulfillment_allocations, worker_runtime_jobs).     *)
THEOREM TypeInvariant == Spec => []TypeOK
<1>1. Shapes /\ [Next]_vars => Shapes'
  BY ShapesStep
<1>2. Shapes => TypeOK
  BY DEF Shapes
<1> QED
  BY <1>1, <1>2, InitShapes, PTL DEF Spec

(***************************************************************************)
(* The five steps inside a batch, field by field.                          *)
(***************************************************************************)
\* The items at hand, the position they are at, and the one they go to.
Source(v) == <<worker[v].at, Offer(v)>>
Target(v) == <<worker[v].dest, Offer(v)>>
Placing(v) == {<<i, worker[v].dest>> : i \in worker[v].items}

Decides(v, a, held, moves) ==
    LET r == worker[v]
        s == worker'[v]
    IN  /\ r.offers # {}
        /\ s.pc = "offer" /\ s.items = {} /\ s.at = r.at
        /\ s.last = Offer(v) /\ s.offers = r.offers \ {Offer(v)}
        /\ s.attention = (r.attention \/ a)
        /\ s.held = held /\ s.moves = moves

GoesOn(v) ==
    LET r == worker[v]
        s == worker'[v]
    IN  /\ r.offers # {}
        /\ s.at = r.at /\ s.last = r.last /\ s.offers = r.offers
        /\ s.attention = r.attention /\ s.moves = r.moves

Skips(v) ==
    /\ worker[v].pc = "offer"
    /\ \E a \in BOOLEAN :
          /\ Decides(v, a, worker[v].held, worker[v].moves)
          /\ Tracked(worker[v].at, Offer(v)) = {} \/ a

Starts(v) ==
    /\ worker[v].pc = "offer" /\ worker'[v].pc = "source"
    /\ GoesOn(v) /\ worker'[v].held = worker[v].held
    /\ worker'[v].items = Tracked(worker[v].at, Offer(v))
    /\ \A i \in worker'[v].items : OrderOf[i] \notin ended

SkipsAtSource(v) ==
    /\ worker[v].pc = "source"
    /\ FreePosition(worker[v].at, Offer(v))
    /\ Decides(v, TRUE, worker[v].held \cup {Source(v)}, worker[v].moves)

ChoosesOne(v) ==
    /\ worker[v].pc = "source" /\ worker'[v].pc = "dest"
    /\ FreePosition(worker[v].at, Offer(v))
    /\ GoesOn(v) /\ worker'[v].items = worker[v].items
    /\ worker'[v].held = worker[v].held \cup {Source(v)}
    /\ Up(worker'[v].dest) /\ worker'[v].dest \in Routes[worker[v].at]

MovesThem(v) ==
    /\ worker[v].pc = "dest"
    /\ FreePosition(worker[v].dest, Offer(v))
    /\ Room(v)
    /\ Decides(v, Attends(v), worker[v].held \cup {Target(v)},
               worker[v].moves \cup Placing(v))

LEMMA DecidedFields ==
    ASSUME Shapes, NEW v \in Workers, worker[v].offers # {}, NEW a \in BOOLEAN,
           NEW held, NEW moves,
           \/ /\ Becomes(v, Decided(v, a))
              /\ held = worker[v].held /\ moves = worker[v].moves
           \/ /\ Becomes(v, [Decided(v, a) EXCEPT !.held = held])
              /\ moves = worker[v].moves
           \/ Becomes(v, [Decided(v, a) EXCEPT !.held = held, !.moves = moves])
    PROVE  Decides(v, a, held, moves)
<1> DEFINE x == Decided(v, a)
<1>0. worker[v] \in WorkerType /\ worker \in [Workers -> WorkerType]
  BY DEF Shapes, TypeOK
<1>1. /\ x.pc = "offer" /\ x.items = {} /\ x.at = worker[v].at
      /\ x.last = Offer(v) /\ x.offers = worker[v].offers \ {Offer(v)}
      /\ x.attention = (worker[v].attention \/ a)
      /\ x.held = worker[v].held /\ x.moves = worker[v].moves
  BY <1>0 DEF Decided, WorkerType
<1>2. x \in WorkerType
  BY DecidedTyped DEF Shapes
<1>3. \/ /\ worker'[v] = x
         /\ held = worker[v].held /\ moves = worker[v].moves
      \/ /\ worker'[v] = [x EXCEPT !.held = held]
         /\ moves = worker[v].moves
      \/ worker'[v] = [x EXCEPT !.held = held, !.moves = moves]
  BY <1>0 DEF Becomes
<1> HIDE DEF x
<1> QED
  BY <1>1, <1>2, <1>3 DEF Decides, WorkerType

LEMMA WithinCases ==
    ASSUME Shapes, NEW v \in Workers, Within(v)
    PROVE  \/ Skips(v) \/ Starts(v) \/ SkipsAtSource(v) \/ ChoosesOne(v) \/ MovesThem(v)
<1> DEFINE items == Tracked(worker[v].at, Offer(v))
<1>0. worker[v] \in WorkerType /\ worker \in [Workers -> WorkerType] /\ Shaped(worker[v])
  BY DEF Shapes, TypeOK
<1>1. CASE VisitOffer(v)
  <2>1. worker[v].pc = "offer" /\ worker[v].offers # {}
    BY <1>1 DEF VisitOffer
  <2>2. ASSUME NEW a \in BOOLEAN, Becomes(v, Decided(v, a)), items = {} \/ a
        PROVE  Skips(v)
    BY <2>1, <2>2, DecidedFields DEF Skips
  <2>3. CASE items = {}
    BY <1>1, <2>2, <2>3 DEF VisitOffer, Becomes
  <2>4. CASE items # {} /\ \E i \in items : OrderOf[i] \in ended
    BY <1>1, <2>2, <2>4 DEF VisitOffer, Becomes
  <2>5. CASE items # {} /\ ~ \E i \in items : OrderOf[i] \in ended
    <3>1. worker'[v] = [worker[v] EXCEPT !.pc = "source", !.items = items]
      BY <1>0, <1>1, <2>5 DEF VisitOffer
    <3> HIDE DEF items
    <3>2. GoesOn(v) /\ worker'[v].pc = "source" /\ worker'[v].items = items
          /\ worker'[v].held = worker[v].held
      BY <1>0, <2>1, <3>1 DEF GoesOn, WorkerType
    <3> QED
      BY <2>1, <2>5, <3>2 DEF Starts, items
  <2> QED
    BY <2>3, <2>4, <2>5
<1>2. CASE LockSource(v)
  <2>1. worker[v].pc = "source" /\ FreePosition(worker[v].at, Offer(v))
        /\ worker[v].offers # {} /\ worker[v].at \in Warehouses
    BY <1>0, <1>2 DEF LockSource, Shaped
  <2>2. CASE SkipsLocked(v)
    <3>1. Decides(v, TRUE, worker[v].held \cup {Source(v)}, worker[v].moves)
      BY <2>1, <2>2, DecidedFields DEF SkipsLocked, Source
    <3> QED
      BY <2>1, <3>1 DEF SkipsAtSource
  <2>3. ASSUME NEW d \in Destinations(worker[v].at, Offer(v), Cardinality(worker[v].items)),
               Chooses(v, d)
        PROVE  ChoosesOne(v)
    <3>1. Up(d) /\ d \in Routes[worker[v].at]
      BY <2>1, DestinationsFit
    <3>2. worker'[v] = [worker[v] EXCEPT !.pc = "dest", !.dest = d,
                                         !.held = @ \cup {Source(v)}]
      BY <1>0, <2>3 DEF Chooses, Becomes, Source
    <3>3. GoesOn(v) /\ worker'[v].pc = "dest" /\ worker'[v].dest = d
          /\ worker'[v].items = worker[v].items
          /\ worker'[v].held = worker[v].held \cup {Source(v)}
      BY <1>0, <2>1, <3>2 DEF GoesOn, WorkerType
    <3> QED
      BY <2>1, <3>1, <3>3 DEF ChoosesOne
  <2> QED
    BY <1>2, <2>2, <2>3, LockSourceCases
<1>3. CASE LockDestination(v) /\ Room(v) /\ Moves(v)
  <2>1. worker[v].pc = "dest" /\ FreePosition(worker[v].dest, Offer(v))
        /\ worker[v].offers # {}
    BY <1>0, <1>3 DEF LockDestination, Shaped
  <2>2. Attends(v) \in BOOLEAN
    BY DEF Attends
  <2> DEFINE x == Decided(v, Attends(v))
  <2>3. x.held = worker[v].held /\ x.moves = worker[v].moves
    BY <1>0 DEF Decided, WorkerType
  <2>4. Becomes(v, [x EXCEPT !.held = worker[v].held \cup {Target(v)},
                             !.moves = worker[v].moves \cup Placing(v)])
    BY <1>3, <2>3 DEF Moves, Target, Placing
  <2>5. Decides(v, Attends(v), worker[v].held \cup {Target(v)},
                worker[v].moves \cup Placing(v))
    BY <2>1, <2>2, <2>4, DecidedFields
  <2> QED
    BY <1>3, <2>1, <2>5 DEF MovesThem
<1> QED
  BY <1>1, <1>2, <1>3 DEF Within

LEMMA EntersFields ==
    ASSUME Shapes, NEW v \in Workers, NEW w \in Warehouses, NEW n \in 1 .. MaxIncidents,
           Enters(v, w, n)
    PROVE  /\ worker'[v].pc = "offer" /\ worker'[v].at = w
           /\ worker'[v].last = incident[w].cursor /\ worker'[v].offers = Batch(w)
           /\ worker'[v].items = {} /\ worker'[v].held = {} /\ worker'[v].moves = {}
           /\ worker'[v].attention = FALSE
           /\ w \in Active /\ IncidentFree(w)
           /\ worker[v].pc = "next"
<1>1. worker' = [worker EXCEPT ![v] =
         [Idle EXCEPT !.queue = worker[v].queue \ {<<w, n>>}, !.at = w, !.n = n,
                      !.pc = "offer", !.last = incident[w].cursor, !.offers = Batch(w)]]
  BY DEF Enters, BeginBatch
<1>2. w \in Active /\ IncidentFree(w) /\ worker[v].pc = "next"
  BY DEF Enters, BeginBatch, IsActive
<1> QED
  BY <1>1, <1>2 DEF Idle, Shapes, TypeOK

\* The others do not change when one worker steps.
LEMMA OneSteps ==
    ASSUME Shapes, NEW v \in Workers, NEW r, Becomes(v, r)
    PROVE  /\ worker'[v] = r
           /\ \A u \in Workers : u # v => worker'[u] = worker[u]
BY DEF Becomes, Shapes, TypeOK

(***************************************************************************)
(* No circle of waits: a batch takes its locks offer by offer, and the     *)
(* destinations it may wait for are of warehouses nobody empties.          *)
(***************************************************************************)
\* What is left is behind what is decided, and what is held is decided, but
\* for the source of the offer at hand.
Ordered(v) ==
    InBatch(v) =>
        /\ \A o \in worker[v].offers : worker[v].last < o
        /\ \A p \in worker[v].held :
              p[2] <= worker[v].last \/ (worker[v].pc = "dest" /\ p = Source(v))

\* Of some batches at their destinations one waits for none of the others.
Downhill ==
    \A S \in SUBSET Workers :
        S # {} /\ (\A u \in S : worker[u].pc = "dest")
            => \E v \in S : \A u \in S : worker[v].dest # worker[u].at

Circles == Shapes /\ (\A v \in Workers : Ordered(v)) /\ Downhill

LEMMA OrderedTypes ==
    ASSUME Shapes, NEW v \in Workers
    PROVE  /\ worker[v].last \in Nat
           /\ worker[v].offers \in SUBSET Nat
           /\ \A p \in worker[v].held : p[2] \in Nat
<1>1. worker[v] \in WorkerType
  BY WorkerTyped DEF Shapes
<1> QED
  BY <1>1, FulfillmentAssumption DEF WorkerType, Offers

LEMMA OrderedKept ==
    ASSUME Shapes, NEW v \in Workers, Ordered(v), Within(v), InBatch(v)
    PROVE  Ordered(v)'
<1> DEFINE r == worker[v]
<1> DEFINE s == worker'[v]
<1> DEFINE o == Offer(v)
<1>1. /\ \A p \in r.offers : r.last < p
      /\ \A p \in r.held : p[2] <= r.last \/ (r.pc = "dest" /\ p = Source(v))
  BY DEF Ordered
<1>2. /\ r.last \in Nat /\ r.offers \in SUBSET Nat
      /\ \A p \in r.held : p[2] \in Nat
  BY OrderedTypes
<1>3. ASSUME r.offers # {}
      PROVE  o \in r.offers /\ o \in Nat /\ (\A p \in r.offers : o <= p) /\ r.last < o
  BY <1>1, <1>3, NextOffer DEF Shapes
<1>4. Source(v)[2] = o /\ Target(v)[2] = o
  BY DEF Source, Target
<1>5. ASSUME NEW a, NEW held, NEW moves, Decides(v, a, held, moves),
             held \in SUBSET (r.held \cup {Source(v), Target(v)})
      PROVE  Ordered(v)'
  <2>1. s.pc = "offer" /\ s.last = o /\ s.offers = r.offers \ {o} /\ s.held = held
        /\ r.offers # {}
    BY <1>5 DEF Decides
  <2>2. \A p \in s.offers : s.last < p
    BY <1>2, <1>3, <2>1
  <2>3. \A p \in s.held : p[2] <= s.last
    BY <1>1, <1>2, <1>3, <1>4, <1>5, <2>1
  <2> QED
    BY <2>1, <2>2, <2>3 DEF Ordered
<1>6. CASE Starts(v)
  BY <1>1, <1>6 DEF Starts, GoesOn, Ordered
<1>7. CASE ChoosesOne(v)
  <2>1. s.pc = "dest" /\ s.last = r.last /\ s.offers = r.offers /\ s.at = r.at
        /\ s.held = r.held \cup {Source(v)} /\ r.pc = "source"
    BY <1>7 DEF ChoosesOne, GoesOn
  <2>2. Source(v)' = Source(v)
    BY <2>1 DEF Source, Offer
  <2> QED
    BY <1>1, <2>1, <2>2 DEF Ordered
<1>8. CASE Skips(v) \/ SkipsAtSource(v) \/ MovesThem(v)
  BY <1>5, <1>8 DEF Skips, SkipsAtSource, MovesThem
<1> QED
  BY <1>6, <1>7, <1>8, WithinCases

LEMMA OrderedStep ==
    ASSUME Circles, [Next]_vars
    PROVE  \A v \in Workers : Ordered(v)'
<1>0. Shapes /\ \A v \in Workers : Ordered(v)
  BY DEF Circles
<1>1. \A v \in Workers : worker'[v] = worker[v] => Ordered(v)'
  BY <1>0 DEF Ordered, InBatch, Source, Offer
<1>2. CASE Quiet \/ Other
  BY <1>0, <1>1, <1>2, OtherTyped DEF Quiet
<1>3. ASSUME NEW v \in Workers, Leaves(v)
      PROVE  \A u \in Workers : Ordered(u)'
  BY <1>0, <1>1, <1>3, OneSteps DEF Leaves, OutOfBatch, Ordered, InBatch
<1>4. ASSUME NEW v \in Workers, NEW w \in Warehouses, NEW n \in 1 .. MaxIncidents,
             Enters(v, w, n)
      PROVE  \A u \in Workers : Ordered(u)'
  <2>1. ASSUME NEW o \in Batch(w)
        PROVE  incident[w].cursor < o
    <3>1. o \in Waiting(w, incident[w].cursor)
      BY DEF Batch
    <3>2. o \in Offers /\ o > incident[w].cursor /\ incident[w].cursor \in 0 .. NumOffers
      BY <1>0, <3>1 DEF Waiting, Shapes, TypeOK
    <3> QED
      BY <3>2, FulfillmentAssumption DEF Offers
  <2>2. Ordered(v)'
    <3>1. /\ worker'[v].last = incident[w].cursor /\ worker'[v].offers = Batch(w)
          /\ worker'[v].held = {}
      BY <1>0, <1>4, EntersFields
    <3> QED
      BY <2>1, <3>1 DEF Ordered
  <2> QED
    BY <1>0, <1>1, <1>4, <2>2, OneSteps DEF Enters
<1>5. ASSUME NEW v \in Workers, Within(v), InBatch(v)
      PROVE  \A u \in Workers : Ordered(u)'
  BY <1>0, <1>1, <1>5, OrderedKept, OneSteps DEF Within
<1>6. ASSUME NEW v \in Workers, CommitBatch(v)
      PROVE  \A u \in Workers : Ordered(u)'
  BY <1>0, <1>3, <1>6, CommitLeaves
<1> QED
  BY <1>0, <1>2, <1>3, <1>4, <1>5, <1>6, StepCases

\* The workers at a destination are the ones before the step, or one more
\* that has chosen a warehouse that is up.
LEMMA AtDestination ==
    ASSUME Shapes, [Next]_vars
    PROVE  \A u \in Workers : worker'[u].pc = "dest" =>
               \/ worker'[u] = worker[u]
               \/ ChoosesOne(u) /\ InBatch(u) /\ \A t \in Workers \ {u} : worker'[t] = worker[t]
<1>1. CASE Quiet \/ Other
  BY <1>1, OtherTyped DEF Quiet
<1>2. ASSUME NEW v \in Workers, Leaves(v) \/ CommitBatch(v)
      PROVE  \A u \in Workers : worker'[u].pc = "dest" => worker'[u] = worker[u]
  BY <1>2, CommitLeaves, OneSteps DEF Leaves, OutOfBatch
<1>3. ASSUME NEW v \in Workers, NEW w \in Warehouses, NEW n \in 1 .. MaxIncidents,
             Enters(v, w, n)
      PROVE  \A u \in Workers : worker'[u].pc = "dest" => worker'[u] = worker[u]
  BY <1>3, EntersFields, OneSteps DEF Enters
<1>4. ASSUME NEW v \in Workers, Within(v), InBatch(v)
      PROVE  \A u \in Workers : worker'[u].pc = "dest" =>
               \/ worker'[u] = worker[u]
               \/ ChoosesOne(u) /\ InBatch(u) /\ \A t \in Workers \ {u} : worker'[t] = worker[t]
  <2>1. \A u \in Workers : u # v => worker'[u] = worker[u]
    BY <1>4, OneSteps DEF Within
  <2>2. worker'[v].pc = "dest" => ChoosesOne(v)
    BY <1>4, WithinCases DEF Skips, Starts, SkipsAtSource, MovesThem, Decides
  <2> QED
    BY <1>4, <2>1, <2>2
<1> QED
  BY <1>1, <1>2, <1>3, <1>4, StepCases

LEMMA DownhillStep ==
    ASSUME Circles, [Next]_vars
    PROVE  Downhill'
<1>0. Shapes /\ Downhill
  BY DEF Circles
<1> SUFFICES ASSUME NEW S \in SUBSET Workers, S # {}, \A u \in S : worker'[u].pc = "dest"
             PROVE  \E v \in S : \A u \in S : worker'[v].dest # worker'[u].at
  BY DEF Downhill
<1>1. CASE \A u \in S : worker'[u] = worker[u]
  BY <1>0, <1>1 DEF Downhill
<1>2. CASE \E u \in S : worker'[u] # worker[u]
  <2>1. PICK v \in S : worker'[v] # worker[v]
    BY <1>2
  <2>2. ChoosesOne(v) /\ InBatch(v) /\ \A t \in Workers \ {v} : worker'[t] = worker[t]
    BY <1>0, <2>1, AtDestination
  <2>3. \A u \in S : InBatch(u) /\ worker'[u].at = worker[u].at
    BY <2>2 DEF InBatch, ChoosesOne, GoesOn
  <2>4. \A u \in S : worker'[u].at \in Active
    BY <1>0, <2>3 DEF Shapes
  <2>5. Up(worker'[v].dest)
    BY <2>2 DEF ChoosesOne
  <2> QED
    BY <1>0, <2>4, <2>5 DEF Shapes
<1> QED
  BY <1>1, <1>2

LEMMA CirclesBroken ==
    ASSUME Circles
    PROVE  NoCircularWait
<1>0. Shapes /\ Downhill /\ \A v \in Workers : Ordered(v)
  BY DEF Circles
<1> SUFFICES ASSUME NEW S \in SUBSET Workers, S # {},
                    \A u \in S : \E v \in S : WaitsFor(u, v)
             PROVE  FALSE
  BY DEF NoCircularWait
<1>1. \A u \in S : /\ worker[u].pc \in {"source", "dest"}
                   /\ worker[u].offers # {} /\ InBatch(u)
  BY <1>0 DEF WaitsFor, Shapes, Shaped, InBatch
<1>2. \A u \in S : /\ Offer(u) \in worker[u].offers /\ Offer(u) \in Nat
                   /\ Offer(u) \in 0 .. NumOffers
  BY <1>0, <1>1, NextOffer, FulfillmentAssumption DEF Shapes, Offers
<1> DEFINE N == {Offer(u) : u \in S}
<1>3. N \in SUBSET (0 .. NumOffers) /\ N # {}
  BY <1>2
<1>4. PICK m \in N : \A k \in N : k <= m
  BY <1>3, Largest, FulfillmentAssumption
<1> DEFINE T == {u \in S : Offer(u) = m /\ worker[u].pc = "dest"}
\* Who waits for a position of the last offer waits for one that is next at it.
<1>5. ASSUME NEW u \in S, Offer(u) = m
      PROVE  \E v \in T : worker[u].pc = "dest" => worker[u].dest = worker[v].at
  <2>1. PICK v \in S : WaitsFor(u, v)
    OBVIOUS
  <2>2. PICK p \in worker[v].held :
            p[2] = m /\ (worker[u].pc = "dest" => p[1] = worker[u].dest)
    BY <1>5, <2>1 DEF WaitsFor
  <2>3. worker[v].last \in Nat /\ worker[v].last < Offer(v) /\ Offer(v) <= m /\ m \in Nat
    BY <1>0, <1>1, <1>2, <1>4, <1>5, OrderedTypes DEF Ordered
  <2>4. worker[v].pc = "dest" /\ p = Source(v)
    BY <1>0, <1>1, <1>2, <2>2, <2>3 DEF Ordered
  <2>5. Offer(v) = m /\ p[1] = worker[v].at
    BY <2>2, <2>4 DEF Source
  <2> QED
    BY <2>2, <2>4, <2>5
<1>6. T # {} /\ T \in SUBSET Workers /\ \A u \in T : worker[u].pc = "dest"
  BY <1>4, <1>5
<1>7. PICK u \in T : \A v \in T : worker[u].dest # worker[v].at
  BY <1>0, <1>6 DEF Downhill
<1> QED
  BY <1>5, <1>7

(* Batches of different incidents, moving the same offers in opposite      *)
(* directions, never wait for each other in a circle (LockSource,          *)
(* LockDestination), however many workers and warehouses there are.        *)
THEOREM NoCircle == Spec => []NoCircularWait
<1>1. Init => Circles
  BY InitShapes DEF Init, Circles, Ordered, Downhill, Idle, InBatch
<1>2. Circles /\ [Next]_vars => Circles'
  BY ShapesStep, OrderedStep, DownhillStep DEF Circles
<1>3. Circles => NoCircularWait
  BY CirclesBroken
<1> QED
  BY <1>1, <1>2, <1>3, PTL DEF Spec

(***************************************************************************)
(* Positions are changed under their locks, and what is checked under one  *)
(* stays true until the commit.                                            *)
(***************************************************************************)
Locks ==
    \A p, q \in Workers \cup Clients : p # q => HeldBy(p) \cap HeldBy(q) = {}

\* What a reservation has checked: no allocation, and a unit for it.
Calls ==
    \A c \in Clients : client[c] # NoCall =>
        /\ alloc[client[c].item] = Nowhere
        /\ Available(client[c].at, OfferOf[client[c].item]) >= 1
        /\ \A d \in Clients \ {c} : client[d].item # client[c].item

\* What a batch is about to move from where it is to where there is room.
Arriving(v, d, o) == {i \in Items : <<i, d>> \in worker[v].moves /\ OfferOf[i] = o}

Movable(v, i, d) ==
    /\ alloc[i] = worker[v].at /\ d # worker[v].at
    /\ OfferOf[i] <= worker[v].last
    /\ <<worker[v].at, OfferOf[i]>> \in worker[v].held
    /\ <<d, OfferOf[i]>> \in worker[v].held
    /\ Cardinality(Arriving(v, d, OfferOf[i])) <= Available(d, OfferOf[i])

Sound(v) ==
    InBatch(v) =>
        /\ worker[v].pc \in {"source", "dest"} =>
              worker[v].items \subseteq Tracked(worker[v].at, Offer(v))
        /\ worker[v].pc = "dest" => Source(v) \in worker[v].held
        /\ \A i, d : <<i, d>> \in worker[v].moves => Movable(v, i, d)
        /\ \A i, d, e : <<i, d>> \in worker[v].moves /\ <<i, e>> \in worker[v].moves => d = e
        /\ \A i \in worker[v].items \cup Moved(v) : OrderOf[i] \notin ended

Checked == Circles /\ Locks /\ Calls /\ (\A v \in Workers : Sound(v)) /\ ReservationsBacked

\* A process takes a lock only when nobody else has it.
LEMMA LockTaken ==
    ASSUME Locks, NEW p \in Workers \cup Clients, NEW w, NEW o,
           \A q \in (Workers \cup Clients) \ {p} : HeldBy(q)' = HeldBy(q),
           \/ HeldBy(p)' \subseteq HeldBy(p)
           \/ FreePosition(w, o) /\ HeldBy(p)' \subseteq HeldBy(p) \cup {<<w, o>>}
    PROVE  Locks'
<1>1. \A q \in (Workers \cup Clients) \ {p} : HeldBy(p)' \cap HeldBy(q)' = {}
  BY DEF Locks, FreePosition
<1> SUFFICES ASSUME NEW q \in Workers \cup Clients, NEW r \in Workers \cup Clients, q # r
             PROVE  HeldBy(q)' \cap HeldBy(r)' = {}
  BY DEF Locks
<1> QED
  BY <1>1 DEF Locks

LEMMA HeldByWhom ==
    /\ \A v \in Workers : HeldBy(v) = worker[v].held
    /\ \A c \in Clients : HeldBy(c) =
          {<<client[c].at, OfferOf[i]>> : i \in {client[c].item} \cap Items}
BY FulfillmentAssumption DEF HeldBy

LEMMA HeldByThen ==
    /\ \A v \in Workers : HeldBy(v)' = worker'[v].held
    /\ \A c \in Clients : HeldBy(c)' =
          {<<client'[c].at, OfferOf[i]>> : i \in {client'[c].item} \cap Items}
BY FulfillmentAssumption DEF HeldBy

LEMMA LocksUnchanged ==
    ASSUME Locks, UNCHANGED <<worker, client>>
    PROVE  Locks'
BY DEF Locks, HeldBy

LEMMA WorkerLocks ==
    ASSUME Shapes, Locks, NEW v \in Workers, NEW w, NEW o, UNCHANGED client,
           \A u \in Workers \ {v} : worker'[u] = worker[u],
           \/ worker'[v].held \subseteq worker[v].held
           \/ FreePosition(w, o) /\ worker'[v].held \subseteq worker[v].held \cup {<<w, o>>}
    PROVE  Locks'
<1>1. \A q \in (Workers \cup Clients) \ {v} : HeldBy(q)' = HeldBy(q)
  BY HeldByWhom, HeldByThen
<1>2. \/ HeldBy(v)' \subseteq HeldBy(v)
      \/ FreePosition(w, o) /\ HeldBy(v)' \subseteq HeldBy(v) \cup {<<w, o>>}
  BY HeldByWhom, HeldByThen
<1> QED
  BY <1>1, <1>2, LockTaken

LEMMA ClientLocks ==
    ASSUME Shapes, Locks, NEW c \in Clients, NEW w, NEW i \in Items, UNCHANGED worker,
           \/ client' = [client EXCEPT ![c] = NoCall]
           \/ /\ client' = [client EXCEPT ![c] = [item |-> i, at |-> w]]
              /\ FreePosition(w, OfferOf[i])
    PROVE  Locks'
<1>0. client \in [Clients -> [item : Items \cup {Nobody}, at : Warehouses \cup {Nowhere}]]
  BY DEF Shapes, TypeOK
<1>a. \A d \in Clients \ {c} : client'[d] = client[d]
  BY <1>0
<1>1. \A q \in (Workers \cup Clients) \ {c} : HeldBy(q)' = HeldBy(q)
  <2>1. ASSUME NEW d \in Clients \ {c}
        PROVE  HeldBy(d)' = HeldBy(d)
    <3>1. client'[d] = client[d]
      BY <1>a
    <3>2. HeldBy(d)' = {<<client'[d].at, OfferOf[k]>> : k \in {client'[d].item} \cap Items}
      BY HeldByThen
    <3> QED
      BY <3>1, <3>2, HeldByWhom
  <2>2. \A v \in Workers : HeldBy(v)' = HeldBy(v)
    BY HeldByWhom, HeldByThen
  <2> QED
    BY <2>1, <2>2
<1>2. CASE client' = [client EXCEPT ![c] = NoCall]
  <2>1. HeldBy(c)' = {}
    BY <1>0, <1>2, HeldByThen, FulfillmentAssumption DEF NoCall
  <2> QED
    BY <1>1, <2>1, LockTaken
<1>3. CASE /\ client' = [client EXCEPT ![c] = [item |-> i, at |-> w]]
           /\ FreePosition(w, OfferOf[i])
  <2>1. HeldBy(c)' = {<<w, OfferOf[i]>>}
    BY <1>0, <1>3, HeldByThen
  <2> QED
    BY <1>1, <1>3, <2>1, LockTaken
<1> QED
  BY <1>2, <1>3

LEMMA LocksStep ==
    ASSUME Shapes, Locks, [Next]_vars
    PROVE  Locks'
<1>1. CASE Quiet
  BY <1>1, LocksUnchanged DEF Quiet, data
<1>2. ASSUME NEW v \in Workers, Leaves(v), client' = client
      PROVE  Locks'
  <2>1. worker'[v].held = {} /\ \A u \in Workers \ {v} : worker'[u] = worker[u]
    BY <1>2, OneSteps DEF Leaves, Shaped
  <2> QED
    BY <1>2, <2>1, WorkerLocks
<1>3. ASSUME NEW v \in Workers, NEW w \in Warehouses, NEW n \in 1 .. MaxIncidents,
             Enters(v, w, n)
      PROVE  Locks'
  <2>1. worker'[v].held = {} /\ \A u \in Workers \ {v} : worker'[u] = worker[u]
    BY <1>3, OneSteps, EntersFields DEF Enters
  <2> QED
    BY <1>3, <2>1, WorkerLocks DEF Enters, data
<1>4. ASSUME NEW v \in Workers, Within(v), InBatch(v)
      PROVE  Locks'
  <2>1. (\A u \in Workers \ {v} : worker'[u] = worker[u]) /\ client' = client
    BY <1>4, OneSteps DEF Within, data
  <2>2. \/ worker'[v].held \subseteq worker[v].held
        \/ /\ FreePosition(worker[v].at, Offer(v))
           /\ worker'[v].held \subseteq worker[v].held \cup {<<worker[v].at, Offer(v)>>}
        \/ /\ FreePosition(worker[v].dest, Offer(v))
           /\ worker'[v].held \subseteq worker[v].held \cup {<<worker[v].dest, Offer(v)>>}
    BY <1>4, WithinCases DEF Skips, Starts, SkipsAtSource, ChoosesOne, MovesThem, Decides,
       Source, Target
  <2> QED
    BY <2>1, <2>2, WorkerLocks
<1>5. ASSUME NEW v \in Workers, CommitBatch(v)
      PROVE  Locks'
  BY <1>2, <1>5, CommitLeaves, CommitTyped
<1>6. CASE Other
  <2>1. ASSUME NEW c \in Clients, NEW i \in Items, NEW w \in Warehouses, BeginReserve(c, i, w)
        PROVE  Locks'
    BY <2>1, ClientLocks DEF BeginReserve
  <2>2. ASSUME NEW c \in Clients, CommitReserve(c) \/ RollBackReserve(c)
        PROVE  Locks'
    <3>1. client[c].item \in Items
      BY <2>2 DEF CommitReserve, RollBackReserve, Shapes
    <3> QED
      BY <2>2, <3>1, ClientLocks DEF CommitReserve, RollBackReserve
  <2> QED
    BY <1>6, <2>1, <2>2, LocksUnchanged DEF Other, SetOnHand, SetOperationalState, EndOrder
<1> QED
  BY <1>1, <1>2, <1>3, <1>4, <1>5, <1>6, StepCases DEF data

LEMMA Exchanged ==
    ASSUME NEW S, IsFiniteSet(S), NEW L \in SUBSET S, NEW C, IsFiniteSet(C), C \cap S = {}
    PROVE  /\ Cardinality((S \ L) \cup C) = Cardinality(S) - Cardinality(L) + Cardinality(C)
           /\ Cardinality(L) \in Nat /\ Cardinality(C) \in Nat /\ Cardinality(S) \in Nat
<1>1. IsFiniteSet(L) /\ S \cap L = L
  BY FS_Subset
<1>2. IsFiniteSet(S \ L) /\ Cardinality(S \ L) = Cardinality(S) - Cardinality(L)
  BY <1>1, FS_Difference
<1>3. Cardinality((S \ L) \cup C)
        = Cardinality(S \ L) + Cardinality(C) - Cardinality((S \ L) \cap C)
  BY <1>2, FS_Union
<1>4. (S \ L) \cap C = {}
  OBVIOUS
<1>5. Cardinality((S \ L) \cap C) = 0
  BY <1>4, FS_EmptySet
<1>6. Cardinality(L) \in Nat /\ Cardinality(C) \in Nat /\ Cardinality(S) \in Nat
  BY <1>1, FS_CardinalityType
<1> QED
  BY <1>2, <1>3, <1>5, <1>6

(***************************************************************************)
(* What a commit does to the allocations and to the positions.             *)
(***************************************************************************)
Departing(v, x, o) == {i \in Moved(v) : x = worker[v].at /\ OfferOf[i] = o}

LEMMA MovedFacts ==
    ASSUME Checked, NEW v \in Workers, InBatch(v), NEW i \in Moved(v)
    PROVE  /\ i \in Items /\ NewPlace(v, i) \in Warehouses
           /\ <<i, NewPlace(v, i)>> \in worker[v].moves
           /\ Movable(v, i, NewPlace(v, i))
           /\ OrderOf[i] \notin ended
           /\ \A d : <<i, d>> \in worker[v].moves => d = NewPlace(v, i)
<1>1. Shapes /\ Sound(v)
  BY DEF Checked, Circles
<1>2. /\ i \in Items /\ NewPlace(v, i) \in Warehouses
      /\ <<i, NewPlace(v, i)>> \in worker[v].moves
  BY <1>1, Placed DEF Shapes
<1> QED
  BY <1>1, <1>2 DEF Sound

LEMMA CommitAlloc ==
    ASSUME Checked, NEW v \in Workers, CommitBatch(v)
    PROVE  /\ InBatch(v) /\ worker[v].at \in Warehouses
           /\ \A i \in Items : alloc'[i] = IF i \in Moved(v) THEN NewPlace(v, i) ELSE alloc[i]
           /\ \A x \in Warehouses, o \in Offers :
                 Tracked(x, o)' = (Tracked(x, o) \ Departing(v, x, o)) \cup Arriving(v, x, o)
<1>1. InBatch(v) /\ worker[v].at \in Warehouses
  BY DEF CommitBatch, InBatch, Checked, Circles, Shapes, Shaped
<1>2. \A i \in Items : alloc'[i] = IF i \in Moved(v) THEN NewPlace(v, i) ELSE alloc[i]
  BY DEF CommitBatch
<1>3. ASSUME NEW x \in Warehouses, NEW o \in Offers, NEW i \in Items
      PROVE  i \in Tracked(x, o)'
                <=> i \in (Tracked(x, o) \ Departing(v, x, o)) \cup Arriving(v, x, o)
  <2>1. CASE i \in Moved(v)
    <3>1. /\ alloc[i] = worker[v].at /\ NewPlace(v, i) # worker[v].at
          /\ <<i, x>> \in worker[v].moves <=> x = NewPlace(v, i)
      BY <1>1, <2>1, MovedFacts DEF Movable
    <3> QED
      BY <1>2, <2>1, <3>1 DEF Tracked, Departing, Arriving
  <2>2. CASE i \notin Moved(v)
    <3>1. <<i, x>> \notin worker[v].moves
      BY <2>2, MovedItems DEF Checked, Circles, Shapes
    <3> QED
      BY <1>2, <2>2, <3>1 DEF Tracked, Departing, Arriving
  <2> QED
    BY <2>1, <2>2
<1>4. ASSUME NEW x \in Warehouses, NEW o \in Offers
      PROVE  Tracked(x, o)' = (Tracked(x, o) \ Departing(v, x, o)) \cup Arriving(v, x, o)
  <2>1. Tracked(x, o)' \in SUBSET Items /\ Tracked(x, o) \in SUBSET Items
        /\ Arriving(v, x, o) \in SUBSET Items
    BY DEF Tracked, Arriving
  <2> QED
    BY <1>3, <2>1
<1> QED
  BY <1>1, <1>2, <1>4

LEMMA CommitStock ==
    ASSUME Checked, NEW v \in Workers, CommitBatch(v), NEW x \in Warehouses, NEW o \in Offers
    PROVE  /\ reserved'[x][o] = reserved[x][o] - Cardinality(Departing(v, x, o))
                                               + Cardinality(Arriving(v, x, o))
           /\ Departing(v, x, o) \in SUBSET Tracked(x, o)
           /\ Arriving(v, x, o) \cap Tracked(x, o) = {}
           /\ IsFiniteSet(Departing(v, x, o)) /\ IsFiniteSet(Arriving(v, x, o))
           /\ Cardinality(Departing(v, x, o)) \in Nat
           /\ Cardinality(Arriving(v, x, o)) \in Nat
           /\ Arriving(v, x, o) # {} =>
                 /\ x # worker[v].at /\ <<x, o>> \in worker[v].held
                 /\ Cardinality(Arriving(v, x, o)) <= Available(x, o)
<1>1. InBatch(v)
  BY CommitAlloc
<1>2. Moved(v) \in SUBSET Items /\ \A i, d : <<i, d>> \in worker[v].moves => i \in Moved(v)
  BY MovedItems DEF Checked, Circles, Shapes
<1>3. Arriving(v, x, o) = {i \in Moved(v) : NewPlace(v, i) = x /\ OfferOf[i] = o}
  <2>1. \A i \in Moved(v) : NewPlace(v, i) = x <=> <<i, x>> \in worker[v].moves
    BY <1>1, MovedFacts
  <2> QED
    BY <1>2, <2>1 DEF Arriving
<1>4. reserved'[x][o] = reserved[x][o] - Cardinality(Departing(v, x, o))
                                       + Cardinality(Arriving(v, x, o))
  BY <1>3 DEF CommitBatch, Departing
<1>5. Departing(v, x, o) \in SUBSET Tracked(x, o) /\ Arriving(v, x, o) \cap Tracked(x, o) = {}
  <2>1. \A i \in Moved(v) : alloc[i] = worker[v].at /\ NewPlace(v, i) # worker[v].at
    BY <1>1, MovedFacts DEF Movable
  <2> QED
    BY <1>2, <1>3, <2>1 DEF Departing, Tracked
<1>6. Departing(v, x, o) \in SUBSET Items /\ Arriving(v, x, o) \in SUBSET Items
  BY <1>2 DEF Departing, Arriving
<1>7. IsFiniteSet(Departing(v, x, o)) /\ IsFiniteSet(Arriving(v, x, o))
  BY <1>6, FS_Subset, FulfillmentAssumption
<1>8. ASSUME Arriving(v, x, o) # {}
      PROVE  /\ x # worker[v].at /\ <<x, o>> \in worker[v].held
             /\ Cardinality(Arriving(v, x, o)) <= Available(x, o)
  <2>1. PICK i : i \in Moved(v) /\ NewPlace(v, i) = x /\ OfferOf[i] = o
    BY <1>3, <1>8
  <2>2. Movable(v, i, x)
    BY <1>1, <2>1, MovedFacts
  <2> QED
    BY <2>1, <2>2 DEF Movable
<1> QED
  BY <1>4, <1>5, <1>7, <1>8, FS_CardinalityType

LEMMA CommitBacked ==
    ASSUME Checked, NEW v \in Workers, CommitBatch(v)
    PROVE  ReservationsBacked'
<1> SUFFICES ASSUME NEW x \in Warehouses, NEW o \in Offers
             PROVE  /\ reserved'[x][o] = Legacy[x][o] + Cardinality(Tracked(x, o)')
                    /\ reserved'[x][o] <= onHand'[x][o]
  BY DEF ReservationsBacked
<1> DEFINE T == Tracked(x, o)
<1> DEFINE L == Departing(v, x, o)
<1> DEFINE C == Arriving(v, x, o)
<1>1. /\ reserved'[x][o] = reserved[x][o] - Cardinality(L) + Cardinality(C)
      /\ L \in SUBSET T /\ C \cap T = {} /\ IsFiniteSet(C)
      /\ C # {} => Cardinality(C) <= Available(x, o)
  BY CommitStock
<1>2. IsFiniteSet(T) /\ Tracked(x, o)' = (T \ L) \cup C
  BY TrackedFinite, CommitAlloc
<1>3. /\ Cardinality((T \ L) \cup C) = Cardinality(T) - Cardinality(L) + Cardinality(C)
      /\ Cardinality(L) \in Nat /\ Cardinality(C) \in Nat /\ Cardinality(T) \in Nat
  BY <1>1, <1>2, Exchanged
<1>4. /\ reserved[x][o] = Legacy[x][o] + Cardinality(T) /\ reserved[x][o] <= onHand[x][o]
      /\ reserved[x][o] \in Int /\ onHand[x][o] \in Int /\ Legacy[x][o] \in Nat
  BY FulfillmentAssumption DEF Checked, Circles, Shapes, TypeOK, ReservationsBacked
<1>5. onHand' = onHand
  BY CommitTyped DEF Checked, Circles
<1>6. Cardinality(C) = 0 \/ Cardinality(C) <= onHand[x][o] - reserved[x][o]
  BY <1>1, FS_EmptySet DEF Available
<1> HIDE DEF T, L, C
<1> QED
  BY <1>1, <1>2, <1>3, <1>4, <1>5, <1>6

LEMMA ReserveFacts ==
    ASSUME Shapes, Calls, NEW c \in Clients, CommitReserve(c)
    PROVE  LET i == client[c].item
               w == client[c].at
           IN  /\ i \in Items /\ w \in Warehouses /\ OfferOf[i] \in Offers
               /\ alloc[i] = Nowhere /\ alloc' = [alloc EXCEPT ![i] = w]
               /\ Available(w, OfferOf[i]) >= 1
               /\ reserved'[w][OfferOf[i]] = reserved[w][OfferOf[i]] + 1
               /\ \A x \in Warehouses, o \in Offers :
                     x # w \/ o # OfferOf[i] => reserved'[x][o] = reserved[x][o]
               /\ \A x \in Warehouses, o \in Offers :
                     Tracked(x, o)' = IF x = w /\ o = OfferOf[i]
                                      THEN Tracked(x, o) \cup {i} ELSE Tracked(x, o)
               /\ i \notin Tracked(w, OfferOf[i])
<1> DEFINE i == client[c].item
<1> DEFINE w == client[c].at
<1> DEFINE p == OfferOf[i]
<1>1. client[c] # NoCall
  BY DEF CommitReserve
<1>2. i \in Items /\ w \in Warehouses /\ p \in Offers
  BY <1>1, FulfillmentAssumption DEF Shapes
<1>3. alloc[i] = Nowhere /\ Available(w, p) >= 1
  BY <1>1 DEF Calls
<1>4. /\ alloc' = [alloc EXCEPT ![i] = w]
      /\ reserved' = [reserved EXCEPT ![w][p] = @ + 1]
      /\ alloc \in [Items -> Warehouses \cup {Nowhere}]
      /\ reserved \in [Warehouses -> [Offers -> Int]]
  BY DEF CommitReserve, Shapes, TypeOK
<1> HIDE DEF i, w, p
<1>5. /\ reserved'[w][p] = reserved[w][p] + 1
      /\ \A x \in Warehouses, o \in Offers :
            x # w \/ o # p => reserved'[x][o] = reserved[x][o]
  BY <1>2, <1>4
<1>6. w # Nowhere
  BY <1>2, FulfillmentAssumption
<1>7. ASSUME NEW x \in Warehouses, NEW o \in Offers
      PROVE  Tracked(x, o)' = IF x = w /\ o = p THEN Tracked(x, o) \cup {i} ELSE Tracked(x, o)
  <2>1. /\ alloc'[i] = w
        /\ \A j \in Items : j # i => alloc'[j] = alloc[j]
    BY <1>2, <1>4
  <2>2. p = OfferOf[i] /\ Nowhere # x
    BY <1>7, FulfillmentAssumption DEF p
  <2>3. CASE x = w /\ o = p
    BY <1>2, <1>3, <2>1, <2>2, <2>3 DEF Tracked
  <2>4. CASE ~ (x = w /\ o = p)
    BY <1>2, <1>3, <2>1, <2>2, <2>4 DEF Tracked
  <2> QED
    BY <2>3, <2>4
<1>8. i \notin Tracked(w, p)
  BY <1>3, <1>6 DEF Tracked
<1> QED
  BY <1>2, <1>3, <1>4, <1>5, <1>7, <1>8 DEF i, w, p

LEMMA StockFacts ==
    ASSUME Shapes, NEW w \in Warehouses, NEW o \in Offers, NEW units \in 0 .. MaxStock,
           SetOnHand(w, o, units)
    PROVE  /\ \A x \in Warehouses, q \in Offers : x # w \/ q # o => onHand'[x][q] = onHand[x][q]
           /\ onHand'[w][o] >= reserved[w][o] /\ reserved' = reserved /\ alloc' = alloc
           /\ FreePosition(w, o)
BY DEF SetOnHand, Shapes, TypeOK

LEMMA BackedStep ==
    ASSUME Checked, [Next]_vars
    PROVE  ReservationsBacked'
<1>0. Shapes /\ Calls /\ ReservationsBacked
  BY DEF Checked, Circles
<1>1. ASSUME UNCHANGED <<reserved, onHand, alloc>>
      PROVE  ReservationsBacked'
  BY <1>0, <1>1 DEF ReservationsBacked, Tracked
<1>2. ASSUME NEW c \in Clients, CommitReserve(c)
      PROVE  ReservationsBacked'
  <2> DEFINE i == client[c].item
  <2> DEFINE w == client[c].at
  <2> SUFFICES ASSUME NEW x \in Warehouses, NEW o \in Offers
               PROVE  /\ reserved'[x][o] = Legacy[x][o] + Cardinality(Tracked(x, o)')
                      /\ reserved'[x][o] <= onHand'[x][o]
    BY DEF ReservationsBacked
  <2>1. /\ reserved[x][o] = Legacy[x][o] + Cardinality(Tracked(x, o))
        /\ reserved[x][o] <= onHand[x][o]
        /\ reserved[x][o] \in Int /\ onHand[x][o] \in Int /\ Legacy[x][o] \in Nat
    BY <1>0, FulfillmentAssumption DEF Shapes, TypeOK, ReservationsBacked
  <2>2. onHand' = onHand
    BY <1>2 DEF CommitReserve
  <2>3. CASE x = w /\ o = OfferOf[i]
    <3>1. /\ Tracked(x, o)' = Tracked(x, o) \cup {i} /\ i \notin Tracked(x, o)
          /\ reserved'[x][o] = reserved[x][o] + 1 /\ Available(x, o) >= 1
      BY <1>0, <1>2, <2>3, ReserveFacts
    <3>2. Cardinality(Tracked(x, o) \cup {i}) = Cardinality(Tracked(x, o)) + 1
          /\ Cardinality(Tracked(x, o)) \in Nat
      BY <3>1, TrackedFinite, FS_AddElement
    <3> QED
      BY <2>1, <2>2, <3>1, <3>2 DEF Available
  <2>4. CASE ~ (x = w /\ o = OfferOf[i])
    <3>1. Tracked(x, o)' = Tracked(x, o) /\ reserved'[x][o] = reserved[x][o]
      BY <1>0, <1>2, <2>4, ReserveFacts
    <3> QED
      BY <2>1, <2>2, <3>1
  <2> QED
    BY <2>3, <2>4
<1>3. ASSUME NEW w \in Warehouses, NEW o \in Offers, NEW units \in 0 .. MaxStock,
             SetOnHand(w, o, units)
      PROVE  ReservationsBacked'
  <2>1. \A x \in Warehouses, q \in Offers : Tracked(x, q)' = Tracked(x, q)
    BY <1>0, <1>3, StockFacts DEF Tracked
  <2>2. reserved[w][o] \in Int /\ onHand'[w][o] \in Int
    BY <1>0, <1>3 DEF SetOnHand, Shapes, TypeOK
  <2> QED
    BY <1>0, <1>3, <2>1, <2>2, StockFacts DEF ReservationsBacked
<1>4. CASE Other
  BY <1>1, <1>2, <1>3, <1>4 DEF Other, BeginReserve, RollBackReserve, SetOperationalState,
     EndOrder, stock
<1>5. CASE UNCHANGED data
  BY <1>1, <1>5 DEF data, stock
<1> QED
  BY <1>0, <1>4, <1>5, StepCases, CommitBacked DEF Quiet, Enters, Within

\* Under its lock a position loses no room but to whoever holds it.
LEMMA RoomKept ==
    ASSUME Checked, [Next]_vars, NEW p \in Workers \cup Clients,
           NEW x \in Warehouses, NEW o \in Offers, <<x, o>> \in HeldBy(p),
           p \in Clients => ~ CommitReserve(p), p \in Workers => ~ CommitBatch(p)
    PROVE  /\ Available(x, o)' >= Available(x, o)
           /\ Available(x, o)' \in Int /\ Available(x, o) \in Int
<1>0. Shapes /\ Calls /\ Locks /\ Shapes'
  BY ShapesStep DEF Checked, Circles
<1>1. /\ reserved[x][o] \in Int /\ onHand[x][o] \in Int
      /\ reserved'[x][o] \in Int /\ onHand'[x][o] \in Int
  BY <1>0 DEF Shapes, TypeOK
<1>2. ASSUME reserved'[x][o] <= reserved[x][o], onHand'[x][o] >= onHand[x][o]
      PROVE  Available(x, o)' >= Available(x, o)
  BY <1>1, <1>2 DEF Available
<1>3. ASSUME NEW c \in Clients, CommitReserve(c)
      PROVE  reserved'[x][o] = reserved[x][o] /\ onHand' = onHand
  <2> DEFINE i == client[c].item
  <2> DEFINE w == client[c].at
  <2>1. c # p /\ i \in Items
    BY <1>0, <1>3, ReserveFacts, FulfillmentAssumption
  <2>2. <<w, OfferOf[i]>> \in HeldBy(c)
    BY <2>1, HeldByWhom
  <2>3. x # w \/ o # OfferOf[i]
    BY <1>0, <2>1, <2>2 DEF Locks
  <2> QED
    BY <1>0, <1>3, <2>3, ReserveFacts DEF CommitReserve
<1>4. ASSUME NEW w \in Warehouses, NEW q \in Offers, NEW units \in 0 .. MaxStock,
             SetOnHand(w, q, units)
      PROVE  reserved' = reserved /\ onHand'[x][o] = onHand[x][o]
  BY <1>0, <1>4, StockFacts DEF FreePosition
<1>5. ASSUME NEW v \in Workers, CommitBatch(v)
      PROVE  reserved'[x][o] <= reserved[x][o] /\ onHand' = onHand
  <2>1. v # p
    BY <1>5
  <2>2. HeldBy(v) = worker[v].held /\ <<x, o>> \notin HeldBy(v)
    BY <1>0, <2>1, HeldByWhom DEF Locks
  <2>3. Arriving(v, x, o) = {}
    BY <1>5, <2>2, CommitStock
  <2>4. Cardinality(Arriving(v, x, o)) = 0
    BY <2>3, FS_EmptySet
  <2>5. /\ reserved'[x][o] = reserved[x][o] - Cardinality(Departing(v, x, o))
                                            + Cardinality(Arriving(v, x, o))
        /\ Cardinality(Departing(v, x, o)) \in Nat
    BY <1>5, CommitStock
  <2> QED
    BY <1>0, <1>1, <1>5, <2>4, <2>5, CommitTyped
<1> DEFINE Kept == reserved'[x][o] <= reserved[x][o] /\ onHand'[x][o] >= onHand[x][o]
<1>6. ASSUME reserved'[x][o] = reserved[x][o] \/ reserved' = reserved \/ reserved'[x][o] <= reserved[x][o],
             onHand'[x][o] = onHand[x][o] \/ onHand' = onHand
      PROVE  Kept
  BY <1>1, <1>6
<1> HIDE DEF Kept
<1>7. ASSUME Other
      PROVE  Kept
  <2>1. ASSUME UNCHANGED <<reserved, onHand>>
        PROVE  Kept
    BY <1>6, <2>1
  <2> QED
    BY <1>3, <1>4, <1>6, <1>7, <2>1 DEF Other, BeginReserve, RollBackReserve,
       SetOperationalState, EndOrder, stock
<1>8. ASSUME UNCHANGED data
      PROVE  Kept
  BY <1>6, <1>8 DEF data, stock
<1>9. Kept
  BY <1>0, <1>5, <1>6, <1>7, <1>8, StepCases DEF Quiet, Enters, Within
<1> QED
  BY <1>1, <1>2, <1>9 DEF Kept, Available

\* An allocation stays where it is unless a reservation makes it or its own
\* warehouse's batch moves it.
LEMMA AllocKept ==
    ASSUME Checked, [Next]_vars
    PROVE  \A i \in Items :
               \/ alloc'[i] = alloc[i]
               \/ \E c \in Clients : /\ CommitReserve(c) /\ client[c].item = i
                                     /\ alloc[i] = Nowhere
               \/ \E v \in Workers : /\ CommitBatch(v) /\ i \in Moved(v)
                                     /\ alloc[i] = worker[v].at /\ InBatch(v)
                                     /\ OrderOf[i] \notin ended
<1>0. Shapes /\ Calls
  BY DEF Checked, Circles
<1>1. ASSUME NEW c \in Clients, CommitReserve(c)
      PROVE  \A i \in Items : alloc'[i] = alloc[i] \/ (client[c].item = i /\ alloc[i] = Nowhere)
  <2>1. /\ alloc' = [alloc EXCEPT ![client[c].item] = client[c].at]
        /\ alloc[client[c].item] = Nowhere
    BY <1>0, <1>1, ReserveFacts
  <2>2. alloc \in [Items -> Warehouses \cup {Nowhere}]
    BY <1>0 DEF Shapes, TypeOK
  <2> QED
    BY <2>1, <2>2
<1>2. ASSUME NEW v \in Workers, CommitBatch(v)
      PROVE  \A i \in Items :
                \/ alloc'[i] = alloc[i]
                \/ i \in Moved(v) /\ alloc[i] = worker[v].at /\ InBatch(v) /\ OrderOf[i] \notin ended
  <2>1. InBatch(v)
    BY <1>2, CommitAlloc
  <2>2. \A i \in Moved(v) : alloc[i] = worker[v].at /\ OrderOf[i] \notin ended
    BY <2>1, MovedFacts DEF Movable
  <2>3. \A i \in Items : i \notin Moved(v) => alloc'[i] = alloc[i]
    BY <1>2, CommitAlloc
  <2> QED
    BY <2>1, <2>2, <2>3
<1>3. CASE Other
  BY <1>1, <1>3 DEF Other, BeginReserve, RollBackReserve, SetOnHand,
     SetOperationalState, EndOrder, stock
<1>4. CASE UNCHANGED data
  BY <1>4 DEF data
<1> QED
  BY <1>0, <1>2, <1>3, <1>4, StepCases DEF Quiet, Enters, Within

LEMMA CallsStep ==
    ASSUME Checked, [Next]_vars
    PROVE  Calls'
<1>0. Shapes /\ Calls /\ Locks
  BY DEF Checked, Circles
<1>t. client \in [Clients -> [item : Items \cup {Nobody}, at : Warehouses \cup {Nowhere}]]
  BY <1>0 DEF Shapes, TypeOK
\* A call that stays is as it was.
<1>1. ASSUME NEW d \in Clients, client[d] # NoCall, ~ CommitReserve(d),
             NEW i, NEW x, i = client[d].item, x = client[d].at
      PROVE  alloc'[i] = Nowhere /\ Available(x, OfferOf[i])' >= 1
  <2>1. /\ i \in Items /\ x \in Warehouses /\ OfferOf[i] \in Offers
        /\ alloc[i] = Nowhere /\ Available(x, OfferOf[i]) >= 1
    BY <1>0, <1>1, FulfillmentAssumption DEF Shapes, Calls
  <2>2. <<x, OfferOf[i]>> \in HeldBy(d)
    BY <1>1, <2>1, HeldByWhom
  <2>3. /\ Available(x, OfferOf[i])' >= Available(x, OfferOf[i])
        /\ Available(x, OfferOf[i])' \in Int /\ Available(x, OfferOf[i]) \in Int
    BY <1>1, <2>1, <2>2, RoomKept, FulfillmentAssumption
  <2>4. alloc'[i] = Nowhere
    <3>1. \A c \in Clients : CommitReserve(c) => client[c].item # i
      <4>1. \A c \in Clients : CommitReserve(c) => c # d /\ client[c] # NoCall
        BY <1>1 DEF CommitReserve
      <4> QED
        BY <1>0, <1>1, <4>1 DEF Calls
    <3>2. \A v \in Workers : CommitBatch(v) => worker[v].at # Nowhere
      BY CommitAlloc, FulfillmentAssumption
    <3> QED
      BY <2>1, <3>1, <3>2, AllocKept
  <2> QED
    BY <2>1, <2>3, <2>4
<1>2. CASE client' = client
  <2>1. ASSUME NEW d \in Clients, client[d] # NoCall, CommitReserve(d)
        PROVE  FALSE
    <3>1. client' = [client EXCEPT ![d] = NoCall]
      BY <2>1 DEF CommitReserve
    <3>2. client'[d] = NoCall
      BY <1>t, <3>1
    <3> QED
      BY <1>2, <2>1, <3>2
  <2> QED
    BY <1>0, <1>1, <1>2, <2>1 DEF Calls, Available
<1>3. ASSUME NEW c \in Clients, NEW i \in Items, NEW w \in Warehouses, BeginReserve(c, i, w)
      PROVE  Calls'
  <2>1. /\ client'[c].item = i /\ client'[c].at = w
        /\ \A d \in Clients \ {c} : client'[d] = client[d]
        /\ alloc[i] = Nowhere /\ Available(w, OfferOf[i]) >= 1
        /\ \A d \in Clients : client[d].item # i
    BY <1>3, <1>t DEF BeginReserve, Unallocated
  <2>2. UNCHANGED <<alloc, onHand, reserved>>
    BY <1>3 DEF BeginReserve, stock
  <2> QED
    BY <1>0, <2>1, <2>2 DEF Calls, Available
<1>4. ASSUME NEW c \in Clients, CommitReserve(c) \/ RollBackReserve(c)
      PROVE  Calls'
  <2>1. /\ client'[c] = NoCall /\ \A d \in Clients \ {c} : client'[d] = client[d]
    BY <1>4, <1>t DEF CommitReserve, RollBackReserve
  <2>2. \A d \in Clients \ {c} : client[d] # NoCall =>
            ~ CommitReserve(d) /\ client[d].item \in Items
    BY <1>0, <1>t, <2>1 DEF CommitReserve, Shapes
  <2>3. \A d \in Clients \ {c} : client[d] # NoCall =>
            \A i, x : i = client[d].item /\ x = client[d].at =>
                alloc'[i] = Nowhere /\ Available(x, OfferOf[i])' >= 1
    BY <1>1, <2>2
  <2>4. Nobody \notin Items
    BY FulfillmentAssumption
  <2> QED
    BY <1>0, <2>1, <2>2, <2>3, <2>4 DEF Calls, NoCall, Available
<1>5. CASE Other
  BY <1>2, <1>3, <1>4, <1>5 DEF Other, SetOnHand, SetOperationalState, EndOrder
<1> QED
  BY <1>0, <1>2, <1>5, StepCases, CommitTyped DEF Quiet, Enters, Within, data

LEMMA StaysAt ==
    ASSUME Checked, [Next]_vars, NEW u \in Workers, InBatch(u), ~ CommitBatch(u),
           NEW i \in Items, alloc[i] = worker[u].at
    PROVE  alloc'[i] = alloc[i]
<1>1. worker[u].at # Nowhere
  BY FulfillmentAssumption DEF Checked, Circles, Shapes, Active
<1>2. \A v \in Workers : CommitBatch(v) /\ InBatch(v) => worker[v].at # worker[u].at
  BY DEF Checked, Circles, Shapes
<1> QED
  BY <1>1, <1>2, AllocKept

LEMMA EndedKept ==
    ASSUME Shapes, [Next]_vars, NEW r \in ended', r \notin ended
    PROVE  OrderFree(r)
<1>1. CASE Other
  <2>1. \A q \in Orders : EndOrder(q) => OrderFree(q) /\ ended' = ended \cup {q}
    BY DEF EndOrder
  <2> QED
    BY <1>1, <2>1 DEF Other, BeginReserve, CommitReserve, RollBackReserve, SetOnHand,
       SetOperationalState
<1>2. CASE ended' = ended
  BY <1>2
<1> QED
  BY <1>1, <1>2, StepCases, CommitTyped DEF Quiet, Enters, Within, data

LEMMA SoundKept ==
    ASSUME Checked, [Next]_vars, NEW u \in Workers, worker'[u] = worker[u]
    PROVE  Sound(u)'
<1>0. Shapes /\ Sound(u)
  BY DEF Checked, Circles
<1> SUFFICES ASSUME InBatch(u)
             PROVE  Sound(u)'
  BY DEF Sound, InBatch
<1>1. ~ CommitBatch(u)
  BY <1>0, CommitLeaves, OneSteps DEF Leaves, OutOfBatch, InBatch
<1>2. \A i \in Items : alloc[i] = worker[u].at => alloc'[i] = worker[u].at
  BY <1>1, StaysAt
<1>3. worker[u].pc \in {"source", "dest"} =>
          (worker[u].items \subseteq Tracked(worker[u].at, Offer(u)))'
  BY <1>0, <1>2 DEF Sound, Tracked, Offer
<1>4. ASSUME NEW i, NEW d, <<i, d>> \in worker[u].moves
      PROVE  Movable(u, i, d)'
  <2>1. Movable(u, i, d) /\ i \in Items /\ d \in Warehouses /\ OfferOf[i] \in Offers
    BY <1>0, <1>4, WorkerTyped, FulfillmentAssumption DEF Sound, Shapes, WorkerType
  <2>2. <<d, OfferOf[i]>> \in HeldBy(u)
    BY <2>1, HeldByWhom DEF Movable
  <2>3. /\ Available(d, OfferOf[i])' >= Available(d, OfferOf[i])
        /\ Available(d, OfferOf[i])' \in Int /\ Available(d, OfferOf[i]) \in Int
    BY <1>1, <2>1, <2>2, RoomKept, FulfillmentAssumption
  <2>4. Arriving(u, d, OfferOf[i])' = Arriving(u, d, OfferOf[i])
    BY DEF Arriving
  <2>5. Cardinality(Arriving(u, d, OfferOf[i])) \in Nat
    <3>1. Arriving(u, d, OfferOf[i]) \in SUBSET Items
      BY DEF Arriving
    <3> QED
      BY <3>1, FulfillmentAssumption, FS_Subset, FS_CardinalityType
  <2>6. Cardinality(Arriving(u, d, OfferOf[i]))' <= Available(d, OfferOf[i])'
    BY <2>1, <2>3, <2>4, <2>5 DEF Movable
  <2>7. alloc'[i] = worker'[u].at
    BY <1>2, <2>1 DEF Movable
  <2> QED
    BY <2>1, <2>6, <2>7 DEF Movable
<1>5. ASSUME NEW i \in worker[u].items \cup Moved(u)
      PROVE  OrderOf[i] \notin ended'
  <2>1. i \in Items
    BY <1>0, <1>5, WorkerTyped, MovedItems DEF Shapes, WorkerType
  <2>2. \A r : OrderFree(r) => OrderOf[i] # r
    BY <1>5, <2>1 DEF OrderFree
  <2> QED
    BY <1>0, <1>5, <2>2, EndedKept DEF Sound
<1>6. Source(u)' = Source(u) /\ Moved(u)' = Moved(u)
  BY DEF Source, Offer, Moved
<1> QED
  BY <1>0, <1>3, <1>4, <1>5, <1>6 DEF Sound

LEMMA MovedAfter ==
    ASSUME NEW v \in Workers
    PROVE  /\ worker'[v].moves = worker[v].moves => Moved(v)' = Moved(v)
           /\ worker'[v].moves = worker[v].moves \cup Placing(v)
                 => Moved(v)' = Moved(v) \cup worker[v].items
<1>1. worker'[v].moves = worker[v].moves => Moved(v)' = Moved(v)
  BY DEF Moved
<1>2. {m[1] : m \in Placing(v)} = worker[v].items
  <2>1. \A i \in worker[v].items : <<i, worker[v].dest>> \in Placing(v)
    BY DEF Placing
  <2>2. \A m \in Placing(v) : m[1] \in worker[v].items
    BY DEF Placing
  <2>3. \A i \in worker[v].items : \E m \in Placing(v) : i = m[1]
    BY <2>1
  <2> QED
    BY <2>2, <2>3
<1>3. ASSUME worker'[v].moves = worker[v].moves \cup Placing(v)
      PROVE  Moved(v)' = Moved(v) \cup worker[v].items
  BY <1>2, <1>3 DEF Moved
<1> QED
  BY <1>1, <1>3

LEMMA SoundWithin ==
    ASSUME Checked, [Next]_vars, NEW v \in Workers, Within(v), InBatch(v)
    PROVE  Sound(v)'
<1> DEFINE r == worker[v]
<1> DEFINE s == worker'[v]
<1> DEFINE o == Offer(v)
<1>0. /\ Shapes /\ Shaped(r) /\ r \in WorkerType /\ Ordered(v)
      /\ UNCHANGED <<alloc, reserved, onHand, ended>> /\ s.at = r.at
  <2>1. Shapes /\ Shaped(r) /\ r \in WorkerType /\ Ordered(v)
    BY DEF Checked, Circles, Shapes, Shaped
  <2>2. UNCHANGED <<alloc, reserved, onHand, ended>>
    BY DEF Within, data, stock
  <2>3. s.at = r.at
    BY <2>1, OneSteps DEF Within
  <2> QED
    BY <2>1, <2>2, <2>3
<1>1. /\ r.pc \in {"source", "dest"} => r.items \subseteq Tracked(r.at, o)
      /\ r.pc = "dest" => Source(v) \in r.held
      /\ \A i, d : <<i, d>> \in r.moves => Movable(v, i, d)
      /\ \A i, d, e : <<i, d>> \in r.moves /\ <<i, e>> \in r.moves => d = e
      /\ \A i \in r.items \cup Moved(v) : OrderOf[i] \notin ended
  <2>1. Sound(v)
    BY DEF Checked
  <2> QED
    BY <2>1 DEF Sound
<1>2. r.last \in Nat /\ (r.offers # {} => o \in Nat /\ r.last < o /\ o \in r.offers)
  BY <1>0, OrderedTypes, NextOffer DEF Ordered, Shapes
<1>3. ASSUME NEW i, NEW d, <<i, d>> \in r.moves
      PROVE  i \in Items /\ d \in Warehouses /\ OfferOf[i] \in Nat /\ OfferOf[i] <= r.last
  <2>1. Movable(v, i, d)
    BY <1>1, <1>3
  <2>2. i \in Items /\ d \in Warehouses
    BY <1>0, <1>3 DEF WorkerType
  <2>3. OfferOf[i] \in Nat
    BY <2>2, FulfillmentAssumption DEF Offers
  <2> QED
    BY <2>1, <2>2, <2>3 DEF Movable
\* What was movable is, when no more comes to the same position.
<1>4. ASSUME NEW i, NEW d, <<i, d>> \in r.moves, r.held \subseteq s.held,
             s.last = r.last \/ (s.last = o /\ r.offers # {}),
             Arriving(v, d, OfferOf[i])' = Arriving(v, d, OfferOf[i])
      PROVE  Movable(v, i, d)'
  <2>1. OfferOf[i] <= s.last
    BY <1>2, <1>3, <1>4
  <2> QED
    BY <1>0, <1>1, <1>4, <2>1 DEF Movable, Available
<1>5. ASSUME NEW a, NEW held, Decides(v, a, held, r.moves), r.held \subseteq held
      PROVE  Sound(v)'
  <2>1. /\ s.pc = "offer" /\ s.items = {} /\ s.last = o /\ s.held = held /\ s.moves = r.moves
        /\ r.offers # {}
    BY <1>5 DEF Decides
  <2>2. \A i, d : <<i, d>> \in r.moves => Movable(v, i, d)'
    BY <1>4, <1>5, <2>1 DEF Arriving
  <2>3. Moved(v)' = Moved(v)
    BY <2>1, MovedAfter
  <2> QED
    BY <1>0, <1>1, <2>1, <2>2, <2>3 DEF Sound
<1>6. CASE Starts(v)
  <2>1. /\ s.pc = "source" /\ s.last = r.last /\ s.held = r.held /\ s.moves = r.moves
        /\ s.offers = r.offers /\ s.items = Tracked(r.at, o)
        /\ \A i \in s.items : OrderOf[i] \notin ended
    BY <1>6 DEF Starts, GoesOn
  <2>2. \A i, d : <<i, d>> \in r.moves => Movable(v, i, d)'
    BY <1>4, <2>1 DEF Arriving
  <2>3. Moved(v)' = Moved(v) /\ Offer(v)' = o
    BY <2>1, MovedAfter DEF Offer
  <2>4. s.items = {i \in Items : alloc[i] = r.at /\ OfferOf[i] = o}
    BY <2>1 DEF Tracked
  <2>5. s.items \subseteq Tracked(worker[v].at, Offer(v))'
    BY <1>0, <2>3, <2>4 DEF Tracked
  <2> QED
    BY <1>0, <1>1, <2>1, <2>2, <2>3, <2>5 DEF Sound
<1>7. CASE ChoosesOne(v)
  <2>1. /\ r.pc = "source" /\ s.pc = "dest" /\ s.last = r.last /\ s.moves = r.moves
        /\ s.held = r.held \cup {Source(v)}
        /\ s.offers = r.offers /\ s.items = r.items
    BY <1>7 DEF ChoosesOne, GoesOn
  <2>2. \A i, d : <<i, d>> \in r.moves => Movable(v, i, d)'
    BY <1>4, <2>1 DEF Arriving
  <2>3. Moved(v)' = Moved(v) /\ Offer(v)' = o /\ Source(v)' = Source(v)
    BY <1>0, <2>1, MovedAfter DEF Offer, Source
  <2>4. s.items \subseteq {i \in Items : alloc[i] = r.at /\ OfferOf[i] = o}
    BY <1>1, <2>1 DEF Tracked
  <2>5. s.items \subseteq Tracked(worker[v].at, Offer(v))'
    BY <1>0, <2>3, <2>4 DEF Tracked
  <2> QED
    BY <1>0, <1>1, <2>1, <2>2, <2>3, <2>5 DEF Sound
<1>8. CASE MovesThem(v)
  <2>1. /\ r.pc = "dest" /\ s.pc = "offer" /\ s.items = {} /\ s.last = o /\ r.offers # {}
        /\ s.held = r.held \cup {Target(v)} /\ s.moves = r.moves \cup Placing(v)
        /\ Available(r.dest, o) >= Cardinality(r.items)
    BY <1>8 DEF MovesThem, Decides, Room
  <2>2. /\ r.dest # r.at /\ r.items \in SUBSET Items /\ Source(v) \in r.held
        /\ \A i \in r.items : alloc[i] = r.at /\ OfferOf[i] = o
    BY <1>0, <1>1, <2>1 DEF Shaped, WorkerType, Tracked
  <2>3. ASSUME NEW i, NEW d, <<i, d>> \in r.moves
        PROVE  Movable(v, i, d)'
    <3>1. OfferOf[i] # o
      BY <1>2, <1>3, <2>1, <2>3
    <3>2. Arriving(v, d, OfferOf[i])' = Arriving(v, d, OfferOf[i])
      <4>1. \A j \in Items : OfferOf[j] = OfferOf[i] => j \notin r.items
        BY <2>2, <3>1
      <4>2. \A j, e : <<j, e>> \in Placing(v) => j \in r.items
        BY DEF Placing
      <4> QED
        BY <2>1, <4>1, <4>2 DEF Arriving
    <3> QED
      BY <1>4, <2>1, <2>3, <3>2
  <2>4. ASSUME NEW i \in r.items
        PROVE  \A d : d = r.dest => Movable(v, i, d)'
    <3> SUFFICES ASSUME NEW d, d = r.dest
                 PROVE  Movable(v, i, d)'
      OBVIOUS
    <3>1. OfferOf[i] = o /\ alloc'[i] = s.at /\ d # s.at
      BY <1>0, <2>2
    <3>2. <<s.at, o>> \in s.held /\ <<d, o>> \in s.held
      BY <1>0, <2>1, <2>2 DEF Source, Target
    <3>3. \A j : (j \in Items /\ <<j, d>> \in s.moves /\ OfferOf[j] = o) <=> j \in r.items
      <4>1. \A j : <<j, d>> \in Placing(v) <=> j \in r.items
        BY DEF Placing
      <4>2. \A j : <<j, d>> \in r.moves => OfferOf[j] # o
        BY <1>2, <1>3, <2>1
      <4> QED
        BY <2>1, <2>2, <4>1, <4>2
    <3>4. {j \in Items : <<j, d>> \in s.moves /\ OfferOf[j] = o} = r.items
      BY <2>2, <3>3
    <3>5. onHand'[d][o] - reserved'[d][o] >= Cardinality(r.items)
      BY <1>0, <2>1 DEF Available
    <3>6. Cardinality({j \in Items : <<j, d>> \in s.moves /\ OfferOf[j] = o})
            <= onHand'[d][o] - reserved'[d][o]
      <4>1. Cardinality(r.items) \in Nat
        BY <2>2, FulfillmentAssumption, FS_Subset, FS_CardinalityType
      <4>2. onHand'[d][o] \in Int /\ reserved'[d][o] \in Int
        <5>1. d \in Warehouses /\ o \in Offers
          BY <1>0, <2>1, NextOffer DEF Shaped, Shapes
        <5> QED
          BY <1>0, <5>1 DEF Shapes, TypeOK
      <4> QED
        BY <3>4, <3>5, <4>1, <4>2
    <3>7. OfferOf[i] <= s.last
      BY <1>2, <2>1, <3>1
    <3> QED
      BY <3>1, <3>2, <3>6, <3>7 DEF Movable, Arriving, Available
  <2>5. \A i, d : <<i, d>> \in s.moves => Movable(v, i, d)'
    <3>1. \A i, d : <<i, d>> \in Placing(v) => i \in r.items /\ d = r.dest
      BY DEF Placing
    <3> QED
      BY <2>1, <2>3, <2>4, <3>1
  <2>6. \A i, d, e : <<i, d>> \in s.moves /\ <<i, e>> \in s.moves => d = e
    <3>1. \A i, d : <<i, d>> \in Placing(v) => OfferOf[i] = o /\ d = r.dest
      BY <2>2 DEF Placing
    <3>2. \A i, d : <<i, d>> \in r.moves => OfferOf[i] # o
      BY <1>2, <1>3, <2>1
    <3> QED
      BY <1>1, <2>1, <3>1, <3>2
  <2>7. Moved(v)' = Moved(v) \cup r.items
    BY <2>1, MovedAfter
  <2> QED
    BY <1>0, <1>1, <2>1, <2>5, <2>6, <2>7 DEF Sound
<1> QED
  BY <1>5, <1>6, <1>7, <1>8, WithinCases, <1>0 DEF Skips, SkipsAtSource

LEMMA SoundStep ==
    ASSUME Checked, [Next]_vars
    PROVE  \A u \in Workers : Sound(u)'
<1>0. Shapes
  BY DEF Checked, Circles
<1>1. \A u \in Workers : worker'[u] = worker[u] => Sound(u)'
  BY SoundKept
<1>2. ASSUME NEW v \in Workers, Leaves(v)
      PROVE  \A u \in Workers : Sound(u)'
  <2>1. ~ InBatch(v)'
    BY <1>0, <1>2, OneSteps DEF Leaves, OutOfBatch, InBatch
  <2>2. Sound(v)'
    BY <2>1 DEF Sound
  <2> QED
    BY <1>0, <1>1, <1>2, <2>2, OneSteps DEF Leaves
<1>3. ASSUME NEW v \in Workers, NEW w \in Warehouses, NEW n \in 1 .. MaxIncidents,
             Enters(v, w, n)
      PROVE  \A u \in Workers : Sound(u)'
  <2>1. worker'[v].pc = "offer" /\ worker'[v].items = {} /\ worker'[v].moves = {}
    BY <1>0, <1>3, EntersFields
  <2>2. Moved(v)' = {}
    BY <2>1 DEF Moved
  <2>3. Sound(v)'
    BY <2>1, <2>2 DEF Sound
  <2> QED
    BY <1>0, <1>1, <1>3, <2>3, OneSteps DEF Enters
<1>4. ASSUME NEW v \in Workers, Within(v), InBatch(v)
      PROVE  \A u \in Workers : Sound(u)'
  BY <1>0, <1>1, <1>4, SoundWithin, OneSteps DEF Within
<1>5. CASE Quiet \/ Other
  BY <1>0, <1>1, <1>5, OtherTyped DEF Quiet
<1> QED
  BY <1>0, <1>2, <1>3, <1>4, <1>5, StepCases, CommitLeaves

LEMMA CheckedStep ==
    ASSUME Checked, [Next]_vars
    PROVE  Checked'
<1>1. Shapes' /\ Circles'
  BY ShapesStep, OrderedStep, DownhillStep DEF Checked, Circles
<1>2. Locks'
  BY LocksStep DEF Checked, Circles
<1> QED
  BY <1>1, <1>2, CallsStep, SoundStep, BackedStep DEF Checked

LEMMA InitChecked == Init => Checked
<1> SUFFICES ASSUME Init
             PROVE  Checked
  OBVIOUS
<1>1. Circles
  BY InitShapes DEF Init, Circles, Ordered, Downhill, Idle, InBatch
<1>2. \A p \in Workers \cup Clients : HeldBy(p) = {}
  <2>1. \A v \in Workers : worker[v].held = {}
    BY DEF Init, Idle
  <2>2. \A c \in Clients : {client[c].item} \cap Items = {}
    BY FulfillmentAssumption DEF Init, NoCall
  <2> QED
    BY <2>1, <2>2, HeldByWhom
<1>3. Locks
  BY <1>2 DEF Locks
<1>4. Calls
  BY DEF Init, Calls
<1>5. \A v \in Workers : Sound(v)
  BY DEF Init, Sound, InBatch, Idle
<1>6. ReservationsBacked
  <2>1. \A w \in Warehouses, o \in Offers : Tracked(w, o) = {}
    BY FulfillmentAssumption DEF Init, Tracked
  <2>2. \A w \in Warehouses, o \in Offers : Cardinality(Tracked(w, o)) = 0
    BY <2>1, FS_EmptySet
  <2>3. \A w \in Warehouses, o \in Offers :
            /\ reserved[w][o] = Legacy[w][o] /\ reserved[w][o] <= onHand[w][o]
            /\ Legacy[w][o] \in Nat
    BY FulfillmentAssumption DEF Init
  <2> QED
    BY <2>2, <2>3 DEF ReservationsBacked
<1> QED
  BY <1>1, <1>3, <1>4, <1>5, <1>6 DEF Checked

LEMMA AlwaysChecked == Spec => []Checked
BY InitChecked, CheckedStep, PTL DEF Spec

(* What a position has reserved is what the allocations there ask for, and *)
(* it is on hand (ReserveOrderItem, executeOfferFailoverTx, SetOnHand).    *)
THEOREM Backed == Spec => []ReservationsBacked
<1>1. Checked => ReservationsBacked
  BY DEF Checked
<1> QED
  BY <1>1, AlwaysChecked, PTL

(* No batch moves the allocation of an order that has ended                *)
(* (executeOfferFailoverTx reads the order FOR SHARE and keeps it).        *)
THEOREM EndedStay == Spec => EndedOrdersStay
<1>1. ASSUME Checked, [Next]_vars
      PROVE  [\A i \in Items :
                OrderOf[i] \in ended /\ alloc[i] # Nowhere => alloc'[i] = alloc[i]]_vars
  BY <1>1, AllocKept
<1> QED
  BY <1>1, AlwaysChecked, PTL DEF Spec, EndedOrdersStay

(***************************************************************************)
(* Nothing is stranded but what came late: the cursor passes no allocation *)
(* that the batch has not moved, or else the incident asks for attention.  *)
(***************************************************************************)
Passed ==
    \A w \in Active, i \in Items \ late :
        ~ incident[w].attention /\ alloc[i] = w => incident[w].cursor < OfferOf[i]

Thorough(v) ==
    InBatch(v) =>
        /\ \/ incident[worker[v].at].attention \/ worker[v].attention
           \/ \A i \in Items \ late :
                 alloc[i] = worker[v].at /\ OfferOf[i] <= worker[v].last => i \in Moved(v)
        /\ \A i \in Items \ late :
              alloc[i] = worker[v].at /\ worker[v].last < OfferOf[i] =>
                  OfferOf[i] \in worker[v].offers \/ \A p \in worker[v].offers : p < OfferOf[i]
        /\ worker[v].pc \in {"source", "dest"} =>
              \A i \in Items \ late :
                 alloc[i] = worker[v].at /\ OfferOf[i] = Offer(v) => i \in worker[v].items

Complete == Checked /\ Passed /\ (\A v \in Workers : Thorough(v)) /\ StrandedOnlyLate

\* Where there is an allocation there is something reserved.
LEMMA AllocatedWaits ==
    ASSUME Checked, NEW w \in Warehouses, NEW i \in Items, alloc[i] = w, NEW cursor \in Nat,
           cursor < OfferOf[i]
    PROVE  OfferOf[i] \in Waiting(w, cursor)
<1> DEFINE o == OfferOf[i]
<1>1. o \in Offers /\ o \in Nat
  BY FulfillmentAssumption DEF Offers
<1>2. i \in Tracked(w, o)
  BY DEF Tracked
<1>3. Cardinality(Tracked(w, o)) \in Nat /\ Cardinality(Tracked(w, o)) # 0
  BY <1>2, TrackedFinite, FS_EmptySet
<1>4. reserved[w][o] = Legacy[w][o] + Cardinality(Tracked(w, o)) /\ Legacy[w][o] \in Nat
  BY <1>1, FulfillmentAssumption DEF Checked, ReservationsBacked
<1>5. reserved[w][o] # 0
  BY <1>3, <1>4
<1> QED
  BY <1>1, <1>5 DEF Waiting

LEMMA BatchCovers ==
    ASSUME Checked, NEW w \in Warehouses, NEW i \in Items, alloc[i] = w,
           incident[w].cursor < OfferOf[i]
    PROVE  OfferOf[i] \in Batch(w) \/ \A p \in Batch(w) : p < OfferOf[i]
<1> DEFINE W == Waiting(w, incident[w].cursor)
<1> DEFINE Below(o) == {p \in W : p < o}
<1>1. incident[w].cursor \in Nat
  BY FulfillmentAssumption DEF Checked, Circles, Shapes, TypeOK
<1>2. OfferOf[i] \in W
  BY <1>1, AllocatedWaits
<1>3. W \in SUBSET (1 .. NumOffers) /\ W \in SUBSET Nat
  BY DEF Waiting, Offers
<1>4. IsFiniteSet(W)
  <2>1. 1 \in Int /\ NumOffers \in Int
    BY FulfillmentAssumption
  <2>2. IsFiniteSet(1 .. NumOffers)
    BY <2>1, FS_Interval
  <2> QED
    BY <1>3, <2>2, FS_Subset
<1>5. ASSUME NEW o
      PROVE  /\ IsFiniteSet(Below(o)) /\ Cardinality(Below(o)) \in Nat
  <2>1. Below(o) \in SUBSET W
    OBVIOUS
  <2> QED
    BY <1>4, <2>1, FS_Subset, FS_CardinalityType
<1>6. Batch(w) = {o \in W : Cardinality(Below(o)) < Limit}
  BY DEF Batch
<1> HIDE DEF W
<1> SUFFICES ASSUME OfferOf[i] \notin Batch(w), NEW p \in Batch(w), ~ (p < OfferOf[i])
             PROVE  FALSE
  OBVIOUS
<1>7. p \in W /\ Cardinality(Below(p)) < Limit /\ ~ (Cardinality(Below(OfferOf[i])) < Limit)
  BY <1>2, <1>6
<1>8. OfferOf[i] <= p
  <2>1. OfferOf[i] \in Nat /\ p \in Nat
    BY <1>2, <1>3, <1>7
  <2> QED
    BY <2>1
<1> DEFINE o == OfferOf[i]
<1>a. o \in Nat /\ p \in Nat /\ o <= p
  BY <1>2, <1>3, <1>7, <1>8
<1>b. \A q \in W : q < o => q < p
  BY <1>3, <1>a
<1>9. Below(o) \in SUBSET Below(p)
  BY <1>b
<1>d. IsFiniteSet(Below(p)) /\ Cardinality(Below(p)) \in Nat /\ Cardinality(Below(o)) \in Nat
  BY <1>5
<1>c. Limit \in Nat
  BY FulfillmentAssumption
<1> HIDE DEF Below
<1>10. Cardinality(Below(o)) <= Cardinality(Below(p))
  BY <1>9, <1>d, FS_Subset
<1> QED
  BY <1>7, <1>10, <1>c, <1>d

\* What comes to a warehouse that is down is late.
LEMMA LateKept ==
    ASSUME Checked, [Next]_vars, NEW i \in Items, i \notin late', NEW w, ~ Up(w), alloc'[i] = w
    PROVE  alloc[i] = w /\ i \notin late
<1>0. Shapes /\ Calls
  BY DEF Checked, Circles
<1>1. ASSUME NEW c \in Clients, CommitReserve(c)
      PROVE  alloc[i] = w /\ i \notin late
  <2>1. late' = IF Up(client[c].at) THEN late ELSE late \cup {client[c].item}
    BY <1>1 DEF CommitReserve
  <2>2. /\ alloc' = [alloc EXCEPT ![client[c].item] = client[c].at]
        /\ alloc \in [Items -> Warehouses \cup {Nowhere}]
    BY <1>0, <1>1, ReserveFacts DEF Shapes, TypeOK
  <2> QED
    BY <2>1, <2>2
<1>2. ASSUME NEW v \in Workers, CommitBatch(v)
      PROVE  alloc[i] = w /\ i \notin late
  <2>1. late' = (late \ Moved(v)) \cup {j \in Moved(v) : ~ Up(NewPlace(v, j))}
    BY <1>2 DEF CommitBatch
  <2>2. alloc'[i] = IF i \in Moved(v) THEN NewPlace(v, i) ELSE alloc[i]
    BY <1>2, CommitAlloc
  <2> QED
    BY <2>1, <2>2
<1>3. CASE alloc' = alloc /\ late' = late
  BY <1>3
<1>4. CASE Other
  BY <1>1, <1>3, <1>4 DEF Other, BeginReserve, RollBackReserve, SetOnHand,
     SetOperationalState, EndOrder, stock
<1> QED
  BY <1>0, <1>2, <1>3, <1>4, StepCases DEF Quiet, Enters, Within, data

\* What a commit leaves at the warehouse is behind the cursor or late.
LEMMA CommitLeft ==
    ASSUME Complete, [Next]_vars, NEW v \in Workers, CommitBatch(v),
           NEW i \in Items, i \notin late', alloc'[i] = worker[v].at,
           ~ (incident[worker[v].at].attention \/ worker[v].attention)
    PROVE  alloc[i] = worker[v].at /\ worker[v].last < OfferOf[i]
<1>0. Checked /\ Shapes /\ InBatch(v) /\ worker[v].at \in Active /\ Thorough(v)
  BY CommitAlloc DEF Complete, Checked, Circles, Shapes
<1>1. ~ Up(worker[v].at)
  BY <1>0 DEF Shapes
<1>2. alloc[i] = worker[v].at /\ i \notin late
  BY <1>0, <1>1, LateKept
<1>3. i \notin Moved(v)
  <2>1. \A j \in Moved(v) : NewPlace(v, j) # worker[v].at
    BY <1>0, MovedFacts DEF Movable
  <2>2. alloc'[i] = IF i \in Moved(v) THEN NewPlace(v, i) ELSE alloc[i]
    BY <1>0, CommitAlloc
  <2> QED
    BY <2>1, <2>2
<1>4. ~ (OfferOf[i] <= worker[v].last)
  BY <1>0, <1>2, <1>3 DEF Thorough
<1>5. OfferOf[i] \in Nat /\ worker[v].last \in Nat
  BY <1>0, OrderedTypes, FulfillmentAssumption DEF Offers
<1> QED
  BY <1>2, <1>4, <1>5

LEMMA CommitIncident ==
    ASSUME Shapes, NEW v \in Workers, CommitBatch(v)
    PROVE  LET w == worker[v].at
               attention == incident[w].attention \/ worker[v].attention
           IN  /\ w \in Warehouses
               /\ incident'[w].cursor = worker[v].last
               /\ incident'[w].attention = attention
               /\ incident'[w].status = "completed" =>
                     ~ attention /\ Waiting(w, worker[v].last) = {}
<1> DEFINE w == worker[v].at
<1> DEFINE attention == incident[w].attention \/ worker[v].attention
<1> DEFINE status == IF Waiting(w, worker[v].last) # {} THEN "processing"
                     ELSE IF attention THEN "needs_attention" ELSE "completed"
<1>1. w \in Warehouses /\ incident \in [Warehouses -> IncidentType]
  BY DEF CommitBatch, Shapes, Shaped, TypeOK, IncidentType
<1>2. incident' = [incident EXCEPT ![w] =
         [@ EXCEPT !.status = status, !.cursor = worker[v].last, !.attention = attention]]
  BY DEF CommitBatch
<1>3. /\ incident'[w].status = status /\ incident'[w].cursor = worker[v].last
      /\ incident'[w].attention = attention
  <2> HIDE DEF w, status, attention
  <2> QED
    BY <1>1, <1>2 DEF IncidentType
<1> QED
  BY <1>1, <1>3

\* SetOperationalState leaves the other incidents alone, and closes this one or
\* opens it at its beginning.
LEMMA SetFacts ==
    ASSUME Shapes, NEW x \in Warehouses, NEW s \in Declared[x], SetOperationalState(x, s)
    PROVE  /\ \A w \in Warehouses : w # x => incident'[w] = incident[w] /\ state'[w] = state[w]
           /\ state'[x] = s
           /\ s = "down" => incident'[x].status = "open" /\ incident'[x].cursor = 0
           /\ s # "down" => x \notin Active'
           /\ UNCHANGED <<alloc, late, worker>>
<1>0. /\ incident \in [Warehouses -> IncidentType]
      /\ state \in [Warehouses -> {"active", "degraded", "down"}]
  BY DEF Shapes, TypeOK, IncidentType
<1>1. /\ \A w \in Warehouses : w # x => incident'[w] = incident[w] /\ state'[w] = state[w]
      /\ state'[x] = s /\ UNCHANGED <<alloc, late, worker>>
  BY <1>0 DEF SetOperationalState
<1>2. CASE s = "down"
  BY <1>0, <1>1, <1>2 DEF SetOperationalState
<1>3. CASE s # "down"
  <2>1. incident'[x].status \in {"completed", "resolved"}
    BY <1>0, <1>3 DEF SetOperationalState, IncidentType
  <2> QED
    BY <1>1, <1>3, <2>1 DEF Active
<1> QED
  BY <1>1, <1>2, <1>3

\* What changes an incident or a state.
LEMMA IncidentSteps ==
    ASSUME Shapes, [Next]_vars
    PROVE  \/ UNCHANGED <<incident, state>>
           \/ \E x \in Warehouses : \E s \in Declared[x] : SetOperationalState(x, s)
           \/ \E v \in Workers : CommitBatch(v)
<1>1. CASE Other
  BY <1>1 DEF Other, BeginReserve, CommitReserve, RollBackReserve, SetOnHand, EndOrder
<1>2. CASE UNCHANGED data
  BY <1>2 DEF data
<1> QED
  BY <1>1, <1>2, StepCases DEF Quiet, Enters, Within, data

LEMMA PassedStep ==
    ASSUME Complete, [Next]_vars
    PROVE  Passed'
<1>0. Checked /\ Shapes /\ Passed /\ DataTyped
  BY DEF Complete, Checked, Circles, Shapes, TypeOK, DataTyped, IncidentType
<1> SUFFICES ASSUME NEW w \in Active', NEW i \in Items \ late',
                    ~ incident'[w].attention, alloc'[i] = w
             PROVE  incident'[w].cursor < OfferOf[i]
  BY DEF Passed
<1>1. w \in Warehouses /\ OfferOf[i] \in Nat /\ OfferOf[i] >= 1
  BY FulfillmentAssumption DEF Active, Offers
\* The incident is as it was.
<1>2. CASE incident'[w] = incident[w]
  <2>1. w \in Active
    BY <1>1, <1>2 DEF Active
  <2>2. ~ Up(w)
    BY <1>0, <2>1 DEF Shapes
  <2>3. alloc[i] = w /\ i \notin late
    BY <1>0, <2>2, LateKept
  <2> QED
    BY <1>0, <1>2, <2>1, <2>3 DEF Passed
<1>3. ASSUME NEW x \in Warehouses, NEW s \in Declared[x], SetOperationalState(x, s)
      PROVE  incident'[w].cursor < OfferOf[i]
  <2>1. CASE w = x
    BY <1>0, <1>1, <1>3, <2>1, SetFacts
  <2>2. CASE w # x
    BY <1>0, <1>1, <1>2, <1>3, <2>2, SetFacts
  <2> QED
    BY <2>1, <2>2
<1>4. ASSUME NEW v \in Workers, CommitBatch(v)
      PROVE  incident'[w].cursor < OfferOf[i]
  <2>1. CASE w = worker[v].at
    BY <1>0, <1>4, <2>1, CommitIncident, CommitLeft
  <2>2. CASE w # worker[v].at
    BY <1>0, <1>1, <1>2, <1>4, <2>2, CommitTyped
  <2> QED
    BY <2>1, <2>2
<1> QED
  BY <1>0, <1>2, <1>3, <1>4, IncidentSteps

LEMMA LateStep ==
    ASSUME Complete, [Next]_vars
    PROVE  StrandedOnlyLate'
<1>0. Checked /\ Shapes /\ StrandedOnlyLate
  BY DEF Complete, Checked, Circles
<1> SUFFICES ASSUME NEW w \in Warehouses, NEW i \in Items, i \notin late',
                    incident'[w].status = "completed", state'[w] = "down", alloc'[i] = w
             PROVE  FALSE
  BY DEF StrandedOnlyLate, Up
<1>2. CASE incident'[w] = incident[w] /\ state'[w] = state[w]
  <2>1. ~ Up(w)
    BY <1>2 DEF Up
  <2>2. alloc[i] = w /\ i \notin late
    BY <1>0, <2>1, LateKept
  <2> QED
    BY <1>0, <1>2, <2>1, <2>2 DEF StrandedOnlyLate
<1>3. ASSUME NEW x \in Warehouses, NEW s \in Declared[x], SetOperationalState(x, s)
      PROVE  FALSE
  BY <1>0, <1>2, <1>3, SetFacts
<1>4. ASSUME NEW v \in Workers, CommitBatch(v)
      PROVE  FALSE
  <2>1. CASE w = worker[v].at
    <3>1. /\ ~ (incident[w].attention \/ worker[v].attention)
          /\ Waiting(w, worker[v].last) = {}
      BY <1>0, <1>4, <2>1, CommitIncident
    <3>2. alloc[i] = w /\ worker[v].last < OfferOf[i]
      BY <1>4, <2>1, <3>1, CommitLeft
    <3>3. OfferOf[i] \in Waiting(w, worker[v].last)
      BY <1>0, <3>2, OrderedTypes, AllocatedWaits
    <3> QED
      BY <3>1, <3>3
  <2>2. CASE w # worker[v].at
    BY <1>0, <1>2, <1>4, <2>2, CommitTyped
  <2> QED
    BY <2>1, <2>2
<1> QED
  BY <1>0, <1>2, <1>3, <1>4, IncidentSteps

LEMMA ThoroughKept ==
    ASSUME Complete, [Next]_vars, NEW u \in Workers, worker'[u] = worker[u]
    PROVE  Thorough(u)'
<1>0. Checked /\ Shapes /\ Thorough(u)
  BY DEF Complete, Checked, Circles
<1> SUFFICES ASSUME InBatch(u)
             PROVE  Thorough(u)'
  BY DEF Thorough, InBatch
<1> DEFINE w == worker[u].at
<1>1. ~ CommitBatch(u)
  BY <1>0, CommitLeaves, OneSteps DEF Leaves, OutOfBatch, InBatch
<1>2. w \in Active /\ w \in Warehouses /\ ~ Up(w)
  BY <1>0 DEF Shapes, Active
<1>3. incident'[w] = incident[w]
  <2>1. ASSUME NEW x \in Warehouses, NEW s \in Declared[x], SetOperationalState(x, s)
        PROVE  incident'[w] = incident[w]
    <3>1. w # x
      BY <2>1 DEF SetOperationalState, IncidentFree
    <3> QED
      BY <1>0, <1>2, <2>1, <3>1, SetFacts
  <2>2. ASSUME NEW v \in Workers, CommitBatch(v)
        PROVE  incident'[w] = incident[w]
    <3>1. w # worker[v].at
      BY <1>0, <1>1, <2>2, CommitAlloc DEF Shapes
    <3> QED
      BY <1>0, <1>2, <2>2, <3>1, CommitTyped
  <2> QED
    BY <1>0, <2>1, <2>2, IncidentSteps
<1>4. \A i \in Items : i \notin late' /\ alloc'[i] = w => alloc[i] = w /\ i \notin late
  BY <1>0, <1>2, LateKept
<1>5. Moved(u)' = Moved(u) /\ Offer(u)' = Offer(u)
  BY DEF Moved, Offer
<1> QED
  BY <1>0, <1>3, <1>4, <1>5 DEF Thorough

LEMMA ThoroughEntered ==
    ASSUME Complete, NEW v \in Workers, NEW w \in Warehouses, NEW n \in 1 .. MaxIncidents,
           Enters(v, w, n)
    PROVE  Thorough(v)'
<1>0. Checked /\ Shapes /\ Passed
  BY DEF Complete, Checked, Circles
<1>1. /\ worker'[v].pc = "offer" /\ worker'[v].at = w /\ worker'[v].attention = FALSE
      /\ worker'[v].last = incident[w].cursor /\ worker'[v].offers = Batch(w)
      /\ w \in Active
  BY <1>0, EntersFields
<1>2. UNCHANGED <<incident, alloc, late>>
  BY DEF Enters, data
<1>3. \A i \in Items : OfferOf[i] \in Nat
  BY FulfillmentAssumption DEF Offers
<1>4. incident[w].cursor \in Nat
  BY <1>0, FulfillmentAssumption DEF Shapes, TypeOK
<1>5. incident[w].attention \/
        \A i \in Items \ late : alloc[i] = w => ~ (OfferOf[i] <= incident[w].cursor)
  BY <1>0, <1>1, <1>3, <1>4 DEF Passed
<1>6. \A i \in Items \ late : alloc[i] = w /\ incident[w].cursor < OfferOf[i] =>
          OfferOf[i] \in Batch(w) \/ \A p \in Batch(w) : p < OfferOf[i]
  BY <1>0, BatchCovers
<1> QED
  BY <1>1, <1>2, <1>5, <1>6 DEF Thorough

LEMMA ThoroughWithin ==
    ASSUME Complete, NEW v \in Workers, Within(v), InBatch(v)
    PROVE  Thorough(v)'
<1> DEFINE r == worker[v]
<1> DEFINE s == worker'[v]
<1> DEFINE o == Offer(v)
<1> DEFINE Here(i) == i \in Items /\ i \notin late /\ alloc[i] = r.at
<1>0. Checked /\ Shapes /\ Thorough(v) /\ Ordered(v)
  BY DEF Complete, Checked, Circles
<1>1. UNCHANGED <<incident, alloc, late>> /\ s.at = r.at
  BY <1>0, OneSteps DEF Within, data
<1>2. /\ \/ incident[r.at].attention \/ r.attention
         \/ \A i : Here(i) /\ OfferOf[i] <= r.last => i \in Moved(v)
      /\ \A i : Here(i) /\ r.last < OfferOf[i] =>
            OfferOf[i] \in r.offers \/ \A p \in r.offers : p < OfferOf[i]
      /\ r.pc \in {"source", "dest"} =>
            \A i : Here(i) /\ OfferOf[i] = o => i \in r.items
  BY <1>0 DEF Thorough
<1>3. /\ r.last \in Nat /\ r.offers \in SUBSET Nat
      /\ \A i : Here(i) => OfferOf[i] \in Nat
      /\ r.offers # {} =>
            o \in Nat /\ r.last < o /\ o \in r.offers /\ \A p \in r.offers : o <= p
  BY <1>0, OrderedTypes, NextOffer, FulfillmentAssumption DEF Ordered, Shapes, Offers
\* The decision on an offer moves what is there or asks for attention.
<1>4. ASSUME NEW a, NEW held, NEW moves, Decides(v, a, held, moves),
             Moved(v) \subseteq Moved(v)',
             a \/ \A i : Here(i) /\ OfferOf[i] = o => i \in Moved(v)'
      PROVE  Thorough(v)'
  <2>1. /\ r.offers # {} /\ s.pc = "offer" /\ s.last = o /\ s.offers = r.offers \ {o}
        /\ s.attention = (r.attention \/ a)
    BY <1>4 DEF Decides
  <2>2. ASSUME NEW i, Here(i), OfferOf[i] <= o
        PROVE  OfferOf[i] <= r.last \/ OfferOf[i] = o
    <3>1. CASE OfferOf[i] \in r.offers
      BY <1>3, <2>1, <2>2, <3>1
    <3>2. CASE \A p \in r.offers : p < OfferOf[i]
      BY <1>3, <2>1, <2>2, <3>2
    <3>3. CASE ~ (r.last < OfferOf[i])
      BY <1>3, <2>2, <3>3
    <3> QED
      BY <1>2, <2>2, <3>1, <3>2, <3>3
  <2>3. \/ incident[r.at].attention \/ s.attention
        \/ \A i : Here(i) /\ OfferOf[i] <= o => i \in Moved(v)'
    BY <1>2, <1>4, <2>1, <2>2
  <2>4. \A i : Here(i) /\ o < OfferOf[i] =>
            OfferOf[i] \in s.offers \/ \A p \in s.offers : p < OfferOf[i]
    <3>1. \A i : Here(i) /\ o < OfferOf[i] => r.last < OfferOf[i] /\ OfferOf[i] # o
      BY <1>3, <2>1
    <3> QED
      BY <1>2, <2>1, <3>1
  <2> QED
    BY <1>1, <2>1, <2>3, <2>4 DEF Thorough
<1>5. CASE Skips(v)
  <2>1. PICK a \in BOOLEAN : /\ Decides(v, a, r.held, r.moves)
                             /\ Tracked(r.at, o) = {} \/ a
    BY <1>5 DEF Skips
  <2>2. Moved(v)' = Moved(v)
    BY <2>1, MovedAfter DEF Decides
  <2>3. a \/ \A i : ~ (Here(i) /\ OfferOf[i] = o)
    BY <2>1 DEF Tracked
  <2> QED
    BY <1>4, <2>1, <2>2, <2>3
<1>6. CASE Starts(v)
  <2>1. /\ s.pc = "source" /\ s.last = r.last /\ s.moves = r.moves
        /\ s.offers = r.offers /\ s.attention = r.attention /\ s.items = Tracked(r.at, o)
    BY <1>6 DEF Starts, GoesOn
  <2>2. Moved(v)' = Moved(v) /\ Offer(v)' = o
    BY <2>1, MovedAfter DEF Offer
  <2>3. \A i : Here(i) /\ OfferOf[i] = o => i \in s.items
    BY <2>1 DEF Tracked
  <2> QED
    BY <1>1, <1>2, <2>1, <2>2, <2>3 DEF Thorough
<1>7. CASE SkipsAtSource(v)
  <2>1. Decides(v, TRUE, r.held \cup {Source(v)}, r.moves)
    BY <1>7 DEF SkipsAtSource
  <2>2. Moved(v)' = Moved(v)
    BY <2>1, MovedAfter DEF Decides
  <2> QED
    BY <1>4, <2>1, <2>2
<1>8. CASE ChoosesOne(v)
  <2>1. /\ r.pc = "source" /\ s.last = r.last /\ s.moves = r.moves
        /\ s.offers = r.offers /\ s.attention = r.attention /\ s.items = r.items
    BY <1>8 DEF ChoosesOne, GoesOn
  <2>2. Moved(v)' = Moved(v) /\ Offer(v)' = o
    BY <2>1, MovedAfter DEF Offer
  <2> QED
    BY <1>1, <1>2, <2>1, <2>2 DEF Thorough
<1>9. CASE MovesThem(v)
  <2>1. /\ r.pc = "dest"
        /\ Decides(v, Attends(v), r.held \cup {Target(v)}, r.moves \cup Placing(v))
    BY <1>9 DEF MovesThem
  <2>2. Moved(v)' = Moved(v) \cup r.items
    BY <2>1, MovedAfter DEF Decides
  <2>3. \A i : Here(i) /\ OfferOf[i] = o => i \in Moved(v)'
    BY <1>2, <2>1, <2>2
  <2> QED
    BY <1>4, <2>1, <2>2, <2>3
<1> QED
  BY <1>0, <1>5, <1>6, <1>7, <1>8, <1>9, WithinCases

LEMMA CompleteStep ==
    ASSUME Complete, [Next]_vars
    PROVE  Complete'
<1>0. Checked /\ Shapes
  BY DEF Complete, Checked, Circles
<1>1. \A u \in Workers : worker'[u] = worker[u] => Thorough(u)'
  BY ThoroughKept
<1>2. ASSUME NEW v \in Workers, Leaves(v)
      PROVE  \A u \in Workers : Thorough(u)'
  <2>1. ~ InBatch(v)'
    BY <1>0, <1>2, OneSteps DEF Leaves, OutOfBatch, InBatch
  <2>2. Thorough(v)'
    BY <2>1 DEF Thorough
  <2> QED
    BY <1>0, <1>1, <1>2, <2>2, OneSteps DEF Leaves
<1>3. ASSUME NEW v \in Workers, NEW w \in Warehouses, NEW n \in 1 .. MaxIncidents,
             Enters(v, w, n)
      PROVE  \A u \in Workers : Thorough(u)'
  BY <1>0, <1>1, <1>3, ThoroughEntered, OneSteps DEF Enters
<1>4. ASSUME NEW v \in Workers, Within(v), InBatch(v)
      PROVE  \A u \in Workers : Thorough(u)'
  BY <1>0, <1>1, <1>4, ThoroughWithin, OneSteps DEF Within
<1>5. ASSUME Quiet \/ Other
      PROVE  \A u \in Workers : Thorough(u)'
  BY <1>0, <1>1, <1>5, OtherTyped DEF Quiet
<1>6. \A u \in Workers : Thorough(u)'
  BY <1>0, <1>2, <1>3, <1>4, <1>5, StepCases, CommitLeaves
<1> QED
  BY <1>0, <1>6, CheckedStep, PassedStep, LateStep DEF Complete

(* An incident completed without asking for attention strands no           *)
(* allocation but those committed at a warehouse already down: the cursor  *)
(* passes nothing it has not moved (ProcessWarehouseIncidentBatch).        *)
THEOREM NothingStranded == Spec => []StrandedOnlyLate
<1>1. Init => Complete
  <2> SUFFICES ASSUME Init
               PROVE  Complete
    OBVIOUS
  <2>1. Active = {} /\ \A v \in Workers : ~ InBatch(v)
    BY DEF Init, Active, Idle, InBatch
  <2>2. StrandedOnlyLate
    BY DEF Init, StrandedOnlyLate
  <2> QED
    BY <2>1, <2>2, InitChecked DEF Complete, Passed, Thorough
<1>2. Complete /\ [Next]_vars => Complete'
  BY CompleteStep
<1>3. Complete => StrandedOnlyLate
  BY DEF Complete
<1> QED
  BY <1>1, <1>2, <1>3, PTL DEF Spec

(***************************************************************************)
(* Reservation and failover implement Allocations.  Beside what is Checked *)
(* a batch moves along the routes of its warehouse, and the items of one   *)
(* offer together.                                                         *)
(***************************************************************************)
Routed(v) ==
    InBatch(v) =>
        /\ worker[v].pc = "dest" => worker[v].dest \in Routes[worker[v].at]
        /\ \A i, d : <<i, d>> \in worker[v].moves => d \in Routes[worker[v].at]
        /\ \A i, j, d, e :
              <<i, d>> \in worker[v].moves /\ <<j, e>> \in worker[v].moves
                  /\ OfferOf[i] = OfferOf[j] => d = e

LEMMA RoutedWithin ==
    ASSUME Checked, NEW v \in Workers, Routed(v), Within(v), InBatch(v)
    PROVE  Routed(v)'
<1> DEFINE r == worker[v]
<1> DEFINE s == worker'[v]
<1> DEFINE o == Offer(v)
<1>0. Shapes /\ Shaped(r) /\ r \in WorkerType /\ Ordered(v) /\ Sound(v)
  BY DEF Checked, Circles, Shapes, Shaped
<1>1. /\ r.pc = "dest" => r.dest \in Routes[r.at]
      /\ \A i, d : <<i, d>> \in r.moves => d \in Routes[r.at]
      /\ \A i, j, d, e :
            <<i, d>> \in r.moves /\ <<j, e>> \in r.moves /\ OfferOf[i] = OfferOf[j] => d = e
  BY DEF Routed
<1>2. ASSUME s.at = r.at, s.pc = "dest" => s.dest \in Routes[r.at], s.moves = r.moves
      PROVE  Routed(v)'
  BY <1>1, <1>2 DEF Routed
<1>3. CASE Skips(v) \/ SkipsAtSource(v)
  BY <1>2, <1>3 DEF Skips, SkipsAtSource, Decides
<1>4. CASE Starts(v) \/ ChoosesOne(v)
  BY <1>2, <1>4 DEF Starts, ChoosesOne, GoesOn
<1>5. CASE MovesThem(v)
  <2>1. /\ r.pc = "dest" /\ s.pc = "offer" /\ s.at = r.at /\ r.offers # {}
        /\ s.moves = r.moves \cup Placing(v)
    BY <1>5 DEF MovesThem, Decides
  <2>2. \A i, d : <<i, d>> \in Placing(v) => i \in r.items /\ d = r.dest
    BY DEF Placing
  <2>3. \A i \in r.items : OfferOf[i] = o
    BY <1>0, <2>1 DEF Sound, InBatch, Tracked
  <2>4. \A i, d : <<i, d>> \in r.moves => OfferOf[i] # o
    <3>1. r.last \in Nat /\ o \in Nat /\ r.last < o
      BY <1>0, <2>1, OrderedTypes, NextOffer DEF Ordered, Shapes
    <3>2. ASSUME NEW i, NEW d, <<i, d>> \in r.moves
          PROVE  OfferOf[i] \in Nat /\ OfferOf[i] <= r.last
      <4>1. i \in Items
        BY <1>0, <3>2 DEF WorkerType
      <4>2. Movable(v, i, d)
        BY <1>0, <3>2 DEF Sound
      <4> QED
        BY <4>1, <4>2, FulfillmentAssumption DEF Movable, Offers
    <3> QED
      BY <3>1, <3>2
  <2>5. \A i, d : <<i, d>> \in s.moves => d \in Routes[r.at]
    BY <1>1, <2>1, <2>2
  <2>6. ASSUME NEW i, NEW j, NEW d, NEW e,
               <<i, d>> \in s.moves, <<j, e>> \in s.moves, OfferOf[i] = OfferOf[j]
        PROVE  d = e
    <3>1. CASE <<i, d>> \in r.moves /\ <<j, e>> \in r.moves
      BY <1>1, <2>6, <3>1
    <3>2. CASE <<i, d>> \in Placing(v) /\ <<j, e>> \in Placing(v)
      BY <2>2, <3>2
    <3> QED
      BY <2>1, <2>2, <2>3, <2>4, <2>6, <3>1, <3>2
  <2> QED
    BY <2>1, <2>5, <2>6 DEF Routed
<1> QED
  BY <1>0, <1>3, <1>4, <1>5, WithinCases

LEMMA RoutedStep ==
    ASSUME Checked, \A u \in Workers : Routed(u), [Next]_vars
    PROVE  \A u \in Workers : Routed(u)'
<1>0. Shapes
  BY DEF Checked, Circles
<1>1. \A u \in Workers : worker'[u] = worker[u] => Routed(u)'
  BY DEF Routed, InBatch
<1>2. ASSUME NEW v \in Workers, Leaves(v)
      PROVE  \A u \in Workers : Routed(u)'
  <2>1. ~ InBatch(v)'
    BY <1>0, <1>2, OneSteps DEF Leaves, OutOfBatch, InBatch
  <2>2. Routed(v)'
    BY <2>1 DEF Routed
  <2> QED
    BY <1>0, <1>1, <1>2, <2>2, OneSteps DEF Leaves
<1>3. ASSUME NEW v \in Workers, NEW w \in Warehouses, NEW n \in 1 .. MaxIncidents,
             Enters(v, w, n)
      PROVE  \A u \in Workers : Routed(u)'
  <2>1. worker'[v].pc = "offer" /\ worker'[v].moves = {}
    BY <1>0, <1>3, EntersFields
  <2>2. Routed(v)'
    BY <2>1 DEF Routed
  <2> QED
    BY <1>0, <1>1, <1>3, <2>2, OneSteps DEF Enters
<1>4. ASSUME NEW v \in Workers, Within(v), InBatch(v)
      PROVE  \A u \in Workers : Routed(u)'
  BY <1>0, <1>1, <1>4, RoutedWithin, OneSteps DEF Within
<1>5. CASE Quiet \/ Other
  BY <1>0, <1>1, <1>5, OtherTyped DEF Quiet
<1> QED
  BY <1>0, <1>2, <1>3, <1>4, <1>5, StepCases, CommitLeaves

AllRouted == Checked /\ \A v \in Workers : Routed(v)

LEMMA SameCount == \A S : Promise!Cardinality(S) = Cardinality(S)
BY Zenon DEF Cardinality, Promise!Cardinality

LEMMA CoveredThen ==
    ASSUME Checked, [Next]_vars
    PROVE  Promise!Covered'
<1> SUFFICES ASSUME NEW w \in Warehouses, NEW o \in Offers
             PROVE  Legacy[w][o]
                       + Promise!Cardinality({i \in Items : alloc'[i] = w /\ OfferOf[i] = o})
                          <= onHand'[w][o]
  BY DEF Promise!Covered
<1>1. reserved'[w][o] = Legacy[w][o] + Cardinality(Tracked(w, o)')
      /\ reserved'[w][o] <= onHand'[w][o]
  BY BackedStep DEF ReservationsBacked
<1>2. Tracked(w, o)' = {i \in Items : alloc'[i] = w /\ OfferOf[i] = o}
  BY DEF Tracked
<1>3. Promise!Cardinality(Tracked(w, o)') = Cardinality(Tracked(w, o)')
  BY SameCount
<1> QED
  BY <1>1, <1>2, <1>3

LEMMA MovesAway ==
    ASSUME Checked, NEW v \in Workers, Routed(v), CommitBatch(v)
    PROVE  Promise!MoveAway(worker[v].at)
<1> DEFINE w == worker[v].at
<1> DEFINE offers == {OfferOf[i] : i \in Moved(v)}
<1> DEFINE Any(o) == CHOOSE i \in Moved(v) : OfferOf[i] = o
<1> DEFINE to == [o \in offers |-> NewPlace(v, Any(o))]
<1>1. /\ InBatch(v) /\ UNCHANGED <<onHand, ended>>
      /\ alloc' = [i \in Items |-> IF i \in Moved(v) THEN NewPlace(v, i) ELSE alloc[i]]
  BY CommitAlloc DEF CommitBatch
<1>2. \A i \in Moved(v) :
          /\ i \in Items /\ alloc[i] = w /\ OrderOf[i] \notin ended
          /\ NewPlace(v, i) \in Routes[w]
          /\ <<i, NewPlace(v, i)>> \in worker[v].moves
  BY <1>1, MovedFacts DEF Movable, Routed
<1>3. \A i, j \in Moved(v) : OfferOf[i] = OfferOf[j] => NewPlace(v, i) = NewPlace(v, j)
  BY <1>1, <1>2 DEF Routed
<1>4. Moved(v) \in SUBSET {i \in Items : alloc[i] = w /\ OrderOf[i] \notin ended}
  BY <1>2
<1>5. \A o \in offers : Any(o) \in Moved(v) /\ OfferOf[Any(o)] = o
  OBVIOUS
<1>6. to \in [offers -> Routes[w]]
  BY <1>2, <1>5
<1>7. \A i \in Moved(v) : to[OfferOf[i]] = NewPlace(v, i)
  <2> SUFFICES ASSUME NEW i \in Moved(v)
               PROVE  to[OfferOf[i]] = NewPlace(v, i)
    OBVIOUS
  <2>1. OfferOf[i] \in offers
    OBVIOUS
  <2>2. to[OfferOf[i]] = NewPlace(v, Any(OfferOf[i]))
    BY <2>1
  <2> QED
    BY <1>3, <1>5, <2>1, <2>2
<1> HIDE DEF to, w
<1>8. alloc' = [i \in Items |-> IF i \in Moved(v) THEN to[OfferOf[i]] ELSE alloc[i]]
  BY <1>1, <1>7
<1> QED
  BY <1>1, <1>4, <1>6, <1>8 DEF Promise!MoveAway, w

LEMMA KeptStep ==
    ASSUME AllRouted, [Next]_vars
    PROVE  [Promise!Next]_(Promise!vars)
<1>0. Checked /\ Shapes /\ Calls /\ Promise!Covered'
  BY CoveredThen DEF AllRouted, Checked, Circles
<1>1. ASSUME UNCHANGED <<alloc, onHand, ended>>
      PROVE  UNCHANGED Promise!vars
  BY <1>1 DEF Promise!vars
<1>2. ASSUME NEW c \in Clients, CommitReserve(c)
      PROVE  Promise!Next
  <2>1. /\ client[c].item \in Items /\ client[c].at \in Warehouses
        /\ alloc[client[c].item] = Nowhere
        /\ alloc' = [alloc EXCEPT ![client[c].item] = client[c].at]
        /\ UNCHANGED <<onHand, ended>>
    BY <1>0, <1>2, ReserveFacts DEF CommitReserve
  <2>2. Promise!Reserve(client[c].item, client[c].at)
    BY <2>1 DEF Promise!Reserve
  <2> QED
    BY <1>0, <2>1, <2>2 DEF Promise!Next
<1>3. ASSUME NEW w \in Warehouses, NEW o \in Offers, NEW units \in 0 .. MaxStock,
             SetOnHand(w, o, units)
      PROVE  Promise!Next
  <2>1. Promise!Adjust(w, o)
    BY <1>0, <1>3, StockFacts DEF Promise!Adjust, SetOnHand
  <2> QED
    BY <1>0, <2>1 DEF Promise!Next
<1>4. ASSUME NEW r \in Orders, EndOrder(r)
      PROVE  Promise!Next
  BY <1>0, <1>4 DEF Promise!Next, Promise!EndOrder, EndOrder, stock
<1>5. ASSUME NEW v \in Workers, CommitBatch(v)
      PROVE  Promise!Next
  <2>1. Promise!MoveAway(worker[v].at) /\ worker[v].at \in Warehouses
    BY <1>0, <1>5, MovesAway, CommitAlloc DEF AllRouted
  <2> QED
    BY <1>0, <2>1 DEF Promise!Next
<1>6. CASE Other
  BY <1>1, <1>2, <1>3, <1>4, <1>6 DEF Other, BeginReserve, RollBackReserve,
     SetOperationalState, stock
<1>7. CASE UNCHANGED data
  BY <1>1, <1>7 DEF data, stock
<1> QED
  BY <1>0, <1>5, <1>6, <1>7, StepCases DEF Quiet, Enters, Within

(* Reservations, failovers, changes of stock and ends of orders implement  *)
(* Allocations: an item is placed only where stock covers it, moved only   *)
(* along a route of the place it is at, with the others of its offer to    *)
(* one destination, and never once its order ended (ReserveOrderItem,      *)
(* ProcessWarehouseIncidentBatch, SetOnHand), however many workers repeat  *)
(* whose batches.                                                          *)
THEOREM ImplementsAllocations == Spec => KeepsAllocations
<1>1. Init => AllRouted /\ Promise!Init
  <2>1. Init => Promise!Init
    BY DEF Init, Promise!Init
  <2>2. Init => \A v \in Workers : Routed(v)
    BY DEF Init, Routed, InBatch, Idle
  <2> QED
    BY <2>1, <2>2, InitChecked DEF AllRouted
<1>2. AllRouted /\ [Next]_vars => AllRouted'
  BY CheckedStep, RoutedStep DEF AllRouted
<1>3. AllRouted /\ [Next]_vars => [Promise!Next]_(Promise!vars)
  BY KeptStep
<1> QED
  BY <1>1, <1>2, <1>3, PTL DEF Spec, KeepsAllocations, Promise!Spec

(***************************************************************************)
(* Without a fault a lease is its worker's for as long as the incident is  *)
(* active.  A worker is engaged with nothing it has not claimed and not    *)
(* settled, and an item that is no longer eligible never is again.         *)
(***************************************************************************)
Resting == {"idle", "next", "stopped"}

\* Nothing twice in a worker's hands, and nothing when it rests.
Tidy(r) ==
    /\ r.pc \in {"idle", "stopped"} => r.queue = {}
    /\ r.pc \in Resting => r.at = Nowhere
    /\ <<r.at, r.n>> \notin r.queue

Leased ==
    /\ Shapes
    /\ \A v \in Workers : Tidy(worker[v])
    /\ \A x \in JobItems : job[x].lease # Nobody => job[x].listed
    /\ \A v \in Workers, x \in JobItems : Engaged(v, x) => x[2] <= incident[x[1]].n
    /\ OneWorkerPerIncident
    /\ faults = 0 =>
          \A v \in Workers, x \in JobItems :
              Engaged(v, x) /\ x \in Eligible => ~ job[x].expired

LEMMA NowhereJob ==
    ASSUME NEW n
    PROVE  <<Nowhere, n>> \notin JobItems
BY FulfillmentAssumption

LEMMA EligibleMeans ==
    ASSUME NEW x \in JobItems
    PROVE  x \in Eligible <=> x[1] \in Active /\ incident[x[1]].n = x[2]
<1>1. x = <<x[1], x[2]>> /\ x[1] \in Warehouses
  BY FulfillmentAssumption
<1> QED
  BY <1>1 DEF Eligible

LEMMA DecidedHands ==
    ASSUME Shapes, NEW v \in Workers, worker[v].offers # {}, NEW a \in BOOLEAN
    PROVE  /\ Decided(v, a) \in WorkerType
           /\ Decided(v, a).queue = worker[v].queue
           /\ Decided(v, a).at = worker[v].at /\ Decided(v, a).n = worker[v].n
           /\ Decided(v, a).pc = "offer"
<1>1. worker[v] \in WorkerType
  BY DEF Shapes, TypeOK
<1>2. Decided(v, a) \in WorkerType
  BY DecidedTyped DEF Shapes
<1> QED
  BY <1>1, <1>2 DEF Decided, WorkerType

\* Whatever happens between the begin and the commit of a batch, the worker
\* has the same incidents in hand.
SameHands(v) ==
    /\ worker'[v].queue = worker[v].queue
    /\ worker'[v].at = worker[v].at /\ worker'[v].n = worker[v].n
    /\ worker[v].pc \notin Resting /\ worker'[v].pc \notin Resting
    /\ \A u \in Workers : u # v => worker'[u] = worker[u]

LEMMA BatchHands ==
    ASSUME Shapes, NEW v \in Workers,
           VisitOffer(v) \/ LockSource(v) \/ LockDestination(v) \/ CommitBatch(v) \/ FailBatch(v)
    PROVE  SameHands(v)
<1> DEFINE r == worker[v]
<1>0. r \in WorkerType /\ worker \in [Workers -> WorkerType] /\ Shaped(r)
  BY DEF Shapes, TypeOK
<1>1. r.pc \in {"offer", "source", "dest"}
  BY DEF VisitOffer, LockSource, LockDestination, CommitBatch, FailBatch, InBatch
<1>2. ASSUME NEW s, Becomes(v, s), s.queue = r.queue, s.at = r.at, s.n = r.n, s.pc \notin Resting
      PROVE  SameHands(v)
  BY <1>0, <1>1, <1>2 DEF SameHands, Becomes, Resting
<1>3. \A pc : LET s == [Idle EXCEPT !.pc = pc, !.queue = r.queue, !.at = r.at, !.n = r.n]
              IN  s.queue = r.queue /\ s.at = r.at /\ s.n = r.n /\ s.pc = pc
  BY DEF Idle
<1>4. Undoes(v) => SameHands(v)
  BY <1>2, <1>3 DEF Undoes, Resting
<1>5. CASE VisitOffer(v)
  <2> DEFINE started == [r EXCEPT !.pc = "source", !.items = Tracked(r.at, Offer(v))]
  <2>1. r.offers # {}
    BY <1>5 DEF VisitOffer
  <2>2. Becomes(v, started) => SameHands(v)
    <3>1. started.queue = r.queue /\ started.at = r.at /\ started.n = r.n
          /\ started.pc = "source"
      BY <1>0 DEF WorkerType
    <3> HIDE DEF started
    <3> QED
      BY <1>2, <3>1 DEF Resting
  <2>3. \A a \in BOOLEAN : Becomes(v, Decided(v, a)) => SameHands(v)
    BY <1>2, <2>1, DecidedHands DEF Resting
  <2>4. \/ Becomes(v, started)
        \/ \E a \in BOOLEAN : Becomes(v, Decided(v, a))
    BY <1>5 DEF VisitOffer, Becomes
  <2> QED
    BY <2>2, <2>3, <2>4
<1>6. CASE LockSource(v)
  <2>1. r.offers # {}
    BY <1>0, <1>6 DEF LockSource, Shaped
  <2>2. CASE SkipsLocked(v)
    <3> DEFINE x == Decided(v, TRUE)
    <3> DEFINE held == r.held \cup {<<r.at, Offer(v)>>}
    <3> DEFINE s == [x EXCEPT !.held = held]
    <3>1. x \in WorkerType /\ x.queue = r.queue /\ x.at = r.at /\ x.n = r.n /\ x.pc = "offer"
      BY <2>1, DecidedHands
    <3>2. s.queue = r.queue /\ s.at = r.at /\ s.n = r.n /\ s.pc = "offer"
      <4> HIDE DEF x, held
      <4> QED
        BY <3>1 DEF WorkerType
    <3>3. Becomes(v, s)
      BY <2>2 DEF SkipsLocked
    <3> HIDE DEF s
    <3> QED
      BY <1>2, <3>2, <3>3 DEF Resting
  <2>3. ASSUME NEW d, Chooses(v, d)
        PROVE  SameHands(v)
    <3> DEFINE s == [r EXCEPT !.pc = "dest", !.dest = d,
                              !.held = @ \cup {<<r.at, Offer(v)>>}]
    <3>1. s.queue = r.queue /\ s.at = r.at /\ s.n = r.n /\ s.pc = "dest"
      BY <1>0 DEF WorkerType
    <3>2. Becomes(v, s)
      BY <2>3 DEF Chooses
    <3> HIDE DEF s
    <3> QED
      BY <1>2, <3>1, <3>2 DEF Resting
  <2> QED
    BY <1>6, <2>2, <2>3, LockSourceCases
<1>7. CASE LockDestination(v)
  <2>1. r.offers # {} /\ Attends(v) \in BOOLEAN
    BY <1>0, <1>7 DEF LockDestination, Shaped, Attends
  <2>2. CASE Moves(v)
    <3> DEFINE x == Decided(v, Attends(v))
    <3> DEFINE p == <<r.dest, Offer(v)>>
    <3> DEFINE s == [x EXCEPT !.held = @ \cup {p}, !.moves = @ \cup Placing(v)]
    <3>1. x \in WorkerType /\ x.queue = r.queue /\ x.at = r.at /\ x.n = r.n /\ x.pc = "offer"
      BY <2>1, DecidedHands
    <3>2. s.queue = r.queue /\ s.at = r.at /\ s.n = r.n /\ s.pc = "offer"
      <4> HIDE DEF x, p
      <4> QED
        BY <3>1 DEF WorkerType
    <3>3. Becomes(v, s)
      BY <2>2 DEF Moves, Placing
    <3> HIDE DEF s
    <3> QED
      BY <1>2, <3>2, <3>3 DEF Resting
  <2> QED
    BY <1>4, <1>7, <2>2, LockDestinationCases
<1>8. CASE CommitBatch(v)
  <2>1. PICK pc \in {"release", "complete"} :
            Becomes(v, [Idle EXCEPT !.queue = r.queue, !.at = r.at, !.n = r.n, !.pc = pc])
    BY <1>8 DEF CommitBatch, Becomes
  <2> DEFINE s == [Idle EXCEPT !.queue = r.queue, !.at = r.at, !.n = r.n, !.pc = pc]
  <2>2. s.queue = r.queue /\ s.at = r.at /\ s.n = r.n /\ s.pc \notin Resting
    BY DEF Idle, Resting
  <2>3. Becomes(v, s)
    BY <2>1
  <2> HIDE DEF s
  <2> QED
    BY <1>2, <2>2, <2>3
<1>9. CASE FailBatch(v)
  BY <1>4, <1>9 DEF FailBatch, Undoes, Becomes
<1> QED
  BY <1>5, <1>6, <1>7, <1>8, <1>9

\* An incident that ended, or gave way to the next, is never active again.
LEMMA IncidentsGrow ==
    ASSUME Shapes, [Next]_vars, NEW w \in Warehouses
    PROVE  /\ incident[w].n \in Nat /\ incident'[w].n \in Nat
           /\ \/ incident'[w].n = incident[w].n /\ (w \in Active' => w \in Active)
              \/ incident'[w].n > incident[w].n
<1>0. /\ incident[w] \in IncidentType /\ incident'[w] \in IncidentType
      /\ incident \in [Warehouses -> IncidentType]
  BY ShapesStep DEF Shapes, TypeOK, IncidentType
<1>1. incident[w].n \in Nat /\ incident'[w].n \in Nat
  BY <1>0, FulfillmentAssumption DEF IncidentType
<1>2. CASE UNCHANGED <<incident, state>>
  BY <1>1, <1>2 DEF Active
<1>3. ASSUME NEW x \in Warehouses, NEW s \in Declared[x], SetOperationalState(x, s)
      PROVE  \/ incident'[w].n = incident[w].n /\ (w \in Active' => w \in Active)
             \/ incident'[w].n > incident[w].n
  <2>1. CASE w # x
    BY <1>3, <2>1, SetFacts DEF Active
  <2>2. CASE w = x /\ s = "down"
    BY <1>0, <1>1, <1>3, <2>2 DEF SetOperationalState
  <2>3. CASE w = x /\ s # "down"
    <3>1. incident'[w].n = incident[w].n
      BY <1>0, <1>3, <2>3 DEF SetOperationalState, IncidentType
    <3> QED
      BY <1>3, <2>3, <3>1, SetFacts
  <2> QED
    BY <2>1, <2>2, <2>3
<1>4. ASSUME NEW v \in Workers, CommitBatch(v)
      PROVE  incident'[w].n = incident[w].n /\ (w \in Active' => w \in Active)
  <2>1. worker[v].at \in Active
    BY <1>4 DEF CommitBatch, Shapes, InBatch
  <2> QED
    BY <1>4, <2>1, CommitTyped DEF Active
<1> QED
  BY <1>1, <1>2, <1>3, <1>4, IncidentSteps

LEMMA FaultsGrow ==
    ASSUME TypeOK, [Next]_vars, faults' = 0
    PROVE  /\ faults = 0
           /\ \A v \in Workers : ~ Crash(v) /\ ~ FailBatch(v)
<1>0. faults \in Nat /\ faults + 1 # 0
  BY DEF TypeOK
<1>1. CASE UNCHANGED vars
  BY <1>0, <1>1 DEF vars, Crash, FailBatch
<1>2. \A v \in Workers : ~ Crash(v) /\ ~ FailBatch(v)
  BY <1>0 DEF Crash, FailBatch
<1>3. ASSUME NEW v \in Workers, Work(v)
      PROVE  faults' = faults
  BY <1>3 DEF Work, Claim, BeginBatch, VisitOffer, LockSource, LockDestination, CommitBatch,
     Settle, Restart
<1>4. ASSUME NEW x \in JobItems, Expire(x) \/ ComeDue(x)
      PROVE  faults = 0
  BY <1>0, <1>4 DEF Expire, ComeDue
<1>5. CASE Next
  BY <1>0, <1>2, <1>3, <1>4, <1>5 DEF Next, BeginReserve, CommitReserve, RollBackReserve,
     SetOnHand, SetOperationalState, EndOrder, ArchiveOffer
<1> QED
  BY <1>1, <1>2, <1>5

LEMMA StillEligible ==
    ASSUME Shapes, [Next]_vars, NEW x \in JobItems, x[2] <= incident[x[1]].n
    PROVE  /\ x[2] <= incident'[x[1]].n
           /\ x \in Eligible' => x \in Eligible
<1>1. x[1] \in Warehouses /\ x[2] \in Nat /\ x = <<x[1], x[2]>>
  BY FulfillmentAssumption
<1>2. x \in Eligible' => x[1] \in Active' /\ incident'[x[1]].n = x[2]
  BY <1>1 DEF Eligible
<1> QED
  BY <1>1, <1>2, IncidentsGrow, EligibleMeans

\* Nobody takes up anything, and the rows of what is in hand are left alone.
LEMMA LeaseKept ==
    ASSUME Leased, [Next]_vars,
           \A v \in Workers : Tidy(worker'[v]),
           \A v \in Workers, x \in JobItems : Engaged(v, x)' => Engaged(v, x),
           \A x \in JobItems : job'[x].lease # Nobody => job'[x].listed,
           faults = 0 /\ faults' = 0 =>
               \A v \in Workers, x \in JobItems :
                   Engaged(v, x) /\ Engaged(v, x)' /\ x \in Eligible =>
                       job'[x].lease = job[x].lease /\ job'[x].expired = job[x].expired
    PROVE  Leased'
<1>0. Shapes /\ Shapes' /\ TypeOK
  BY ShapesStep DEF Leased, Shapes
<1>1. \A v \in Workers, x \in JobItems : Engaged(v, x)' =>
          x[2] <= incident'[x[1]].n /\ (x \in Eligible' => x \in Eligible)
  BY <1>0, StillEligible DEF Leased
<1>2. ASSUME faults' = 0
      PROVE  \A v \in Workers, x \in JobItems : Engaged(v, x)' =>
                 /\ x \in Eligible' => HoldsJob(v, x)' /\ ~ job'[x].expired
                 /\ \A u \in Workers : Engaged(u, x)' => u = v
  <2>1. faults = 0
    BY <1>0, <1>2, FaultsGrow
  <2> QED
    BY <1>1, <1>2, <2>1 DEF Leased, OneWorkerPerIncident, HoldsJob
<1> QED
  BY <1>0, <1>1, <1>2 DEF Leased, OneWorkerPerIncident

LEMMA ClaimLeased ==
    ASSUME Leased, [Next]_vars, NEW v \in Workers, Claim(v)
    PROVE  Leased'
<1> DEFINE queue == Claimable(Eligible)
<1>0. Shapes /\ Shapes' /\ worker \in [Workers -> WorkerType] /\ Tidy(worker[v])
  BY ShapesStep DEF Leased, Shapes, TypeOK
<1>1. /\ worker[v].pc = "idle" /\ worker[v].queue = {} /\ worker[v].at = Nowhere
      /\ UNCHANGED <<incident, faults>>
  BY <1>0 DEF Claim, Tidy, Resting
<1>2. queue \in SUBSET JobItems
  BY <1>0, EligibleItems
<1>3. /\ worker'[v].queue = queue /\ worker'[v].at = Nowhere
      /\ worker'[v].pc = IF queue = {} THEN "idle" ELSE "next"
      /\ \A u \in Workers : u # v => worker'[u] = worker[u]
  BY <1>0, <1>1 DEF Claim, WorkerType
<1>4. \A x \in JobItems :
          /\ x \notin Eligible => job'[x] = NoJob
          /\ x \in queue => job'[x] = [listed |-> TRUE, due |-> TRUE, lease |-> v,
                                       expired |-> FALSE]
          /\ x \in Eligible \ queue => job'[x] = job[x]
  BY DEF Claim, ClaimJobs, Claimable
<1> HIDE DEF queue
<1>5. \A x \in JobItems : ~ Engaged(v, x) /\ (Engaged(v, x)' <=> x \in queue)
  <2>1. \A x \in JobItems : x # <<worker[v].at, worker[v].n>> /\ x # <<worker'[v].at, worker'[v].n>>
    BY <1>1, <1>3, NowhereJob
  <2> QED
    BY <1>1, <1>3, <2>1 DEF Engaged
<1>6. \A u \in Workers, x \in JobItems : u # v => Engaged(u, x)' = Engaged(u, x)
  BY <1>3 DEF Engaged
<1>7. \A u \in Workers : Tidy(worker'[u])
  <2>1. Tidy(worker'[v])
    BY <1>2, <1>3, NowhereJob DEF Tidy, Resting
  <2> QED
    BY <1>3, <2>1 DEF Leased
<1>8. \A x \in JobItems : job'[x].lease # Nobody => job'[x].listed
  <2>1. queue \in SUBSET Eligible
    BY DEF queue, Claimable
  <2> QED
    BY <1>4, <2>1 DEF NoJob, Leased
<1>9. \A u \in Workers, x \in JobItems : Engaged(u, x)' => x[2] <= incident'[x[1]].n
  <2>1. \A x \in queue : x[2] <= incident[x[1]].n
    <3>1. \A x \in queue : x \in JobItems /\ x \in Eligible
      BY <1>2 DEF queue, Claimable
    <3>2. \A x \in JobItems : x[1] \in Warehouses
      BY FulfillmentAssumption
    <3> QED
      BY <1>0, <3>1, <3>2, EligibleMeans, IncidentsGrow
  <2> QED
    BY <1>1, <1>5, <1>6, <2>1 DEF Leased
<1>10. Eligible' = Eligible
  BY <1>1 DEF Eligible, Active
\* What somebody else has in hand is not to be claimed.
<1>11. ASSUME faults = 0, NEW u \in Workers, NEW x \in JobItems, Engaged(u, x)
       PROVE  x \notin queue /\ (x \in Eligible => job'[x] = job[x])
  <2>1. CASE x \in Eligible
    <3>1. job[x].lease = u /\ ~ job[x].expired /\ u # Nobody /\ job[x].listed
      BY <1>11, <2>1, FulfillmentAssumption DEF Leased, OneWorkerPerIncident, HoldsJob
    <3> QED
      BY <1>4, <2>1, <3>1 DEF queue, Claimable
  <2>2. CASE x \notin Eligible
    BY <2>2 DEF queue, Claimable
  <2> QED
    BY <2>1, <2>2
<1>12. ASSUME faults' = 0, NEW u \in Workers, NEW x \in JobItems, Engaged(u, x)'
       PROVE  /\ x \in Eligible' => HoldsJob(u, x)' /\ ~ job'[x].expired
              /\ \A t \in Workers : Engaged(t, x)' => t = u
  <2>0. faults = 0
    BY <1>1, <1>12
  <2>1. CASE u = v
    <3>1. x \in queue
      BY <1>5, <1>12, <2>1
    <3>2. \A t \in Workers : ~ Engaged(t, x)
      BY <1>11, <2>0, <3>1
    <3> QED
      BY <1>4, <1>6, <2>1, <3>1, <3>2 DEF HoldsJob
  <2>2. CASE u # v
    <3>1. Engaged(u, x)
      BY <1>6, <1>12, <2>2
    <3>2. x \notin queue /\ (x \in Eligible => job'[x] = job[x])
      BY <1>11, <2>0, <3>1
    <3>3. \A t \in Workers : Engaged(t, x)' => Engaged(t, x)
      BY <1>5, <1>6, <3>2
    <3> QED
      BY <1>10, <2>0, <3>1, <3>2, <3>3 DEF Leased, OneWorkerPerIncident, HoldsJob
  <2> QED
    BY <2>1, <2>2
<1> QED
  BY <1>0, <1>7, <1>8, <1>9, <1>12 DEF Leased, OneWorkerPerIncident

LEMMA SettleLeased ==
    ASSUME Leased, [Next]_vars, NEW v \in Workers, Settle(v)
    PROVE  Leased'
<1> DEFINE y == <<worker[v].at, worker[v].n>>
<1>0. Shapes /\ worker \in [Workers -> WorkerType] /\ Tidy(worker[v]) /\ Shaped(worker[v])
      /\ worker[v] \in WorkerType
  BY DEF Leased, Shapes, TypeOK
<1>1. worker[v].pc \in {"complete", "release", "retry"} /\ UNCHANGED <<incident, faults>>
  BY DEF Settle
<1>2. y \in JobItems
  <2>1. worker[v].at \in Warehouses /\ worker[v].n \in 1 .. MaxIncidents
    BY <1>0, <1>1, FulfillmentAssumption DEF Shaped, WorkerType
  <2> QED
    BY <2>1, FulfillmentAssumption
<1>3. /\ worker'[v].at = Nowhere
      /\ \/ worker'[v].queue = worker[v].queue
            /\ worker'[v].pc = IF worker[v].queue = {} THEN "idle" ELSE "next"
         \/ worker'[v].queue = {} /\ worker'[v].pc = "stopped"
      /\ \A u \in Workers : u # v => worker'[u] = worker[u]
  <2> DEFINE pc == IF worker[v].queue = {} THEN "idle" ELSE "next"
  <2> DEFINE settled == [Idle EXCEPT !.queue = worker[v].queue, !.pc = pc]
  <2> DEFINE stopped == [Idle EXCEPT !.pc = "stopped"]
  <2>1. worker' = [worker EXCEPT ![v] = settled] \/ worker' = [worker EXCEPT ![v] = stopped]
    BY DEF Settle
  <2>2. settled.at = Nowhere /\ settled.queue = worker[v].queue /\ settled.pc = pc
    <3> HIDE DEF pc
    <3> QED
      BY DEF Idle
  <2>3. stopped.at = Nowhere /\ stopped.queue = {} /\ stopped.pc = "stopped"
    BY DEF Idle
  <2> HIDE DEF settled, stopped
  <2>4. /\ worker'[v] = settled \/ worker'[v] = stopped
        /\ \A u \in Workers : u # v => worker'[u] = worker[u]
    BY <1>0, <2>1
  <2> QED
    BY <2>2, <2>3, <2>4
<1>a. /\ job \in [JobItems -> [listed : BOOLEAN, due : BOOLEAN,
                             lease : Workers \cup {Nobody}, expired : BOOLEAN]]
      /\ job[y].lease # Nobody => job[y].listed
  BY <1>2 DEF Leased, Shapes, TypeOK, JobsOK
<1>b. \/ job' = job
      \/ job' = [job EXCEPT ![y] = NoJob]
      \/ \E now : job' = [job EXCEPT ![y] = [NoJob EXCEPT !.listed = TRUE, !.due = now]]
  BY DEF Settle, CompleteJob, ReleaseJob
<1>4. \A x \in JobItems : x # y => job'[x] = job[x]
  BY <1>a, <1>b
<1>5. job'[y].lease # Nobody => job'[y].listed
  <2> HIDE DEF y
  <2>1. \/ job'[y] = job[y] \/ job'[y] = NoJob
        \/ \E now : job'[y] = [NoJob EXCEPT !.listed = TRUE, !.due = now]
    BY <1>2, <1>a, <1>b
  <2>2. CASE job'[y] = job[y]
    BY <1>a, <2>2
  <2>3. CASE job'[y] = NoJob
    BY <2>3 DEF NoJob
  <2>4. ASSUME NEW now, job'[y] = [NoJob EXCEPT !.listed = TRUE, !.due = now]
        PROVE  job'[y].lease = Nobody
    BY <2>4 DEF NoJob
  <2> QED
    BY <2>1, <2>2, <2>3, <2>4
<1>6. Engaged(v, y)
  BY <1>1 DEF Engaged
<1> HIDE DEF y
<1>7. \A x \in JobItems : Engaged(v, x)' => x \in worker[v].queue /\ x # y
  <2>1. \A x \in JobItems : x # <<worker'[v].at, worker'[v].n>>
    BY <1>3, NowhereJob
  <2>2. y \notin worker[v].queue
    BY <1>0 DEF Tidy, y
  <2> QED
    BY <1>3, <2>1, <2>2 DEF Engaged
<1>8. \A u \in Workers, x \in JobItems : Engaged(u, x)' => Engaged(u, x)
  BY <1>3, <1>7 DEF Engaged
<1>9. \A u \in Workers : Tidy(worker'[u])
  <2>1. worker'[v].queue \in SUBSET JobItems
    BY <1>0, <1>3 DEF WorkerType
  <2>2. Tidy(worker'[v])
    BY <1>3, <2>1, NowhereJob DEF Tidy, Resting
  <2> QED
    BY <1>3, <2>2 DEF Leased
<1>10. \A x \in JobItems : job'[x].lease # Nobody => job'[x].listed
  BY <1>4, <1>5 DEF Leased
<1>11. ASSUME faults = 0, NEW u \in Workers, NEW x \in JobItems, Engaged(u, x), Engaged(u, x)'
       PROVE  x # y
  BY <1>2, <1>6, <1>7, <1>11 DEF Leased, OneWorkerPerIncident
<1> QED
  BY <1>4, <1>8, <1>9, <1>10, <1>11, LeaseKept

LEMMA RestLeased ==
    ASSUME Leased, [Next]_vars, NEW v \in Workers, job' = job,
           \/ \E w \in Warehouses, n \in 1 .. MaxIncidents : BeginBatch(v, w, n)
           \/ SameHands(v)
           \/ Restart(v) \/ Crash(v)
    PROVE  Leased'
<1>0. Shapes /\ worker \in [Workers -> WorkerType] /\ Tidy(worker[v]) /\ worker[v] \in WorkerType
  BY DEF Leased, Shapes, TypeOK
<1>1. /\ Tidy(worker'[v])
      /\ \A x \in JobItems : Engaged(v, x)' => Engaged(v, x)
      /\ \A u \in Workers : u # v => worker'[u] = worker[u]
  <2>1. ASSUME NEW w \in Warehouses, NEW n \in 1 .. MaxIncidents, BeginBatch(v, w, n)
        PROVE  /\ Tidy(worker'[v])
               /\ \A x \in JobItems : Engaged(v, x)' => Engaged(v, x)
               /\ \A u \in Workers : u # v => worker'[u] = worker[u]
    <3>1. /\ worker'[v].queue = worker[v].queue \ {<<w, n>>} /\ <<w, n>> \in worker[v].queue
          /\ worker'[v].at = w /\ worker'[v].n = n /\ worker'[v].pc \in {"offer", "complete"}
          /\ \A u \in Workers : u # v => worker'[u] = worker[u]
      BY <1>0, <2>1 DEF BeginBatch, Idle
    <3> QED
      BY <3>1 DEF Tidy, Resting, Engaged
  <2>2. CASE SameHands(v)
    BY <1>0, <2>2 DEF SameHands, Tidy, Resting, Engaged
  <2>3. CASE Restart(v) \/ Crash(v)
    <3>1. /\ worker'[v].queue = {} /\ worker'[v].at = Nowhere
          /\ \A u \in Workers : u # v => worker'[u] = worker[u]
      BY <1>0, <2>3 DEF Restart, Crash, Idle
    <3>2. \A x \in JobItems : ~ Engaged(v, x)'
      BY <3>1, NowhereJob DEF Engaged
    <3> QED
      BY <3>1, <3>2 DEF Tidy
  <2> QED
    BY <2>1, <2>2, <2>3
<1>2. \A u \in Workers : Tidy(worker'[u])
  BY <1>1 DEF Leased
<1>3. \A u \in Workers, x \in JobItems : Engaged(u, x)' => Engaged(u, x)
  BY <1>1 DEF Engaged
<1>4. \A x \in JobItems : job'[x].lease # Nobody => job'[x].listed
  BY DEF Leased
<1> QED
  BY <1>2, <1>3, <1>4, LeaseKept

LEMMA ClockLeased ==
    ASSUME Leased, [Next]_vars, NEW y \in JobItems, Expire(y) \/ ComeDue(y)
    PROVE  Leased'
<1>0. worker' = worker /\ job \in [JobItems -> [listed : BOOLEAN, due : BOOLEAN,
                            lease : Workers \cup {Nobody}, expired : BOOLEAN]]
  BY DEF Expire, ComeDue, Leased, Shapes, TypeOK, JobsOK
<1>1. /\ \A v \in Workers : Tidy(worker'[v])
      /\ \A v \in Workers, x \in JobItems : Engaged(v, x)' = Engaged(v, x)
  BY <1>0 DEF Leased, Engaged
<1>2. \A x \in JobItems :
          /\ job'[x].lease = job[x].lease /\ job'[x].listed = job[x].listed
          /\ x # y \/ ComeDue(y) => job'[x].expired = job[x].expired
  BY <1>0 DEF Expire, ComeDue, LeaseRunsOut, ComesDue
<1>3. ASSUME faults = 0, faults' = 0, Expire(y), NEW v \in Workers, Engaged(v, y), y \in Eligible
      PROVE  FALSE
  <2>1. HoldsJob(v, y)
    BY <1>3 DEF Leased, OneWorkerPerIncident
  <2> QED
    BY <1>3, <2>1 DEF Expire
<1> QED
  BY <1>1, <1>2, <1>3, LeaseKept DEF Leased

LEMMA LeasedStep ==
    ASSUME Leased, [Next]_vars
    PROVE  Leased'
<1>0. Shapes
  BY DEF Leased
<1>1. ASSUME worker' = worker, job' = job
      PROVE  Leased'
  <2>1. /\ \A v \in Workers : Tidy(worker'[v])
        /\ \A v \in Workers, x \in JobItems : Engaged(v, x)' = Engaged(v, x)
    BY <1>1 DEF Leased, Engaged
  <2> QED
    BY <1>1, <2>1, LeaseKept DEF Leased
<1>2. ASSUME NEW v \in Workers, Work(v) \/ Crash(v) \/ FailBatch(v)
      PROVE  Leased'
  <2>1. CASE VisitOffer(v) \/ LockSource(v) \/ LockDestination(v) \/ CommitBatch(v) \/ FailBatch(v)
    <3>1. job' = job
      BY <2>1 DEF VisitOffer, LockSource, LockDestination, CommitBatch, FailBatch
    <3> QED
      BY <1>0, <2>1, <3>1, BatchHands, RestLeased
  <2>2. CASE Restart(v) \/ Crash(v) \/ \E w \in Warehouses, n \in 1 .. MaxIncidents : BeginBatch(v, w, n)
    <3>1. job' = job
      BY <2>2 DEF Restart, Crash, BeginBatch
    <3> QED
      BY <2>2, <3>1, RestLeased
  <2> QED
    BY <1>2, <2>1, <2>2, ClaimLeased, SettleLeased DEF Work
<1>3. CASE Next
  BY <1>1, <1>2, <1>3, ClockLeased DEF Next, BeginReserve, CommitReserve, RollBackReserve,
     SetOnHand, SetOperationalState, EndOrder, ArchiveOffer
<1>4. CASE UNCHANGED vars
  BY <1>1, <1>4 DEF vars
<1> QED
  BY <1>3, <1>4

(* While nothing fails and no lease is overrun, an incident is in the      *)
(* hands of one worker at a time, and the lease is that worker's for as    *)
(* long as the incident is active (claim_worker_runtime_jobs,              *)
(* runWarehouseIncidents), however many workers, incidents and calls.      *)
THEOREM LeaseHonoured == Spec => []OneWorkerPerIncident
<1>1. Init => Leased
  <2> SUFFICES ASSUME Init
               PROVE  Leased
    OBVIOUS
  <2>1. \A v \in Workers : worker[v].queue = {} /\ worker[v].at = Nowhere
    BY DEF Init, Idle
  <2>2. \A v \in Workers, x \in JobItems : ~ Engaged(v, x)
    BY <2>1, NowhereJob DEF Engaged
  <2>3. \A x \in JobItems : job[x].lease = Nobody
    BY DEF Init, InitJobs, NoJob
  <2> QED
    BY <2>1, <2>2, <2>3, InitShapes DEF Leased, Tidy, OneWorkerPerIncident
<1>2. Leased /\ [Next]_vars => Leased'
  BY LeasedStep
<1>3. Leased => OneWorkerPerIncident
  BY DEF Leased
<1> QED
  BY <1>1, <1>2, <1>3, PTL DEF Spec

===============================================================================
