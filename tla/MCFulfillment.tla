---------------------------- MODULE MCFulfillment ----------------------------
EXTENDS Fulfillment, TLC

CONSTANTS wa, wb, wc, i1, i2, r1, r2, v1, v2, c1

TwoWarehouses == {wa, wb}
ThreeWarehouses == {wa, wb, wc}
TwoItems      == {i1, i2}
OneOrder      == {r1}
TwoOrders     == {r1, r2}
OneWorker     == {v1}
TwoWorkers    == {v1, v2}
OneClient     == {c1}

OneOfferOf  == [i \in Items |-> 1]
TwoOffersOf == [i \in Items |-> IF i = i1 THEN 1 ELSE 2]
OneOrderOf  == [i \in Items |-> r1]
OrdersOf    == [i \in Items |-> IF i = i1 THEN r1 ELSE r2]

\* One warehouse goes down, the better of its two fallbacks may be degraded.
Outage     == [w \in Warehouses |-> IF w = wa THEN {"active", "down"}
                                   ELSE IF w = wb THEN {"degraded"} ELSE {}]
\* Any warehouse goes down and comes back.
Outages    == [w \in Warehouses |-> {"active", "down"}]

\* Each of the two is the other's fallback.
BothWays   == [w \in Warehouses |-> Warehouses \ {w}]
Equal      == [w \in Warehouses |-> [d \in Warehouses |-> 1]]
TwoEach    == [w \in Warehouses |-> [o \in Offers |-> 2]]
Ranked     == [w \in Warehouses |-> [x \in Warehouses |-> IF x = wb THEN 1 ELSE 2]]
NoLegacy   == [w \in Warehouses |-> [o \in Offers |-> 0]]
SomeLegacy == [w \in Warehouses |-> [o \in Offers |-> IF w = wa /\ o = 1 THEN 1 ELSE 0]]
OneMore    == [w \in Warehouses |-> [o \in Offers |-> 1 + SomeLegacy[w][o]]]
None       == {}
FirstOffer == {1}
Fleet      == Permutations(Workers)
Incidents  == Warehouses \X (1 .. MaxIncidents)
=============================================================================
