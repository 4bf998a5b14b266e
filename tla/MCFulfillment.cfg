SPECIFICATION Spec
CONSTANTS
    wa = wa
    wb = wb
    wc = wc
    i1 = i1
    i2 = i2
    r1 = r1
    r2 = r2
    v1 = v1
    v2 = v2
    c1 = c1
    Nobody = Nobody
    Nowhere = Nowhere
    Warehouses <- TwoWarehouses
    NumOffers = 1
    Items <- TwoItems
    Orders <- TwoOrders
    OfferOf <- OneOfferOf
    OrderOf <- OrdersOf
    Routes <- BothWays
    Priority <- Equal
    Declared <- Outages
    Stock <- TwoEach
    Legacy <- NoLegacy
    Workers <- TwoWorkers
    Clients <- OneClient
    Limit = 1
    Archivable <- None
    MaxStock = 0
    MaxChanges = 0
    MaxIncidents = 1
    MaxFaults = 1
    JobItems <- Incidents
CHECK_DEADLOCK FALSE
SYMMETRY Fleet
INVARIANTS
    TypeOK
    ReservationsBacked
    StrandedOnlyLate
    NoCircularWait
    OneWorkerPerIncident
PROPERTIES
    KeepsAllocations
