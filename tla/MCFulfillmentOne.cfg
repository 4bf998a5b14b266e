SPECIFICATION Spec
CONSTANTS
    wa = wa
    wb = wb
    wc = wc
    i1 = i1
    i2 = i2
    r1 = r1
    r2 = r2
    v1 = v1
    v2 = v2
    c1 = c1
    Nobody = Nobody
    Nowhere = Nowhere
    Warehouses <- ThreeWarehouses
    NumOffers = 2
    Items <- TwoItems
    Orders <- OneOrder
    OfferOf <- TwoOffersOf
    OrderOf <- OneOrderOf
    Routes <- BothWays
    Priority <- Ranked
    Declared <- Outage
    Stock <- OneMore
    Legacy <- SomeLegacy
    Workers <- OneWorker
    Clients <- OneClient
    Limit = 1
    Archivable <- FirstOffer
    MaxStock = 1
    MaxChanges = 1
    MaxIncidents = 1
    MaxFaults = 1
    JobItems <- Incidents
CHECK_DEADLOCK FALSE
INVARIANTS
    StrandedOnlyLate
PROPERTIES
    EveryIncidentSettles
