SPECIFICATION Spec
CONSTANTS
    r1 = r1
    r2 = r2
    w1 = w1
    w2 = w2
    a1 = a1
    a2 = a2
    a3 = a3
    Nobody = Nobody
    Requester = a3
    SeparationOfDuties = TRUE
    Runs <- OneRun
    Workers <- TwoWorkers
    Actors <- ThreeActors
    Requests <- SomeRequests
    Stages <- TwoStages
    Plan <- SomePlan
    Kind <- SomeKinds
    Edges <- SomeEdges
    Verdict <- Holds
    PlanIntact = TRUE
    MaxActive = 2
    MaxRunAttempts = 4
    MaxStepAttempts = 2
    Batch = 2
    MaxFaults = 1
CHECK_DEADLOCK FALSE
INVARIANTS
    TypeOK
    ApprovedByQuorum
    OpenedByParents
    CallsCounted
    OverlapNeedsLapse
PROPERTIES
    EndedRunsRest
    RunsThePlan
    EveryRunSettles
