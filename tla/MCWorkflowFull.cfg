SPECIFICATION Spec
CONSTANTS
    r1 = r1
    r2 = r2
    w1 = w1
    w2 = w2
    a1 = a1
    a2 = a2
    a3 = a3
    Nobody = Nobody
    Requester = Nobody
    SeparationOfDuties = TRUE
    Runs <- TwoRuns
    Workers <- TwoWorkers
    Actors <- TwoActors
    Requests <- SomeRequests
    Stages <- TwoStages
    Plan <- OneNode
    Kind <- OneKind
    Edges <- NoEdges
    Verdict <- Holds
    PlanIntact = TRUE
    MaxActive = 2
    MaxRunAttempts = 4
    MaxStepAttempts = 2
    Batch = 2
    MaxFaults = 0
CHECK_DEADLOCK FALSE
PROPERTIES
    EveryRunSettles
