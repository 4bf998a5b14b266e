SPECIFICATION Spec
CONSTANTS
    w1 = w1
    w2 = w2
    c1 = c1
    c2 = c2
    e1 = e1
    e2 = e2
    None = None
    Workers <- OneWorker
    Callers <- BothCallers
    Events <- TwoEvents
    Answers <- Storable
    MaxAttempts = 1
    DisableAfter = 2
    AttemptLimit = 2
    MaxBusy = 3
    MaxRows = 2
    MaxSecrets = 2
    MaxFaults = 1
    ScansNull = FALSE
    Interleaves = FALSE
CHECK_DEADLOCK FALSE
PROPERTIES
    EveryEventProjected
