SPECIFICATION Spec
CONSTANTS
    w1 = w1
    w2 = w2
    c1 = c1
    c2 = c2
    e1 = e1
    e2 = e2
    None = None
    Workers <- BothWorkers
    Callers <- NoCallers
    Events <- OneEvent
    Answers <- Storable
    MaxAttempts = 2
    DisableAfter = 2
    AttemptLimit = 4
    MaxBusy = 2
    MaxRows = 1
    MaxSecrets = 1
    MaxFaults = 1
    ScansNull = FALSE
    Interleaves = TRUE
CHECK_DEADLOCK FALSE
PROPERTIES
    EveryDeliverySettled
