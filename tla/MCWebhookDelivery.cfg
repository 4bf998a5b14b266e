SPECIFICATION Spec
CONSTANTS
    w1 = w1
    w2 = w2
    c1 = c1
    c2 = c2
    e1 = e1
    e2 = e2
    None = None
    Workers <- BothWorkers
    Callers <- BothCallers
    Events <- OneEvent
    Answers <- EachOutcome
    MaxAttempts = 2
    DisableAfter = 2
    AttemptLimit = 2
    MaxBusy = 2
    MaxRows = 2
    MaxSecrets = 3
    MaxFaults = 1
    ScansNull = TRUE
    Interleaves = TRUE
CHECK_DEADLOCK FALSE
SYMMETRY Alike
INVARIANTS
    TypeOK
    HistoryAgrees
    AcceptedOnce
    FailuresBounded
    ProjectedOnce
    SilentAfterDelete
    KeysOnRecord
