SPECIFICATION Spec
CONSTANTS
    w1 = w1
    None = None
    w2 = w2
    Workers <- BothWorkers
    Deliveries <- SomeDeliveries
    LockKey <- OneKey
    RetainTime = TRUE
    MaxFaults = 1
    MaxRedeliveries = 1
CHECK_DEADLOCK FALSE
INVARIANTS
    TypeOK
    EffectWithReceipt
    AnswersAreTrue
PROPERTIES
    ImplementsOnceOnly
    EveryDeliveryAnswered
