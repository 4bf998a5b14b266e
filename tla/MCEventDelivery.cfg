SPECIFICATION DeliverySpec
CONSTANTS
    webhooks = webhooks
    reporting = reporting
    w1 = w1
    r1 = r1
    NumEvents = 1
    Groups <- BothGroups
    Members <- OneEach
    GroupOf <- GroupOfEach
    MaxAttempts = 2
    Malformed <- NoMalformed
    MaxCopies = 1
    MaxFaults = 1
    MaxProduceFailures = 1
CHECK_DEADLOCK FALSE
INVARIANTS
    RecordedIsSafe
    EffectsAreEarned
PROPERTIES
    EveryEventTakesEffect
