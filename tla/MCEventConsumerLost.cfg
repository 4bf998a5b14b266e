SPECIFICATION Spec
CONSTANTS
    webhooks = webhooks
    w1 = w1
    w2 = w2
    NumEvents = 2
    Groups <- OneGroup
    Members <- OneMember
    GroupOf <- GroupOfOne
    MaxAttempts = 2
    Malformed <- NoMalformed
    MaxCopies = 1
    MaxFaults = 1
    MaxProduceFailures = 1
CHECK_DEADLOCK FALSE
INVARIANTS NoEventLost
