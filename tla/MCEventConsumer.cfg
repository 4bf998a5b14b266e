SPECIFICATION Spec
CONSTANTS
    webhooks = webhooks
    w1 = w1
    w2 = w2
    NumEvents = 2
    Groups <- OneGroup
    Members <- TwoMembers
    GroupOf <- GroupOfTwo
    MaxAttempts = 3
    Malformed <- SecondMalformed
    MaxCopies = 1
    MaxFaults = 2
    MaxProduceFailures = 1
CHECK_DEADLOCK FALSE
INVARIANTS
    TypeOK
    NothingLostButByProduce
    AttemptsEarned
PROPERTIES
    EveryEventSettled
