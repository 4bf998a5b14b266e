SPECIFICATION Spec
CONSTANTS
    NumEvents = 2
    Relays = {r1, r2}
    BatchSize = 2
    LeaseTicks = 2
    RetryDelays <- MCRetryDelays
    MaxFaults = 2
INVARIANTS
    TypeOK
    LeaseExclusive
    DuplicatesBounded
PROPERTIES
    ChannelSafe
    EveryEventPublished
