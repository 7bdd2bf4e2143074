\* Pull points: queues, filters, leases and the pool.
CONSTANTS
    SubIds = {s1, s2, s3}
    Topics <- MCTopics
    Filters <- MCFilters
    Payloads = {p}
    RawConfigs <- PullConfigs
    Lifetimes = {0}
    PullLimits <- MCPullLimits
    Malformed = Malformed
    NoId = NoId
    QueueDepth = 2
    DefaultMaxPullPoints = 2
    DefaultFailureThreshold = 1
    DefaultTimeout = 1
    MaxClock = 2
    MaxNotifies = 0
SPECIFICATION Spec
SYMMETRY Symmetry
PROPERTIES PoolWithinLimit RefusedOnlyWhenFull ImplementsService
CHECK_DEADLOCK FALSE
