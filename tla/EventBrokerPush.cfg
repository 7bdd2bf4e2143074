\* Push subscriptions: failure counting against leases and renewals.
CONSTANTS
    SubIds = {s1, s2}
    Topics <- OneTopic
    Filters <- NoFilter
    Payloads = {p}
    RawConfigs <- PushConfigs
    Lifetimes = {0}
    PullLimits = {0}
    Malformed = Malformed
    NoId = NoId
    QueueDepth = 1
    DefaultMaxPullPoints = 1
    DefaultFailureThreshold = 1
    DefaultTimeout = 1
    MaxClock = 2
    MaxNotifies = 3
SPECIFICATION Spec
SYMMETRY Symmetry
INVARIANTS UnreachableConsumerGivenUp
PROPERTIES LeaseHonoured
CHECK_DEADLOCK FALSE
