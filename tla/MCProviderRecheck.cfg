SPECIFICATION ChecksSpec
CONSTANTS
    Monitored = {p1, p2}
    MaxConcurrentChecks = 1
    OnlineEvery = 1
    RecentEvery = 2
    LongEvery = 3
    Threshold = 2
    MaxChainSyncs = 2
INVARIANTS
    DueIsQueued
CHECK_DEADLOCK FALSE
