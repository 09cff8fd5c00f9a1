CONSTANTS
    Keys <- MCKeys
    Contents <- MCContents
    Nothing = none
    NoRecord = NoRecord
    MaxVersion = 1
    MaxTime = 1
    Owner = o1
    DSeqs = {d1}
    Providers = {p1}
    SDLs = {s1}
    Runs = {r1, r2}
    Nobody = Nobody
    GapThreshold = 1
    Modes = {"now"}
    MaxHeight = 4
    MaxSyncs = 1
    Monitored = {q1, q2, q3}
    MaxConcurrentChecks = 2
    OnlineEvery = 1
    RecentEvery = 2
    LongEvery = 2
    Threshold = 1
    MaxChainSyncs = 1
SPECIFICATION MCSpec
INVARIANTS
    LastSDLKept
    ChecksAddUp
PROPERTIES
    SyncCoversHeight
    NoLeaseOutlivesDeployment
SYMMETRY Symmetry
CHECK_DEADLOCK FALSE
