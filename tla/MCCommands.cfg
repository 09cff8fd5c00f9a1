CONSTANTS
    MaxBroadcasts = 2
    MaxRetries = 3
    MaxEdits = 2
    Monitored = {p1, p2}
    MaxConcurrentChecks = 1
    OnlineEvery = 1
    RecentEvery = 2
    LongEvery = 3
    Threshold = 2
    MaxChainSyncs = 2

SPECIFICATION MCSpec

INVARIANTS
    AsksAsSelected
    KeyringWhenNeeded
    EffectsAccounted
    DoneOnce
    RecordIsTrue
PROPERTIES
    ConcurrentEditKept
    EndsRecorded
    KnownIsChecked
CHECK_DEADLOCK FALSE
