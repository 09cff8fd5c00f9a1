CONSTANTS
    Steps <- MCSteps
    MaxUpdates = 1
    MaxStarts = 2
    Keys <- MCKeys
    Contents <- MCContents
    Nothing = none
    NoRecord = NoRecord
    MaxVersion = 1
    MaxTime = 1
    Owner = o1
    DSeqs = {d1}
    Providers = {p1}
    SDLs = {s1}
    Runs = {r1, r2}
    Nobody = Nobody
    GapThreshold = 1
    Modes = {"now"}
    MaxHeight = 1
    MaxSyncs = 1
    Hosts = {h1, h2}
    NoHost = NoHost
    MaxRequests = 2
SPECIFICATION MCSpec
INVARIANTS
    RunFollowsSteps
    CancellationStops
    StoreFollowsChain
    DetailIsCurrent
    CleanShutdown
PROPERTIES
    NeverBack
    PartsProgress
CHECK_DEADLOCK FALSE
