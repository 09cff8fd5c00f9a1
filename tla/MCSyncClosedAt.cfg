CONSTANTS
    Keys <- MCKeys
    Contents <- MCContents
    Nothing = none
    NoRecord = NoRecord
    MaxVersion = 1
    MaxTime = 1
    Owner = o1
    DSeqs = {d1}
    Providers = {p1}
    SDLs = {s1}
    Runs = {r1, r2}
    Nobody = Nobody
    GapThreshold = 1
    Modes = {"now"}
    MaxHeight = 3
    MaxSyncs = 2
SPECIFICATION Spec
INVARIANTS
    ClosedAtOnlyWhenClosed
CHECK_DEADLOCK FALSE
