CONSTANTS
    o1 = o1
    p1 = p1
    c0 = c0
    c1 = c1
    Nothing = c0
    NoRecord = NoRecord
    NoSync = NoSync
    MaxVersion = 2
    MaxTime = 2
    Contents = {c0, c1}
    SyncStates = {1}
    Keys <- MCKeys
    Inputs <- MCInputs
    Envelopes <- MCEnvelopes
    Commands = {w1, w2}
    Readers = {u1}
    MaxRotated = 2
    MaxSize = 1
SPECIFICATION MCSpec
INVARIANTS
    RowsAreTrue
    ReadIsFaithful
PROPERTIES
    ImportAllOrNothing
    RestoreIsExact
    RevisionsAdvance
    CloseIsAtomic
SYMMETRY Symmetry
CHECK_DEADLOCK FALSE
