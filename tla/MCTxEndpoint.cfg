CONSTANT
    MaxBroadcasts = 1
SPECIFICATION Spec
INVARIANTS
    NoLeafUsesDefault
CHECK_DEADLOCK FALSE
