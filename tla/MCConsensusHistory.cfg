CONSTANTS
    MaxHeight = 3
    MaxRound = 1
    MaxStep = 1
    Power <- MCPower
    Capacity = 1
    MaxBlockHistory = 2
    MaxMessages = 5
    Published <- MCBlocks
    NoSnapshot = NoSnapshot
SPECIFICATION Spec
INVARIANTS
    HistoryNewestFirst
