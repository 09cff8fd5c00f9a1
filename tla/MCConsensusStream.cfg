CONSTANTS
    MaxHeight = 3
    MaxRound = 1
    MaxStep = 1
    Power <- MCPower
    Capacity = 1
    MaxBlockHistory = 2
    MaxMessages = 4
    Published <- MCPublished
    NoSnapshot = NoSnapshot
SPECIFICATION Spec
INVARIANTS
    VotesExact
PROPERTIES
    TrackerNeverRewinds
    HistoryKeepsVotes
    CancellationDrains
    Resubscribes
