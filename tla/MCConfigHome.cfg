CONSTANTS
    p1 = p1
    p2 = p2
    c1 = c1
    c2 = c2
    n1 = n1
    n2 = n2
    n3 = n3
    default = default
    Procs = {p1, p2}
    Contexts = {c1, c2}
    Networks = {n1, n2, n3}
    Keyrings = {default}
    DefaultKeyring = default
    Fork <- MCFork
    SameName <- MCSameName
    None = None
    MaxCommands = 2
SPECIFICATION Spec
INVARIANTS
    ConfigClosed
    DataKept
PROPERTIES
    ForkIsolates
    WatcherConverges
CHECK_DEADLOCK FALSE
