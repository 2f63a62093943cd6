SPECIFICATION FairSpec
CONSTANTS
    c1 = c1
    c2 = c2
    c3 = c3
    i1 = i1
    n1 = n1
    n2 = n2
    s1 = s1
    Callers = {c1, c2, c3}
    Inbound = {i1}
    Names = {n1, n2}
    Servers = {s1}
    Asks <- Asked
    None = None
    Shutdown = Shutdown
INVARIANTS
    TypeOK
    RegisteredIsRun
    DialsAreAnnounced
PROPERTIES
    OnlyBrokenLeave
    ConnectEnds
    BrokenLeave
\* Each caller connects once: the system stops when all have.
CHECK_DEADLOCK FALSE
