SPECIFICATION FairSpec
CONSTANTS
    c1 = c1
    c2 = c2
    c3 = c3
    NoCall = NoCall
    NoReply = NoReply
    EmptyReply = EmptyReply
    Calls = {c1, c2, c3}
    Caller <- TwoWay
    Inside <- Chain
    Interruptible = {c1}
    ParamStream = {}
    ResultStream = {}
PROPERTIES
    ImplementsRpcCall
    EveryCallSettles
    BrokenReleasesCallers
    ShutdownSpreads
\* The calls are finitely many: the system stops when they have ended.
CHECK_DEADLOCK FALSE
