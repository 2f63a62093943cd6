SPECIFICATION FairSpec
CONSTANTS
    c1 = c1
    c2 = c2
    NoCall = NoCall
    NoReply = NoReply
    Disconnected = Disconnected
    Calls = {c1, c2}
    Caller <- Pair
    Inside <- Nested
INVARIANTS
    TypeOK
    WaitingIsReachable
PROPERTIES
    ImplementsRpcCall
    LostConnectionReleases
\* The calls are finitely many, and shutdown() may block for ever.
CHECK_DEADLOCK FALSE
