SPECIFICATION Spec
CONSTANTS
    c1 = c1
    c2 = c2
    c3 = c3
    NoCall = NoCall
    NoReply = NoReply
    EmptyReply = EmptyReply
    Calls = {c1, c2}
    Caller <- Crossing
    Inside <- Callback
    Interruptible = {c1, c2}
    ParamStream = {c1}
    ResultStream = {c1, c2}
INVARIANTS
    TypeOK
    CallersReachable
    WaitersAreCalls
    StreamsAreClaimable
\* The calls are finitely many: the system stops when they have ended.
CHECK_DEADLOCK FALSE
