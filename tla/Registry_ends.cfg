SPECIFICATION FairSpec
CONSTANTS
    c1 = c1
    c2 = c2
    c3 = c3
    in1 = in1
    n1 = n1
    n2 = n2
    a1 = a1
    a2 = a2
    None = None
    Callers = {c1, c2, c3}
    Inbound = {}
    Names = {n1}
    Addresses = {a1, a2}
    Target <- ByName
PROPERTIES
    ConnectEnds
\* Each caller connects once: the system stops when all have.
CHECK_DEADLOCK FALSE
