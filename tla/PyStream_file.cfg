SPECIFICATION FairSpec
CONSTANTS
    MaxSize = 3
    BLOCK_SIZE = 2
INVARIANTS
    TypeOK
    ReceivedIsFile
    ConfirmedIsReceived
PROPERTIES
    SenderEnds
    ReceiverEnds
\* One stream: the system stops when it has ended.
CHECK_DEADLOCK FALSE
