SPECIFICATION FairSpec
CONSTANTS
    n1 = n1
    p1 = p1
    q1 = q1
    Main = Main
    Nobody = Nobody
    NoPacket = NoPacket
    Subs = {n1}
    Senders = {p1}
    Receivers = {q1}
    Maker <- OneSub
    At <- TaskAt
    On <- TaskOn
    MaxPackets <- Bounds
    High = 2
    Low = 1
INVARIANTS
    TypeOK
    NothingLost
    StoppedHasReason
    QueuedHasPacket
PROPERTIES
    ReceiversReleased
    StoppedSendersGoOn
    SubsCloseTogether
\* The application may stop sending and receiving.
CHECK_DEADLOCK FALSE
