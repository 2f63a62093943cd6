SPECIFICATION FairSpec
CONSTANTS
    t1 = t1
    t2 = t2
    t3 = t3
    Tasks = {t1, t2, t3}
    Hub = Hub
    MaxSizes <- BothSizes
    MaxItems = 3
INVARIANTS
    TypeOK
    WakeUpPending
PROPERTIES
    WaitersMeet
