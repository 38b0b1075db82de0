SPECIFICATION FairSpec
CONSTANTS
    t1 = t1
    t2 = t2
    Thread <- MCThread
    Turn <- MCOneThread
    Kind <- MCKind
    Size <- MCSize
    Durability <- MCDurability
    MaxBytes = 4
    MaxEvents = 2
    MaxLives = 2
    MaxFaults = 1
INVARIANTS
    TypeOK
    
    LogIsHistory
    CapHolds
    CloseIsBarrier
PROPERTIES
    WaitsEnd
CHECK_DEADLOCK FALSE
