SPECIFICATION ChargingFairSpec
CONSTANTS
    Threads = {l1, l2}
    Supplies <- SuppliesDef
    Memory = {9000, 12345}
PROPERTIES
    RoundsAreProper
    LimitSettles
    ThreadsEnd
CHECK_DEADLOCK FALSE
