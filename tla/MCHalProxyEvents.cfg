SPECIFICATION Spec
CONSTANTS
    SubHals = {s1, s2}
    Batches <- BatchesDef
    QueueSize = 1
    MaxPending = 2
    MaxEvents = 4
    MaxAcks = 1
SYMMETRY SubHalSymmetry
INVARIANTS
    QueueInv
    WakeEventsHoldLock
PROPERTY ImplementsChannel
CHECK_DEADLOCK FALSE
