SPECIFICATION FairSpec
CONSTANTS
    MaxActivations = 2
    MaxPipe = 6
    QueueSize = 1
    MaxPending = 1
    MaxInits = 2
INVARIANTS
    RestartInv
PROPERTIES
    StopReturns
    CountDropped
    PendingDrained
CHECK_DEADLOCK FALSE
