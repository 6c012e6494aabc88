SPECIFICATION Spec
CONSTANTS
    SubHals = {s1}
    Batches <- BatchesDef
    QueueSize = 1
    MaxPending = 1
    MaxEvents = 2
    MaxAcks = 1
INVARIANT AssertWakelockMatches
CHECK_DEADLOCK FALSE
