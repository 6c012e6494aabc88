SPECIFICATION FairSpec
CONSTANTS
    Apps = {a1}
    NoApp = NoApp
    Supported = TRUE
    Stored <- TEMP_DEFAULT
    Readings <- ReadingsDef
    MaxQueued = 2
    MaxWriteErrors = 1
INVARIANTS
    ThrottleHasReason
    NoCapLeft
    MonitorInv
PROPERTIES
    ThrottleReleased
    CapsEnforced
CHECK_DEADLOCK FALSE
