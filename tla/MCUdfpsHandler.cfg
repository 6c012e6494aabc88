SPECIFICATION FairSpec
CONSTANTS
    MaxRequestId = 6
    WaitTicks = 3
INVARIANT SafetyInv
PROPERTIES
    FullWait
    RequestResolved
    DestructorReturns
    ImplementsTouch
