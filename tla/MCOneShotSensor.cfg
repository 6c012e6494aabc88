SPECIFICATION FairSpec
CONSTANTS
    MaxActivations = 3
    MaxPipe = 3
INVARIANT OneShot
PROPERTIES
    PollInterrupted
    ChangeSeen
    DestructorReturns
CHECK_DEADLOCK FALSE
