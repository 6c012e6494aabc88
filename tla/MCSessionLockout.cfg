SPECIFICATION FairSpec
CONSTANTS
    LOCKOUT_TIMED_THRESHOLD = 2
    LOCKOUT_PERMANENT_THRESHOLD = 3
    LOCKOUT_TIMED_DURATION = 1
    MaxFailures = 4
    TimerThreads = {t1, t2}
    MaxSessions = 2
INVARIANTS
    LockoutInv
PROPERTIES
    AttemptsKept
    ThresholdsReported
    TimerClears
CHECK_DEADLOCK FALSE
