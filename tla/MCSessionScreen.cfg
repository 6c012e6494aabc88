SPECIFICATION Spec
CONSTANTS
    Users = {u1, u2}
    Fingers = {f1, f2}
    Nobody = Nobody
    MaxSessions = 2
    MaxListed = 2
SYMMETRY UserAndFingerSymmetry
INVARIANTS
    ScreenInv
    PanelFollowsOperation
    EnumerationExact
    Answered
CHECK_DEADLOCK FALSE
