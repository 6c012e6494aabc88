SPECIFICATION VibratorSpec
CONSTANTS
    Durations = {0, 1, 3, 5}
    Thousand = 2
    Width = 3
    MaxVibrations = 3
INVARIANT VibratorInv
PROPERTY AllCompleted
CHECK_DEADLOCK FALSE
