CONSTANTS
    IntWidth = 12
    Second = 10
    MaxDelay = 600
    ChCap = 1
    OutCap = 1
    MaxQuotes = 1
    MaxFrames = 1
    MaxAttempts = 9
    Together <- One
    Nothing = Nothing
SPECIFICATION Spec
INVARIANT BackoffSparesOthers
CHECK_DEADLOCK FALSE
