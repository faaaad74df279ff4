CONSTANTS
    IntWidth = 12
    Second = 10
    MaxDelay = 600
    ChCap = 2
    OutCap = 1
    MaxQuotes = 3
    MaxFrames = 3
    MaxAttempts = 1
    Together <- MCTogether
    Nothing = Nothing
SPECIFICATION FairSpec
INVARIANTS
    TypeOK
    SnapshotCoversUpdate
    ClashOnlyAtTwo
PROPERTIES
    NeverOlder
    AcceptedIsStored
\* A panic ends the process, and connectors stop at MaxAttempts.
CHECK_DEADLOCK FALSE
