CONSTANTS
    NetPcts <- MCNetPcts
    Positions <- MCPositions
    MaxPositionUSDT = 1
    LossNs <- MCLossNs
    PauseDuration = 2
    Horizon = 5
SPECIFICATION FairSpec
INVARIANTS
    TypeOK
    NoApprovalInsidePause
    StateTellsCount
PROPERTIES
    PauseServedOnce
    ImplementsBreaker
    PauseEnds
