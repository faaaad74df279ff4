CONSTANTS
    Kinds <- DefaultKinds
    RealisedPcts <- MCRealisedPcts
    Mins <- MCMins
    Thresholds <- DefaultThresholds
    LossNs <- MCLossNs
    Intervals <- MCIntervals
    MaxPositions <- MCMaxPositions
    Patches = {}
    MaxPositionUSDT = 1
    PauseDuration = 2
    TTL = 1
    MaxOpps = 2
    MaxPatches = 0
    Horizon = 2
    Nothing = Nothing
SPECIFICATION Spec
INVARIANT LossesTripBreaker
