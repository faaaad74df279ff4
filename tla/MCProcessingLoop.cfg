CONSTANTS
    Kinds <- MCKinds
    RealisedPcts <- MCRealisedPcts
    Mins <- MCMins
    Thresholds <- MCThresholds
    LossNs <- MCLossNs
    Intervals <- MCIntervals
    MaxPositions <- MCMaxPositions
    Patches <- MCPatches
    MaxPositionUSDT = 1
    PauseDuration = 2
    TTL = 1
    MaxOpps = 3
    MaxPatches = 1
    Horizon = 3
    Nothing = Nothing
SPECIFICATION Spec
INVARIANTS
    OneTradePerExecuted
    EventsFollowTrades
    BreakerConfigLive
PROPERTY NoTradeInsidePause
