CONSTANTS
    r1 = r1
    r2 = r2
    binance = binance
    Requests = {r1, r2}
    Exchanges = {binance}
    Strategies = {spatial}
    TradeProfits <- MCProfits
    MaxTs = 2
    MaxFrames = 2
    MaxTrades = 2
    MaxSeconds = 2
    MaxRestarts = 1
    SecondsPerYear = 100
    Earlier <- MCEarlier
    Together <- MCTogether
    EmptyID = EmptyID
    Nothing = Nothing
SPECIFICATION FairSpec
INVARIANTS
    TypeOK
    StatusTellsTruth
    WindowReplayed
    MetricsMatch
    LedgerAfterRestart
PROPERTIES
    AcceptedRunIsStored
    LoopNotHeld
\* Requests and restarts are bounded, and without a loop nothing else goes on.
CHECK_DEADLOCK FALSE
