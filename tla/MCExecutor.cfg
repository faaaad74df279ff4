CONSTANTS
    Exchanges = {binance, kraken}
    InitialWallet <- MCInitialWallet
    MinPrice = 1
    MaxPrice = 2
    MaxVolumes = {1, 2}
    StalenessThreshold = 1
    MaxTrades = 2
    Horizon = 2
SPECIFICATION Spec
INVARIANTS
    TypeOK
    LedgerReconciles
    DecidedOnFreshQuotes
PROPERTY ImplementsAtomicTrade
