CONSTANTS
    binance = binance
    kraken = kraken
    Exchanges = {binance, kraken}
    Venues = {binance, kraken}
    Markets = {binance, kraken}
    WindowSize = 2
    KellyMinSamples = 2
    KellyCap <- MCKellyCap
    CorrWindowN = 2
    Scale = 60
    Coeff = 1
    Weight = 6
    Settings <- MCSettings
    MaxSets = 1
    Rates <- MCRates
    Threshold = 1
    FundingCooldown = 2
    NoRate = NoRate
    FairPrices <- MCFairPrices
    CycleFee = 3
    RefreshEvery = 2
    CycleCooldown = 2
    Unseeded = Unseeded
    Quotes <- MCQuotes
    Returns <- MCReturns
    EnabledSets <- SpatialOnly
    MaxNow = 2
    MaxUpdates = 4
    MaxTrades = 2
    Unknown = Unknown
SPECIFICATION Spec
INVARIANT WarmPairsCapped
CHECK_DEADLOCK FALSE
