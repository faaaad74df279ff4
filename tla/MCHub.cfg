CONSTANTS
    Clients = {c1}
    Exchanges = {binance, kraken}
    PublishCap = 1
    RegisterCap = 1
    SendCap = 2
    MaxPrices = 2
    MaxChanges = 2
    MaxTrades = 2
    Nothing = Nothing
SPECIFICATION FairSpec
INVARIANTS
    TypeOK
    NeverClosedTwice
    TradesComplete
PROPERTIES
    GoneClientsLeave
    PricesConverge
