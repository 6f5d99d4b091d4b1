CONSTANTS
    ma = ma
    e1 = e1
    e2 = e2
    e3 = e3
    finnhub = finnhub
    binance = binance
    Consumers <- MCConsumers
    Ids <- MCIds
    Ma = ma
    Window = 2
    Stamp <- MCStamp
    Provider <- MCProvider
    MaxLog = 3
    MaxRetries = 2
    MaxKinds = 1
    Budget <- MCBudget
SPECIFICATION FairMaSpec
INVARIANTS OneAveragePerTimestamp ProcessedIsAveraged
PROPERTIES ShutdownAnswered ReadsToTheEnd
