CONSTANTS
    r1 = r1
    r2 = r2
    AAPL = AAPL
    MSFT = MSFT
    BTC = BTC
    btc = btc
    Requests <- MCRequests
    Names <- Stocks
    CacheKey <- StockKey
    RowSymbol <- StockSymbol
    Aware = FALSE
    QuoteAges <- FreshOrOld
    Freshness = 2
    FirstDay <- OldestPartition
    MaxRetries = 2
    QueueMax = 1
    MaxTime = 3
    MaxFetches = 2
    MaxKinds = 1
    Budget <- OneOfEach
SPECIFICATION Spec
SYMMETRY Symmetry
INVARIANTS TypeOK ServedFresh ServedIsStored EventsAreStored FetchesAreCompleted
PROPERTY WorthStays
