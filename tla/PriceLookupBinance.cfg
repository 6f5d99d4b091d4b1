CONSTANTS
    r1 = r1
    r2 = r2
    AAPL = AAPL
    MSFT = MSFT
    BTC = BTC
    btc = btc
    Requests <- MCRequests
    Names <- Coins
    CacheKey <- CoinKey
    RowSymbol <- CoinSymbol
    Aware = TRUE
    QuoteAges <- Current
    Freshness = 1
    FirstDay <- OldestPartition
    MaxRetries = 2
    QueueMax = 1
    MaxTime = 1
    MaxFetches = 2
    MaxKinds = 0
    Budget <- NoFaults
SPECIFICATION Spec
INVARIANT CacheReadReturns
