CONSTANTS
    h1 = h1
    h2 = h2
    h3 = h3
    AAPL = AAPL
    Handlers <- TwoHandlers
    Symbols <- OneSymbol
    Quantities <- OnePrice
    Prices <- MCPrices
    MaxBuys = 3
SPECIFICATION Spec
CHECK_DEADLOCK FALSE
INVARIANT BuysAreAdded
