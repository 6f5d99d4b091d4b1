CONSTANTS
    h1 = h1
    h2 = h2
    h3 = h3
    AAPL = AAPL
    Handlers <- MCHandlers
    Symbols <- OneSymbol
    Quantities <- MCQuantities
    Prices <- MCPrices
    MaxBuys = 3
SPECIFICATION Spec
SYMMETRY Symmetry
INVARIANTS TypeOK SerialBooksBalance WithinWhatWasBought NoOrphans
PROPERTY ClosedStaysClosed
CHECK_DEADLOCK FALSE
