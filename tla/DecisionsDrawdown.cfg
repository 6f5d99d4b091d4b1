\* As Decisions.cfg, for the index the docstring of _max_drawdown speaks of.
CONSTANTS
    A = A
    B = B
    C = C
    D = D
    Weight <- DefaultWeight
    Grain = 10
    Unit = 8
    DrawdownPercent = 20
    ConcentrationPercent = 40
    Z_SCORE_LOOKBACK = 20
    FAST_MA_WINDOW = 5
    Rows <- EveryRows
    Histories <- EveryHistory
    Holdings <- EveryHolding
    Prices <- EveryWindow
SPECIFICATION Spec
INVARIANT DrawdownFromStart
