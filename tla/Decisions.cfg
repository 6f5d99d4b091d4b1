\* The default weights and thresholds of config.py, and the windows of the detector.
CONSTANTS
    A = A
    B = B
    C = C
    D = D
    Weight <- DefaultWeight
    Grain = 10
    Unit = 8
    DrawdownPercent = 20
    ConcentrationPercent = 40
    Z_SCORE_LOOKBACK = 20
    FAST_MA_WINDOW = 5
    Rows <- EveryRows
    Histories <- EveryHistory
    Holdings <- EveryHolding
    Prices <- EveryWindow
SPECIFICATION Spec
INVARIANTS
    TypeOK
    MirrorMarket
    VotesCountForThemselves
    CautionNeedsCompany
    DrawdownIsSeen
    FewAreConcentrated
    StretchVotesAgree
    MovesWearOff
