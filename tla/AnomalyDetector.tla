--------------------------- MODULE AnomalyDetector ---------------------------
(***************************************************************************)
(* The two detectors of app/services/anomaly_detector.py, on the newest    *)
(* prices of a symbol.  Mean and deviation are multiplied out, so that     *)
(* whole prices stay whole; a floating-point ratio that should equal a     *)
(* threshold may end up on either side of it.                              *)
(***************************************************************************)
EXTENDS Integers, Sequences, FiniteSetsExt

CONSTANTS
    Z_SCORE_LOOKBACK,   \* both the window of the z-score and the slow average
    FAST_MA_WINDOW

ASSUME WindowAssumption ==
    /\ Z_SCORE_LOOKBACK \in Nat \ {0}
    /\ FAST_MA_WINDOW \in 1..Z_SCORE_LOOKBACK

Severity == {"low", "medium", "high"}
AnomalyType == {"zscore_spike", "zscore_drop", "ma_crossover"}
Finding == [type : AnomalyType, severity : Severity]

SumOf(prices, n) == MapThenSumSet(LAMBDA k : prices[k], 1..n)
SumOfSquares(prices, n) == MapThenSumSet(LAMBDA k : prices[k] * prices[k], 1..n)

\* The newest price less the mean, and the variance: times n, and times n * n.
Deviation(prices, n) == n * prices[1] - SumOf(prices, n)
Variance(prices, n) == n * SumOfSquares(prices, n) - SumOf(prices, n) * SumOf(prices, n)

\* |z| from 3 is medium, and from 4 it is high.
Severities(prices, n) ==
    LET d == Deviation(prices, n)
        v == Variance(prices, n)
    IN  {s \in {"medium", "high"} :
            /\ d * d >= 9 * v
            /\ s = "medium" => d * d <= 16 * v
            /\ s = "high" => d * d >= 16 * v}

\* Mutant: the price is compared with the ones before it.
ZScoreOfOthers(prices) ==
    LET n == Z_SCORE_LOOKBACK - 1
        others == Tail(prices)
        d == n * prices[1] - SumOf(others, n)
    IN  IF Len(prices) < Z_SCORE_LOOKBACK \/ Variance(others, n) = 0 THEN {{}}
        ELSE IF d * d >= 9 * Variance(others, n)
        THEN {{[type |-> IF d > 0 THEN "zscore_spike" ELSE "zscore_drop",
                severity |-> IF d * d >= 16 * Variance(others, n) THEN "high" ELSE "medium"]}}
        ELSE {{}}

\* _check_zscore: what it may find.  |z| = 3 may be nothing.
ZScore(prices) ==
    LET n == Z_SCORE_LOOKBACK
        d == Deviation(prices, n)
        type == IF d > 0 THEN "zscore_spike" ELSE "zscore_drop"
    IN  IF Len(prices) < n \/ Variance(prices, n) = 0 THEN {{}}
        ELSE {{[type |-> type, severity |-> s]} : s \in Severities(prices, n)}
             \cup (IF d * d <= 9 * Variance(prices, n) THEN {{}} ELSE {})

\* _check_ma_crossover: the fast average is more than 0.5% away from the slow one.
Crossover(prices) ==
    LET fast == Z_SCORE_LOOKBACK * SumOf(prices, FAST_MA_WINDOW)
        slow == FAST_MA_WINDOW * SumOf(prices, Z_SCORE_LOOKBACK)
        apart == 200 * (IF fast > slow THEN fast - slow ELSE slow - fast)
        found == {[type |-> "ma_crossover", severity |-> "low"]}
    IN  IF Len(prices) < Z_SCORE_LOOKBACK \/ slow = 0 THEN {{}}
        ELSE {fs \in {{}, found} : /\ fs = {} => apart <= slow
                                   /\ fs = found => apart >= slow}

\* detect_and_store: the alerts of both, newest price first.
Findings(prices) == {z \cup c : z \in ZScore(prices), c \in Crossover(prices)}
==============================================================================
