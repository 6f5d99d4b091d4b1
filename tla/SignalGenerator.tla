-------------------------- MODULE SignalGenerator --------------------------
(***************************************************************************)
(* The composite signal of app/services/signal_generator.py.  Each         *)
(* indicator that could be computed votes 1 (buy), -1 (sell) or 0, with    *)
(* the weight that the strategy gives it; ADX amplifies or dampens the     *)
(* score, and a threshold turns it into a signal.                          *)
(*                                                                         *)
(* Weights are whole per cents and modified scores are in thousandths.     *)
(* The code adds floating-point numbers, so a sum of weights that should   *)
(* equal the threshold may end up on either side of it: 0.2 + 0.1 > 0.3.   *)
(***************************************************************************)
EXTENDS Integers

CONSTANT Weight   \* [Mode -> [Indicator -> Int]]: the *_weight_* settings

Mode == {"trend-following", "mean-reversion", "caution"}
Indicator == {"rsi", "macd", "bollinger", "ema", "obv"}
Adx == {"unknown", "weak", "medium", "strong"}   \* weak: below 20; strong: above 25

BUY == 1
HOLD == 0
SELL == -1
Signal == {BUY, HOLD, SELL}

\* The indicators that could be computed, and what each of them votes.
Indicators ==
    {x \in [known : SUBSET Indicator, vote : [Indicator -> -1..1]] :
        \A i \in Indicator \ x.known : x.vote[i] = 0}

\* TechnicalAnalysisService.compute: what so many rows are enough for; volume says
\* whether the oldest row has one.
Known(rows, volume) ==
    {i \in Indicator :
        rows >= CASE i = "obv" -> 2
                  [] i = "rsi" -> 15
                  [] i = "macd" -> 35
                  [] OTHER -> 20}
    \ (IF volume THEN {} ELSE {"obv"})

Total(f) == f["rsi"] + f["macd"] + f["bollinger"] + f["ema"] + f["obv"]

\* Settings.validate_weights_sum_to_one
ASSUME WeightAssumption ==
    /\ Weight \in [Mode -> [Indicator -> Int]]
    /\ \A m \in Mode : Total(Weight[m]) = 100

\* What the validator does not ask for, and the comments on the settings take as given.
ASSUME WeightsAreShares == \A m \in Mode, i \in Indicator : Weight[m][i] >= 0

\* Mutant: RSI and Bollinger measure the same stretch, so one of them counts.
ScoreOfStretch(m, x) ==
    Total([i \in Indicator |->
              IF i \notin x.known \/ (i = "bollinger" /\ x.vote["rsi"] # 0)
              THEN 0 ELSE Weight[m][i] * x.vote[i]])

Score(m, x) ==
    Total([i \in Indicator |-> IF i \in x.known THEN Weight[m][i] * x.vote[i] ELSE 0])

MaxPossible(m, x) ==
    Total([i \in Indicator |-> IF i \in x.known THEN Weight[m][i] ELSE 0])

\* What the score is multiplied with, in tenths.
Factor(m, adx) ==
    CASE m = "trend-following" /\ adx = "strong" -> 12
      [] m = "trend-following" /\ adx = "weak"   -> 8
      [] m = "mean-reversion"  /\ adx = "weak"   -> 12
      [] m = "mean-reversion"  /\ adx = "strong" -> 8
      [] OTHER -> 10

Modified(m, x, adx) == Factor(m, adx) * Score(m, x)

\* Mutant: caution mode has no threshold of its own.
HoldThresholdOfDefault(m) == 150

HoldThreshold(m) == IF m = "caution" THEN 300 ELSE 150

\* The indicators that take sides, and are listened to.
Voters(m, x) == {i \in x.known : Weight[m][i] # 0 /\ x.vote[i] # 0}

\* Two weights were added, so the sum was rounded.
Rounded(m, x) == \E i, j \in Voters(m, x) : i # j

\* Mutant: selling takes the default threshold in every mode.
SignalsOfOneThreshold(m, x, adx) ==
    LET s == Modified(m, x, adx)
        t == HoldThreshold(m)
    IN  {g \in Signal : /\ g = BUY => s > t \/ (s = t /\ Rounded(m, x))
                        /\ g = HOLD => -150 <= s /\ s <= t
                        /\ g = SELL => s < -150 \/ (s = -150 /\ Rounded(m, x))}

\* The signals the code may give: two, if a rounded score equals the threshold.
\* Without any indicator the score is 0, and the early return is a HOLD as well.
Signals(m, x, adx) ==
    LET s == Modified(m, x, adx)
        t == HoldThreshold(m)
    IN  {g \in Signal : /\ g = BUY => s > t \/ (s = t /\ Rounded(m, x))
                        /\ g = HOLD => -t <= s /\ s <= t
                        /\ g = SELL => s < -t \/ (s = -t /\ Rounded(m, x))}

\* Mutant: the amplified score is not clamped.
ConfidenceUnclamped(m, x, adx, g) ==
    LET s == Modified(m, x, adx)
    IN  [num |-> IF g = HOLD THEN 0 ELSE IF s < 0 THEN -s ELSE s,
         den |-> 10 * MaxPossible(m, x)]

\* The share of the greatest possible score, as a fraction; a HOLD has none.
Confidence(m, x, adx, g) ==
    LET s == Modified(m, x, adx)
        most == 10 * MaxPossible(m, x)
        size == IF s < 0 THEN -s ELSE s
    IN  [num |-> IF g = HOLD THEN 0 ELSE IF size > most THEN most ELSE size, den |-> most]

\* The market turned upside down.
Mirror(x) == [x EXCEPT !.vote = [i \in Indicator |-> -x.vote[i]]]
=============================================================================
