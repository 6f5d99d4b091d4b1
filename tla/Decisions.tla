----------------------------- MODULE Decisions -----------------------------
(***************************************************************************)
(* The three places where the system makes up its mind about a market: the *)
(* signal of GET /signals/{symbol}, the breaches of GET /portfolios/{id}/  *)
(* risk, and the findings of the anomaly consumer.  Each takes what it     *)
(* reads as it is, decides, and keeps nothing for the next decision; what  *)
(* becomes of the alerts is the module Alerts.                             *)
(***************************************************************************)
EXTENDS TechnicalAnalysis, RiskEngine, AnomalyDetector

CONSTANTS
    Rows,      \* how many price points there may be
    Histories, \* the prices that may be recorded of a symbol, newest first
    Holdings,  \* what the risk engine may read: positions and returns
    Prices     \* what the anomaly detector may read, newest first

\* Values are products of quantities, which the schema wants positive, and prices of
\* which logarithms are taken; and what is analysed has MIN_PERIODS prices, so returns.
ASSUME HoldingsAssumption ==
    \A h \in Holdings : Analysed(h.positions) # {} =>
        /\ h.positions \in Seq(Range(h.positions))
        /\ \A n \in DOMAIN h.positions : h.positions[n].value \in Nat \ {0}
        /\ h.returns \in Seq(Int \ {-Unit}) \ {<<>>}

\* Whole prices, in any unit: the detector compares them as they are, and what the
\* indicators round them to depends on Grain.
ASSUME PricesAssumption == Prices \subseteq Seq(Int) /\ Histories \subseteq Seq(Int)

VARIABLES
    asked,   \* what the current decision was made from
    answer   \* and what it is

vars == <<asked, answer>>

Nothing == [kind |-> "nothing"]

Init ==
    /\ asked = Nothing
    /\ answer = Nothing

\* ADX takes highs and lows, and 15 rows.
AdxOf(rows, range) == IF range /\ rows >= 15 THEN Adx \ {"unknown"} ELSE {"unknown"}

Votes(known) == {x \in Indicators : x.known = known}

GetSignal(m, rows, volume, range) ==
    \E x \in Votes(Known(rows, volume)), adx \in AdxOf(rows, range) :
        /\ asked' = [kind |-> "signal", mode |-> m, adx |-> adx, x |-> x]
        /\ \E g \in Signals(m, x, adx) :
              answer' = [kind |-> "signal", signal |-> g,
                         confidence |-> Confidence(m, x, adx, g)]

\* get_indicators: the indicators are computed from one query, and the newest price is
\* another one; a price may have been recorded in between.
GetIndicators(m, rows, price, volume, range) ==
    \E x \in VotesOn(rows, price, volume), adx \in AdxOf(Len(rows), range) :
        /\ asked' = [kind |-> "indicators", mode |-> m, rows |-> rows, price |-> price,
                     vote |-> x.vote]
        /\ \E g \in Signals(m, x, adx) :
              answer' = [kind |-> "indicators", signal |-> g,
                         confidence |-> Confidence(m, x, adx, g)]

\* 404: nothing was recorded of the symbol.
GetSignalOfUnknown ==
    /\ asked' = [kind |-> "unknown"]
    /\ answer' = [kind |-> "not found"]

\* No position, or none with enough history: a warning instead of measures.
WarnOfHoldings(h) ==
    /\ Analysed(h.positions) = {}
    /\ asked' = [kind |-> "risk", positions |-> h.positions, returns |-> h.returns]
    /\ answer' = [kind |-> "warning"]

AnalyseHoldings(h) ==
    /\ Analysed(h.positions) # {}
    /\ asked' = [kind |-> "risk", positions |-> h.positions, returns |-> h.returns]
    /\ \E bs \in Breaches(h.positions, h.returns) :
          answer' = [kind |-> "risk", breaches |-> bs]

DetectAnomalies(prices) ==
    /\ asked' = [kind |-> "anomaly", prices |-> prices]
    /\ \E fs \in Findings(prices) : answer' = [kind |-> "anomaly", findings |-> fs]

\* Nothing is kept: the next decision starts from what it reads.
Forget ==
    /\ asked # Nothing
    /\ asked' = Nothing
    /\ answer' = Nothing

Decide ==
    \/ GetSignalOfUnknown
    \/ \E m \in Mode, rows \in Rows, volume, range \in BOOLEAN :
          GetSignal(m, rows, volume, range)
    \/ \E m \in Mode, rows \in Histories, volume, range \in BOOLEAN :
          \E price \in {later[1] : later \in Histories} :
              GetIndicators(m, rows, price, volume, range)
    \/ \E h \in Holdings : WarnOfHoldings(h) \/ AnalyseHoldings(h)
    \/ \E prices \in Prices : DetectAnomalies(prices)

Next == \/ asked = Nothing /\ Decide
        \/ Forget

Spec == Init /\ [][Next]_vars

(***************************************************************************)
(* Signals.                                                                *)
(***************************************************************************)
Share == {c \in [num : Nat, den : Nat] : c.num <= c.den}

\* Every answer is one that its question can have (SignalResult, RiskResult, and
\* the alerts of detect_and_store); a confidence is a share, also when the score was
\* amplified.
TypeOK ==
    \/ asked.kind = "nothing" /\ answer = Nothing
    \/ asked.kind = "unknown" /\ answer = [kind |-> "not found"]
    \/ /\ asked.kind = "signal"
       /\ asked \in [kind : {"signal"}, mode : Mode, adx : Adx, x : Indicators]
       /\ answer \in [kind : {"signal"}, signal : Signal, confidence : Share]
    \/ /\ asked.kind = "indicators"
       /\ answer \in [kind : {"indicators"}, signal : Signal, confidence : Share]
    \/ /\ asked.kind = "risk"
       /\ answer \in [kind : {"warning"}] \cup [kind : {"risk"}, breaches : SUBSET Breach]
    \/ asked.kind = "anomaly" /\ answer \in [kind : {"anomaly"}, findings : SUBSET Finding]

SignalsOf(x) == Signals(asked.mode, x, asked.adx)

\* A market turned upside down gets the opposite signal, in every mode and under
\* every ADX: generate has no bias to one side (signal_generator.py:126-225).
MirrorMarket ==
    asked.kind = "signal" => SignalsOf(Mirror(asked.x)) = {-g : g \in SignalsOf(asked.x)}

\* No vote counts against itself: if one indicator turns more bullish, and the rest
\* stays as it is, neither the least nor the greatest signal the code may give falls.
VotesCountForThemselves ==
    asked.kind = "signal" =>
        \A i \in asked.x.known, v \in -1..1 :
            v > asked.x.vote[i] =>
                LET raised == [asked.x EXCEPT !.vote[i] = v]
                IN  /\ \A a \in SignalsOf(asked.x) : \E b \in SignalsOf(raised) : a <= b
                    /\ \A b \in SignalsOf(raised) : \E a \in SignalsOf(asked.x) : a <= b

\* In caution mode no single indicator dominates (config.py:51-53): a signal has the
\* votes of at least two indicators.
CautionNeedsCompany ==
    (asked.kind = "signal" /\ asked.mode = "caution" /\ answer.signal # HOLD) =>
        \E i, j \in asked.x.known :
            /\ i # j
            /\ asked.x.vote[i] = answer.signal
            /\ asked.x.vote[j] = answer.signal

\* Prices of no more than three decimals, such as cents.
Coarse(rows) == \A n \in DOMAIN rows : rows[n] % (10 * Grain) = 0

\* RSI and the bands measure the same stretch, and carry seven tenths of the weight of
\* mean-reversion.  Over twenty closes of a market that is quoted with three decimals they
\* never take opposite sides, except of a market that did not move, which is overbought to
\* the one and at the lower band to the other; so that nothing is signalled of a market that
\* never moved.  Finer prices are lost in the rounding of the bands and of the EMA to four
\* decimals (technical_analysis.py:81, 198-203): then the votes may split.  This is of the
\* price the indicators end with: one recorded before the second query may split them too.
StretchVotesAgree ==
    (/\ asked.kind = "indicators"
     /\ Len(asked.rows) >= BOLLINGER_PERIOD
     /\ Coarse(asked.rows)
     /\ asked.price = asked.rows[1]) =>
        LET rsi == asked.vote["rsi"]
            bollinger == asked.vote["bollinger"]
        IN  /\ IF Flat(SubSeq(asked.rows, 1, BOLLINGER_PERIOD))
               THEN rsi = SELL /\ bollinger = BUY
               ELSE rsi = HOLD \/ bollinger = HOLD \/ rsi = bollinger
            /\ Flat(asked.rows) => answer.signal = HOLD

(***************************************************************************)
(* Risk.                                                                   *)
(***************************************************************************)
\* All falls from an earlier value, or from none, to a later one, of a portfolio that
\* was worth something.
Falls(index) ==
    UNION {{[left |-> index[j], peak |-> index[i]] : i \in {i \in 1..j : index[i] > 0}} :
              j \in DOMAIN index}

Exceeds(f) == 100 * (f.peak - f.left) > DrawdownPercent * f.peak
Reaches(f) == 100 * (f.peak - f.left) >= DrawdownPercent * f.peak

\* A drawdown is reported if the portfolio fell by more than the threshold between
\* any two of its days, and only if it fell by as much: one pass with a running
\* maximum is enough (risk_engine.py:239-243, 303), also where a day that took more
\* than everything has turned the index negative.
DrawdownIsSeen ==
    answer.kind = "risk" =>
        LET falls == Falls(Index(asked.returns))
        IN  /\ (\E f \in falls : Exceeds(f)) => "drawdown_breach" \in answer.breaches
            /\ "drawdown_breach" \in answer.breaches => \E f \in falls : Reaches(f)

\* The docstring of _max_drawdown (risk_engine.py:231-232): the index of which the
\* worst fall is taken starts at 1.0, before the first return.
DrawdownFromStart ==
    answer.kind = "risk" =>
        LET index == Index(asked.returns)
        IN  (\E f \in Falls(<<Scale(Len(index))>> \o index) : Exceeds(f))
                => "drawdown_breach" \in answer.breaches

\* The risk engine cannot miss a portfolio of too few symbols: if they cannot all
\* stay within the threshold, it reports a concentration, whatever history the other
\* positions lack (risk_engine.py:76-103, 318-335).  A second position of a symbol
\* replaces the weight of the first, which may hide a concentration and never makes one:
\* what is reported reaches the threshold as a share of what was analysed.
FewAreConcentrated ==
    answer.kind = "risk" =>
        LET analysed == {n \in DOMAIN asked.positions : asked.positions[n].enough}
            few == ConcentrationPercent * Cardinality(analysed) < 100
            distinct == \A m, n \in analysed :
                asked.positions[m].symbol = asked.positions[n].symbol => m = n
            Value(S) == MapThenSumSet(LAMBDA n : asked.positions[n].value, S)
            Of(n) == {m \in analysed : asked.positions[m].symbol = asked.positions[n].symbol}
        IN  /\ few /\ distinct => "concentration_breach" \in answer.breaches
            /\ "concentration_breach" \in answer.breaches =>
                   \E n \in analysed : 100 * Value(Of(n)) >= ConcentrationPercent * Value(analysed)

(***************************************************************************)
(* Anomalies.                                                              *)
(***************************************************************************)
ZFindings == {f \in answer.findings : f.type # "ma_crossover"}

\* The window holds the price that is tested, so a move announces itself and wears off:
\* off a flat line it is of high severity, in its own direction, however small it is;
\* the second time its price is in the window it is of medium severity at most, and the
\* third time it is nothing, however far it is from the rest (anomaly_detector.py:88-102).
MovesWearOff ==
    (asked.kind = "anomaly" /\ Len(asked.prices) >= Z_SCORE_LOOKBACK) =>
        LET new == asked.prices[1]
            old == asked.prices[2]
            times == Cardinality({n \in 1..Z_SCORE_LOOKBACK : asked.prices[n] = new})
            flat == \A n \in 2..Z_SCORE_LOOKBACK : asked.prices[n] = old
        IN  /\ flat /\ new # old =>
                   ZFindings = {[type |-> IF new > old THEN "zscore_spike" ELSE "zscore_drop",
                                 severity |-> "high"]}
            /\ times >= 2 => \A f \in ZFindings : f.severity = "medium"
            /\ times >= 3 => ZFindings = {}
=============================================================================
