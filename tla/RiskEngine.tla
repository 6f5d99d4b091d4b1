----------------------------- MODULE RiskEngine -----------------------------
(***************************************************************************)
(* What app/services/risk_engine.py makes of the active positions of a     *)
(* portfolio and of its returns: weights, the maximum drawdown, and the    *)
(* names of the thresholds that are breached.                              *)
(*                                                                         *)
(* A position is its symbol, its value at the newest price, and whether    *)
(* there is enough history for it.  The returns are those of the whole     *)
(* portfolio, in Units; log returns are added to 1 as they are, so one     *)
(* below -Unit turns the index negative.  None is -Unit itself, where the  *)
(* code would divide by zero.  VaR and volatility are statistics of numpy, *)
(* and whether they exceed their thresholds is left open.                  *)
(***************************************************************************)
EXTENDS Integers, Sequences, FiniteSetsExt

CONSTANTS
    Unit,             \* a return of -Unit is the loss of everything
    DrawdownPercent,  \* settings.risk_drawdown_threshold, without its sign
    ConcentrationPercent  \* settings.risk_concentration_threshold

ASSUME RiskAssumption ==
    /\ Unit \in Nat \ {0}
    /\ DrawdownPercent \in Nat
    /\ ConcentrationPercent \in Nat

Breach == {"var_breach", "drawdown_breach", "concentration_breach", "volatility_breach"}

\* Mutant: nobody looks at the length of the history.
AnalysedAll(ps) == DOMAIN ps

\* Positions without MIN_PERIODS prices are left out.
Analysed(ps) == {n \in DOMAIN ps : ps[n].enough}

TotalValue(ps) == MapThenSumSet(LAMBDA n : ps[n].value, Analysed(ps))

\* weights[symbol]: a second position of the symbol replaces the first.
Weighed(ps) ==
    {n \in Analysed(ps) : \A m \in Analysed(ps) : ps[m].symbol = ps[n].symbol => m <= n}

Concentrated(ps) ==
    \E n \in Weighed(ps) : 100 * ps[n].value > ConcentrationPercent * TotalValue(ps)
ConcentratedOrEqual(ps) ==
    \E n \in Weighed(ps) : 100 * ps[n].value >= ConcentrationPercent * TotalValue(ps)

\* Unit^n, which the provers do not know.
Scale(n) ==
    LET power[k \in 0..n] == IF k = 0 THEN 1 ELSE Unit * power[k - 1]
    IN  power[n]

\* cumulative: the value of the portfolio after n returns, times Unit^Len(rets).
Index(rets) ==
    LET value[n \in 0..Len(rets)] ==
            IF n = 0 THEN Scale(Len(rets))
            ELSE (value[n - 1] * (Unit + rets[n])) \div Unit
    IN  [n \in 1..Len(rets) |-> value[n]]

\* A fall is what is left of a peak, as a fraction; falls are ordered by what they leave.
Fall(left, peak) ==
    IF peak < 0 THEN [left |-> -left, peak |-> -peak] ELSE [left |-> left, peak |-> peak]
Deeper(a, b) == a.left * b.peak < b.left * a.peak

\* Mutant: each value is compared with the one before it.
MaxDrawdownOfDay(index) ==
    LET worst[n \in DOMAIN index] ==
            LET here == Fall(index[n], IF n = 1 THEN index[n] ELSE index[n - 1])
            IN  IF n > 1 /\ ~Deeper(here, worst[n - 1]) THEN worst[n - 1] ELSE here
    IN  worst[Len(index)]

\* drawdowns.min(), where each value is compared with the running maximum.
MaxDrawdown(index) ==
    LET runningMax[n \in DOMAIN index] ==
            IF n > 1 /\ runningMax[n - 1] > index[n] THEN runningMax[n - 1] ELSE index[n]
        worst[n \in DOMAIN index] ==
            LET here == Fall(index[n], runningMax[n])
            IN  IF n > 1 /\ ~Deeper(here, worst[n - 1]) THEN worst[n - 1] ELSE here
    IN  worst[Len(index)]

\* _check_thresholds: what may be breached, for positions of which some were
\* analysed.  VaR and volatility are open, and a drawdown or a weight that equals its
\* threshold is rounded to either side.
Breaches(ps, rets) ==
    LET fall == MaxDrawdown(Index(rets))
        lost == 100 * (fall.peak - fall.left)
        limit == DrawdownPercent * fall.peak
    IN  {bs \in SUBSET Breach :
            /\ "drawdown_breach" \in bs => lost >= limit
            /\ "drawdown_breach" \notin bs => lost <= limit
            /\ "concentration_breach" \in bs => ConcentratedOrEqual(ps)
            /\ "concentration_breach" \notin bs => ~Concentrated(ps)}
=============================================================================
