------------------------- MODULE TechnicalAnalysis -------------------------
(***************************************************************************)
(* What app/services/technical_analysis.py makes of the recorded prices of *)
(* a symbol, as far as generate() looks at it: on which side each          *)
(* indicator may come down.  Prices are whole numbers of a unit that may   *)
(* be smaller than the fourth decimal, to which the indicators are rounded *)
(* before the price is compared with them.  RSI and the Bollinger bands    *)
(* are exact but for ties of that rounding, which floating point breaks to *)
(* either side.  EMA and MACD are floating-point recurrences, OBV depends  *)
(* on volumes: their votes are settled where any smoothing and any volume  *)
(* settle them, and open elsewhere.                                        *)
(***************************************************************************)
EXTENDS SignalGenerator, SequencesExt

CONSTANT Grain   \* how many units make 0.0001

ASSUME GrainAssumption == Grain \in Nat \ {0}

RSI_PERIOD == 14
BOLLINGER_PERIOD == 20
EMA_PERIOD == 20
Limit == 100   \* rows that _fetch_ohlcv asks for

\* Mutant: the rows stay in the order of the query.
ClosesAsRead(rows) == SubSeq(rows, 1, Min({Limit, Len(rows)}))

\* _fetch_ohlcv: the query has the newest row first, the indicators have it last.
Closes(rows) == Reverse(SubSeq(rows, 1, Min({Limit, Len(rows)})))

LastOf(closes, n) == SubSeq(closes, Len(closes) - n + 1, Len(closes))

\* What the last closes won, and lost, from each to the next.
Gains(closes) ==
    MapThenSumSet(LAMBDA n : Max({closes[n + 1] - closes[n], 0}), 1..(Len(closes) - 1))
Losses(closes) ==
    MapThenSumSet(LAMBDA n : Max({closes[n] - closes[n + 1], 0}), 1..(Len(closes) - 1))

\* Below 30 is oversold, above 70 is overbought, after rounding to two decimals: from
\* 70.005 on, and up to 29.995.  Without a loss the RSI is 100, also of a market that
\* never moved.
RsiVotes(closes) ==
    LET window == LastOf(closes, RSI_PERIOD + 1)
        gain == Gains(window)
        loss == Losses(window)
    IN  {v \in Signal :
            /\ v = SELL => loss = 0 \/ 5999 * gain >= 14001 * loss
            /\ v # SELL => loss > 0 /\ 5999 * gain <= 14001 * loss
            /\ v = BUY => 14001 * gain <= 5999 * loss
            /\ v = HOLD => 14001 * gain >= 5999 * loss}

\* round(x, 4) >= price if x is above the middle between RoundedUp(price) and the multiple
\* before it, and round(x, 4) <= price likewise.
RoundedUp(price) == -(Grain * ((-price) \div Grain))
RoundedDown(price) == Grain * (price \div Grain)

\* The bands are two sample deviations from the mean: n * mean - n * bound >= 2 n s, or
\* the other way round, squared and multiplied out.  The lower band is looked at first,
\* and counts if the price is at both.
BollingerVotes(closes, price) ==
    LET n == BOLLINGER_PERIOD
        window == LastOf(closes, n)
        sum == FoldSeq(+, 0, window)
        squares == FoldSeq(LAMBDA c, total : c * c + total, 0, window)
        below == sum - n * RoundedUp(price) + 10 * Grain
        above == n * RoundedDown(price) - sum + 10 * Grain
        width == 4 * n * (n * squares - sum * sum)
        May(off) == off >= 0 /\ (n - 1) * off * off >= width
        Must(off) == off >= 0 /\ (n - 1) * off * off > width
    IN  {v \in Signal :
            /\ IF v = BUY THEN May(below) ELSE ~Must(below)
            /\ v = SELL => May(above)
            /\ v = HOLD => ~Must(above)}

Flat(closes) == \A n \in DOMAIN closes : closes[n] = closes[1]

\* The last close has a weight of 2 / (EMA_PERIOD + 1); the rest is some average of the
\* earlier closes.
EmaVotes(closes, price) ==
    LET earlier == {closes[n] : n \in 1..(Len(closes) - 1)}
        last == closes[Len(closes)]
        ends == earlier \cup {last}
        k == EMA_PERIOD + 1
        Least == 2 * last + (k - 2) * Min(earlier)
        Greatest == 2 * last + (k - 2) * Max(earlier)
        averages == {Grain * m : m \in (Min(ends) \div Grain)..(Max(ends) \div Grain + 1)}
    IN  {v \in Signal : \E r \in averages :
            /\ 2 * Least <= k * (2 * r + Grain) /\ k * (2 * r - Grain) <= 2 * Greatest
            /\ v = IF price > r THEN BUY ELSE IF price < r THEN SELL ELSE HOLD}

\* The histogram of MACD, which is rounded to 0 if the market is flat, and OBV whatever
\* the volumes are.
MomentumVotes(closes) == IF Flat(closes) THEN {HOLD} ELSE Signal

\* The votes on some rows, newest first, at a price.
VotesOn(rows, price, volume) ==
    LET closes == Closes(rows)
        known == Known(Len(closes), volume)
        May(i, votes) == IF i \in known THEN votes ELSE {HOLD}
        ballots == [rsi       : May("rsi", RsiVotes(closes)),
                    bollinger : May("bollinger", BollingerVotes(closes, price)),
                    ema       : May("ema", EmaVotes(closes, price)),
                    macd      : May("macd", MomentumVotes(closes)),
                    obv       : May("obv", MomentumVotes(closes))]
    IN  {[known |-> known, vote |-> v] : v \in ballots}
=============================================================================
