-------------------------- MODULE DecisionsProofs --------------------------
(***************************************************************************)
(* What holds of the three decisions for all weights, holdings and prices. *)
(* Signals have no bias to one side, and no vote counts against itself;    *)
(* breaches are reported of those portfolios that have them; moves of a    *)
(* price are found, and wear off; and indicators that measure one stretch  *)
(* of prices do not take opposite sides of it.                             *)
(***************************************************************************)
EXTENDS Decisions, FiniteSetTheorems, FunctionTheorems, TLAPS

\* What one indicator adds to the score.
Term(m, x, i) == IF i \in x.known THEN Weight[m][i] * x.vote[i] ELSE 0

\* A term is a whole number.
LEMMA TermInt ==
    ASSUME NEW m \in Mode, NEW x \in Indicators, NEW i \in Indicator
    PROVE  Term(m, x, i) \in Int
<1>1. Weight[m][i] \in Int
  BY WeightAssumption
<1>2. x.vote[i] \in {-1, 0, 1}
  BY DEF Indicators
<1> QED
  BY <1>1, <1>2 DEF Term

\* The score is the sum of the five terms.
LEMMA ScoreIsSum ==
    ASSUME NEW m, NEW x
    PROVE  Score(m, x) = Term(m, x, "rsi") + Term(m, x, "macd") + Term(m, x, "bollinger")
                         + Term(m, x, "ema") + Term(m, x, "obv")
BY DEF Score, Total, Term, Indicator

\* The score is a whole number.
LEMMA ScoreInt ==
    ASSUME NEW m \in Mode, NEW x \in Indicators
    PROVE  Score(m, x) \in Int
BY ScoreIsSum, TermInt DEF Indicator

\* The amplifier is a positive whole number of tenths, the threshold one of thousandths.
LEMMA FactorPositive ==
    ASSUME NEW m \in Mode, NEW adx \in Adx
    PROVE  /\ Factor(m, adx) \in {8, 10, 12}
           /\ HoldThreshold(m) \in {150, 300}
BY DEF Factor, HoldThreshold, Mode, Adx

\* Turning the market around is turning every vote around.
LEMMA MirrorOf ==
    ASSUME NEW x \in Indicators
    PROVE  /\ Mirror(x) \in Indicators
           /\ Mirror(x).known = x.known
           /\ \A i \in Indicator : Mirror(x).vote[i] = -x.vote[i]
BY DEF Mirror, Indicators

\* ... and so turns the score around.
LEMMA MirrorScore ==
    ASSUME NEW m \in Mode, NEW x \in Indicators
    PROVE  Score(m, Mirror(x)) = -Score(m, x)
<1>1. ASSUME NEW i \in Indicator PROVE Term(m, Mirror(x), i) = -Term(m, x, i)
  <2>1. Weight[m][i] \in Int
    BY WeightAssumption
  <2>2. x.vote[i] \in {-1, 0, 1}
    BY DEF Indicators
  <2> QED
    BY <2>1, <2>2, MirrorOf DEF Term
<1>2. \A i \in Indicator : Term(m, x, i) \in Int
  BY TermInt
<1>3. Indicator = {"rsi", "macd", "bollinger", "ema", "obv"}
  BY DEF Indicator
<1> QED
  BY <1>1, <1>2, <1>3, ScoreIsSum

\* ... and the signals.
LEMMA MirrorSignals ==
    ASSUME NEW m \in Mode, NEW x \in Indicators, NEW adx \in Adx
    PROVE  Signals(m, Mirror(x), adx) = {-g : g \in Signals(m, x, adx)}
<1> DEFINE s == Modified(m, x, adx)
           t == HoldThreshold(m)
           fires(g, y, k) == /\ g = BUY => k > t \/ (k = t /\ Rounded(m, y))
                             /\ g = HOLD => -t <= k /\ k <= t
                             /\ g = SELL => k < -t \/ (k = -t /\ Rounded(m, y))
<1>1. s \in Int /\ t \in Int /\ Modified(m, Mirror(x), adx) = -s
  BY MirrorScore, ScoreInt, FactorPositive DEF Modified
<1>2. Rounded(m, Mirror(x)) <=> Rounded(m, x)
  <2>1. \A i \in x.known : Mirror(x).vote[i] # 0 <=> x.vote[i] # 0
    BY MirrorOf DEF Indicators
  <2> QED
    BY <2>1, MirrorOf DEF Rounded, Voters
<1>3. \A g \in Signal : fires(g, Mirror(x), -s) <=> fires(-g, x, s)
  BY <1>1, <1>2 DEF Signal, BUY, HOLD, SELL
<1>4. Signals(m, x, adx) = {g \in Signal : fires(g, x, s)}
  BY DEF Signals
<1>5. Signals(m, Mirror(x), adx) = {g \in Signal : fires(g, Mirror(x), -s)}
  BY <1>1 DEF Signals
<1> HIDE DEF fires, s
<1>6. \A g \in Signal : -g \in Signal /\ -(-g) = g
  BY DEF Signal, BUY, HOLD, SELL
<1> QED
  BY <1>3, <1>4, <1>5, <1>6

\* One more bullish vote raises the score, unless its weight is 0; then nothing of it
\* is left.
LEMMA RaisedScore ==
    ASSUME NEW m \in Mode, NEW x \in Indicators, NEW i \in x.known, NEW v \in -1..1,
           v > x.vote[i],
           NEW raised, raised = [x EXCEPT !.vote[i] = v]
    PROVE  /\ raised \in Indicators
           /\ \/ Score(m, raised) > Score(m, x)
              \/ Score(m, raised) = Score(m, x) /\ Voters(m, raised) = Voters(m, x)
<1>1. i \in Indicator /\ x.vote \in [Indicator -> -1..1] /\ x.known \subseteq Indicator
  BY DEF Indicators
<1>2. /\ raised \in Indicators
      /\ raised.known = x.known
      /\ \A j \in Indicator : raised.vote[j] = IF j = i THEN v ELSE x.vote[j]
  BY <1>1 DEF Indicators
<1>3. \A j \in Indicator \ {i} : Term(m, raised, j) = Term(m, x, j)
  BY <1>2 DEF Term
<1>4. \A j \in Indicator : Term(m, raised, j) \in Int /\ Term(m, x, j) \in Int
  BY <1>2, TermInt
<1>5. Weight[m][i] \in Int /\ Weight[m][i] >= 0
  BY <1>1, WeightAssumption, WeightsAreShares
<1>6. Indicator = {"rsi", "macd", "bollinger", "ema", "obv"}
  BY DEF Indicator
<1>7. CASE Weight[m][i] = 0
  <2>1. Term(m, raised, i) = 0 /\ Term(m, x, i) = 0
    <3>1. x.vote[i] \in Int /\ raised.vote[i] \in Int
      BY <1>1, <1>2
    <3> QED
      BY <1>7, <3>1 DEF Term
  <2>2. Score(m, raised) = Score(m, x)
    BY <1>3, <1>6, <2>1, ScoreIsSum
  <2>3. Voters(m, raised) = Voters(m, x)
    BY <1>1, <1>2, <1>7 DEF Voters
  <2> QED
    BY <1>2, <2>2, <2>3
<1>8. CASE Weight[m][i] > 0
  <2>1. x.vote[i] \in {-1, 0} /\ raised.vote[i] \in {0, 1} /\ raised.vote[i] > x.vote[i]
    BY <1>1, <1>2
  <2>2. Weight[m][i] * raised.vote[i] > Weight[m][i] * x.vote[i]
    BY <1>5, <1>8, <2>1
  <2>3. Term(m, raised, i) > Term(m, x, i)
    BY <1>2, <2>2 DEF Term
  <2>4. Score(m, raised) > Score(m, x)
    BY <1>1, <1>3, <1>4, <1>6, <2>3, ScoreIsSum
  <2> QED
    BY <1>2, <2>4
<1> QED
  BY <1>5, <1>7, <1>8

\* So the signals do not fall.
LEMMA RaisedSignals ==
    ASSUME NEW m \in Mode, NEW x \in Indicators, NEW adx \in Adx,
           NEW i \in x.known, NEW v \in -1..1, v > x.vote[i],
           NEW raised, raised = [x EXCEPT !.vote[i] = v]
    PROVE  /\ \A a \in Signals(m, x, adx) : \E b \in Signals(m, raised, adx) : a <= b
           /\ \A b \in Signals(m, raised, adx) : \E a \in Signals(m, x, adx) : a <= b
<1> DEFINE t == HoldThreshold(m)
           fires(g, r, k) == /\ g = BUY => k > t \/ (k = t /\ r)
                             /\ g = HOLD => -t <= k /\ k <= t
                             /\ g = SELL => k < -t \/ (k = -t /\ r)
<1>1. PICK low \in Int : low = Modified(m, x, adx)
  BY ScoreInt, FactorPositive DEF Modified
<1>2. PICK high \in Int : high = Modified(m, raised, adx)
  BY RaisedScore, ScoreInt, FactorPositive DEF Modified
<1>3. \/ low < high
      \/ low = high /\ (Rounded(m, raised) <=> Rounded(m, x))
  <2>1. CASE Score(m, raised) > Score(m, x)
    BY <1>1, <1>2, <2>1, RaisedScore, ScoreInt, FactorPositive DEF Modified
  <2>2. CASE Score(m, raised) = Score(m, x) /\ Voters(m, raised) = Voters(m, x)
    BY <1>1, <1>2, <2>2 DEF Modified, Rounded
  <2> QED
    BY <2>1, <2>2, RaisedScore
<1>4. Signals(m, x, adx) = {g \in Signal : fires(g, Rounded(m, x), low)}
  BY <1>1 DEF Signals
<1>5. Signals(m, raised, adx) = {g \in Signal : fires(g, Rounded(m, raised), high)}
  BY <1>2 DEF Signals
<1>6. t \in Nat
  BY FactorPositive
<1>7. ASSUME NEW a \in Signal, fires(a, Rounded(m, x), low)
      PROVE  \E b \in Signal : fires(b, Rounded(m, raised), high) /\ a <= b
  <2> HIDE DEF t
  <2>1. CASE high > t
    BY <1>6, <2>1 DEF Signal, BUY, HOLD, SELL
  <2>2. CASE high < -t
    BY <1>3, <1>6, <1>7, <2>2 DEF Signal, BUY, HOLD, SELL
  <2>3. CASE -t <= high /\ high <= t
    BY <1>3, <1>6, <1>7, <2>3 DEF Signal, BUY, HOLD, SELL
  <2> QED
    BY <1>6, <2>1, <2>2, <2>3
<1>8. ASSUME NEW b \in Signal, fires(b, Rounded(m, raised), high)
      PROVE  \E a \in Signal : fires(a, Rounded(m, x), low) /\ a <= b
  <2> HIDE DEF t
  <2>1. CASE low < -t
    BY <1>6, <2>1 DEF Signal, BUY, HOLD, SELL
  <2>2. CASE low > t
    BY <1>3, <1>6, <1>8, <2>2 DEF Signal, BUY, HOLD, SELL
  <2>3. CASE -t <= low /\ low <= t
    BY <1>3, <1>6, <1>8, <2>3 DEF Signal, BUY, HOLD, SELL
  <2> QED
    BY <1>6, <2>1, <2>2, <2>3
<1> HIDE DEF fires
<1> QED
  BY <1>4, <1>5, <1>7, <1>8

\* What an indicator that does not vote to buy adds is not positive, and nothing only
\* if the indicator is no voter.
LEMMA TermOfOthers ==
    ASSUME NEW m \in Mode, NEW x \in Indicators, NEW j \in Indicator, x.vote[j] # 1
    PROVE  /\ Term(m, x, j) <= 0
           /\ Term(m, x, j) = 0 => j \notin Voters(m, x)
<1>1. Weight[m][j] \in Int /\ Weight[m][j] >= 0
  BY WeightAssumption, WeightsAreShares
<1>2. x.vote[j] \in {-1, 0}
  BY DEF Indicators
<1>3. CASE x.vote[j] = 0
  BY <1>1, <1>3 DEF Term, Voters
<1>4. CASE x.vote[j] = -1
  BY <1>1, <1>4 DEF Term, Voters
<1> QED
  BY <1>2, <1>3, <1>4

\* A signal to buy in caution mode has two votes to buy, if no weight is above the
\* threshold of that mode.
LEMMA BuyNeedsCompany ==
    ASSUME NEW x \in Indicators, NEW adx \in Adx,
           \A i \in Indicator : Weight["caution"][i] <= 30,
           BUY \in Signals("caution", x, adx)
    PROVE  \E i, j \in x.known : i # j /\ x.vote[i] = 1 /\ x.vote[j] = 1
<1>1. PICK m \in Mode : m = "caution"
  BY DEF Mode
<1>2. PICK buyers : buyers = {i \in x.known : x.vote[i] = 1}
  OBVIOUS
<1>3. x.known \subseteq Indicator /\ \A i \in Indicator \ x.known : x.vote[i] = 0
  BY DEF Indicators
<1>4. \A i \in Indicator : Term(m, x, i) \in Int
  BY <1>1, TermInt
<1>5. \/ Score(m, x) > 30
      \/ Score(m, x) = 30 /\ Rounded(m, x)
  <2>1. Score(m, x) \in Int
    BY <1>1, ScoreInt
  <2>2. Factor(m, adx) = 10 /\ HoldThreshold(m) = 300
    BY <1>1 DEF Factor, HoldThreshold
  <2>3. \/ 10 * Score(m, x) > 300
        \/ 10 * Score(m, x) = 300 /\ Rounded(m, x)
    BY <1>1, <2>2 DEF Signals, Modified, BUY
  <2> QED
    BY <2>1, <2>3
<1>6. \A j \in Indicator \ buyers :
          /\ Term(m, x, j) <= 0
          /\ Term(m, x, j) = 0 => j \notin Voters(m, x)
  <2>1. \A j \in Indicator \ buyers : x.vote[j] # 1
    BY <1>2, <1>3
  <2> QED
    BY <1>1, <2>1, TermOfOthers
<1>7. Indicator = {"rsi", "macd", "bollinger", "ema", "obv"}
  BY DEF Indicator
<1>8. Score(m, x) = Term(m, x, "rsi") + Term(m, x, "macd") + Term(m, x, "bollinger")
                    + Term(m, x, "ema") + Term(m, x, "obv")
  BY ScoreIsSum
<1>9. PICK i \in buyers : TRUE
  <2>1. CASE buyers = {}
    <3>1. ASSUME NEW j \in Indicator
          PROVE  Term(m, x, j) <= 0
      <4>1. j \in Indicator \ buyers
        BY <2>1
      <4> QED
        BY <1>6, <4>1
    <3> QED
      BY <1>4, <1>5, <1>7, <1>8, <3>1
  <2> QED
    BY <2>1
<1>10. i \in Indicator /\ Term(m, x, i) <= 30
  <2>1. i \in Indicator /\ i \in x.known /\ x.vote[i] = 1
    BY <1>2, <1>3, <1>9
  <2>2. Weight[m][i] \in Int /\ Weight[m][i] <= 30
    BY <1>1, <2>1, WeightAssumption
  <2> QED
    BY <2>1, <2>2 DEF Term
<1>11. ASSUME buyers \subseteq {i}
       PROVE  FALSE
  <2>1. ASSUME NEW j \in Indicator \ {i}
        PROVE  Term(m, x, j) <= 0 /\ (Term(m, x, j) = 0 => j \notin Voters(m, x))
    <3>1. j \in Indicator \ buyers
      BY <1>11
    <3> QED
      BY <1>6, <3>1
  <2>2. Score(m, x) <= 30 /\ (Score(m, x) = 30 => \A j \in Indicator \ {i} : Term(m, x, j) = 0)
    <3> QED
      BY <1>4, <1>7, <1>8, <1>10, <2>1
  <2>3. Score(m, x) = 30 /\ Rounded(m, x)
    <3>1. Score(m, x) \in Int
      BY <1>4, <1>7, <1>8
    <3> QED
      BY <1>5, <2>2, <3>1
  <2>4. \A j \in Indicator \ {i} : j \notin Voters(m, x)
    BY <2>1, <2>2, <2>3
  <2>5. Voters(m, x) \subseteq Indicator
    BY <1>3 DEF Voters
  <2> QED
    BY <2>3, <2>4, <2>5 DEF Rounded
<1> QED
  BY <1>2, <1>9, <1>11

\* The same of a signal to sell, which is one to buy in the market turned upside down.
LEMMA SellNeedsCompany ==
    ASSUME NEW x \in Indicators, NEW adx \in Adx,
           \A i \in Indicator : Weight["caution"][i] <= 30,
           SELL \in Signals("caution", x, adx)
    PROVE  \E i, j \in x.known : i # j /\ x.vote[i] = -1 /\ x.vote[j] = -1
<1>1. "caution" \in Mode
  BY DEF Mode
<1>2. BUY \in Signals("caution", Mirror(x), adx)
  <2>1. PICK g \in Int : g = SELL
    BY DEF SELL
  <2>2. g + 1 = 0
    BY <2>1 DEF SELL
  <2>3. -g = 1
    BY <2>2
  <2> QED
    BY <1>1, <2>1, <2>3, MirrorSignals DEF BUY
<1>3. PICK i, j \in Mirror(x).known : i # j /\ Mirror(x).vote[i] = 1 /\ Mirror(x).vote[j] = 1
  BY <1>2, BuyNeedsCompany, MirrorOf
<1>4. i \in x.known /\ j \in x.known /\ x.known \subseteq Indicator
  BY MirrorOf DEF Indicators
<1>5. x.vote[i] \in -1..1 /\ x.vote[j] \in -1..1
  BY <1>4 DEF Indicators
<1>6. x.vote[i] = -1 /\ x.vote[j] = -1
  BY <1>3, <1>4, <1>5, MirrorOf
<1> QED
  BY <1>3, <1>4, <1>6

-----------------------------------------------------------------------------
\* What a signal is made from is what generate can be given.
Asked == asked.kind = "signal" =>
            /\ asked.mode \in Mode
            /\ asked.adx \in Adx
            /\ asked.x \in Indicators
            /\ answer.signal \in Signals(asked.mode, asked.x, asked.adx)

\* Every question about a signal is one that the endpoint can ask.
LEMMA AskedAlways == Spec => []Asked
<1>1. Init => Asked
  BY DEF Init, Nothing, Asked
<1>2. Asked /\ [Next]_vars => Asked'
  <2> SUFFICES ASSUME Asked, [Next]_vars
               PROVE  Asked'
    OBVIOUS
  <2>1. ASSUME NEW m \in Mode, NEW rows \in Rows, NEW volume \in BOOLEAN,
               NEW range \in BOOLEAN, GetSignal(m, rows, volume, range)
        PROVE  Asked'
    BY <2>1 DEF GetSignal, AdxOf, Votes, Adx, Asked
  <2>2. CASE GetSignalOfUnknown
    BY <2>2 DEF GetSignalOfUnknown, Asked
  <2>3. ASSUME NEW h \in Holdings, WarnOfHoldings(h) \/ AnalyseHoldings(h)
        PROVE  Asked'
    BY <2>3 DEF WarnOfHoldings, AnalyseHoldings, Asked
  <2>4. ASSUME NEW prices \in Prices, DetectAnomalies(prices)
        PROVE  Asked'
    BY <2>4 DEF DetectAnomalies, Asked
  <2>5. ASSUME NEW m \in Mode, NEW rows \in Histories, NEW price, NEW volume \in BOOLEAN,
               NEW range \in BOOLEAN, GetIndicators(m, rows, price, volume, range)
        PROVE  Asked'
    BY <2>5 DEF GetIndicators, Asked
  <2>6. CASE Forget
    BY <2>6 DEF Forget, Nothing, Asked
  <2>7. CASE UNCHANGED vars
    BY <2>7 DEF vars, Asked
  <2> QED
    BY <2>1, <2>2, <2>3, <2>4, <2>5, <2>6, <2>7 DEF Next, Decide
<1> QED
  BY <1>1, <1>2, PTL DEF Spec

\* A market turned upside down gets the opposite signal, whatever the weights are.
THEOREM NoBias == Spec => []MirrorMarket
<1>1. Asked => MirrorMarket
  BY MirrorSignals DEF Asked, MirrorMarket, SignalsOf
<1> QED
  BY <1>1, AskedAlways, PTL

\* No vote counts against itself, whatever the weights are.
THEOREM VotesAlwaysCount == Spec => []VotesCountForThemselves
<1>1. Asked => VotesCountForThemselves
  BY RaisedSignals DEF Asked, VotesCountForThemselves, SignalsOf
<1> QED
  BY <1>1, AskedAlways, PTL

\* In caution mode a signal has the votes of two indicators, whatever the weights are,
\* as long as none of them is above the threshold of the mode.
THEOREM CautionIsCareful ==
    ASSUME \A i \in Indicator : Weight["caution"][i] <= 30
    PROVE  Spec => []CautionNeedsCompany
<1>1. Asked => CautionNeedsCompany
  <2> SUFFICES ASSUME Asked, asked.kind = "signal", asked.mode = "caution",
                      answer.signal # HOLD
               PROVE  \E i, j \in asked.x.known :
                          /\ i # j
                          /\ asked.x.vote[i] = answer.signal
                          /\ asked.x.vote[j] = answer.signal
    BY DEF CautionNeedsCompany
  <2>1. /\ asked.x \in Indicators
        /\ asked.adx \in Adx
        /\ answer.signal \in Signals("caution", asked.x, asked.adx)
    BY DEF Asked
  <2>2. answer.signal \in {BUY, SELL}
    BY <2>1 DEF Signals, Signal
  <2>3. CASE answer.signal = BUY
    BY <2>1, <2>3, BuyNeedsCompany DEF BUY
  <2>4. CASE answer.signal = SELL
    BY <2>1, <2>4, SellNeedsCompany DEF SELL
  <2> QED
    BY <2>2, <2>3, <2>4
<1> QED
  BY <1>1, AskedAlways, PTL

-----------------------------------------------------------------------------
\* The confidence of a signal is a share, whatever the weights are: the denominator is
\* ten times a sum of weights, of which none is negative.
LEMMA ConfidenceIsShare ==
    ASSUME NEW m \in Mode, NEW x \in Indicators, NEW adx \in Adx, NEW g \in Signal
    PROVE  Confidence(m, x, adx, g) \in Share
<1>1. Modified(m, x, adx) \in Int
  BY ScoreInt, FactorPositive DEF Modified
<1>2. MaxPossible(m, x) \in Nat
  <2>1. \A i \in Indicator : Weight[m][i] \in Nat
    BY WeightAssumption, WeightsAreShares
  <2>2. \A i \in Indicator : (IF i \in x.known THEN Weight[m][i] ELSE 0) \in Nat
    BY <2>1
  <2>3. PICK f : f = [i \in Indicator |-> IF i \in x.known THEN Weight[m][i] ELSE 0]
    OBVIOUS
  <2>4. f["rsi"] \in Nat /\ f["macd"] \in Nat /\ f["bollinger"] \in Nat
        /\ f["ema"] \in Nat /\ f["obv"] \in Nat
    BY <2>2, <2>3 DEF Indicator
  <2>5. Total(f) \in Nat
    BY <2>4 DEF Total
  <2> QED
    BY <2>3, <2>5 DEF MaxPossible
<1>3. PICK s \in Int : s = Modified(m, x, adx)
  BY <1>1
<1>4. PICK most \in Nat : most = 10 * MaxPossible(m, x)
  BY <1>2
<1>5. PICK size \in Nat : size = IF s < 0 THEN -s ELSE s
  OBVIOUS
<1>6. Confidence(m, x, adx, g) =
         [num |-> IF g = HOLD THEN 0 ELSE IF size > most THEN most ELSE size, den |-> most]
  BY <1>3, <1>4, <1>5, Zenon DEF Confidence
<1> QED
  BY <1>6 DEF Share

\* The votes on some rows are what generate can be given.
LEMMA VotesAreIndicators ==
    ASSUME NEW rows, NEW price, NEW volume
    PROVE  VotesOn(rows, price, volume) \subseteq Indicators
<1> DEFINE closes == Closes(rows)
           known == Known(Len(closes), volume)
<1>1. known \subseteq Indicator
  BY DEF Known
<1>2. RsiVotes(closes) \subseteq -1..1 /\ BollingerVotes(closes, price) \subseteq -1..1
  <2>1. Signal \subseteq -1..1
    BY DEF Signal, BUY, HOLD, SELL
  <2>2. RsiVotes(closes) \subseteq Signal
    BY DEF RsiVotes
  <2>3. BollingerVotes(closes, price) \subseteq Signal
    BY DEF BollingerVotes
  <2> QED
    BY <2>1, <2>2, <2>3
<1>3. EmaVotes(closes, price) \subseteq -1..1 /\ MomentumVotes(closes) \subseteq -1..1
  <2>1. Signal \subseteq -1..1 /\ HOLD \in -1..1
    BY DEF Signal, BUY, HOLD, SELL
  <2>2. EmaVotes(closes, price) \subseteq Signal
    BY Zenon DEF EmaVotes
  <2> QED
    BY <2>1, <2>2 DEF MomentumVotes
<1> HIDE DEF closes, known
<1> DEFINE May(i, votes) == IF i \in known THEN votes ELSE {HOLD}
           ballots == [rsi       : May("rsi", RsiVotes(closes)),
                       bollinger : May("bollinger", BollingerVotes(closes, price)),
                       ema       : May("ema", EmaVotes(closes, price)),
                       macd      : May("macd", MomentumVotes(closes)),
                       obv       : May("obv", MomentumVotes(closes))]
<1>4. VotesOn(rows, price, volume) = {[known |-> known, vote |-> v] : v \in ballots}
  BY DEF VotesOn, closes, known
<1>5. ASSUME NEW v \in ballots
      PROVE  /\ v \in [Indicator -> -1..1]
             /\ \A i \in Indicator \ known : v[i] = 0
  <2>1. HOLD = 0 /\ HOLD \in -1..1
    BY DEF HOLD
  <2>2. /\ May("rsi", RsiVotes(closes)) \subseteq -1..1
        /\ May("bollinger", BollingerVotes(closes, price)) \subseteq -1..1
        /\ May("ema", EmaVotes(closes, price)) \subseteq -1..1
        /\ May("macd", MomentumVotes(closes)) \subseteq -1..1
        /\ May("obv", MomentumVotes(closes)) \subseteq -1..1
    BY <1>2, <1>3, <2>1
  <2>3. v \in [rsi : -1..1, bollinger : -1..1, ema : -1..1, macd : -1..1, obv : -1..1]
    <3> HIDE DEF May
    <3> QED
      BY <1>5, <2>2
  <2>4. v \in [Indicator -> -1..1]
    BY <2>3 DEF Indicator
  <2>5. ASSUME NEW i \in Indicator, i \notin known PROVE v[i] = 0
    <3>1. CASE i = "rsi"
      BY <1>5, <2>1, <2>5, <3>1
    <3>2. CASE i = "bollinger"
      BY <1>5, <2>1, <2>5, <3>2
    <3>3. CASE i = "ema"
      BY <1>5, <2>1, <2>5, <3>3
    <3>4. CASE i = "macd"
      BY <1>5, <2>1, <2>5, <3>4
    <3>5. CASE i = "obv"
      BY <1>5, <2>1, <2>5, <3>5
    <3> QED
      BY <2>5, <3>1, <3>2, <3>3, <3>4, <3>5 DEF Indicator
  <2> QED
    BY <2>4, <2>5
<1> HIDE DEF ballots
<1>6. ASSUME NEW v \in ballots PROVE [known |-> known, vote |-> v] \in Indicators
  BY <1>1, <1>5 DEF Indicators
<1> QED
  BY <1>4, <1>6

\* The findings of a window are findings.
LEMMA FindingsAreTyped ==
    ASSUME NEW prices
    PROVE  Findings(prices) \subseteq SUBSET Finding
<1>1. ZScore(prices) \subseteq SUBSET Finding
  <2>1. \A type \in {"zscore_spike", "zscore_drop"}, s \in {"medium", "high"} :
           [type |-> type, severity |-> s] \in Finding
    BY DEF Finding, AnomalyType, Severity
  <2> QED
    BY <2>1 DEF ZScore, Severities
<1>2. Crossover(prices) \subseteq SUBSET Finding
  <2>1. [type |-> "ma_crossover", severity |-> "low"] \in Finding
    BY DEF Finding, AnomalyType, Severity
  <2> QED
    BY <2>1 DEF Crossover
<1> QED
  BY <1>1, <1>2 DEF Findings

\* Every answer is one that its question can have.
THEOREM DecisionsTypes == Spec => []TypeOK
<1>1. Init => TypeOK
  BY DEF Init, TypeOK, Nothing
<1>2. TypeOK /\ [Next]_vars => TypeOK'
  <2> SUFFICES ASSUME TypeOK, [Next]_vars
               PROVE  TypeOK'
    OBVIOUS
  <2>1. ASSUME NEW m \in Mode, NEW rows \in Rows, NEW volume \in BOOLEAN,
               NEW range \in BOOLEAN, GetSignal(m, rows, volume, range)
        PROVE  TypeOK'
    <3>1. PICK x \in Indicators, adx \in Adx :
             /\ asked' = [kind |-> "signal", mode |-> m, adx |-> adx, x |-> x]
             /\ \E g \in Signals(m, x, adx) :
                   answer' = [kind |-> "signal", signal |-> g,
                              confidence |-> Confidence(m, x, adx, g)]
      BY <2>1 DEF GetSignal, Votes, AdxOf, Adx
    <3>2. PICK g \in Signals(m, x, adx) :
             answer' = [kind |-> "signal", signal |-> g, confidence |-> Confidence(m, x, adx, g)]
      BY <3>1
    <3>3. g \in Signal /\ Confidence(m, x, adx, g) \in Share
      BY ConfidenceIsShare DEF Signals
    <3> QED
      BY <3>1, <3>2, <3>3 DEF TypeOK
  <2>2. CASE GetSignalOfUnknown
    BY <2>2 DEF GetSignalOfUnknown, TypeOK
  <2>3. ASSUME NEW h \in Holdings, WarnOfHoldings(h)
        PROVE  TypeOK'
    BY <2>3 DEF WarnOfHoldings, TypeOK
  <2>4. ASSUME NEW h \in Holdings, AnalyseHoldings(h)
        PROVE  TypeOK'
    <3>1. PICK bs \in Breaches(h.positions, h.returns) :
             answer' = [kind |-> "risk", breaches |-> bs]
      BY <2>4, Zenon DEF AnalyseHoldings
    <3>2. bs \in SUBSET Breach
      BY Zenon DEF Breaches
    <3>3. asked'.kind = "risk"
      BY <2>4 DEF AnalyseHoldings
    <3> QED
      BY <3>1, <3>2, <3>3 DEF TypeOK
  <2>5. ASSUME NEW prices \in Prices, DetectAnomalies(prices)
        PROVE  TypeOK'
    <3>1. PICK fs \in Findings(prices) : answer' = [kind |-> "anomaly", findings |-> fs]
      BY <2>5 DEF DetectAnomalies
    <3>2. fs \in SUBSET Finding
      BY FindingsAreTyped
    <3> QED
      BY <2>5, <3>1, <3>2 DEF DetectAnomalies, TypeOK
  <2>6. ASSUME NEW m \in Mode, NEW rows \in Histories, NEW price, NEW volume \in BOOLEAN,
               NEW range \in BOOLEAN, GetIndicators(m, rows, price, volume, range)
        PROVE  TypeOK'
    <3>1. PICK x \in VotesOn(rows, price, volume), adx \in Adx :
             /\ asked'.kind = "indicators"
             /\ \E g \in Signals(m, x, adx) :
                   answer' = [kind |-> "indicators", signal |-> g,
                              confidence |-> Confidence(m, x, adx, g)]
      BY <2>6 DEF GetIndicators, AdxOf, Adx
    <3>2. PICK g \in Signals(m, x, adx) :
             answer' = [kind |-> "indicators", signal |-> g,
                        confidence |-> Confidence(m, x, adx, g)]
      BY <3>1
    <3>3. x \in Indicators
      BY VotesAreIndicators
    <3>4. g \in Signal /\ Confidence(m, x, adx, g) \in Share
      BY <3>3, ConfidenceIsShare DEF Signals
    <3> QED
      BY <3>1, <3>2, <3>4 DEF TypeOK
  <2>7. CASE Forget
    BY <2>7 DEF Forget, Nothing, TypeOK
  <2>8. CASE UNCHANGED vars
    BY <2>8 DEF vars, TypeOK
  <2> QED
    BY <2>1, <2>2, <2>3, <2>4, <2>5, <2>6, <2>7, <2>8 DEF Next, Decide
<1> QED
  BY <1>1, <1>2, PTL DEF Spec

-----------------------------------------------------------------------------
(***************************************************************************)
(* Risk.  The index and its maxima are recursive functions, so the facts   *)
(* about them need induction.                                              *)
(***************************************************************************)

\* A set of numbers that is closed under adding one has no gap, which would map a
\* finite part of it into a smaller one.
LEMMA SetInduction ==
    ASSUME NEW S, 0 \in S, \A n \in Nat : n \in S => n + 1 \in S
    PROVE  Nat \subseteq S
<1> SUFFICES ASSUME NEW n \in Nat, n \notin S PROVE FALSE
  OBVIOUS
<1> DEFINE below == S \cap 0..n
           above == below \ {0}
           next == [x \in below |-> x + 1]
<1>1. IsFiniteSet(below)
  <2>1. IsFiniteSet(0..n)
    BY FS_Interval
  <2> QED
    BY <2>1, FS_Subset
<1>2. 0 \in below
  OBVIOUS
<1>3. IsFiniteSet(above) /\ Cardinality(above) = Cardinality(below) - 1 /\ Cardinality(below) \in Nat
  <2> HIDE DEF below
  <2> QED
    BY <1>1, <1>2, FS_RemoveElement, FS_CardinalityType
<1>4. next \in Injection(below, above)
  <2>1. \A x \in below : x + 1 \in above
    OBVIOUS
  <2>2. next \in [below -> above]
    BY <2>1
  <2>3. \A x, y \in below : next[x] = next[y] => x = y
    OBVIOUS
  <2> QED
    BY <2>2, <2>3 DEF Injection, IsInjective
<1>5. Cardinality(below) <= Cardinality(above)
  <2> HIDE DEF below, above, next
  <2> QED
    BY <1>3, <1>4, FS_Injection
<1> QED
  BY <1>3, <1>5

\* A function of 0..k, from its first value and the rule for the next one.
Follows(f, k, S, first, step) ==
    f \in [0..k -> S] /\ f[0] = first /\ \A n \in 1..k : f[n] = step[n][f[n - 1]]

\* There is such a function.
LEMMA Recursion ==
    ASSUME NEW k \in Nat, NEW S, NEW first \in S, NEW step \in [1..k -> [S -> S]]
    PROVE  \E f : Follows(f, k, S, first, step)
<1> DEFINE Upto(j, f) == /\ f \in [0..j -> S]
                         /\ f[0] = first
                         /\ \A n \in 1..j : f[n] = step[n][f[n - 1]]
           Found == {j \in Nat : j <= k => \E f : Upto(j, f)}
<1>1. 0 \in Found
  <2>1. Upto(0, [n \in 0..0 |-> first])
    OBVIOUS
  <2> QED
    BY <2>1
<1>2. ASSUME NEW j \in Nat, j \in Found PROVE j + 1 \in Found
  <2> SUFFICES ASSUME j + 1 <= k PROVE \E f : Upto(j + 1, f)
    OBVIOUS
  <2>1. PICK old : Upto(j, old)
    BY <1>2
  <2>2. PICK last \in S : last = step[j + 1][old[j]]
    <3>1. old[j] \in S /\ j + 1 \in 1..k
      BY <2>1
    <3> QED
      BY <3>1
  <2>3. PICK new : new = [n \in 0..j + 1 |-> IF n = j + 1 THEN last ELSE old[n]]
    OBVIOUS
  <2>4. \A n \in 0..j : new[n] = old[n] /\ old[n] \in S
    BY <2>1, <2>3
  <2>5. new[j + 1] = last
    BY <2>3
  <2>6. new \in [0..j + 1 -> S]
    <3>1. ASSUME NEW n \in 0..j + 1 PROVE (IF n = j + 1 THEN last ELSE old[n]) \in S
      <4>1. n = j + 1 \/ n \in 0..j
        OBVIOUS
      <4> QED
        BY <2>4, <4>1
    <3> QED
      BY <2>3, <3>1
  <2>7. ASSUME NEW n \in 1..j + 1 PROVE new[n] = step[n][new[n - 1]]
    <3>1. CASE n = j + 1
      <4>1. n - 1 = j /\ new[n - 1] = old[j]
        BY <2>4, <3>1
      <4> QED
        BY <2>2, <2>5, <3>1, <4>1
    <3>2. CASE n \in 1..j
      <4>1. n - 1 \in 0..j /\ n \in 0..j
        BY <3>2
      <4>2. old[n] = step[n][old[n - 1]]
        BY <2>1, <3>2
      <4> QED
        BY <2>4, <4>1, <4>2
    <3> QED
      BY <3>1, <3>2
  <2>8. new[0] = first
    BY <2>1, <2>4
  <2>9. Upto(j + 1, new)
    BY <2>6, <2>7, <2>8
  <2> QED
    BY <2>9
<1>3. k \in Found
  <2> HIDE DEF Found
  <2> QED
    BY <1>1, <1>2, SetInduction
<1> QED
  BY <1>3 DEF Follows

\* The values of an index are whole numbers, and none is nothing.
IsIndex(index) == index \in Seq(Int \ {0}) /\ index # <<>>

\* The powers of the unit, of which the scale of an index is the last.
LEMMA PowersExist ==
    ASSUME NEW n \in Nat
    PROVE  \E p \in [0..n -> Nat \ {0}] :
              /\ Scale(n) = p[n]
              /\ p[0] = 1
              /\ \A k \in 1..n : p[k] = Unit * p[k - 1]
<1> DEFINE Is(p) == p = [k \in 0..n |-> IF k = 0 THEN 1 ELSE Unit * p[k - 1]]
           power == CHOOSE p : Is(p)
           S == Nat \ {0}
<1>1. PICK step : step = [k \in 1..n |-> [v \in S |-> Unit * v]]
  OBVIOUS
<1>2. Unit \in S /\ \A v \in S : Unit * v \in S
  BY RiskAssumption
<1>3. step \in [1..n -> [S -> S]]
  BY <1>1, <1>2
<1>4. PICK f \in [0..n -> S] : f[0] = 1 /\ \A k \in 1..n : f[k] = step[k][f[k - 1]]
  <2>1. 1 \in S
    OBVIOUS
  <2>2. \E f : Follows(f, n, S, 1, step)
    <3> HIDE DEF S
    <3> QED
      BY <1>3, <2>1, Recursion
  <2> QED
    BY <2>2 DEF Follows
<1>5. \A k \in 1..n : k - 1 \in 0..n /\ f[k] = Unit * f[k - 1]
  <2> SUFFICES ASSUME NEW k \in 1..n PROVE k - 1 \in 0..n /\ f[k] = Unit * f[k - 1]
    OBVIOUS
  <2>1. k - 1 \in 0..n
    OBVIOUS
  <2>2. f[k - 1] \in S
    BY <1>4, <2>1
  <2>3. step[k][f[k - 1]] = Unit * f[k - 1]
    BY <1>1, <2>2
  <2> QED
    BY <1>4, <2>1, <2>3
<1>6. Is(f)
  <2>1. f = [k \in 0..n |-> f[k]]
    BY <1>4
  <2>2. \A k \in 0..n : f[k] = IF k = 0 THEN 1 ELSE Unit * f[k - 1]
    BY <1>4, <1>5
  <2> QED
    BY <2>1, <2>2
<1>7. Is(power)
  BY <1>6
<1>8. Scale(n) = power[n]
  BY DEF Scale
<1> HIDE DEF power
<1>9. power[0] = 1 /\ \A k \in 1..n : power[k] = Unit * power[k - 1]
  <2>1. \A k \in 0..n : power[k] = IF k = 0 THEN 1 ELSE Unit * power[k - 1]
    BY <1>7
  <2> QED
    BY <2>1
<1>10. \A k \in Nat : k <= n => power[k] \in S
  <2> DEFINE Good == {k \in Nat : k <= n => power[k] \in S}
  <2>1. 0 \in Good
    BY <1>9
  <2>2. ASSUME NEW k \in Nat, k \in Good PROVE k + 1 \in Good
    <3>1. CASE k + 1 <= n
      <4>1. power[k + 1] = Unit * power[k]
        BY <1>9, <3>1
      <4> QED
        BY <1>2, <2>2, <3>1, <4>1
    <3> QED
      BY <3>1
  <2>3. Nat \subseteq Good
    <3> HIDE DEF Good
    <3> QED
      BY <2>1, <2>2, SetInduction
  <2> QED
    BY <2>3
<1>11. power \in [0..n -> S]
  BY <1>7, <1>10
<1> QED
  BY <1>8, <1>9, <1>11

\* Division undoes multiplication.
LEMMA Divide ==
    ASSUME NEW k \in Int
    PROVE  (Unit * k) \div Unit = k
BY RiskAssumption

\* The index of a portfolio has a value for each return, as long as none is the loss
\* of everything.
LEMMA IndexIsIndex ==
    ASSUME NEW rets \in Seq(Int \ {-Unit}), rets # <<>>
    PROVE  IsIndex(Index(rets))
<1> DEFINE L == Len(rets)
           Is(f) == f = [n \in 0..L |-> IF n = 0 THEN Scale(L)
                                       ELSE (f[n - 1] * (Unit + rets[n])) \div Unit]
           value == CHOOSE f : Is(f)
           V == Int \ {0}
<1>1. L \in Nat \ {0} /\ \A n \in 1..L : rets[n] \in Int /\ Unit + rets[n] \in V
  <2>1. \A n \in 1..L : rets[n] \in Int /\ rets[n] # -Unit
    OBVIOUS
  <2> QED
    BY <2>1, RiskAssumption
<1>2. PICK p \in [0..L -> Nat \ {0}] :
         /\ Scale(L) = p[L]
         /\ p[0] = 1
         /\ \A k \in 1..L : p[k] = Unit * p[k - 1]
  BY <1>1, PowersExist
<1>3. Scale(L) \in Int
  BY <1>1, <1>2
<1>4. PICK step : step = [n \in 1..L |-> [v \in Int |-> (v * (Unit + rets[n])) \div Unit]]
  OBVIOUS
<1>5. step \in [1..L -> [Int -> Int]]
  <2>1. ASSUME NEW n \in 1..L, NEW v \in Int PROVE (v * (Unit + rets[n])) \div Unit \in Int
    <3>1. PICK k \in Int : k = v * (Unit + rets[n])
      BY <1>1
    <3> QED
      BY <3>1, RiskAssumption
  <2> HIDE DEF L
  <2> QED
    BY <1>4, <2>1
<1>6. PICK f \in [0..L -> Int] : f[0] = Scale(L) /\ \A n \in 1..L : f[n] = step[n][f[n - 1]]
  <2>1. L \in Nat
    BY <1>1
  <2> HIDE DEF L
  <2>2. \E f : Follows(f, L, Int, Scale(L), step)
    BY <1>3, <1>5, <2>1, Recursion
  <2> QED
    BY <2>2 DEF Follows
<1>7. Is(f)
  <2> HIDE DEF L
  <2>1. f = [n \in 0..L |-> f[n]]
    BY <1>6
  <2>2. ASSUME NEW n \in 1..L PROVE f[n] = (f[n - 1] * (Unit + rets[n])) \div Unit
    <3>1. n - 1 \in 0..L
      BY <1>1
    <3>2. f[n - 1] \in Int
      BY <1>6, <3>1
    <3> QED
      BY <1>4, <1>6, <3>2
  <2>3. \A n \in 0..L : f[n] = IF n = 0 THEN Scale(L)
                             ELSE (f[n - 1] * (Unit + rets[n])) \div Unit
    BY <1>1, <1>6, <2>2
  <2> QED
    BY <2>1, <2>3
<1>8. Is(value)
  BY <1>7
<1>9. Index(rets) = [n \in 1..L |-> value[n]]
  BY DEF Index
<1> HIDE DEF value
<1>10. /\ value[0] = Scale(L)
       /\ \A n \in 1..L : value[n] = (value[n - 1] * (Unit + rets[n])) \div Unit
  <2> HIDE DEF L
  <2>1. \A n \in 0..L : value[n] = IF n = 0 THEN Scale(L)
                                 ELSE (value[n - 1] * (Unit + rets[n])) \div Unit
    BY <1>8
  <2> QED
    BY <1>1, <2>1
<1> HIDE DEF L, Is
<1> DEFINE Good == {n \in Nat : n <= L => \E q \in V : value[n] = p[L - n] * q}
<1>11. 0 \in Good
  <2>1. value[0] = p[L - 0] * 1
    BY <1>1, <1>2, <1>10
  <2> QED
    BY <2>1
<1>12. ASSUME NEW n \in Nat, n \in Good PROVE n + 1 \in Good
  <2> SUFFICES ASSUME n + 1 <= L PROVE \E q \in V : value[n + 1] = p[L - (n + 1)] * q
    OBVIOUS
  <2>1. PICK q \in V : value[n] = p[L - n] * q
    BY <1>1, <1>12
  <2>2. PICK r \in V : r = Unit + rets[n + 1]
    <3>1. n + 1 \in 1..L
      BY <1>1
    <3> QED
      BY <1>1, <3>1
  <2>3. PICK s \in Nat \ {0} : s = p[L - (n + 1)]
    BY <1>1, <1>2
  <2>4. p[L - n] = Unit * s
    <3>1. L - n \in 1..L /\ (L - n) - 1 = L - (n + 1)
      BY <1>1
    <3> QED
      BY <1>2, <2>3, <3>1
  <2>5. PICK t \in V : t = q * r
    OBVIOUS
  <2>6. PICK k \in Int : k = s * t
    OBVIOUS
  <2>7. value[n] * r = Unit * k
    BY <2>1, <2>4, <2>5, <2>6, RiskAssumption
  <2>8. value[n + 1] = (value[n] * r) \div Unit
    <3>1. n + 1 \in 1..L /\ (n + 1) - 1 = n
      BY <1>1
    <3> QED
      BY <1>10, <2>2, <3>1
  <2>9. value[n + 1] = s * t
    BY <2>6, <2>7, <2>8, Divide
  <2> QED
    BY <2>3, <2>9
<1>13. Nat \subseteq Good
  <2> HIDE DEF Good
  <2> QED
    BY <1>11, <1>12, SetInduction
<1>14. ASSUME NEW n \in 1..L PROVE value[n] \in V
  <2>1. PICK q \in V : value[n] = p[L - n] * q
    BY <1>1, <1>13
  <2>2. PICK s \in Nat \ {0} : s = p[L - n]
    BY <1>1, <1>2
  <2> QED
    BY <2>1, <2>2
<1> QED
  <2>1. [n \in 1..L |-> value[n]] \in Seq(V)
    BY <1>1, <1>14
  <2>2. 1 \in DOMAIN Index(rets)
    BY <1>1, <1>9
  <2>3. Index(rets) # <<>>
    BY <2>2
  <2> QED
    BY <1>9, <2>1, <2>3 DEF IsIndex

\* The greatest of the first n values.
IsMaximum(m, index, n) ==
    /\ \E i \in 1..n : m = index[i]
    /\ \A i \in 1..n : index[i] <= m

RunningMax(index) ==
    CHOOSE f : f = [n \in DOMAIN index |->
                      IF n > 1 /\ f[n - 1] > index[n] THEN f[n - 1] ELSE index[n]]

\* The running maximum of an index is the maximum so far.
LEMMA RunningMaxIs ==
    ASSUME NEW index, IsIndex(index)
    PROVE  \A n \in 1..Len(index) : IsMaximum(RunningMax(index)[n], index, n)
<1> DEFINE L == Len(index)
           Is(f) == f = [n \in DOMAIN index |->
                           IF n > 1 /\ f[n - 1] > index[n] THEN f[n - 1] ELSE index[n]]
           runningMax == CHOOSE f : Is(f)
<1>1. L \in Nat \ {0} /\ DOMAIN index = 1..L /\ \A n \in 1..L : index[n] \in Int
  BY DEF IsIndex
<1>2. RunningMax(index) = runningMax
  BY DEF RunningMax
<1>3. PICK step : step = [n \in 1..L |-> [v \in Int |-> IF n > 1 /\ v > index[n] THEN v ELSE index[n]]]
  OBVIOUS
<1> HIDE DEF L
<1>4. step \in [1..L -> [Int -> Int]]
  <2>1. ASSUME NEW n \in 1..L, NEW v \in Int
        PROVE  (IF n > 1 /\ v > index[n] THEN v ELSE index[n]) \in Int
    BY <1>1
  <2> QED
    BY <1>3, <2>1
<1>5. PICK f : Follows(f, L, Int, 0, step)
  <2>1. L \in Nat /\ 0 \in Int
    BY <1>1
  <2> QED
    BY <1>4, <2>1, Recursion
<1>6. \E g : Is(g)
  <2>1. PICK g : g = [n \in 1..L |-> f[n]]
    OBVIOUS
  <2>2. ASSUME NEW n \in 1..L
        PROVE  g[n] = IF n > 1 /\ g[n - 1] > index[n] THEN g[n - 1] ELSE index[n]
    <3>1. n - 1 \in 0..L /\ f[n - 1] \in Int /\ f[n] = step[n][f[n - 1]]
      BY <1>1, <1>5 DEF Follows
    <3>2. f[n] = IF n > 1 /\ f[n - 1] > index[n] THEN f[n - 1] ELSE index[n]
      BY <1>3, <3>1
    <3>3. n > 1 => g[n - 1] = f[n - 1]
      BY <1>1, <2>1
    <3>4. g[n] = f[n]
      BY <2>1
    <3>5. CASE n > 1
      BY <3>2, <3>3, <3>4, <3>5
    <3>6. CASE ~(n > 1)
      BY <3>2, <3>4, <3>6
    <3> QED
      BY <3>5, <3>6
  <2>3. Is(g)
    BY <1>1, <2>1, <2>2
  <2> QED
    BY <2>3
<1>7. Is(runningMax)
  BY <1>6
<1> HIDE DEF runningMax
<1>8. \A n \in 1..L : runningMax[n] =
         IF n > 1 /\ runningMax[n - 1] > index[n] THEN runningMax[n - 1] ELSE index[n]
  BY <1>1, <1>7
<1> HIDE DEF Is
<1> DEFINE Good == {n \in Nat : n \in 1..L => IsMaximum(runningMax[n], index, n)}
<1>9. 0 \in Good
  OBVIOUS
<1>10. ASSUME NEW n \in Nat, n \in Good PROVE n + 1 \in Good
  <2> SUFFICES ASSUME n + 1 \in 1..L PROVE IsMaximum(runningMax[n + 1], index, n + 1)
    OBVIOUS
  <2>1. index[n + 1] \in Int
    BY <1>1
  <2>2. CASE n = 0
    <3>1. runningMax[1] = index[1]
      BY <1>8, <2>2
    <3> QED
      BY <1>1, <2>2, <3>1 DEF IsMaximum
  <2>3. CASE n \in 1..L
    <3>1. PICK m : m = runningMax[n]
      OBVIOUS
    <3>2. IsMaximum(m, index, n) /\ m \in Int
      BY <1>1, <1>10, <2>3, <3>1 DEF IsMaximum
    <3>3. runningMax[n + 1] = IF m > index[n + 1] THEN m ELSE index[n + 1]
      <4>1. n + 1 > 1 /\ (n + 1) - 1 = n
        BY <2>3
      <4> QED
        BY <1>8, <3>1, <4>1
    <3>4. \A i \in 1..n + 1 : i \in 1..n \/ i = n + 1
      OBVIOUS
    <3>5. \A i \in 1..n : index[i] \in Int /\ i \in 1..n + 1
      BY <1>1, <2>3
    <3>6. CASE m > index[n + 1]
      BY <2>1, <3>2, <3>3, <3>4, <3>5, <3>6 DEF IsMaximum
    <3>7. CASE ~(m > index[n + 1])
      <4>1. \A i \in 1..n + 1 : index[i] <= index[n + 1]
        BY <2>1, <3>2, <3>4, <3>5, <3>7 DEF IsMaximum
      <4> QED
        BY <3>3, <3>7, <4>1 DEF IsMaximum
    <3> QED
      BY <3>6, <3>7
  <2> QED
    BY <1>1, <2>2, <2>3
<1>11. Nat \subseteq Good
  <2> HIDE DEF Good
  <2> QED
    BY <1>9, <1>10, SetInduction
<1> QED
  BY <1>1, <1>2, <1>11 DEF L

\* A fall below the maximum so far.
FallAt(index, n) == Fall(index[n], RunningMax(index)[n])

IsFall(f) == f \in [left : Int, peak : Nat \ {0}]

\* Every day has one, and the maximum is not nothing.
LEMMA FallAtIs ==
    ASSUME NEW index, IsIndex(index), NEW n \in 1..Len(index)
    PROVE  /\ IsFall(FallAt(index, n))
           /\ RunningMax(index)[n] \in Int \ {0} /\ index[n] \in Int \ {0}
<1>1. \A i \in 1..Len(index) : index[i] \in Int \ {0}
  BY DEF IsIndex
<1>2. PICK m : m = RunningMax(index)[n]
  OBVIOUS
<1>3. Len(index) \in Nat
  BY DEF IsIndex
<1>4. m \in Int \ {0}
  <2>1. PICK i \in 1..n : m = index[i]
    BY <1>2, RunningMaxIs DEF IsMaximum
  <2>2. i \in 1..Len(index)
    BY <1>3
  <2> QED
    BY <1>1, <2>1, <2>2
<1>5. index[n] \in Int \ {0}
  BY <1>1
<1> QED
  BY <1>2, <1>4, <1>5 DEF FallAt, Fall, IsFall

\* If one fall is no deeper than another, which is no deeper than a third, the first
\* is no deeper than the third.
LEMMA DeeperTransitive ==
    ASSUME NEW a, IsFall(a), NEW b, IsFall(b), NEW c, IsFall(c),
           ~Deeper(a, b), ~Deeper(b, c)
    PROVE  ~Deeper(a, c)
<1> DEFINE al == a.left  ap == a.peak
           bl == b.left  bp == b.peak
           cl == c.left  cp == c.peak
<1>1. al \in Int /\ bl \in Int /\ cl \in Int
      /\ ap \in Nat \ {0} /\ bp \in Nat \ {0} /\ cp \in Nat \ {0}
  BY DEF IsFall
<1>2. al * bp >= bl * ap /\ bl * cp >= cl * bp
  BY <1>1 DEF Deeper
<1> SUFFICES al * cp >= cl * ap
  BY <1>1 DEF Deeper
<1> HIDE DEF al, ap, bl, bp, cl, cp
<1>3. (al * bp) * cp >= (bl * ap) * cp
  BY <1>1, <1>2
<1>4. (bl * cp) * ap >= (cl * bp) * ap
  BY <1>1, <1>2
<1>5. (al * cp) * bp >= (cl * ap) * bp
  BY <1>1, <1>3, <1>4
<1>6. PICK x \in Int, y \in Int : x = al * cp /\ y = cl * ap
  BY <1>1
<1>7. x * bp >= y * bp
  BY <1>5, <1>6
<1>8. x >= y
  BY <1>1, <1>6, <1>7
<1> QED
  BY <1>6, <1>8

\* Of the first n falls, one that no other is deeper than.
IsDeepest(w, index, n) ==
    /\ \E k \in 1..n : w = FallAt(index, k)
    /\ \A k \in 1..n : ~Deeper(FallAt(index, k), w)

\* One pass finds the deepest fall below a maximum.
LEMMA MaxDrawdownIs ==
    ASSUME NEW index, IsIndex(index)
    PROVE  IsDeepest(MaxDrawdown(index), index, Len(index))
<1> DEFINE L == Len(index)
           Is(f) == f = [n \in DOMAIN index |->
                           LET here == Fall(index[n], RunningMax(index)[n])
                           IN  IF n > 1 /\ ~Deeper(here, f[n - 1]) THEN f[n - 1] ELSE here]
           worst == CHOOSE f : Is(f)
           S == [left : Int, peak : Nat \ {0}]
<1>1. L \in Nat \ {0} /\ DOMAIN index = 1..L
  BY DEF IsIndex
<1>2. MaxDrawdown(index) = worst[L]
  BY Zenon DEF MaxDrawdown, RunningMax
<1>3. \A n \in 1..L : FallAt(index, n) \in S
  BY FallAtIs DEF IsFall
<1>4. PICK step : step = [n \in 1..L |-> [v \in S |->
                            IF n > 1 /\ ~Deeper(FallAt(index, n), v) THEN v ELSE FallAt(index, n)]]
  OBVIOUS
<1> HIDE DEF L, S
<1>5. step \in [1..L -> [S -> S]]
  <2>1. ASSUME NEW n \in 1..L, NEW v \in S
        PROVE  (IF n > 1 /\ ~Deeper(FallAt(index, n), v) THEN v ELSE FallAt(index, n)) \in S
    BY <1>3
  <2> QED
    BY <1>4, <2>1
<1>6. PICK f : Follows(f, L, S, FallAt(index, 1), step)
  <2>1. L \in Nat /\ FallAt(index, 1) \in S
    BY <1>1, <1>3
  <2> QED
    BY <1>5, <2>1, Recursion
<1>7. \E g : Is(g)
  <2>1. PICK g : g = [n \in 1..L |-> f[n]]
    OBVIOUS
  <2>2. ASSUME NEW n \in 1..L
        PROVE  g[n] = IF n > 1 /\ ~Deeper(FallAt(index, n), g[n - 1]) THEN g[n - 1]
                      ELSE FallAt(index, n)
    <3>1. n - 1 \in 0..L /\ f[n - 1] \in S /\ f[n] = step[n][f[n - 1]]
      BY <1>1, <1>6 DEF Follows
    <3>2. f[n] = IF n > 1 /\ ~Deeper(FallAt(index, n), f[n - 1]) THEN f[n - 1]
                 ELSE FallAt(index, n)
      BY <1>4, <3>1
    <3>3. n > 1 => g[n - 1] = f[n - 1]
      BY <1>1, <2>1
    <3>4. g[n] = f[n]
      BY <2>1
    <3>5. CASE n > 1
      BY <3>2, <3>3, <3>4, <3>5
    <3>6. CASE ~(n > 1)
      BY <3>2, <3>4, <3>6
    <3> QED
      BY <3>5, <3>6
  <2>3. Is(g)
    <3>1. g = [n \in 1..L |->
                 IF n > 1 /\ ~Deeper(FallAt(index, n), g[n - 1]) THEN g[n - 1]
                 ELSE FallAt(index, n)]
      BY <2>1, <2>2
    <3> QED
      BY <1>1, <3>1 DEF FallAt
  <2> QED
    BY <2>3
<1>8. Is(worst)
  BY <1>7
<1> HIDE DEF worst
<1>9. \A n \in 1..L :
         worst[n] = IF n > 1 /\ ~Deeper(FallAt(index, n), worst[n - 1]) THEN worst[n - 1]
                    ELSE FallAt(index, n)
  BY <1>1, <1>8 DEF FallAt
<1> HIDE DEF Is
<1> DEFINE Good == {n \in Nat : n \in 1..L => IsDeepest(worst[n], index, n)}
<1>10. 0 \in Good
  OBVIOUS
<1>11. ASSUME NEW a \in S, NEW b \in S
       PROVE  ~Deeper(a, a) /\ (Deeper(a, b) => ~Deeper(b, a))
  BY DEF Deeper, S
<1>12. ASSUME NEW n \in Nat, n \in Good PROVE n + 1 \in Good
  <2> SUFFICES ASSUME n + 1 \in 1..L PROVE IsDeepest(worst[n + 1], index, n + 1)
    OBVIOUS
  <2>1. PICK here \in S : here = FallAt(index, n + 1)
    BY <1>3
  <2>2. CASE n = 0
    <3>1. worst[1] = FallAt(index, 1)
      BY <1>9, <2>2
    <3>2. ~Deeper(here, here)
      BY <1>11
    <3> QED
      BY <2>1, <2>2, <3>1, <3>2 DEF IsDeepest
  <2>3. CASE n \in 1..L
    <3>1. PICK w : w = worst[n]
      OBVIOUS
    <3>2. IsDeepest(w, index, n)
      BY <1>12, <2>3, <3>1
    <3>3. \A k \in 1..n : k \in 1..L /\ k \in 1..n + 1
      BY <1>1, <2>3
    <3>4. w \in S
      BY <1>3, <3>2, <3>3 DEF IsDeepest
    <3>5. worst[n + 1] = IF ~Deeper(here, w) THEN w ELSE here
      <4>1. n + 1 > 1 /\ (n + 1) - 1 = n
        BY <2>3
      <4> QED
        BY <1>9, <2>1, <3>1, <4>1
    <3>6. \A k \in 1..n + 1 : k \in 1..n \/ k = n + 1
      OBVIOUS
    <3>7. CASE ~Deeper(here, w)
      BY <2>1, <3>2, <3>3, <3>5, <3>6, <3>7 DEF IsDeepest
    <3>8. CASE Deeper(here, w)
      <4>1. ~Deeper(w, here)
        BY <1>11, <3>4, <3>8
      <4>2. ASSUME NEW k \in 1..n PROVE ~Deeper(FallAt(index, k), here)
        <5>1. FallAt(index, k) \in S /\ ~Deeper(FallAt(index, k), w)
          BY <1>3, <3>2, <3>3 DEF IsDeepest
        <5>2. IsFall(FallAt(index, k)) /\ IsFall(w) /\ IsFall(here)
          BY <3>4, <5>1 DEF S, IsFall
        <5> QED
          BY <4>1, <5>1, <5>2, DeeperTransitive
      <4>3. ~Deeper(here, here)
        BY <1>11
      <4> QED
        BY <2>1, <3>5, <3>6, <3>8, <4>2, <4>3 DEF IsDeepest
    <3> QED
      BY <3>7, <3>8
  <2> QED
    BY <1>1, <2>2, <2>3
<1>13. Nat \subseteq Good
  <2> HIDE DEF Good
  <2> QED
    BY <1>10, <1>12, SetInduction
<1> QED
  BY <1>1, <1>2, <1>13 DEF L

\* A fall of more than the threshold is one of as much.
LEMMA DrawdownBetween ==
    ASSUME DrawdownPercent \in 1..100, NEW index, IsIndex(index),
           NEW w, w = MaxDrawdown(index)
    PROVE  /\ (\E f \in Falls(index) : Exceeds(f)) =>
                 100 * (w.peak - w.left) > DrawdownPercent * w.peak
           /\ 100 * (w.peak - w.left) >= DrawdownPercent * w.peak =>
                 \E f \in Falls(index) : Reaches(f)
<1> DEFINE L == Len(index)
<1>1. L \in Nat \ {0} /\ DOMAIN index = 1..L /\ \A n \in 1..L : index[n] \in Int
  BY DEF IsIndex
<1>2. PICK D \in 1..100 : D = DrawdownPercent
  OBVIOUS
<1>3. IsDeepest(w, index, L)
  BY MaxDrawdownIs
<1>4. PICK k \in 1..L : w = FallAt(index, k)
  BY <1>3 DEF IsDeepest
<1>5. IsFall(w)
  BY <1>4, FallAtIs
<1>6. ASSUME NEW f \in Falls(index), Exceeds(f)
      PROVE  100 * (w.peak - w.left) > D * w.peak
  <2>0. PICK j \in 1..L :
           \E i \in 1..j : index[i] > 0 /\ f = [left |-> index[j], peak |-> index[i]]
    BY <1>1 DEF Falls
  <2>1. PICK i \in 1..j : index[i] > 0 /\ f = [left |-> index[j], peak |-> index[i]]
    BY <2>0
  <2>2. PICK l \in Int : l = index[j]
    BY <1>1
  <2>3. PICK p \in Int : p = index[i] /\ p > 0
    <3>1. i \in 1..L
      BY <1>1
    <3> QED
      BY <1>1, <2>1, <3>1
  <2>4. PICK m \in Int : m = RunningMax(index)[j] /\ p <= m
    <3>1. IsMaximum(RunningMax(index)[j], index, j)
      BY RunningMaxIs
    <3> QED
      BY <2>3, <3>1, FallAtIs DEF IsMaximum
  <2>5. FallAt(index, j) = [left |-> l, peak |-> m]
    BY <2>2, <2>3, <2>4 DEF FallAt, Fall
  <2>6. PICK wl \in Int, wp \in Nat \ {0} : w.left = wl /\ w.peak = wp
    BY <1>5 DEF IsFall
  <2>7. l * wp >= wl * m
    <3>1. ~Deeper(FallAt(index, j), w)
      BY <1>3 DEF IsDeepest
    <3> QED
      BY <2>4, <2>5, <2>6, <3>1 DEF Deeper
  <2>8. 100 * (p - l) > D * p
    BY <1>2, <1>6, <2>1, <2>2, <2>3 DEF Exceeds
  <2>9. PICK rest \in 0..99 : rest = 100 - D
    OBVIOUS
  <2>10. rest * p > 100 * l
    BY <2>8, <2>9
  <2>11. rest * m >= rest * p
    <3>1. PICK d \in Nat : m = p + d
      BY <2>4
    <3>2. rest * d >= 0
      BY <2>9
    <3>3. rest * m = rest * p + rest * d
      BY <2>9, <3>1
    <3> QED
      BY <3>2, <3>3
  <2>12. PICK a \in Int : a = rest * m /\ a > 100 * l
    BY <2>10, <2>11
  <2>13. a * wp > (100 * l) * wp
    BY <2>12
  <2>14. (rest * wp) * m > (100 * wl) * m
    BY <2>7, <2>12, <2>13
  <2>15. PICK b \in Int : b = rest * wp
    OBVIOUS
  <2>16. b > 100 * wl
    BY <2>3, <2>4, <2>14, <2>15
  <2>17. 100 * (wp - wl) > D * wp
    BY <2>9, <2>15, <2>16
  <2> QED
    BY <2>6, <2>17
<1>7. ASSUME 100 * (w.peak - w.left) >= D * w.peak
      PROVE  \E f \in Falls(index) : Reaches(f)
  <2>1. PICK m \in Int \ {0} : m = RunningMax(index)[k]
    BY FallAtIs
  <2>2. PICK l \in Int : l = index[k]
    BY <1>1
  <2>3. IsMaximum(m, index, k)
    BY <2>1, RunningMaxIs
  <2>4. CASE m > 0
    <3>1. w = [left |-> l, peak |-> m]
      BY <1>4, <2>1, <2>2, <2>4 DEF FallAt, Fall
    <3>2. PICK i \in 1..k : m = index[i]
      BY <2>3 DEF IsMaximum
    <3>3. w \in Falls(index)
      BY <1>1, <2>2, <2>4, <3>1, <3>2 DEF Falls
    <3> QED
      BY <1>2, <1>7, <3>3 DEF Reaches
  <2>5. CASE m < 0
    <3>1. w = [left |-> -l, peak |-> -m]
      BY <1>4, <2>1, <2>2, <2>5 DEF FallAt, Fall
    <3>2. l <= m
      BY <2>2, <2>3 DEF IsMaximum
    <3>3. 100 * (-m - (-l)) >= D * (-m)
      BY <1>7, <3>1
    <3>4. D * (-m) > 0
      BY <2>5
    <3> QED
      BY <3>2, <3>3, <3>4
  <2> QED
    BY <2>4, <2>5
<1> QED
  BY <1>2, <1>6, <1>7

\* What is reported of a portfolio is one of the things the engine may report of it.
Analyses == answer.kind = "risk" =>
    \E h \in Holdings :
        /\ asked.positions = h.positions /\ asked.returns = h.returns
        /\ Analysed(h.positions) # {}
        /\ answer.breaches \in Breaches(h.positions, h.returns)

LEMMA AnalysesAlways == Spec => []Analyses
<1>1. Init => Analyses
  BY DEF Init, Nothing, Analyses
<1>2. Analyses /\ [Next]_vars => Analyses'
  <2> SUFFICES ASSUME Analyses, [Next]_vars
               PROVE  Analyses'
    OBVIOUS
  <2>1. ASSUME NEW m \in Mode, NEW rows \in Rows, NEW volume \in BOOLEAN,
               NEW range \in BOOLEAN, GetSignal(m, rows, volume, range)
        PROVE  Analyses'
    BY <2>1 DEF GetSignal, Analyses
  <2>2. CASE GetSignalOfUnknown
    BY <2>2 DEF GetSignalOfUnknown, Analyses
  <2>3. ASSUME NEW h \in Holdings, WarnOfHoldings(h)
        PROVE  Analyses'
    BY <2>3 DEF WarnOfHoldings, Analyses
  <2>4. ASSUME NEW h \in Holdings, AnalyseHoldings(h)
        PROVE  Analyses'
    BY <2>4 DEF AnalyseHoldings, Analyses
  <2>5. ASSUME NEW prices \in Prices, DetectAnomalies(prices)
        PROVE  Analyses'
    BY <2>5 DEF DetectAnomalies, Analyses
  <2>6. ASSUME NEW m \in Mode, NEW rows \in Histories, NEW price, NEW volume \in BOOLEAN,
               NEW range \in BOOLEAN, GetIndicators(m, rows, price, volume, range)
        PROVE  Analyses'
    BY <2>6 DEF GetIndicators, Analyses
  <2>7. CASE Forget
    BY <2>7 DEF Forget, Nothing, Analyses
  <2>8. CASE UNCHANGED vars
    BY <2>8 DEF vars, Analyses
  <2> QED
    BY <2>1, <2>2, <2>3, <2>4, <2>5, <2>6, <2>7, <2>8 DEF Next, Decide
<1> QED
  BY <1>1, <1>2, PTL DEF Spec

\* One pass with a running maximum is enough to see every drawdown, and makes none up,
\* for a threshold that is a share.
THEOREM DrawdownSeen ==
    ASSUME DrawdownPercent \in 1..100
    PROVE  Spec => []DrawdownIsSeen
<1>1. Analyses => DrawdownIsSeen
  <2> SUFFICES ASSUME Analyses, answer.kind = "risk"
               PROVE  LET falls == Falls(Index(asked.returns))
                      IN  /\ (\E f \in falls : Exceeds(f)) => "drawdown_breach" \in answer.breaches
                          /\ "drawdown_breach" \in answer.breaches => \E f \in falls : Reaches(f)
    BY DEF DrawdownIsSeen
  <2>1. PICK h \in Holdings :
           /\ asked.returns = h.returns
           /\ Analysed(h.positions) # {}
           /\ answer.breaches \in Breaches(h.positions, h.returns)
    BY DEF Analyses
  <2>2. PICK index : index = Index(h.returns)
    OBVIOUS
  <2>3. IsIndex(index)
    BY <2>1, <2>2, HoldingsAssumption, IndexIsIndex
  <2>4. PICK w : w = MaxDrawdown(index)
    OBVIOUS
  <2>5. /\ "drawdown_breach" \in answer.breaches =>
              100 * (w.peak - w.left) >= DrawdownPercent * w.peak
        /\ "drawdown_breach" \notin answer.breaches =>
              100 * (w.peak - w.left) <= DrawdownPercent * w.peak
    BY <2>1, <2>2, <2>4 DEF Breaches
  <2>6. IsFall(w)
    <3>1. Len(index) \in Nat
      BY <2>3 DEF IsIndex
    <3> QED
      BY <2>3, <2>4, <3>1, MaxDrawdownIs, FallAtIs DEF IsDeepest
  <2>7. /\ (\E f \in Falls(index) : Exceeds(f)) =>
              100 * (w.peak - w.left) > DrawdownPercent * w.peak
        /\ 100 * (w.peak - w.left) >= DrawdownPercent * w.peak =>
              \E f \in Falls(index) : Reaches(f)
    BY <2>3, <2>4, DrawdownBetween
  <2>8. PICK lost \in Int, limit \in Int :
           lost = 100 * (w.peak - w.left) /\ limit = DrawdownPercent * w.peak
    BY <2>6 DEF IsFall
  <2> QED
    BY <2>1, <2>2, <2>5, <2>7, <2>8
<1> QED
  BY <1>1, AnalysesAlways, PTL

\* A sum takes one element of the set at a time.
Some(T) == CHOOSE x \in T : TRUE

AddsUp(f, v, D) == f = [T \in D |-> IF T = {} THEN 0 ELSE v[Some(T)] + f[T \ {Some(T)}]]

\* There are sums of all parts of a finite set.
LEMMA SumsExist ==
    ASSUME NEW v, NEW S, IsFiniteSet(S)
    PROVE  \E f : AddsUp(f, v, SUBSET S)
<1> DEFINE Small(k) == {T \in SUBSET S : Cardinality(T) <= k}
           Found == {k \in Nat : \E f : AddsUp(f, v, Small(k))}
           Value(f, T) == IF T = {} THEN 0 ELSE v[Some(T)] + f[T \ {Some(T)}]
<1>1. ASSUME NEW T \in SUBSET S
      PROVE  /\ IsFiniteSet(T) /\ Cardinality(T) \in Nat /\ Cardinality(T) <= Cardinality(S)
             /\ Cardinality(T) = 0 <=> T = {}
             /\ T # {} => /\ Some(T) \in T /\ T \ {Some(T)} \in SUBSET S
                          /\ Cardinality(T \ {Some(T)}) = Cardinality(T) - 1
  <2>1. IsFiniteSet(T) /\ Cardinality(T) <= Cardinality(S)
    BY FS_Subset
  <2>2. Cardinality(T) \in Nat
    BY <2>1, FS_CardinalityType
  <2>3. Cardinality(T) = 0 <=> T = {}
    BY <2>1, FS_EmptySet
  <2>4. ASSUME T # {} PROVE Some(T) \in T
    BY <2>4 DEF Some
  <2>5. ASSUME T # {} PROVE Cardinality(T \ {Some(T)}) = Cardinality(T) - 1
    BY <2>1, <2>4, <2>5, FS_RemoveElement
  <2> QED
    BY <2>1, <2>2, <2>3, <2>4, <2>5
<1>2. 0 \in Found
  <2>1. PICK f : f = [T \in Small(0) |-> 0]
    OBVIOUS
  <2>2. ASSUME NEW T \in Small(0) PROVE T = {}
    <3>1. Cardinality(T) \in Nat /\ Cardinality(T) <= 0
      BY <1>1
    <3>2. Cardinality(T) = 0
      BY <3>1
    <3> QED
      BY <1>1, <3>2
  <2>3. \A T \in Small(0) : f[T] = Value(f, T)
    BY <2>1, <2>2
  <2>4. AddsUp(f, v, Small(0))
    BY <2>1, <2>3 DEF AddsUp
  <2> QED
    BY <2>4
<1>3. ASSUME NEW k \in Nat, k \in Found PROVE k + 1 \in Found
  <2>1. PICK old : AddsUp(old, v, Small(k))
    BY <1>3
  <2>2. PICK new : new = [T \in Small(k + 1) |-> Value(old, T)]
    OBVIOUS
  <2> HIDE DEF Value
  <2>3. ASSUME NEW T \in Small(k) PROVE new[T] = old[T]
    <3>1. T \in Small(k + 1)
      <4>1. T \in SUBSET S /\ Cardinality(T) <= k
        OBVIOUS
      <4>2. Cardinality(T) \in Nat
        BY <1>1, <4>1
      <4> QED
        BY <4>1, <4>2
    <3>2. old[T] = Value(old, T)
      BY <2>1, <2>3 DEF AddsUp, Value
    <3> QED
      BY <2>2, <3>1, <3>2
  <2>4. ASSUME NEW T \in Small(k + 1) PROVE Value(old, T) = Value(new, T)
    <3>1. CASE T = {}
      BY <3>1 DEF Value
    <3>2. CASE T # {}
      <4>1. T \in SUBSET S /\ Cardinality(T) <= k + 1
        BY <2>4
      <4>2. T \ {Some(T)} \in Small(k)
        BY <1>1, <3>2, <4>1
      <4>3. new[T \ {Some(T)}] = old[T \ {Some(T)}]
        BY <2>3, <4>2
      <4> QED
        BY <4>3 DEF Value
    <3> QED
      BY <3>1, <3>2
  <2>5. new = [T \in Small(k + 1) |-> Value(new, T)]
    <3> HIDE DEF Small
    <3> QED
      BY <2>2, <2>4
  <2>6. \E g : AddsUp(g, v, Small(k + 1))
    <3> HIDE DEF Small
    <3>1. AddsUp(new, v, Small(k + 1))
      BY <2>5 DEF AddsUp, Value
    <3> QED
      BY <3>1
  <2>7. k + 1 \in Nat
    OBVIOUS
  <2> HIDE DEF Small
  <2> QED
    BY <2>6, <2>7
<1>4. Cardinality(S) \in Found
  <2>1. Cardinality(S) \in Nat
    BY FS_CardinalityType
  <2>2. Nat \subseteq Found
    <3> HIDE DEF Found
    <3> QED
      BY <1>2, <1>3, SetInduction
  <2> QED
    BY <2>1, <2>2
<1>5. Small(Cardinality(S)) = SUBSET S
  BY <1>1
<1> QED
  BY <1>4, <1>5

\* What some of the positions are worth together.
Worth(ps, S) == MapThenSumSet(LAMBDA n : ps[n].value, S)

LEMMA WorthIsSum ==
    ASSUME NEW ps, NEW S, IsFiniteSet(S), NEW v, v = [n \in S |-> ps[n].value]
    PROVE  \E f : AddsUp(f, v, SUBSET S) /\ Worth(ps, S) = f[S]
<1> DEFINE Is(f) == f = [T \in SUBSET S |->
                           IF T = {} THEN 0 ELSE ps[Some(T)].value + f[T \ {Some(T)}]]
<1>1. Worth(ps, S) = (CHOOSE f : Is(f))[S]
  BY Zenon DEF Worth, MapThenSumSet, MapThenFoldSet, Some
<1>2. ASSUME NEW f PROVE Is(f) <=> AddsUp(f, v, SUBSET S)
  <2>1. \A T \in SUBSET S : T # {} => v[Some(T)] = ps[Some(T)].value
    BY DEF Some
  <2>2. \A T \in SUBSET S : (IF T = {} THEN 0 ELSE ps[Some(T)].value + f[T \ {Some(T)}])
                            = (IF T = {} THEN 0 ELSE v[Some(T)] + f[T \ {Some(T)}])
    BY <2>1
  <2> QED
    BY <2>2 DEF AddsUp
<1>3. Is(CHOOSE f : Is(f))
  BY <1>2, SumsExist
<1> HIDE DEF Is
<1> QED
  BY <1>1, <1>2, <1>3

\* The worth of positions is no less than that of each of them; and if each is within a
\* limit, together they are within so many times the limit.
LEMMA WorthBounds ==
    ASSUME NEW ps, NEW S, IsFiniteSet(S), \A n \in S : ps[n].value \in Nat
    PROVE  /\ Worth(ps, S) \in Nat
           /\ \A n \in S : ps[n].value <= Worth(ps, S)
           /\ \A limit \in Nat :
                 (\A n \in S : 100 * ps[n].value <= limit) =>
                    100 * Worth(ps, S) <= limit * Cardinality(S)
<1>0. PICK v : v = [n \in S |-> ps[n].value]
  OBVIOUS
<1>1. PICK f : AddsUp(f, v, SUBSET S) /\ Worth(ps, S) = f[S]
  BY <1>0, WorthIsSum
<1>2. \A T \in SUBSET S :
         f[T] = IF T = {} THEN 0 ELSE ps[Some(T)].value + f[T \ {Some(T)}]
  <2>1. \A T \in SUBSET S : T # {} => v[Some(T)] = ps[Some(T)].value
    BY <1>0 DEF Some
  <2>2. \A T \in SUBSET S : f[T] = IF T = {} THEN 0 ELSE v[Some(T)] + f[T \ {Some(T)}]
    BY <1>1 DEF AddsUp
  <2> QED
    BY <2>1, <2>2
<1> DEFINE Bounded(T) ==
              /\ f[T] \in Nat
              /\ \A n \in T : ps[n].value <= f[T]
              /\ \A limit \in Nat :
                    (\A n \in T : 100 * ps[n].value <= limit) => 100 * f[T] <= limit * Cardinality(T)
           Good == {k \in Nat : \A T \in SUBSET S : Cardinality(T) = k => Bounded(T)}
<1>3. ASSUME NEW T \in SUBSET S
      PROVE  /\ IsFiniteSet(T) /\ Cardinality(T) \in Nat
             /\ Cardinality(T) = 0 <=> T = {}
  <2>1. IsFiniteSet(T)
    BY FS_Subset
  <2> QED
    BY <2>1, FS_CardinalityType, FS_EmptySet
<1>4. 0 \in Good
  <2>1. ASSUME NEW T \in SUBSET S, Cardinality(T) = 0 PROVE Bounded(T)
    <3>1. T = {}
      BY <1>3, <2>1
    <3>2. f[T] = 0
      BY <1>2, <3>1
    <3> QED
      BY <2>1, <3>1, <3>2
  <2> QED
    BY <2>1
<1>5. ASSUME NEW k \in Nat, k \in Good PROVE k + 1 \in Good
  <2> SUFFICES ASSUME NEW T \in SUBSET S, Cardinality(T) = k + 1 PROVE Bounded(T)
    OBVIOUS
  <2>1. T # {} /\ IsFiniteSet(T)
    BY <1>3
  <2>2. PICK x \in T : x = Some(T)
    BY <2>1 DEF Some
  <2>3. PICK R \in SUBSET S : R = T \ {x}
    OBVIOUS
  <2>4. Cardinality(R) = k
    <3>1. Cardinality(R) = Cardinality(T) - 1
      BY <2>1, <2>3, FS_RemoveElement
    <3> QED
      BY <3>1
  <2>5. Bounded(R)
    BY <1>5, <2>4
  <2>6. PICK worth \in Nat, r \in Nat : worth = ps[x].value /\ r = f[R] /\ f[T] = worth + r
    <3>1. f[T] = ps[x].value + f[R]
      BY <1>2, <2>1, <2>2, <2>3
    <3>2. ps[x].value \in Nat /\ f[R] \in Nat
      BY <2>5
    <3> QED
      BY <3>1, <3>2
  <2>7. ASSUME NEW n \in T PROVE ps[n].value <= worth + r
    <3>1. CASE n = x
      BY <2>6, <3>1
    <3>2. CASE n # x
      <4>1. n \in R /\ ps[n].value \in Nat
        BY <2>3, <3>2
      <4>2. ps[n].value <= r
        BY <2>5, <2>6, <4>1
      <4> QED
        BY <4>1, <4>2
    <3> QED
      BY <3>1, <3>2
  <2>8. ASSUME NEW limit \in Nat, \A n \in T : 100 * ps[n].value <= limit
        PROVE  100 * (worth + r) <= limit * (k + 1)
    <3>1. 100 * worth <= limit
      BY <2>6, <2>8
    <3>2. 100 * r <= limit * k
      <4>1. \A n \in R : 100 * ps[n].value <= limit
        BY <2>3, <2>8
      <4> QED
        BY <2>4, <2>5, <2>6, <4>1
    <3> QED
      BY <3>1, <3>2
  <2> QED
    BY <2>6, <2>7, <2>8
<1>6. Nat \subseteq Good
  <2> HIDE DEF Good
  <2> QED
    BY <1>4, <1>5, SetInduction
<1>7. Bounded(S)
  <2>1. Cardinality(S) \in Good
    BY <1>3, <1>6
  <2> HIDE DEF Bounded
  <2> QED
    BY <2>1
<1> QED
  BY <1>1, <1>7

\* If the positions that were analysed are too few for all of them to be within the
\* threshold, one is not.
LEMMA OneOfFew ==
    ASSUME NEW ps, NEW S, IsFiniteSet(S), S # {},
           \A n \in S : ps[n].value \in Nat \ {0},
           ConcentrationPercent * Cardinality(S) < 100
    PROVE  \E n \in S : 100 * ps[n].value > ConcentrationPercent * Worth(ps, S)
<1> SUFFICES ASSUME ~\E n \in S : 100 * ps[n].value > ConcentrationPercent * Worth(ps, S)
             PROVE  FALSE
  OBVIOUS
<1>1. PICK w \in Nat : w = Worth(ps, S)
  BY WorthBounds
<1>2. PICK c \in Nat : c = ConcentrationPercent
  BY RiskAssumption
<1>3. PICK k \in Nat : k = Cardinality(S)
  BY FS_CardinalityType
<1>4. w > 0
  <2>1. PICK n \in S : ps[n].value \in Nat \ {0}
    OBVIOUS
  <2>2. ps[n].value <= w
    BY <1>1, WorthBounds
  <2> QED
    BY <2>1, <2>2
<1>5. PICK limit \in Nat : limit = c * w
  OBVIOUS
<1>6. \A n \in S : 100 * ps[n].value <= limit
  <2>1. \A n \in S : ~(100 * ps[n].value > limit)
    BY <1>1, <1>2, <1>5
  <2> QED
    BY <2>1
<1>7. 100 * w <= limit * k
  BY <1>1, <1>3, <1>6, WorthBounds
<1>8. c * k <= 99
  BY <1>2, <1>3
<1>9. (c * k) * w <= 99 * w
  <2>1. PICK d \in Nat : 99 = c * k + d
    BY <1>8
  <2>2. 99 * w = (c * k) * w + d * w
    BY <2>1
  <2>3. d * w >= 0
    OBVIOUS
  <2> QED
    BY <2>2, <2>3
<1>10. limit * k = (c * k) * w
  BY <1>5
<1>11. 100 * w <= 99 * w
  BY <1>7, <1>9, <1>10
<1> QED
  BY <1>4, <1>11

\* A portfolio of too few symbols is always reported as concentrated, and none that is
\* not: if there are two positions of a symbol, of what they are worth together.
THEOREM FewConcentrated == Spec => []FewAreConcentrated
<1>1. Analyses => FewAreConcentrated
  <2> SUFFICES ASSUME Analyses, answer.kind = "risk"
               PROVE  FewAreConcentrated
    BY DEF FewAreConcentrated
  <2>1. PICK h \in Holdings :
           /\ asked.positions = h.positions
           /\ Analysed(h.positions) # {}
           /\ answer.breaches \in Breaches(h.positions, h.returns)
    BY DEF Analyses
  <2> DEFINE ps == asked.positions
             analysed == {n \in DOMAIN ps : ps[n].enough}
  <2>3. /\ \A n \in DOMAIN ps : ps[n].value \in Nat \ {0}
        /\ ps \in Seq(Range(ps))
    BY <2>1, HoldingsAssumption
  <2>4. PICK L \in Nat : DOMAIN ps = 1..L
    BY <2>3
  <2>6. /\ Analysed(ps) = analysed /\ analysed # {} /\ analysed \subseteq 1..L
        /\ \A n \in analysed : ps[n].value \in Nat \ {0}
    BY <2>1, <2>3, <2>4 DEF Analysed
  <2>7. IsFiniteSet(analysed)
    <3>1. IsFiniteSet(1..L)
      BY FS_Interval
    <3> HIDE DEF analysed
    <3> QED
      BY <2>6, <3>1, FS_Subset
  <2>8. TotalValue(ps) = Worth(ps, analysed)
    BY <2>6 DEF TotalValue, Worth
  <2>9. /\ "concentration_breach" \in answer.breaches => ConcentratedOrEqual(ps)
        /\ "concentration_breach" \notin answer.breaches => ~Concentrated(ps)
    BY <2>1, Zenon DEF Breaches
  <2> HIDE DEF ps, analysed
  <2> DEFINE Of(n) == {m \in analysed : ps[m].symbol = ps[n].symbol}
  <2>10. ASSUME ConcentrationPercent * Cardinality(analysed) < 100,
                \A m, n \in analysed : ps[m].symbol = ps[n].symbol => m = n
         PROVE  "concentration_breach" \in answer.breaches
    <3>1. PICK n \in analysed : 100 * ps[n].value > ConcentrationPercent * Worth(ps, analysed)
      BY <2>6, <2>7, <2>10, OneOfFew
    <3>2. \A m \in analysed : ps[m].symbol = ps[n].symbol => m <= n
      BY <2>6, <2>10
    <3>3. n \in Weighed(ps)
      BY <2>6, <3>2 DEF Weighed
    <3>4. Concentrated(ps)
      BY <2>8, <3>1, <3>3 DEF Concentrated
    <3> QED
      BY <2>9, <3>4
  <2>11. ASSUME "concentration_breach" \in answer.breaches
         PROVE  \E n \in analysed :
                   100 * Worth(ps, Of(n)) >= ConcentrationPercent * Worth(ps, analysed)
    <3>1. PICK n \in Weighed(ps) : 100 * ps[n].value >= ConcentrationPercent * TotalValue(ps)
      BY <2>9, <2>11 DEF ConcentratedOrEqual
    <3>2. n \in analysed /\ n \in Of(n)
      BY <2>6 DEF Weighed
    <3>3. PICK own : own = Of(n)
      OBVIOUS
    <3>4. /\ IsFiniteSet(own) /\ n \in own
          /\ \A m \in own : ps[m].value \in Nat
      BY <2>6, <2>7, <3>2, <3>3, FS_Subset
    <3>5. Worth(ps, own) \in Nat /\ ps[n].value <= Worth(ps, own) /\ ps[n].value \in Nat
      BY <3>4, WorthBounds
    <3>6. PICK t \in Nat : t = ConcentrationPercent * Worth(ps, analysed)
      <4>1. Worth(ps, analysed) \in Nat
        BY <2>6, <2>7, WorthBounds
      <4> QED
        BY <4>1, RiskAssumption
    <3>7. 100 * Worth(ps, own) >= t
      BY <2>8, <3>1, <3>5, <3>6
    <3> QED
      BY <3>2, <3>3, <3>6, <3>7
  <2> QED
    BY <2>10, <2>11, Zenon DEF FewAreConcentrated, Worth, ps, analysed
<1> QED
  BY <1>1, AnalysesAlways, PTL

-----------------------------------------------------------------------------
(***************************************************************************)
(* Anomalies.  Seen from the newest price c, `off` is the sum of what the  *)
(* prices of a window are below it, and `squares` that of its squares;     *)
(* by the inequality of Cauchy and Schwarz, off^2 is no more than squares  *)
(* times the number of prices other than c.                                *)
(***************************************************************************)
Others(prices, T) == {i \in T : prices[i] # prices[1]}

\* The sums of the detector.
LEMMA SumOfIsSum ==
    ASSUME NEW prices, NEW n \in Nat, NEW v, v = [k \in 1..n |-> prices[k]]
    PROVE  \E f : AddsUp(f, v, SUBSET (1..n)) /\ SumOf(prices, n) = f[1..n]
<1> DEFINE S == 1..n
           Is(f) == f = [T \in SUBSET S |->
                           IF T = {} THEN 0 ELSE prices[Some(T)] + f[T \ {Some(T)}]]
<1>1. SumOf(prices, n) = (CHOOSE f : Is(f))[S]
  BY Zenon DEF SumOf, MapThenSumSet, MapThenFoldSet, Some
<1>2. ASSUME NEW f PROVE Is(f) <=> AddsUp(f, v, SUBSET S)
  <2>1. \A T \in SUBSET S : T # {} => v[Some(T)] = prices[Some(T)]
    BY DEF Some
  <2>2. \A T \in SUBSET S : (IF T = {} THEN 0 ELSE prices[Some(T)] + f[T \ {Some(T)}])
                            = (IF T = {} THEN 0 ELSE v[Some(T)] + f[T \ {Some(T)}])
    BY <2>1
  <2> QED
    BY <2>2 DEF AddsUp
<1>3. Is(CHOOSE f : Is(f))
  <2>1. IsFiniteSet(S)
    BY FS_Interval
  <2> QED
    BY <1>2, <2>1, SumsExist
<1> HIDE DEF Is
<1> QED
  BY <1>1, <1>2, <1>3

LEMMA SumOfSquaresIsSum ==
    ASSUME NEW prices, NEW n \in Nat, NEW v, v = [k \in 1..n |-> prices[k] * prices[k]]
    PROVE  \E f : AddsUp(f, v, SUBSET (1..n)) /\ SumOfSquares(prices, n) = f[1..n]
<1> DEFINE S == 1..n
           Is(f) == f = [T \in SUBSET S |->
                           IF T = {} THEN 0
                           ELSE prices[Some(T)] * prices[Some(T)] + f[T \ {Some(T)}]]
<1>1. SumOfSquares(prices, n) = (CHOOSE f : Is(f))[S]
  BY Zenon DEF SumOfSquares, MapThenSumSet, MapThenFoldSet, Some
<1>2. ASSUME NEW f PROVE Is(f) <=> AddsUp(f, v, SUBSET S)
  <2>1. \A T \in SUBSET S : T # {} => v[Some(T)] = prices[Some(T)] * prices[Some(T)]
    BY DEF Some
  <2>2. \A T \in SUBSET S :
           (IF T = {} THEN 0 ELSE prices[Some(T)] * prices[Some(T)] + f[T \ {Some(T)}])
           = (IF T = {} THEN 0 ELSE v[Some(T)] + f[T \ {Some(T)}])
    BY <2>1
  <2> QED
    BY <2>2 DEF AddsUp
<1>3. Is(CHOOSE f : Is(f))
  <2>1. IsFiniteSet(S)
    BY FS_Interval
  <2> QED
    BY <1>2, <2>1, SumsExist
<1> HIDE DEF Is
<1> QED
  BY <1>1, <1>2, <1>3

\* One more term keeps the inequality.
LEMMA OneMoreTerm ==
    ASSUME NEW k \in Nat, NEW off \in Int, NEW squares \in Nat, NEW e \in Int,
           off * off <= k * squares
    PROVE  (off + e) * (off + e) <= (k + 1) * (squares + e * e)
<1>1. (off + e) * (off + e) = off * off + 2 * (off * e) + e * e
  OBVIOUS
<1>2. (k + 1) * (squares + e * e) = k * squares + k * (e * e) + squares + e * e
  OBVIOUS
<1> SUFFICES 2 * (off * e) <= k * (e * e) + squares
  <2>1. PICK oo \in Int, ks \in Int, oe \in Int, ke \in Int, ee \in Int :
           /\ oo = off * off /\ ks = k * squares /\ oe = off * e
           /\ ke = k * (e * e) /\ ee = e * e
    OBVIOUS
  <2> QED
    BY <1>1, <1>2, <2>1
<1>3. CASE k = 0
  <2>1. off * off <= 0
    BY <1>3
  <2>2. off = 0
    BY <2>1
  <2> QED
    BY <1>3, <2>2
<1>4. CASE k > 0
  <2>1. PICK x \in Int, y \in Int : x = off * e /\ y = k * (e * e) + squares
    OBVIOUS
  <2>2. PICK d \in Int : d = k * e - off
    OBVIOUS
  <2>3. d * d >= 0
    OBVIOUS
  <2>4. d * d = k * (k * (e * e)) - 2 * (k * (off * e)) + off * off
    BY <2>2
  <2>5. k * y = k * (k * (e * e)) + k * squares
    BY <2>1
  <2>6. k * (2 * x) = 2 * (k * (off * e))
    BY <2>1
  <2>7. k * (2 * x) <= k * y
    <3>1. PICK a \in Int, b \in Int, ks \in Int, oo \in Int :
             /\ a = k * (k * (e * e)) /\ b = k * (off * e)
             /\ ks = k * squares /\ oo = off * off
      OBVIOUS
    <3>2. a - 2 * b + oo >= 0
      BY <2>3, <2>4, <3>1
    <3>3. k * y = a + ks /\ k * (2 * x) = 2 * b
      BY <2>5, <2>6, <3>1
    <3>4. oo <= ks
      BY <3>1
    <3> QED
      BY <3>2, <3>3, <3>4
  <2>8. 2 * x <= y
    BY <1>4, <2>1, <2>7
  <2> QED
    BY <2>1, <2>8
<1> QED
  BY <1>3, <1>4

\* Deviation and variance of a window, and what bounds them.
HasMoments(prices, n, k) ==
    \E off \in Int, squares \in Nat :
       /\ Deviation(prices, n) = off
       /\ Variance(prices, n) = n * squares - off * off
       /\ off * off <= k * squares
       /\ \A step \in Int :
             (\A i \in 1..n : prices[i] = prices[1] \/ prices[i] = prices[1] - step) =>
                off = k * step /\ squares = k * (step * step)

LEMMA Moments ==
    ASSUME NEW n \in Nat \ {0}, NEW prices, \A i \in 1..n : prices[i] \in Int,
           NEW k, k = Cardinality(Others(prices, 1..n))
    PROVE  HasMoments(prices, n, k)
<1> DEFINE S == 1..n
           Card(T) == Cardinality(T)
           K(T) == Cardinality(Others(prices, T))
<1>1. PICK c \in Int : c = prices[1]
  OBVIOUS
<1>2. PICK v : v = [i \in S |-> prices[i]]
  OBVIOUS
<1>3. PICK w : w = [i \in S |-> prices[i] * prices[i]]
  OBVIOUS
<1>4. PICK f : AddsUp(f, v, SUBSET S) /\ SumOf(prices, n) = f[S]
  BY <1>2, SumOfIsSum
<1>5. PICK g : AddsUp(g, w, SUBSET S) /\ SumOfSquares(prices, n) = g[S]
  BY <1>3, SumOfSquaresIsSum
<1>6. IsFiniteSet(S) /\ Cardinality(S) = n
  BY FS_Interval
<1>7. ASSUME NEW T \in SUBSET S
      PROVE  /\ IsFiniteSet(T) /\ Card(T) \in Nat
             /\ Card(T) = 0 <=> T = {}
             /\ IsFiniteSet(Others(prices, T)) /\ K(T) \in Nat
  <2>1. IsFiniteSet(T)
    BY <1>6, FS_Subset
  <2>2. IsFiniteSet(Others(prices, T))
    <3>1. Others(prices, T) \subseteq T
      BY DEF Others
    <3> QED
      BY <2>1, <3>1, FS_Subset
  <2> QED
    BY <2>1, <2>2, FS_CardinalityType, FS_EmptySet
<1> DEFINE Holds(T) ==
       \E off \in Int, squares \in Nat :
          /\ f[T] \in Int /\ g[T] \in Int
          /\ off = Card(T) * c - f[T]
          /\ squares = g[T] - 2 * (c * f[T]) + Card(T) * (c * c)
          /\ off * off <= K(T) * squares
          /\ \A step \in Int :
                (\A i \in T : prices[i] = c \/ prices[i] = c - step) =>
                   off = K(T) * step /\ squares = K(T) * (step * step)
           Good == {m \in Nat : \A T \in SUBSET S : Card(T) = m => Holds(T)}
<1>8. 0 \in Good
  <2> SUFFICES ASSUME NEW T \in SUBSET S, Card(T) = 0 PROVE Holds(T)
    OBVIOUS
  <2>1. T = {}
    BY <1>7
  <2>2. f[T] = 0 /\ g[T] = 0
    BY <1>4, <1>5, <2>1 DEF AddsUp
  <2>3. K(T) = 0
    <3>1. Others(prices, T) = {}
      BY <2>1 DEF Others
    <3> QED
      BY <3>1, FS_EmptySet
  <2>4. PICK z \in Nat : z = 0
    OBVIOUS
  <2>5. /\ z = Card(T) * c - f[T]
        /\ z = g[T] - 2 * (c * f[T]) + Card(T) * (c * c)
        /\ z * z <= K(T) * z
        /\ \A step \in Int : z = K(T) * step /\ z = K(T) * (step * step)
    <3> HIDE DEF K, Card
    <3> QED
      BY <2>2, <2>3, <2>4
  <2> HIDE DEF K, Card
  <2> QED
    BY <2>2, <2>5
<1>9. ASSUME NEW m \in Nat, m \in Good PROVE m + 1 \in Good
  <2> SUFFICES ASSUME NEW T \in SUBSET S, Card(T) = m + 1 PROVE Holds(T)
    <3> HIDE DEF S, Card, Holds
    <3> QED
      OBVIOUS
  <2>1. T # {} /\ IsFiniteSet(T)
    BY <1>7
  <2>2. PICK x \in T : x = Some(T)
    BY <2>1 DEF Some
  <2>3. PICK R \in SUBSET S : R = T \ {x}
    OBVIOUS
  <2>4. Card(R) = m
    <3>1. Cardinality(R) = Cardinality(T) - 1
      BY <2>1, <2>3, FS_RemoveElement
    <3> QED
      BY <3>1
  <2>5. Holds(R)
    BY <1>9, <2>4
  <2>6. PICK p \in Int : p = prices[x]
    OBVIOUS
  <2>7. f[T] = p + f[R] /\ g[T] = p * p + g[R]
    <3>1. v[x] = p /\ w[x] = p * p
      BY <1>2, <1>3, <2>6
    <3> QED
      BY <1>4, <1>5, <2>1, <2>2, <2>3, <3>1 DEF AddsUp
  <2>8. PICK e \in Int : e = c - p
    OBVIOUS
  <2>9. PICK j \in Nat : j = K(R)
    BY <1>7
  <2>10. K(T) = IF e = 0 THEN j ELSE j + 1
    <3>1. CASE e = 0
      <4>1. Others(prices, T) = Others(prices, R)
        BY <1>1, <2>3, <2>6, <2>8, <3>1 DEF Others
      <4> QED
        BY <2>9, <3>1, <4>1
    <3>2. CASE e # 0
      <4>1. Others(prices, T) = Others(prices, R) \cup {x} /\ x \notin Others(prices, R)
        BY <1>1, <2>3, <2>6, <2>8, <3>2 DEF Others
      <4>2. PICK O : O = Others(prices, R)
        OBVIOUS
      <4>3. IsFiniteSet(O) /\ Cardinality(O) = j
        BY <1>7, <2>9, <4>2
      <4>4. Cardinality(O \cup {x}) = j + 1
        BY <4>1, <4>2, <4>3, FS_AddElement
      <4> QED
        BY <3>2, <4>1, <4>2, <4>4
    <3> QED
      BY <3>1, <3>2
  <2>11. PICK s \in Int, q \in Int : s = f[R] /\ q = g[R]
    BY <2>5
  <2>11a. PICK off \in Int, squares \in Nat :
            /\ off = Card(R) * c - f[R]
            /\ squares = g[R] - 2 * (c * f[R]) + Card(R) * (c * c)
            /\ off * off <= K(R) * squares
            /\ \A step \in Int :
                  (\A i \in R : prices[i] = c \/ prices[i] = c - step) =>
                     off = K(R) * step /\ squares = K(R) * (step * step)
    <3> HIDE DEF Card, K
    <3> QED
      BY <2>5, Zenon
  <2>12. /\ off = m * c - s
         /\ squares = q - 2 * (c * s) + m * (c * c)
         /\ off * off <= j * squares
         /\ \A step \in Int :
               (\A i \in R : prices[i] = c \/ prices[i] = c - step) =>
                  off = j * step /\ squares = j * (step * step)
    <3> HIDE DEF Card, K
    <3> QED
      BY <2>4, <2>9, <2>11, <2>11a, Zenon
  <2>13. PICK newOff \in Int : newOff = off + e
    OBVIOUS
  <2>14. PICK newSquares \in Nat : newSquares = squares + e * e
    OBVIOUS
  <2>15. newOff = (m + 1) * c - (p + s)
    BY <2>8, <2>12, <2>13
  <2>16. newSquares = (p * p + q) - 2 * (c * (p + s)) + (m + 1) * (c * c)
    <3>1. e * e = c * c - 2 * (c * p) + p * p
      BY <2>8
    <3> QED
      BY <2>12, <2>14, <3>1
  <2>17. PICK k2 \in Nat : k2 = K(T)
    BY <1>7
  <2>18. newOff * newOff <= k2 * newSquares
    <3>1. CASE e = 0
      BY <2>10, <2>12, <2>13, <2>14, <2>17, <3>1
    <3>2. CASE e # 0
      BY <2>10, <2>12, <2>13, <2>14, <2>17, <3>2, OneMoreTerm
    <3> QED
      BY <3>1, <3>2
  <2>19. ASSUME NEW step \in Int, \A i \in T : prices[i] = c \/ prices[i] = c - step
         PROVE  newOff = k2 * step /\ newSquares = k2 * (step * step)
    <3>1. off = j * step /\ squares = j * (step * step)
      <4>1. \A i \in R : prices[i] = c \/ prices[i] = c - step
        BY <2>3, <2>19
      <4> QED
        BY <2>12, <4>1
    <3>2. CASE e = 0
      BY <2>10, <2>13, <2>14, <2>17, <3>1, <3>2
    <3>3. CASE e # 0
      <4>1. e = step
        BY <2>6, <2>8, <2>19, <3>3
      <4>2. k2 = j + 1
        BY <2>10, <2>17, <3>3
      <4> QED
        BY <2>13, <2>14, <3>1, <4>1, <4>2
    <3> QED
      BY <3>2, <3>3
  <2>20. f[T] \in Int /\ g[T] \in Int /\ f[T] = p + s /\ g[T] = p * p + q
    BY <2>7, <2>11
  <2>21. /\ newOff = Card(T) * c - f[T]
         /\ newSquares = g[T] - 2 * (c * f[T]) + Card(T) * (c * c)
    <3> HIDE DEF Card, K
    <3> QED
      BY <2>15, <2>16, <2>20
  <2>22. /\ newOff * newOff <= K(T) * newSquares
         /\ \A step \in Int :
               (\A i \in T : prices[i] = c \/ prices[i] = c - step) =>
                  newOff = K(T) * step /\ newSquares = K(T) * (step * step)
    <3> HIDE DEF Card, K
    <3> QED
      BY <2>17, <2>18, <2>19
  <2> HIDE DEF Card, K
  <2> QED
    BY <2>20, <2>21, <2>22
<1>10. Holds(S)
  <2>1. Nat \subseteq Good
    <3> HIDE DEF Good
    <3> QED
      BY <1>8, <1>9, SetInduction
  <2>2. Card(S) \in Good
    BY <1>6, <2>1
  <2> HIDE DEF Holds
  <2> QED
    BY <2>2
<1>10a. PICK off \in Int, squares \in Nat :
          /\ f[S] \in Int /\ g[S] \in Int
          /\ off = Card(S) * c - f[S]
          /\ squares = g[S] - 2 * (c * f[S]) + Card(S) * (c * c)
          /\ off * off <= K(S) * squares
          /\ \A step \in Int :
                (\A i \in S : prices[i] = c \/ prices[i] = c - step) =>
                   off = K(S) * step /\ squares = K(S) * (step * step)
  <2> HIDE DEF S, Card, K
  <2> QED
    BY <1>10, Zenon
<1>11. /\ f[S] \in Int /\ g[S] \in Int
       /\ off = n * c - f[S]
       /\ squares = g[S] - 2 * (c * f[S]) + n * (c * c)
       /\ off * off <= k * squares
       /\ \A step \in Int :
             (\A i \in S : prices[i] = c \/ prices[i] = c - step) =>
                off = k * step /\ squares = k * (step * step)
  <2>1. Card(S) = n /\ K(S) = k
    BY <1>6
  <2> HIDE DEF S, Card, K
  <2> QED
    BY <1>10a, <2>1, Zenon
<1>12. PICK s \in Int, q \in Int : s = f[S] /\ q = g[S]
  BY <1>11
<1>13. Deviation(prices, n) = off
  BY <1>1, <1>4, <1>11, <1>12 DEF Deviation
<1>14. Variance(prices, n) = n * q - s * s
  BY <1>4, <1>5, <1>12 DEF Variance
<1>15. n * squares - off * off = n * q - s * s
  <2>1. s = n * c - off /\ q = squares + 2 * (c * s) - n * (c * c)
    <3>1. off = n * c - s /\ squares = q - 2 * (c * s) + n * (c * c)
      BY <1>11, <1>12
    <3>2. PICK nc \in Int, cs \in Int, ncc \in Int :
             nc = n * c /\ cs = c * s /\ ncc = n * (c * c)
      OBVIOUS
    <3> QED
      BY <3>1, <3>2
  <2>2. s * s = (n * c) * (n * c) - 2 * ((n * c) * off) + off * off
    BY <2>1
  <2>3. n * q = n * squares + 2 * ((n * c) * s) - (n * c) * (n * c)
    BY <2>1
  <2>4. (n * c) * s = (n * c) * (n * c) - (n * c) * off
    BY <2>1
  <2> QED
    BY <2>2, <2>3, <2>4
<1>16. \A step \in Int :
          (\A i \in 1..n : prices[i] = prices[1] \/ prices[i] = prices[1] - step) =>
             off = k * step /\ squares = k * (step * step)
  BY <1>1, <1>11
<1>17. Variance(prices, n) = n * squares - off * off
  BY <1>14, <1>15
<1>18. off * off <= k * squares
  BY <1>11
<1> HIDE DEF S, Card, K, Holds, Good
<1> QED
  BY <1>13, <1>16, <1>17, <1>18 DEF HasMoments

\* The square of the deviation is z times the variance at least, with k other prices that
\* are too few for it.
TooFar(n, k, off, squares, z) ==
    /\ off * off <= k * squares
    /\ k * (z + 1) < z * n
    /\ off * off >= z * (n * squares - off * off)

\* Then there is no variance.
LEMMA TooClose ==
    ASSUME NEW n \in Nat \ {0}, NEW k \in Nat, NEW off \in Int, NEW squares \in Nat,
           NEW z \in Nat \ {0}, TooFar(n, k, off, squares, z)
    PROVE  n * squares - off * off = 0
<1> USE DEF TooFar
<1>1. PICK a \in Nat : a = off * off
  <2>1. off * off >= 0
    OBVIOUS
  <2> QED
    BY <2>1
<1>2. (z + 1) * a >= (z * n) * squares
  <2>1. z * (n * squares - a) = (z * n) * squares - z * a
    OBVIOUS
  <2>2. (z + 1) * a = z * a + a
    OBVIOUS
  <2>3. PICK x \in Int, y \in Int : x = (z * n) * squares /\ y = z * a
    OBVIOUS
  <2> QED
    BY <1>1, <2>1, <2>2, <2>3
<1>3. (z + 1) * a <= (k * (z + 1)) * squares
  <2>1. PICK b \in Nat : b = k * squares - a
    BY <1>1
  <2>2. (z + 1) * b >= 0
    OBVIOUS
  <2>3. (z + 1) * (a + b) = (z + 1) * a + (z + 1) * b
    OBVIOUS
  <2>4. (z + 1) * (a + b) = (k * (z + 1)) * squares
    BY <2>1
  <2> QED
    BY <2>2, <2>3, <2>4
<1>4. PICK d \in Nat \ {0} : z * n = k * (z + 1) + d
  OBVIOUS
<1>5. (z * n) * squares = (k * (z + 1)) * squares + d * squares
  BY <1>4
<1>6. d * squares <= 0
  <2>1. PICK x \in Int, y \in Int, t \in Int, u \in Int :
           /\ x = (z * n) * squares /\ y = (k * (z + 1)) * squares
           /\ t = d * squares /\ u = (z + 1) * a
    OBVIOUS
  <2> QED
    BY <1>2, <1>3, <1>5, <2>1
<1>7. squares = 0
  BY <1>6
<1>8. a = 0
  BY <1>1, <1>7
<1> QED
  BY <1>1, <1>7, <1>8

\* A finding has been made of prices that were read.
Detects == asked.kind = "anomaly" =>
    asked.prices \in Prices /\ answer.findings \in Findings(asked.prices)

LEMMA DetectsAlways == Spec => []Detects
<1>1. Init => Detects
  BY DEF Init, Nothing, Detects
<1>2. Detects /\ [Next]_vars => Detects'
  <2> SUFFICES ASSUME Detects, [Next]_vars
               PROVE  Detects'
    OBVIOUS
  <2>1. ASSUME NEW m \in Mode, NEW rows \in Rows, NEW volume \in BOOLEAN,
               NEW range \in BOOLEAN, GetSignal(m, rows, volume, range)
        PROVE  Detects'
    BY <2>1 DEF GetSignal, Detects
  <2>2. CASE GetSignalOfUnknown
    BY <2>2 DEF GetSignalOfUnknown, Detects
  <2>3. ASSUME NEW h \in Holdings, WarnOfHoldings(h)
        PROVE  Detects'
    BY <2>3 DEF WarnOfHoldings, Detects
  <2>4. ASSUME NEW h \in Holdings, AnalyseHoldings(h)
        PROVE  Detects'
    BY <2>4 DEF AnalyseHoldings, Detects
  <2>5. ASSUME NEW prices \in Prices, DetectAnomalies(prices)
        PROVE  Detects'
    BY <2>5 DEF DetectAnomalies, Detects
  <2>6. ASSUME NEW m \in Mode, NEW rows \in Histories, NEW price, NEW volume \in BOOLEAN,
               NEW range \in BOOLEAN, GetIndicators(m, rows, price, volume, range)
        PROVE  Detects'
    BY <2>6 DEF GetIndicators, Detects
  <2>7. CASE Forget
    BY <2>7 DEF Forget, Nothing, Detects
  <2>8. CASE UNCHANGED vars
    BY <2>8 DEF vars, Detects
  <2> QED
    BY <2>1, <2>2, <2>3, <2>4, <2>5, <2>6, <2>7, <2>8 DEF Next, Decide
<1> QED
  BY <1>1, <1>2, PTL DEF Spec

\* The first n numbers.
LEMMA FirstNumbers ==
    ASSUME NEW n \in Nat
    PROVE  IsFiniteSet(1..n) /\ Cardinality(1..n) = n
BY FS_Interval

\* Leaving some of the first n numbers out.
LEMMA TheOthers ==
    ASSUME NEW n \in Nat, NEW O \in SUBSET (1..n)
    PROVE  Cardinality(O) \in Nat /\ Cardinality((1..n) \ O) = n - Cardinality(O)
<1>1. PICK S : S = 1..n
  OBVIOUS
<1>2. IsFiniteSet(S) /\ Cardinality(S) = n
  BY <1>1, FirstNumbers
<1>3. IsFiniteSet(O) /\ S \cap O = O
  BY <1>1, <1>2, FS_Subset
<1>4. Cardinality(O) \in Nat
  BY <1>3, FS_CardinalityType
<1>5. Cardinality(S \ O) = Cardinality(S) - Cardinality(S \cap O)
  BY <1>2, FS_Difference
<1> QED
  BY <1>1, <1>2, <1>3, <1>4, <1>5

\* What the z-score finds in a window of n prices.
Wears(prices, n, z) ==
    LET same == {i \in 1..n : prices[i] = prices[1]}
    IN  /\ (\A i \in 2..n : prices[i] = prices[2]) /\ prices[1] # prices[2] =>
              z = {[type |-> IF prices[1] > prices[2] THEN "zscore_spike" ELSE "zscore_drop",
                    severity |-> "high"]}
        /\ Cardinality(same) >= 2 => \A f \in z : f.severity = "medium"
        /\ Cardinality(same) >= 3 => z = {}

LEMMA WearsOff ==
    ASSUME NEW n \in 18..29, n = Z_SCORE_LOOKBACK,
           NEW prices, \A i \in 1..n : prices[i] \in Int, ~(Len(prices) < n),
           NEW z \in ZScore(prices)
    PROVE  Wears(prices, n, z)
<1> DEFINE same == {i \in 1..n : prices[i] = prices[1]}
<1>1. PICK k \in Nat : /\ k = Cardinality(Others(prices, 1..n))
                       /\ Cardinality(same) = n - k
  <2>1. n \in Nat
    OBVIOUS
  <2>2. same = (1..n) \ Others(prices, 1..n) /\ Others(prices, 1..n) \subseteq 1..n
    BY DEF Others
  <2>3. PICK O \in SUBSET (1..n) : O = Others(prices, 1..n)
    BY <2>2
  <2>4. Cardinality(O) \in Nat /\ Cardinality((1..n) \ O) = n - Cardinality(O)
    <3> HIDE DEF same
    <3> QED
      BY <2>1, TheOthers, Zenon
  <2> QED
    BY <2>2, <2>3, <2>4
<1>2. PICK off \in Int, squares \in Nat :
         /\ Deviation(prices, n) = off
         /\ Variance(prices, n) = n * squares - off * off
         /\ off * off <= k * squares
         /\ \A step \in Int :
               (\A i \in 1..n : prices[i] = prices[1] \/ prices[i] = prices[1] - step) =>
                  off = k * step /\ squares = k * (step * step)
  <2>1. n \in Nat \ {0}
    OBVIOUS
  <2>2. HasMoments(prices, n, k)
    BY <1>1, <2>1, Moments
  <2> QED
    BY <2>2 DEF HasMoments
<1>3. PICK var \in Int : var = n * squares - off * off
  OBVIOUS
<1>4. PICK sq \in Int : sq = off * off
  OBVIOUS
<1>5. /\ var = 0 => z = {}
      /\ sq < 9 * var => z = {}
      /\ sq < 16 * var => \A f \in z : f.severity = "medium"
      /\ var # 0 /\ sq > 16 * var /\ sq > 9 * var =>
            z = {[type |-> IF off > 0 THEN "zscore_spike" ELSE "zscore_drop",
                  severity |-> "high"]}
  <2>1. ZScore(prices) =
           IF var = 0 THEN {{}}
           ELSE {{[type |-> IF off > 0 THEN "zscore_spike" ELSE "zscore_drop",
                   severity |-> s]} : s \in Severities(prices, n)}
                \cup (IF sq <= 9 * var THEN {{}} ELSE {})
    BY <1>2, <1>3, <1>4 DEF ZScore
  <2>2. Severities(prices, n) =
           {s \in {"medium", "high"} : /\ sq >= 9 * var
                                       /\ s = "medium" => sq <= 16 * var
                                       /\ s = "high" => sq >= 16 * var}
    BY <1>2, <1>3, <1>4 DEF Severities
  <2>3. PICK type : type = IF off > 0 THEN "zscore_spike" ELSE "zscore_drop"
    OBVIOUS
  <2>4. CASE var = 0
    BY <2>1, <2>4, <1>4
  <2>5. CASE var # 0
    <3>1. z = {} \/ \E s \in Severities(prices, n) : z = {[type |-> type, severity |-> s]}
      BY <2>1, <2>3, <2>5
    <3>2. z = {} => sq <= 9 * var
      <4>1. ASSUME z = {}, ~(sq <= 9 * var) PROVE FALSE
        <5>1. \E s \in Severities(prices, n) : z = {[type |-> type, severity |-> s]}
          BY <2>1, <2>3, <2>5, <4>1
        <5> QED
          BY <4>1, <5>1
      <4> QED
        BY <4>1
    <3>3. ASSUME sq < 9 * var PROVE z = {}
      BY <1>3, <1>4, <2>2, <3>1, <3>3
    <3>4. ASSUME sq < 16 * var PROVE \A f \in z : f.severity = "medium"
      BY <1>3, <1>4, <2>2, <3>1, <3>4
    <3>5. ASSUME sq > 16 * var, sq > 9 * var
          PROVE  z = {[type |-> type, severity |-> "high"]}
      BY <1>3, <1>4, <2>2, <3>1, <3>2, <3>5
    <3> QED
      BY <2>3, <2>5, <3>3, <3>4, <3>5
  <2> QED
    BY <2>4, <2>5
<1>6. ASSUME \A i \in 2..n : prices[i] = prices[2], prices[1] # prices[2]
       PROVE  z = {[type |-> IF prices[1] > prices[2] THEN "zscore_spike" ELSE "zscore_drop",
                    severity |-> "high"]}
  <2>1. PICK step \in Int : step = prices[1] - prices[2]
    OBVIOUS
  <2>2. prices[1] \in Int /\ prices[2] \in Int /\ step # 0 /\ (step > 0 <=> prices[1] > prices[2])
    BY <1>6, <2>1
  <2>3. Others(prices, 1..n) = 2..n
    BY <1>6 DEF Others
  <2>4. k = n - 1
    BY <1>1, <2>3, FS_Interval
  <2>5. \A i \in 1..n : prices[i] = prices[1] \/ prices[i] = prices[1] - step
    BY <1>6, <2>1, <2>2
  <2>6. off = k * step /\ squares = k * (step * step)
    BY <1>2, <2>1, <2>5
  <2>7. PICK ss \in Nat \ {0} : ss = step * step
    <3>1. step * step > 0
      BY <2>2
    <3> QED
      BY <3>1
  <2>8. sq = (k * k) * ss
    BY <1>4, <2>6, <2>7
  <2>9. var = k * ss
    <3>1. var = n * (k * ss) - (k * k) * ss
      BY <1>3, <1>4, <2>6, <2>7, <2>8
    <3>2. n * (k * ss) = (k * k) * ss + k * ss
      BY <2>4
    <3> QED
      BY <3>1, <3>2
  <2>10. k \in 17..28
    BY <2>4
  <2>11. k * ss > 0 /\ (k * k) * ss > 16 * (k * ss) /\ (k * k) * ss > 9 * (k * ss)
    <3>1. PICK t \in Nat \ {0} : t = k * ss
      BY <2>10
    <3>2. (k * k) * ss = k * t
      BY <3>1
    <3>3. k * t > 16 * t
      BY <2>10
    <3> QED
      BY <3>1, <3>2, <3>3
  <2>12. off > 0 <=> step > 0
    BY <2>6, <2>10
  <2> QED
    BY <1>5, <2>2, <2>8, <2>9, <2>11, <2>12
<1>7. ASSUME Cardinality(same) >= 2 PROVE \A f \in z : f.severity = "medium"
  <2>1. PICK t \in Nat \ {0} : t = 16
    OBVIOUS
  <2>2. CASE sq >= 16 * var
    <3>1. n \in Nat \ {0} /\ k * (t + 1) < t * n
      BY <1>1, <1>7, <2>1
    <3>2. off * off >= t * (n * squares - off * off)
      BY <1>3, <1>4, <2>1, <2>2
    <3>3. n * squares - off * off = 0
      <4>1. TooFar(n, k, off, squares, t)
        BY <1>2, <3>1, <3>2 DEF TooFar
      <4> QED
        BY <3>1, <4>1, TooClose
    <3>4. var = 0
      BY <1>3, <3>3
    <3> QED
      BY <1>5, <3>4
  <2> QED
    BY <1>3, <1>4, <1>5, <2>2
<1>8. ASSUME Cardinality(same) >= 3 PROVE z = {}
  <2>1. PICK t \in Nat \ {0} : t = 9
    OBVIOUS
  <2>2. CASE sq >= 9 * var
    <3>1. n \in Nat \ {0} /\ k * (t + 1) < t * n
      BY <1>1, <1>8, <2>1
    <3>2. off * off >= t * (n * squares - off * off)
      BY <1>3, <1>4, <2>1, <2>2
    <3>3. n * squares - off * off = 0
      <4>1. TooFar(n, k, off, squares, t)
        BY <1>2, <3>1, <3>2 DEF TooFar
      <4> QED
        BY <3>1, <4>1, TooClose
    <3>4. var = 0
      BY <1>3, <3>3
    <3> QED
      BY <1>5, <3>4
  <2> QED
    BY <1>3, <1>4, <1>5, <2>2
<1> QED
  BY <1>6, <1>7, <1>8, Zenon DEF Wears

\* A move announces itself and wears off, for every window of 18 to 29 prices: in a
\* shorter one a single price is not far enough from the rest to be of high severity, and
\* in a longer one three of them are still an anomaly.
THEOREM MovesAlwaysWearOff ==
    ASSUME Z_SCORE_LOOKBACK \in 18..29
    PROVE  Spec => []MovesWearOff
<1>1. Detects => MovesWearOff
  <2> SUFFICES ASSUME Detects, asked.kind = "anomaly", Len(asked.prices) >= Z_SCORE_LOOKBACK
               PROVE  MovesWearOff
    BY DEF MovesWearOff
  <2> DEFINE prices == asked.prices
  <2>1. PICK n \in 18..29 : n = Z_SCORE_LOOKBACK
    OBVIOUS
  <2>2. /\ prices \in Seq(Int) /\ \A i \in 1..n : prices[i] \in Int
        /\ answer.findings \in Findings(prices)
    BY <2>1, PricesAssumption DEF Detects
  <2> HIDE DEF prices
  <2>3. PICK z \in ZScore(prices), c \in Crossover(prices) : answer.findings = z \cup c
    BY <2>2 DEF Findings
  <2>4. ZFindings = z
    <3>1. \A f \in c : f.type = "ma_crossover"
      BY DEF Crossover
    <3>2. \A f \in z : f.type # "ma_crossover"
      BY DEF ZScore
    <3> QED
      BY <2>3, <3>1, <3>2 DEF ZFindings
  <2>5. ~(Len(prices) < n)
    BY <2>1, <2>2 DEF prices
  <2>6. Wears(prices, n, z)
    BY <2>1, <2>2, <2>3, <2>5, WearsOff
  <2> QED
    BY <2>1, <2>4, <2>6, Zenon DEF MovesWearOff, Wears, prices
<1> QED
  BY <1>1, DetectsAlways, PTL

-----------------------------------------------------------------------------
\* The parts of a finite set have finitely many elements.
LEMMA Parts ==
    ASSUME NEW S, IsFiniteSet(S), NEW T \in SUBSET S
    PROVE  IsFiniteSet(T) /\ Cardinality(T) \in Nat /\ (Cardinality(T) = 0 <=> T = {})
<1>1. IsFiniteSet(T)
  BY FS_Subset
<1> QED
  BY <1>1, FS_CardinalityType, FS_EmptySet

\* Whatever order a sum takes its elements in, any of them may be the first.
Takes(f, v, T) == f[T] \in Int /\ \A x \in T : f[T] = v[x] + f[T \ {x}]

\* A sum does not depend on which element is taken first.
LEMMA AnyOrder ==
    ASSUME NEW S, IsFiniteSet(S), NEW v \in [S -> Int], NEW f, AddsUp(f, v, SUBSET S)
    PROVE  \A T \in SUBSET S : Takes(f, v, T)
<1> DEFINE Good == {k \in Nat : \A T \in SUBSET S : Cardinality(T) <= k => Takes(f, v, T)}
<1>1. \A T \in SUBSET S : f[T] = IF T = {} THEN 0 ELSE v[Some(T)] + f[T \ {Some(T)}]
  BY DEF AddsUp
<1>2. ASSUME NEW T \in SUBSET S, T = {} PROVE Takes(f, v, T)
  <2>1. f[T] = 0
    BY <1>1, <1>2
  <2> QED
    BY <1>2, <2>1 DEF Takes
<1>3. 0 \in Good
  <2>1. ASSUME NEW T \in SUBSET S, Cardinality(T) <= 0 PROVE Takes(f, v, T)
    BY <2>1, <1>2, Parts
  <2> QED
    BY <2>1
<1>4. ASSUME NEW k \in Nat, k \in Good PROVE k + 1 \in Good
  <2> SUFFICES ASSUME NEW T \in SUBSET S, Cardinality(T) <= k + 1 PROVE Takes(f, v, T)
    OBVIOUS
  <2> SUFFICES ASSUME T # {} PROVE Takes(f, v, T)
    BY <1>2
  <2>1. ASSUME NEW x \in T, NEW R \in SUBSET (T \ {x})
        PROVE  Takes(f, v, R)
    <3>1. IsFiniteSet(T) /\ Cardinality(T) \in Nat
      BY Parts
    <3>2. Cardinality(T \ {x}) = Cardinality(T) - 1 /\ IsFiniteSet(T \ {x})
      BY <2>1, <3>1, FS_RemoveElement
    <3>3. Cardinality(R) <= Cardinality(T \ {x})
      BY <2>1, <3>2, FS_Subset
    <3>4. R \in SUBSET S /\ Cardinality(R) \in Nat
      BY <2>1, Parts
    <3>5. Cardinality(R) <= k
      BY <3>1, <3>2, <3>3, <3>4
    <3> QED
      BY <1>4, <3>4, <3>5
  <2>2. T # {}
    OBVIOUS
  <2>3. PICK y \in T : y = Some(T)
    BY <2>2 DEF Some
  <2>4. f[T] = v[y] + f[T \ {y}]
    BY <1>1, <2>2, <2>3
  <2>5. f[T] \in Int
    BY <2>1, <2>4 DEF Takes
  <2>6. ASSUME NEW x \in T PROVE f[T] = v[x] + f[T \ {x}]
    <3>1. CASE x = y
      BY <2>4, <3>1
    <3>2. CASE x # y
      <4>1. PICK R : R = T \ {x, y}
        OBVIOUS
      <4>2. x \in T \ {y} /\ (T \ {y}) \ {x} = R
        BY <3>2, <4>1
      <4>3. y \in T \ {x} /\ (T \ {x}) \ {y} = R
        BY <3>2, <4>1
      <4>4. f[T \ {y}] = v[x] + f[R]
        BY <2>1, <4>2 DEF Takes
      <4>5. f[T \ {x}] = v[y] + f[R]
        BY <2>1, <4>3 DEF Takes
      <4>6. f[R] \in Int
        <5>1. R \in SUBSET (T \ {y})
          BY <4>1
        <5> QED
          BY <2>1, <5>1 DEF Takes
      <4>7. v[x] \in Int /\ v[y] \in Int
        OBVIOUS
      <4> QED
        BY <2>4, <4>4, <4>5, <4>6, <4>7
    <3> QED
      BY <3>1, <3>2
  <2> QED
    BY <2>5, <2>6 DEF Takes
<1>5. Nat \subseteq Good
  <2> HIDE DEF Good
  <2> QED
    BY <1>3, <1>4, SetInduction
<1> QED
  <2> SUFFICES ASSUME NEW T \in SUBSET S PROVE Takes(f, v, T)
    OBVIOUS
  <2>1. Cardinality(T) \in Good
    BY <1>5, Parts
  <2> QED
    BY <2>1

\* The sums of the first k of n numbers.
Running(t, v, n) ==
    t \in [0..n -> Int] /\ t[0] = 0 /\ \A k \in 1..n : t[k] = t[k - 1] + v[k]
SumsTo(v, n, sum) == \E t : Running(t, v, n) /\ t[n] = sum

\* The sums of all sets of the first numbers hold the running sums.
LEMMA RunningSum ==
    ASSUME NEW n \in Nat, NEW v \in [1..n -> Int], NEW f, AddsUp(f, v, SUBSET (1..n))
    PROVE  SumsTo(v, n, f[1..n])
<1>1. PICK t : t = [k \in 0..n |-> f[1..k]]
  OBVIOUS
<1>2. IsFiniteSet(1..n)
  BY FirstNumbers
<1>3. \A T \in SUBSET (1..n) : Takes(f, v, T)
  BY <1>2, AnyOrder
<1>4. ASSUME NEW k \in 0..n PROVE 1..k \in SUBSET (1..n)
  OBVIOUS
<1>5. t \in [0..n -> Int]
  BY <1>1, <1>3, <1>4 DEF Takes
<1>6. t[0] = 0
  <2>1. 1..0 = {}
    OBVIOUS
  <2> QED
    BY <1>1, <2>1 DEF AddsUp
<1>7. ASSUME NEW k \in 1..n PROVE t[k] = t[k - 1] + v[k]
  <2>1. (1..k) \ {k} = 1..(k - 1) /\ k \in 1..k /\ k - 1 \in 0..n /\ k \in 0..n
    OBVIOUS
  <2>2. f[1..k] = v[k] + f[(1..k) \ {k}]
    BY <1>3, <1>4, <2>1 DEF Takes
  <2>3. t[k] = f[1..k] /\ t[k - 1] = f[1..(k - 1)]
    BY <1>1, <2>1
  <2>4. t[k - 1] \in Int /\ v[k] \in Int
    BY <1>5, <2>1
  <2>5. t[k] = v[k] + t[k - 1]
    BY <2>1, <2>2, <2>3, Zenon
  <2> QED
    BY <2>4, <2>5
<1>8. t[n] = f[1..n]
  BY <1>1
<1>9. Running(t, v, n)
  BY <1>5, <1>6, <1>7 DEF Running
<1> QED
  BY <1>8, <1>9 DEF SumsTo

\* What a fold adds up.
LEMMA FoldedSum ==
    ASSUME NEW n \in Nat, NEW s, DOMAIN s = 1..n,
           NEW v \in [1..n -> Int], v = [i \in 1..n |-> s[i]]
    PROVE  SumsTo(v, n, FoldSeq(+, 0, s))
<1> DEFINE S == 1..n
           Is(f) == f = [T \in SUBSET S |->
                           IF T = {} THEN 0 ELSE s[Some(T)] + f[T \ {Some(T)}]]
<1>1. FoldSeq(+, 0, s) = (CHOOSE f : Is(f))[S]
  BY Zenon DEF FoldSeq, FoldFunction, FoldFunctionOnSet, MapThenFoldSet, Some
<1>2. ASSUME NEW f PROVE Is(f) <=> AddsUp(f, v, SUBSET S)
  <2>1. \A T \in SUBSET S : T # {} => v[Some(T)] = s[Some(T)]
    BY DEF Some
  <2>2. \A T \in SUBSET S : (IF T = {} THEN 0 ELSE s[Some(T)] + f[T \ {Some(T)}])
                            = (IF T = {} THEN 0 ELSE v[Some(T)] + f[T \ {Some(T)}])
    BY <2>1
  <2> QED
    BY <2>2 DEF AddsUp
<1>3. AddsUp(CHOOSE f : Is(f), v, SUBSET S)
  <2>1. IsFiniteSet(S)
    BY FirstNumbers
  <2>2. \E f : AddsUp(f, v, SUBSET S)
    BY <2>1, SumsExist
  <2>3. \E f : Is(f)
    BY <1>2, <2>2
  <2>4. Is(CHOOSE f : Is(f))
    <3> HIDE DEF Is
    <3> QED
      BY <2>3
  <2> QED
    BY <1>2, <2>4
<1> HIDE DEF Is
<1> QED
  BY <1>1, <1>3, RunningSum

\* What a fold adds up of squares.
LEMMA FoldedSquares ==
    ASSUME NEW n \in Nat, NEW s, DOMAIN s = 1..n,
           NEW v \in [1..n -> Int], v = [i \in 1..n |-> s[i] * s[i]]
    PROVE  SumsTo(v, n, FoldSeq(LAMBDA c, total : c * c + total, 0, s))
<1> DEFINE S == 1..n
           Is(f) == f = [T \in SUBSET S |->
                           IF T = {} THEN 0 ELSE s[Some(T)] * s[Some(T)] + f[T \ {Some(T)}]]
<1>1. FoldSeq(LAMBDA c, total : c * c + total, 0, s) = (CHOOSE f : Is(f))[S]
  BY Zenon DEF FoldSeq, FoldFunction, FoldFunctionOnSet, MapThenFoldSet, Some
<1>2. ASSUME NEW f PROVE Is(f) <=> AddsUp(f, v, SUBSET S)
  <2>1. \A T \in SUBSET S : T # {} => v[Some(T)] = s[Some(T)] * s[Some(T)]
    BY DEF Some
  <2>2. \A T \in SUBSET S :
           (IF T = {} THEN 0 ELSE s[Some(T)] * s[Some(T)] + f[T \ {Some(T)}])
           = (IF T = {} THEN 0 ELSE v[Some(T)] + f[T \ {Some(T)}])
    BY <2>1
  <2> QED
    BY <2>2 DEF AddsUp
<1>3. AddsUp(CHOOSE f : Is(f), v, SUBSET S)
  <2>1. IsFiniteSet(S)
    BY FirstNumbers
  <2>2. \E f : AddsUp(f, v, SUBSET S)
    BY <2>1, SumsExist
  <2>3. \E f : Is(f)
    BY <1>2, <2>2
  <2>4. Is(CHOOSE f : Is(f))
    <3> HIDE DEF Is
    <3> QED
      BY <2>3
  <2> QED
    BY <1>2, <2>4
<1> HIDE DEF Is
<1> QED
  BY <1>1, <1>3, RunningSum

\* What the closes won and lost, in numbers that may be added up.
Won(c, n) == [k \in 1..n |-> IF c[k + 1] > c[k] THEN c[k + 1] - c[k] ELSE 0]
Lost(c, n) == [k \in 1..n |-> IF c[k] > c[k + 1] THEN c[k] - c[k + 1] ELSE 0]

\* What a close won is what it rose, or nothing.
LEMMA MaxOfTwo ==
    ASSUME NEW a \in Int
    PROVE  Max({a, 0}) = IF a > 0 THEN a ELSE 0
<1>1. PICK b \in {a, 0} : b = IF a > 0 THEN a ELSE 0
  OBVIOUS
<1>2. \A x \in {a, 0} : (\A y \in {a, 0} : x >= y) <=> x = b
  BY <1>1
<1>3. Max({a, 0}) = CHOOSE x \in {a, 0} : \A y \in {a, 0} : x >= y
  BY DEF Max
<1> QED
  BY <1>1, <1>2, <1>3

\* Gains adds up what each close won.
LEMMA SumOfGains ==
    ASSUME NEW n \in Nat, NEW closes, Len(closes) = n + 1,
           \A k \in 1..(n + 1) : closes[k] \in Int
    PROVE  SumsTo(Won(closes, n), n, Gains(closes))
<1> DEFINE S == 1..n
           v == Won(closes, n)
           Is(f) == f = [T \in SUBSET S |->
                   IF T = {} THEN 0
                   ELSE Max({closes[Some(T) + 1] - closes[Some(T)], 0}) + f[T \ {Some(T)}]]
<1>0. Len(closes) - 1 = n
  OBVIOUS
<1>1. Gains(closes) = (CHOOSE f : Is(f))[S]
  BY <1>0, Zenon DEF Gains, MapThenSumSet, MapThenFoldSet, Some
<1>2. \A k \in S : v[k] = Max({closes[k + 1] - closes[k], 0}) /\ v[k] \in Int
  <2> SUFFICES ASSUME NEW k \in S
               PROVE  v[k] = Max({closes[k + 1] - closes[k], 0}) /\ v[k] \in Int
    OBVIOUS
  <2>1. PICK a \in Int : a = closes[k + 1] - closes[k]
    OBVIOUS
  <2>2. v[k] = IF a > 0 THEN a ELSE 0
    BY <2>1 DEF Won
  <2> QED
    BY <2>1, <2>2, MaxOfTwo
<1>3. v \in [S -> Int]
  BY <1>2 DEF Won
<1> HIDE DEF v
<1>4. ASSUME NEW f PROVE Is(f) <=> AddsUp(f, v, SUBSET S)
  <2>1. \A T \in SUBSET S : T # {} => Some(T) \in S
    BY DEF Some
  <2>2. \A T \in SUBSET S :
           (IF T = {} THEN 0
            ELSE Max({closes[Some(T) + 1] - closes[Some(T)], 0}) + f[T \ {Some(T)}])
           = (IF T = {} THEN 0 ELSE v[Some(T)] + f[T \ {Some(T)}])
    BY <1>2, <2>1
  <2> QED
    BY <2>2 DEF AddsUp
<1>5. AddsUp(CHOOSE f : Is(f), v, SUBSET S)
  <2>1. IsFiniteSet(S)
    BY FirstNumbers
  <2>2. \E f : AddsUp(f, v, SUBSET S)
    BY <2>1, SumsExist
  <2>3. \E f : Is(f)
    BY <1>4, <2>2
  <2>4. Is(CHOOSE f : Is(f))
    <3> HIDE DEF Is
    <3> QED
      BY <2>3
  <2> QED
    BY <1>4, <2>4
<1> HIDE DEF Is
<1> QED
  BY <1>1, <1>3, <1>5, RunningSum DEF v

\* Losses adds up what each close lost.
LEMMA SumOfLosses ==
    ASSUME NEW n \in Nat, NEW closes, Len(closes) = n + 1,
           \A k \in 1..(n + 1) : closes[k] \in Int
    PROVE  SumsTo(Lost(closes, n), n, Losses(closes))
<1> DEFINE S == 1..n
           v == Lost(closes, n)
           Is(f) == f = [T \in SUBSET S |->
                   IF T = {} THEN 0
                   ELSE Max({closes[Some(T)] - closes[Some(T) + 1], 0}) + f[T \ {Some(T)}]]
<1>0. Len(closes) - 1 = n
  OBVIOUS
<1>1. Losses(closes) = (CHOOSE f : Is(f))[S]
  BY <1>0, Zenon DEF Losses, MapThenSumSet, MapThenFoldSet, Some
<1>2. \A k \in S : v[k] = Max({closes[k] - closes[k + 1], 0}) /\ v[k] \in Int
  <2> SUFFICES ASSUME NEW k \in S
               PROVE  v[k] = Max({closes[k] - closes[k + 1], 0}) /\ v[k] \in Int
    OBVIOUS
  <2>1. PICK a \in Int : a = closes[k] - closes[k + 1]
    OBVIOUS
  <2>2. v[k] = IF a > 0 THEN a ELSE 0
    BY <2>1 DEF Lost
  <2> QED
    BY <2>1, <2>2, MaxOfTwo
<1>3. v \in [S -> Int]
  BY <1>2 DEF Lost
<1> HIDE DEF v
<1>4. ASSUME NEW f PROVE Is(f) <=> AddsUp(f, v, SUBSET S)
  <2>1. \A T \in SUBSET S : T # {} => Some(T) \in S
    BY DEF Some
  <2>2. \A T \in SUBSET S :
           (IF T = {} THEN 0
            ELSE Max({closes[Some(T)] - closes[Some(T) + 1], 0}) + f[T \ {Some(T)}])
           = (IF T = {} THEN 0 ELSE v[Some(T)] + f[T \ {Some(T)}])
    BY <1>2, <2>1
  <2> QED
    BY <2>2 DEF AddsUp
<1>5. AddsUp(CHOOSE f : Is(f), v, SUBSET S)
  <2>1. IsFiniteSet(S)
    BY FirstNumbers
  <2>2. \E f : AddsUp(f, v, SUBSET S)
    BY <2>1, SumsExist
  <2>3. \E f : Is(f)
    BY <1>4, <2>2
  <2>4. Is(CHOOSE f : Is(f))
    <3> HIDE DEF Is
    <3> QED
      BY <2>3
  <2> QED
    BY <1>4, <2>4
<1> HIDE DEF Is
<1> QED
  BY <1>1, <1>3, <1>5, RunningSum DEF v

\* How far closes are apart that won and lost so much on the way.
Swings(c, n, won, lost) ==
    /\ won \in Nat /\ lost \in Nat
    /\ c[n + 1] = c[1] + won - lost
    /\ \A i \in 1..(n + 1) : c[i] <= c[n + 1] + lost /\ c[i] >= c[n + 1] - won
    /\ (\A i \in 1..(n + 1) : c[i] = c[1]) => lost = 0

\* What was won less what was lost is how far the last close is from the first one.
LEMMA GainsAndLosses ==
    ASSUME NEW n \in Nat, NEW c, Len(c) = n + 1, \A k \in 1..(n + 1) : c[k] \in Int
    PROVE  Swings(c, n, Gains(c), Losses(c))
<1>1. PICK g : Running(g, Won(c, n), n) /\ g[n] = Gains(c)
  BY SumOfGains DEF SumsTo
<1>2. PICK l : Running(l, Lost(c, n), n) /\ l[n] = Losses(c)
  BY SumOfLosses DEF SumsTo
<1>3. g[0] = 0 /\ l[0] = 0
  BY <1>1, <1>2 DEF Running
<1>4. ASSUME NEW k \in 1..n
      PROVE  /\ g[k] = g[k - 1] + (IF c[k + 1] > c[k] THEN c[k + 1] - c[k] ELSE 0)
             /\ l[k] = l[k - 1] + (IF c[k] > c[k + 1] THEN c[k] - c[k + 1] ELSE 0)
  BY <1>1, <1>2 DEF Running, Won, Lost
<1> DEFINE Good == {k \in Nat : k <= n => Swings(c, k, g[k], l[k])}
<1>5. 0 \in Good
  BY <1>3 DEF Swings
<1>6. ASSUME NEW k \in Nat, k \in Good PROVE k + 1 \in Good
  <2> SUFFICES ASSUME k + 1 <= n PROVE Swings(c, k + 1, g[k + 1], l[k + 1])
    OBVIOUS
  <2>1. Swings(c, k, g[k], l[k])
    BY <1>6
  <2>2. PICK a \in Int, b \in Int : a = c[k + 1] /\ b = c[k + 2]
    OBVIOUS
  <2>3. PICK x \in Nat, y \in Nat : x = g[k] /\ y = l[k]
    BY <2>1 DEF Swings
  <2>13. PICK up : up = IF b > a THEN b - a ELSE 0
    OBVIOUS
  <2>14. PICK down : down = IF a > b THEN a - b ELSE 0
    OBVIOUS
  <2>10. /\ up \in Nat /\ up = IF b > a THEN b - a ELSE 0
         /\ down \in Nat /\ down = IF a > b THEN a - b ELSE 0
    BY <2>13, <2>14
  <2>15. PICK rise \in Nat, fall \in Nat : rise = up /\ fall = down
    BY <2>10
  <2>4. g[k + 1] = x + up /\ l[k + 1] = y + down
    <3>1. k + 1 \in 1..n /\ (k + 1) - 1 = k /\ (k + 1) + 1 = k + 2
      OBVIOUS
    <3> QED
      BY <1>4, <2>2, <2>3, <2>10, <3>1
  <2>11. b - a = rise - fall /\ (a = b => fall = 0)
    BY <2>10, <2>15
  <2>5. PICK won \in Nat, lost \in Nat : won = x + rise /\ lost = y + fall
    OBVIOUS
  <2>12. won = g[k + 1] /\ lost = l[k + 1]
    BY <2>4, <2>5, <2>15
  <2>6. b = c[1] + won - lost /\ a = c[1] + x - y /\ c[1] \in Int
    <3>1. PICK first \in Int : first = c[1]
      OBVIOUS
    <3>2. c[k + 1] = c[1] + g[k] - l[k]
      BY <2>1 DEF Swings
    <3>3. a = first + x - y
      BY <2>2, <2>3, <3>1, <3>2
    <3>4. b = first + won - lost
      BY <2>5, <2>11, <3>3
    <3> QED
      BY <3>1, <3>3, <3>4
  <2>7. ASSUME NEW i \in 1..(k + 2) PROVE c[i] <= b + lost /\ c[i] >= b - won
    <3>1. CASE i = k + 2
      BY <2>2, <2>5, <3>1
    <3>2. CASE i # k + 2
      <4>1. i \in 1..(k + 1) /\ c[i] \in Int
        BY <3>2
      <4>2. c[i] <= a + y /\ c[i] >= a - x
        BY <2>1, <2>2, <2>3, <4>1 DEF Swings
      <4> QED
        BY <2>5, <2>11, <4>1, <4>2
    <3> QED
      BY <3>1, <3>2
  <2>8. ASSUME \A i \in 1..(k + 2) : c[i] = c[1] PROVE lost = 0
    <3>1. a = c[1] /\ b = c[1]
      BY <2>2, <2>8
    <3>2. \A i \in 1..(k + 1) : c[i] = c[1]
      BY <2>8
    <3>3. y = 0
      BY <2>1, <2>3, <3>2 DEF Swings
    <3> QED
      BY <2>5, <2>11, <3>1, <3>3
  <2>9. (k + 1) + 1 = k + 2
    OBVIOUS
  <2> QED
    BY <2>2, <2>6, <2>7, <2>8, <2>9, <2>12 DEF Swings
<1>7. n \in Good
  <2>1. Nat \subseteq Good
    <3> HIDE DEF Good
    <3> QED
      BY <1>5, <1>6, SetInduction
  <2> QED
    BY <2>1
<1> QED
  BY <1>1, <1>2, <1>7

\* One more term of a sum of squares.
LEMMA OneMoreSquare ==
    ASSUME NEW s \in Int, NEW q \in Int, NEW d \in Int, NEW z \in Int, NEW k \in Int
    PROVE  361 * (q + d * d) - 38 * (z * (s + d)) + (k + 1) * (z * z)
           = (361 * q - 38 * (z * s) + k * (z * z)) + (19 * d - z) * (19 * d - z)
OBVIOUS

\* One more number, in the sums of their distances from another one.
LEMMA SeenFrom ==
    ASSUME NEW x \in Int, NEW y \in Int, NEW a \in Int, NEW p \in Int, NEW m \in Int
    PROVE  /\ (x + a) - (m + 1) * p = (x - m * p) + (a - p)
           /\ (y + a * a) - 2 * (p * (x + a)) + (m + 1) * (p * p)
              = (y - 2 * (p * x) + m * (p * p)) + (a - p) * (a - p)
OBVIOUS

Square(d) == d * d

\* Prices come in steps, of three decimals for instance.
Stepwise(x, step) == \E m \in Int : x = step * m

InSteps(w, step) == \A i \in 1..20 : Stepwise(w[i], step)

\* Two prices are the same, or at least a step apart.
LEMMA StepsApart ==
    ASSUME NEW step \in Nat \ {0}, NEW x \in Int, NEW y \in Int,
           Stepwise(x, step), Stepwise(y, step)
    PROVE  /\ Square(x - y) >= step * (x - y)
           /\ Square(x - y) >= -(step * (x - y))
           /\ x - y = 0 \/ Square(x - y) >= step * step
<1>1. PICK m \in Int, n \in Int : x = step * m /\ y = step * n
  BY DEF Stepwise
<1>7. PICK k : k = m - n
  OBVIOUS
<1>2. k \in Int /\ x - y = step * k
  <2>1. k \in Int
    BY <1>7
  <2>2. step * m - step * n = step * (m - n)
    OBVIOUS
  <2> QED
    BY <1>1, <1>7, <2>1, <2>2
<1>3. PICK kk : kk = k * k
  OBVIOUS
<1>4. kk \in Int /\ kk >= k /\ kk >= -k /\ (k = 0 \/ kk >= 1)
  BY <1>2, <1>3
<1>5. PICK ss \in Nat : ss = step * step
  <2>1. step * step \in Nat
    OBVIOUS
  <2> QED
    BY <2>1
<1>6. Square(x - y) = ss * kk /\ step * (x - y) = ss * k
  <2>1. (step * k) * (step * k) = (step * step) * (k * k) /\ step * (step * k) = (step * step) * k
    BY <1>2
  <2> QED
    BY <1>2, <1>3, <1>5, <2>1 DEF Square
<1>8. /\ ss * kk >= ss * k /\ ss * kk >= -(ss * k)
      /\ k = 0 \/ ss * kk >= ss
  <2>1. \A u \in Nat, a, b \in Int : a >= b => u * a >= u * b
    OBVIOUS
  <2>2. ss * kk >= ss * k
    BY <1>2, <1>4, <2>1
  <2>3. ss * kk >= ss * (-k) /\ ss * (-k) = -(ss * k)
    <3>1. -k \in Int
      BY <1>2
    <3> QED
      BY <1>2, <1>4, <2>1, <3>1
  <2>4. k = 0 \/ ss * kk >= ss * 1
    BY <1>4, <2>1
  <2> QED
    BY <1>2, <1>4, <2>2, <2>3, <2>4
<1>9. k = 0 => x - y = 0
  BY <1>2
<1> QED
  BY <1>5, <1>6, <1>8, <1>9

\* Seven of twenty numbers cannot be further from the mean than all of them are: of their
\* distances from one of them, the sum s of all and the sum q of the squares of all.
Apart(v, s) == Square(19 * v - s)

SevenApart(b, s, q) ==
    361 * q - 19 * Square(s) >=
       Apart(b[1], s) + Apart(b[2], s) + Apart(b[3], s) + Apart(b[4], s)
       + Apart(b[5], s) + Apart(b[6], s) + Apart(b[7], s)

\* Of twenty closes in steps, seen from the last one.
Spread(w, p, s, q, step) ==
    /\ s \in Int /\ q \in Nat
    /\ SevenApart([i \in 1..7 |-> w[i + 5] - p], s, q)
    /\ q >= step * s /\ q >= -(step * s)
    /\ q = 0 \/ q >= step * step
    /\ q = 0 => \A i \in 1..20 : w[i] = p
    /\ (\A i \in 1..20 : w[i] = p) => s = 0 /\ q = 0

\* The sums of the distances from the last close are those that Spread speaks of.
LEMMA Deviations ==
    ASSUME NEW step \in Nat \ {0},
           NEW w, \A i \in 1..20 : w[i] \in Int, InSteps(w, step), NEW p, p = w[20],
           NEW f, Running(f, [i \in 1..20 |-> w[i]], 20),
           NEW h, Running(h, [i \in 1..20 |-> w[i] * w[i]], 20)
    PROVE  Spread(w, p, f[20] - 20 * p, h[20] - 2 * (p * f[20]) + 20 * (p * p), step)
<1>0. p \in Int
  OBVIOUS
<1>19. Stepwise(p, step)
  <2>1. 20 \in 1..20
    OBVIOUS
  <2> QED
    BY <2>1 DEF InSteps
<1> DEFINE s(k) == f[k] - k * p
           q(k) == h[k] - 2 * (p * f[k]) + k * (p * p)
           d(k) == w[k] - p
<1>1. \A k \in 0..20 : f[k] \in Int /\ h[k] \in Int
  BY DEF Running
<1>2. \A k \in 0..20 : s(k) \in Int /\ q(k) \in Int
  BY <1>0, <1>1
<1>3. s(0) = 0 /\ q(0) = 0
  BY <1>0 DEF Running
<1>4. ASSUME NEW k \in 1..20
      PROVE  s(k) = s(k - 1) + d(k) /\ q(k) = q(k - 1) + Square(d(k))
  <2>0. k - 1 \in 0..20 /\ k - 1 \in Int /\ w[k] \in Int
    OBVIOUS
  <2>1. PICK a \in Int, x \in Int, y \in Int, m \in Int :
           a = w[k] /\ x = f[k - 1] /\ y = h[k - 1] /\ m = k - 1
    BY <1>1, <2>0
  <2>2. f[k] = x + a /\ h[k] = y + a * a
    BY <2>1 DEF Running
  <2>3. /\ (x + a) - (m + 1) * p = (x - m * p) + (a - p)
        /\ (y + a * a) - 2 * (p * (x + a)) + (m + 1) * (p * p)
           = (y - 2 * (p * x) + m * (p * p)) + (a - p) * (a - p)
    BY <1>0, SeenFrom
  <2>5. k = m + 1
    BY <2>1
  <2> QED
    BY <2>1, <2>2, <2>3, <2>5 DEF Square
<1>5. PICK z \in Int : z = s(20)
  BY <1>2
<1> DEFINE e(k) == 361 * q(k) - 38 * (z * s(k)) + k * (z * z)
           t(k) == Apart(d(k), z)
           Good == {k \in Nat : k <= 20 =>
                       /\ e(k) >= 0
                       /\ q(k) >= 0
                       /\ q(k) >= step * s(k) /\ q(k) >= -(step * s(k))
                       /\ q(k) = 0 \/ q(k) >= step * step
                       /\ \A i \in 1..k : Square(d(i)) <= q(k)
                       /\ (\A i \in 1..20 : w[i] = p) => s(k) = 0 /\ q(k) = 0}
<1>6. ASSUME NEW k \in 1..20 PROVE e(k) = e(k - 1) + t(k)
  <2>0. k - 1 \in 0..20 /\ k - 1 \in Int /\ d(k) \in Int
    BY <1>0
  <2>3. s(k - 1) \in Int /\ q(k - 1) \in Int
    <3> HIDE DEF s, q
    <3> QED
      BY <1>2, <2>0
  <2>1. PICK x \in Int, y \in Int, m \in Int, a \in Int :
           x = s(k - 1) /\ y = q(k - 1) /\ m = k - 1 /\ a = d(k)
    BY <2>0, <2>3
  <2> HIDE DEF s, q, d
  <2>2. s(k) = x + a /\ q(k) = y + a * a /\ k = m + 1
    BY <1>4, <2>1 DEF Square
  <2> QED
    BY <2>1, <2>2, OneMoreSquare DEF Square, Apart
<1>7. \A i \in 1..20 : d(i) \in Int /\ t(i) \in Nat /\ Square(d(i)) \in Nat
  <2>1. \A x \in Int : Square(x) \in Nat
    BY DEF Square
  <2> QED
    BY <1>0, <2>1 DEF Apart
<1>8. \A k \in 0..20 : e(k) \in Int
  BY <1>2
<1>17. ASSUME NEW i \in 1..20
       PROVE  /\ Square(d(i)) >= step * d(i) /\ Square(d(i)) >= -(step * d(i))
              /\ d(i) = 0 \/ Square(d(i)) >= step * step
  <2>1. w[i] \in Int /\ Stepwise(w[i], step)
    BY DEF InSteps
  <2> QED
    BY <1>0, <1>19, <2>1, StepsApart
<1> HIDE DEF s, q, e, t
<1>9. 0 \in Good
  <2>1. e(0) = 0
    BY <1>3 DEF e
  <2>2. step * s(0) = 0
    BY <1>3
  <2> HIDE DEF d
  <2> QED
    BY <1>3, <2>1, <2>2
<1>10. ASSUME NEW k \in Nat, k \in Good PROVE k + 1 \in Good
  <2> SUFFICES ASSUME k + 1 <= 20 PROVE k + 1 \in Good
    OBVIOUS
  <2>1. k + 1 \in 1..20 /\ (k + 1) - 1 = k /\ k \in 0..20
    OBVIOUS
  <2>2. PICK m \in 1..20 : m = k + 1
    BY <2>1
  <2>3. e(m) = e(k) + t(m) /\ q(m) = q(k) + Square(d(m)) /\ s(m) = s(k) + d(m)
    BY <1>4, <1>6, <2>1, <2>2
  <2>4. /\ t(m) \in Nat /\ Square(d(m)) \in Nat /\ d(m) \in Int
        /\ e(k) \in Int /\ q(k) \in Int /\ s(k) \in Int
    BY <1>2, <1>7, <1>8, <2>1
  <2>5. e(m) >= 0
    BY <1>10, <2>3, <2>4
  <2>6. q(m) >= 0 /\ \A i \in 1..m : Square(d(i)) <= q(m)
    <3>1. q(k) >= 0 /\ \A i \in 1..k : Square(d(i)) <= q(k)
      BY <1>10
    <3>2. ASSUME NEW i \in 1..m PROVE Square(d(i)) <= q(m)
      <4>1. CASE i = m
        BY <2>3, <2>4, <3>1, <4>1
      <4>2. CASE i # m
        <5>1. i \in 1..k
          BY <2>2, <4>2
        <5>3. i \in 1..20
          BY <2>1, <5>1
        <5>2. Square(d(i)) \in Nat
          BY <1>7, <5>3
        <5> HIDE DEF d
        <5> QED
          BY <2>3, <2>4, <3>1, <5>1, <5>2
      <4> QED
        BY <4>1, <4>2
    <3> QED
      BY <2>3, <2>4, <3>1, <3>2
  <2>7. ASSUME \A i \in 1..20 : w[i] = p PROVE s(m) = 0 /\ q(m) = 0
    <3>1. s(k) = 0 /\ q(k) = 0
      BY <1>10, <2>7
    <3>2. d(m) = 0
      BY <1>0, <2>7
    <3>3. Square(0) = 0
      BY DEF Square
    <3> QED
      BY <2>3, <3>1, <3>2, <3>3
  <2>8. /\ q(m) >= step * s(m) /\ q(m) >= -(step * s(m))
        /\ q(m) = 0 \/ q(m) >= step * step
    <3>1. PICK x \in Int, a \in Int, y \in Int, b \in Nat :
             x = s(k) /\ a = d(m) /\ y = q(k) /\ b = Square(d(m))
      BY <2>4
    <3>2. /\ y >= step * x /\ y >= -(step * x) /\ y >= 0
          /\ y = 0 \/ y >= step * step
      BY <1>10, <2>1, <3>1
    <3>3. /\ b >= step * a /\ b >= -(step * a)
          /\ a = 0 \/ b >= step * step
      BY <1>17, <3>1
    <3>4. step * (x + a) = step * x + step * a /\ step * x \in Int /\ step * a \in Int
          /\ step * step \in Nat
      OBVIOUS
    <3>5. a = 0 => b = 0
      BY <3>1 DEF Square
    <3>6. q(m) = y + b /\ s(m) = x + a
      BY <2>3, <3>1
    <3> QED
      BY <3>2, <3>3, <3>4, <3>5, <3>6
  <2> QED
    BY <2>2, <2>5, <2>6, <2>7, <2>8
<1>11. \A k \in 0..20 : k \in Good
  <2>1. Nat \subseteq Good
    <3> HIDE DEF Good
    <3> QED
      BY <1>9, <1>10, SetInduction
  <2> QED
    BY <2>1
<1>12. q(20) \in Nat
  BY <1>2, <1>11
<1>13. 361 * q(20) - 19 * Square(z) >=
          t(6) + t(7) + t(8) + t(9) + t(10) + t(11) + t(12)
  <2>1. e(20) = e(19) + t(20)
    BY <1>6
  <2>2. t(20) = Square(z)
    <3>1. d(20) = 0
      BY <1>0
    <3>2. \A x \in Int : Square(19 * 0 - x) = Square(x)
      BY DEF Square
    <3> QED
      BY <3>1, <3>2 DEF t, Apart
  <2>3. e(20) = 361 * q(20) - 18 * Square(z)
    <3>1. PICK x \in Int, y \in Int : x = q(20) /\ y = z * z
      BY <1>12
    <3> QED
      BY <1>5, <3>1 DEF e, Square
  <2>6. e(12) >= t(6) + t(7) + t(8) + t(9) + t(10) + t(11) + t(12)
    <3>1. /\ e(6) = e(5) + t(6) /\ e(7) = e(6) + t(7) /\ e(8) = e(7) + t(8)
          /\ e(9) = e(8) + t(9) /\ e(10) = e(9) + t(10) /\ e(11) = e(10) + t(11)
          /\ e(12) = e(11) + t(12)
      BY <1>6
    <3>2. e(5) \in Int /\ e(5) >= 0
      BY <1>8, <1>11
    <3>3. /\ t(6) \in Nat /\ t(7) \in Nat /\ t(8) \in Nat /\ t(9) \in Nat
          /\ t(10) \in Nat /\ t(11) \in Nat /\ t(12) \in Nat
      BY <1>7
    <3> HIDE DEF d
    <3> QED
      BY <3>1, <3>2, <3>3
  <2>7. e(19) >= e(12)
    <3>1. /\ e(13) = e(12) + t(13) /\ e(14) = e(13) + t(14) /\ e(15) = e(14) + t(15)
          /\ e(16) = e(15) + t(16) /\ e(17) = e(16) + t(17) /\ e(18) = e(17) + t(18)
          /\ e(19) = e(18) + t(19)
      BY <1>6
    <3>2. e(12) \in Int
      BY <1>8
    <3>3. /\ t(13) \in Nat /\ t(14) \in Nat /\ t(15) \in Nat /\ t(16) \in Nat
          /\ t(17) \in Nat /\ t(18) \in Nat /\ t(19) \in Nat
      BY <1>7
    <3> HIDE DEF d
    <3> QED
      BY <3>1, <3>2, <3>3
  <2>4. PICK sum \in Nat : sum = t(6) + t(7) + t(8) + t(9) + t(10) + t(11) + t(12)
    <3>1. /\ t(6) \in Nat /\ t(7) \in Nat /\ t(8) \in Nat /\ t(9) \in Nat
          /\ t(10) \in Nat /\ t(11) \in Nat /\ t(12) \in Nat
      BY <1>7
    <3> HIDE DEF d
    <3> QED
      BY <3>1
  <2>5. PICK x \in Int : x = Square(z)
    BY DEF Square
  <2>8. e(19) \in Int /\ e(12) \in Int
    BY <1>8
  <2> HIDE DEF d
  <2> QED
    BY <1>12, <2>1, <2>2, <2>3, <2>4, <2>5, <2>6, <2>7, <2>8
<1>18. SevenApart([i \in 1..7 |-> w[i + 5] - p], z, q(20))
  <2>1. PICK b : b = [i \in 1..7 |-> w[i + 5] - p]
    OBVIOUS
  <2>2. /\ Apart(b[1], z) = t(6) /\ Apart(b[2], z) = t(7) /\ Apart(b[3], z) = t(8)
        /\ Apart(b[4], z) = t(9) /\ Apart(b[5], z) = t(10) /\ Apart(b[6], z) = t(11)
        /\ Apart(b[7], z) = t(12)
    BY <2>1 DEF t
  <2>3. SevenApart(b, z, q(20))
    <3> HIDE DEF d
    <3> QED
      BY <1>13, <2>2, Zenon DEF SevenApart
  <2> QED
    BY <2>1, <2>3
<1>14. ASSUME q(20) = 0, NEW i \in 1..20 PROVE w[i] = p
  <2>1. Square(d(i)) <= 0 /\ Square(d(i)) \in Nat /\ d(i) \in Int
    BY <1>7, <1>11, <1>14
  <2>2. \A x \in Int : Square(x) <= 0 => x = 0
    BY DEF Square
  <2>3. d(i) = 0
    <3> HIDE DEF d
    <3> QED
      BY <2>1, <2>2
  <2>4. PICK x \in Int : x = w[i]
    OBVIOUS
  <2>5. x - p = 0
    BY <2>3, <2>4
  <2>6. \A a, b \in Int : a - b = 0 => a = b
    OBVIOUS
  <2>7. x = p
    BY <1>0, <2>5, <2>6, Zenon
  <2> QED
    BY <2>4, <2>7
<1>15. /\ q(20) >= step * s(20) /\ q(20) >= -(step * s(20))
       /\ q(20) = 0 \/ q(20) >= step * step
       /\ (\A i \in 1..20 : w[i] = p) => s(20) = 0 /\ q(20) = 0
  BY <1>11
<1>16. Spread(w, p, s(20), q(20), step)
  BY <1>2, <1>5, <1>12, <1>14, <1>15, <1>18, Zenon DEF Spread
<1> QED
  BY <1>16 DEF s, q

\* Closes that are no distance from the last one are all the same.
LEMMA NoSpread ==
    ASSUME NEW w, NEW p, NEW s, NEW q, NEW step, Spread(w, p, s, q, step)
    PROVE  q = 0 => \A i \in 1..20 : w[i] = p
BY DEF Spread

\* Of two naturals the greater one has the greater square.
LEMMA SquareGrows ==
    ASSUME NEW a \in Nat, NEW b \in Nat, a <= b
    PROVE  Square(a) <= Square(b) /\ Square(a) \in Nat /\ Square(b) \in Nat
<1>1. PICK d \in Nat : b = a + d
  <2>1. b - a \in Nat /\ b = a + (b - a)
    OBVIOUS
  <2> QED
    BY <2>1
<1>2. (a + d) * (a + d) = a * a + 2 * (a * d) + d * d
  OBVIOUS
<1>3. a * a \in Nat /\ a * d \in Nat /\ d * d \in Nat
  OBVIOUS
<1> QED
  BY <1>1, <1>2, <1>3 DEF Square

\* Squares of multiples.
LEMMA SquareOf ==
    ASSUME NEW a \in Int
    PROVE  Square(a) \in Nat /\ Square(-a) = Square(a) /\ Square(4 * a) = 16 * Square(a)
           /\ Square(3 * a) = 9 * Square(a) /\ Square(7 * a) = 49 * Square(a)
BY DEF Square

\* The price is at a band that was rounded by half a step: then it is at the mean, or so
\* far from it that the rounding hardly counts.
LEMMA NearOrFar ==
    ASSUME NEW s \in Int, NEW q \in Nat, NEW step \in Nat \ {0},
           q >= step * s, q = 0 \/ q >= step * step,
           s + step >= 0, 19 * Square(s + step) + 80 * Square(s) >= 1600 * q
    PROVE  q = 0 \/ (s > 0 /\ 102 * Square(s) >= 1600 * q)
<1> SUFFICES ASSUME q # 0 PROVE s > 0 /\ 102 * Square(s) >= 1600 * q
  OBVIOUS
<1>1. PICK ss \in Int, st \in Int, tt \in Int :
         ss = s * s /\ st = step * s /\ tt = step * step
  OBVIOUS
<1>2. ss >= 0 /\ tt >= 1
  BY <1>1
<1>3. Square(s) = ss /\ Square(s + step) = ss + 2 * st + tt
  <2>1. (s + step) * (s + step) = s * s + 2 * (step * s) + step * step
    OBVIOUS
  <2> QED
    BY <1>1, <2>1 DEF Square
<1>4. 99 * ss + 38 * st + 19 * tt >= 1600 * q /\ q >= st /\ q >= tt
  BY <1>1, <1>2, <1>3
<1>5. \A x \in Nat, a, b \in Int : a <= b => x * a <= x * b
  OBVIOUS
<1>6. CASE s <= step
  <2>1. st <= tt
    BY <1>1, <1>5, <1>6
  <2>2. ss <= tt
    <3>1. s >= 0 \/ s < 0
      OBVIOUS
    <3>2. CASE s >= 0
      <4>1. s * s <= s * step /\ s * step = step * s
        BY <1>5, <1>6, <3>2
      <4> QED
        BY <1>1, <2>1, <4>1
    <3>3. CASE s < 0
      <4>1. PICK n \in Nat : n = -s
        <5>1. -s \in Nat
          BY <3>3
        <5> QED
          BY <5>1
      <4>2. n <= step
        BY <4>1
      <4>3. n * n <= n * step /\ step * n <= step * step /\ n * step = step * n
        BY <1>5, <4>2
      <4>4. n * n = s * s
        BY <4>1
      <4> QED
        BY <1>1, <4>3, <4>4
    <3> QED
      BY <3>1, <3>2, <3>3
  <2> QED
    BY <1>2, <1>4, <2>1, <2>2
<1>7. CASE s > step /\ s <= 15 * step
  <2>1. s * s <= s * (15 * step) /\ s * (15 * step) = 15 * (step * s)
    BY <1>5, <1>7
  <2>2. step * step <= step * s
    BY <1>5, <1>7
  <2>3. st >= 1
    BY <1>1, <1>2, <2>2
  <2> QED
    BY <1>1, <1>4, <2>1, <2>2, <2>3
<1>8. CASE s > 15 * step
  <2>1. s * (15 * step) <= s * s /\ s * (15 * step) = 15 * (step * s)
    BY <1>5, <1>8
  <2>2. step * (15 * step) <= step * s /\ step * (15 * step) = 15 * (step * step)
    BY <1>5, <1>8
  <2>3. 15 * st <= ss /\ 15 * tt <= st
    BY <1>1, <2>1, <2>2
  <2>4. s > 0
    BY <1>8
  <2> QED
    BY <1>2, <1>3, <1>4, <2>3, <2>4
<1> QED
  BY <1>6, <1>7, <1>8

AtBand(s, q, step) ==
    /\ s \in Int /\ q \in Nat /\ step \in Nat \ {0}
    /\ q >= step * s
    /\ q = 0 \/ q >= step * step
    /\ s + step >= 0
    /\ 19 * Square(s + step) + 80 * Square(s) >= 1600 * q

LEMMA AtBandOrFar ==
    ASSUME NEW s, NEW q, NEW step, AtBand(s, q, step)
    PROVE  q = 0 \/ (s > 0 /\ 102 * Square(s) >= 1600 * q)
BY NearOrFar DEF AtBand

\* The least of a weighted sum of two squares is found by completing a square.
LEMMA SumOfTwoSquares ==
    ASSUME NEW x \in Int, NEW s \in Int
    PROVE  40 * Square(x + s) + 15 * Square(4 * s - 3 * x)
           = 7 * Square(5 * x - 4 * s) + 168 * Square(s)
BY DEF Square

\* The last of the closes is two deviations below the mean, although far more was won than
\* lost on the way from the first of seven others, and none of these is more above the last
\* than was lost.
BothFar(s, q, won, lost, b) ==
    /\ s \in Nat /\ q \in Nat /\ won \in Nat /\ lost \in Nat
    /\ \A i \in 1..7 : b[i] \in Int /\ b[i] <= lost
    /\ b[1] = lost - won
    /\ 7 * lost <= 3 * won
    /\ 102 * Square(s) >= 1600 * q
    /\ SevenApart(b, s, q)

\* Then these seven are so far from the mean that none is.
LEMMA TooSpread ==
    ASSUME NEW s, NEW q, NEW won, NEW lost, NEW b, BothFar(s, q, won, lost, b)
    PROVE  s = 0
<1> SUFFICES ASSUME s # 0 PROVE FALSE
  OBVIOUS
<1>14. s \in Nat /\ q \in Nat /\ won \in Nat /\ lost \in Nat
  BY DEF BothFar
<1>15. 7 * lost <= 3 * won
  BY DEF BothFar
<1>16. \A i \in 1..7 : b[i] \in Int /\ b[i] <= lost
  BY DEF BothFar
<1>1. PICK ss \in Nat : ss = Square(s)
  BY <1>14, SquareOf
<1>2. ss >= 1
  BY <1>1, <1>14 DEF Square
<1>9. ASSUME NEW v \in Int PROVE Apart(v, s) \in Nat
  <2>1. PICK y : y = 19 * v - s
    OBVIOUS
  <2>3. y \in Int
    BY <1>9, <1>14, <2>1
  <2>2. Square(y) \in Nat
    BY <2>3 DEF Square
  <2> QED
    BY <2>1, <2>2 DEF Apart
<1>10. PICK aa \in Nat : aa = Apart(b[1], s)
  BY <1>9, <1>16
<1>11. \A i \in 1..7 : Apart(b[i], s) \in Nat
  BY <1>9, <1>16
<1>12. PICK others \in Nat :
          others = Apart(b[2], s) + Apart(b[3], s) + Apart(b[4], s)
                   + Apart(b[5], s) + Apart(b[6], s) + Apart(b[7], s)
  <2>1. /\ Apart(b[2], s) \in Nat /\ Apart(b[3], s) \in Nat /\ Apart(b[4], s) \in Nat
        /\ Apart(b[5], s) \in Nat /\ Apart(b[6], s) \in Nat /\ Apart(b[7], s) \in Nat
    BY <1>11
  <2> QED
    BY <2>1
<1>4. 1600 * (aa + others) <= 6422 * ss
  <2>1. 361 * q - 19 * ss >= aa + others
    <3>1. /\ Apart(b[2], s) \in Nat /\ Apart(b[3], s) \in Nat /\ Apart(b[4], s) \in Nat
          /\ Apart(b[5], s) \in Nat /\ Apart(b[6], s) \in Nat /\ Apart(b[7], s) \in Nat
      BY <1>11
    <3>2. SevenApart(b, s, q)
      BY DEF BothFar
    <3> QED
      BY <1>1, <1>10, <1>12, <3>1, <3>2 DEF SevenApart
  <2>2. 102 * ss >= 1600 * q
    BY <1>1 DEF BothFar
  <2> QED
    BY <1>14, <2>1, <2>2
<1>5. PICK x \in Nat : x = 19 * (won - lost)
  <2>1. 19 * (won - lost) \in Nat
    BY <1>14, <1>15
  <2> QED
    BY <2>1
<1>6. aa = Square(x + s)
  <2>1. PICK y \in Int : y = x + s
    BY <1>14
  <2>4. b[1] = lost - won
    BY DEF BothFar
  <2>2. 19 * b[1] - s = -y
    BY <1>5, <1>14, <2>1, <2>4
  <2>3. Square(-y) = Square(y)
    BY SquareOf
  <2> QED
    BY <1>10, <2>1, <2>2, <2>3 DEF Apart
<1>7. CASE 4 * s < 3 * x
  <2>1. 7 * s <= 3 * (x + s)
    BY <1>7, <1>14
  <2>2. Square(7 * s) <= Square(3 * (x + s))
    <3>1. 7 * s \in Nat /\ 3 * (x + s) \in Nat
      BY <1>14
    <3> QED
      BY <2>1, <3>1, SquareGrows
  <2>3. 49 * ss <= 9 * aa
    <3>1. Square(7 * s) = 49 * Square(s)
      BY <1>14, SquareOf
    <3>2. PICK y \in Int : y = x + s
      BY <1>14
    <3>3. Square(3 * y) = 9 * Square(y)
      BY SquareOf
    <3> QED
      BY <1>1, <1>6, <2>2, <3>1, <3>2, <3>3
  <2> QED
    BY <1>2, <1>4, <2>3
<1>8. CASE ~(4 * s < 3 * x)
  <2>7. PICK z : z = 4 * s - 3 * x
    OBVIOUS
  <2>1. PICK y \in Nat : y = 4 * s - 3 * x
    <3>1. z \in Nat
      BY <1>8, <1>14, <2>7
    <3> QED
      BY <2>7, <3>1
  <2>2. PICK yy \in Nat : yy = Square(y)
    BY SquareOf
  <2>3. ASSUME NEW v \in Int, v <= lost
        PROVE  yy <= 16 * Apart(v, s)
    <3>0. s - 19 * v \in Int
      BY <1>14, <2>3
    <3>1. PICK r \in Int : r = s - 19 * v
      BY <3>0
    <3>2. y <= 4 * r
      BY <1>5, <1>14, <1>15, <2>1, <2>3, <3>1
    <3>3. Square(y) <= Square(4 * r)
      <4>1. 4 * r \in Nat
        BY <3>2
      <4> QED
        BY <3>2, <4>1, SquareGrows
    <3>4. 19 * v - s = -r
      BY <1>14, <2>3, <3>1
    <3>5. Square(4 * r) = 16 * Square(r) /\ Square(-r) = Square(r)
      BY SquareOf
    <3> QED
      BY <2>2, <3>3, <3>4, <3>5 DEF Apart
  <2>4. 6 * yy <= 16 * others
    <3>1. \A i \in 1..7 : yy <= 16 * Apart(b[i], s)
      BY <1>16, <2>3
    <3>2. /\ yy <= 16 * Apart(b[2], s) /\ yy <= 16 * Apart(b[3], s)
          /\ yy <= 16 * Apart(b[4], s) /\ yy <= 16 * Apart(b[5], s)
          /\ yy <= 16 * Apart(b[6], s) /\ yy <= 16 * Apart(b[7], s)
      BY <3>1
    <3>3. /\ Apart(b[2], s) \in Nat /\ Apart(b[3], s) \in Nat /\ Apart(b[4], s) \in Nat
          /\ Apart(b[5], s) \in Nat /\ Apart(b[6], s) \in Nat /\ Apart(b[7], s) \in Nat
      BY <1>11
    <3> QED
      BY <1>12, <3>2, <3>3
  <2>5. PICK rest \in Nat : rest = Square(5 * x - 4 * s)
    <3>1. PICK apart : apart = 5 * x - 4 * s
      OBVIOUS
    <3>2. apart \in Int
      BY <1>14, <3>1
    <3> QED
      BY <3>1, <3>2, SquareOf
  <2>6. 40 * aa + 15 * yy = 7 * rest + 168 * ss
    <3>1. PICK n \in Int, m \in Int : n = x /\ m = s
      BY <1>14
    <3>2. 40 * Square(n + m) + 15 * Square(4 * m - 3 * n)
          = 7 * Square(5 * n - 4 * m) + 168 * Square(m)
      BY SumOfTwoSquares
    <3>3. /\ aa = Square(n + m) /\ yy = Square(4 * m - 3 * n)
          /\ rest = Square(5 * n - 4 * m) /\ ss = Square(m)
      BY <1>1, <1>6, <2>1, <2>2, <2>5, <3>1, Zenon
    <3> QED
      BY <3>2, <3>3, Zenon
  <2> QED
    BY <1>2, <1>4, <2>4, <2>6
<1> QED
  BY <1>7, <1>8

\* The smaller of two numbers.
LEMMA MinOfTwo ==
    ASSUME NEW a \in Int, NEW b \in Int
    PROVE  Min({a, b}) = IF a < b THEN a ELSE b
<1>1. PICK c \in {a, b} : c = IF a < b THEN a ELSE b
  OBVIOUS
<1>2. \A x \in {a, b} : (\A y \in {a, b} : x =< y) <=> x = c
  BY <1>1
<1>3. Min({a, b}) = CHOOSE x \in {a, b} : \A y \in {a, b} : x =< y
  BY DEF Min
<1> QED
  BY <1>1, <1>2, <1>3

\* The newest of the recorded prices are the last of the closes.
Newest(rows, c, n) ==
    Len(c) = n /\ DOMAIN c = 1..n /\ \A i \in 1..n : c[i] = rows[n + 1 - i] /\ c[i] \in Int

\* The last closes are the newest rows, turned around.
LEMMA NewestCloses ==
    ASSUME NEW rows \in Seq(Int), NEW n \in 1..Limit, Len(rows) >= n
    PROVE  /\ Newest(rows, LastOf(Closes(rows), n), n)
           /\ Len(Closes(rows)) \in Nat /\ Len(Closes(rows)) >= n
<1>1. PICK m \in n..Limit : m = Min({Limit, Len(rows)}) /\ m <= Len(rows)
  <2>1. Limit \in Int /\ Len(rows) \in Int
    BY DEF Limit
  <2>2. Min({Limit, Len(rows)}) = IF Limit < Len(rows) THEN Limit ELSE Len(rows)
    BY <2>1, MinOfTwo
  <2> QED
    BY <2>1, <2>2 DEF Limit
<1>11. PICK s : s = SubSeq(rows, 1, m)
  OBVIOUS
<1>2. s \in Seq(Int) /\ Len(s) = m /\ \A i \in 1..m : s[i] = rows[i]
  <2>1. m \in Nat /\ m <= Len(rows) /\ 1 <= m
    BY <1>1 DEF Limit
  <2>2. \A i \in 1..m : rows[i] \in Int
    BY <2>1
  <2> QED
    BY <1>11, <2>1, <2>2
<1>3. PICK c : c = [i \in 1..m |-> s[(m - i) + 1]]
  OBVIOUS
<1>4. Closes(rows) = c
  BY <1>1, <1>2, <1>3, <1>11 DEF Closes, Reverse
<1>5. m \in Nat /\ n \in Nat /\ n <= m
  BY <1>1 DEF Limit
<1>6. \A i \in 1..m : c[i] = rows[(m - i) + 1] /\ c[i] \in Int
  <2> SUFFICES ASSUME NEW i \in 1..m PROVE c[i] = rows[(m - i) + 1] /\ c[i] \in Int
    OBVIOUS
  <2>1. (m - i) + 1 \in 1..m
    BY <1>5
  <2> QED
    BY <1>2, <1>3, <1>5, <2>1
<1>7. c \in Seq(Int) /\ Len(c) = m
  BY <1>3, <1>5, <1>6
<1>8. PICK w : w = LastOf(c, n)
  OBVIOUS
<1>9. Len(w) = n /\ DOMAIN w = 1..n /\ \A i \in 1..n : w[i] = c[m - n + i]
  <2>1. w = SubSeq(c, m - n + 1, m)
    BY <1>7, <1>8 DEF LastOf
  <2>2. m - n + 1 \in 1..(m + 1)
    BY <1>5
  <2> QED
    BY <1>5, <1>7, <2>1, <2>2
<1>10. ASSUME NEW i \in 1..n PROVE w[i] = rows[n + 1 - i] /\ w[i] \in Int
  <2>1. m - n + i \in 1..m /\ (m - (m - n + i)) + 1 = n + 1 - i
    BY <1>5
  <2> QED
    BY <1>6, <1>9, <2>1
<1> QED
  BY <1>4, <1>5, <1>7, <1>8, <1>9, <1>10 DEF Newest

\* What RSI says of the gains and the losses, whichever way it is rounded.
RsiSaid(vote, gain, loss) ==
    /\ vote = SELL => 7 * loss <= 3 * gain
    /\ vote = BUY => 7 * gain <= 3 * loss
    /\ loss = 0 => vote = SELL
    /\ vote \in Signal

LEMMA RsiSays ==
    ASSUME NEW closes, NEW gain \in Nat, NEW loss \in Nat,
           gain = Gains(LastOf(closes, 15)), loss = Losses(LastOf(closes, 15)),
           NEW vote \in RsiVotes(closes)
    PROVE  RsiSaid(vote, gain, loss)
<1>1. RSI_PERIOD + 1 = 15
  BY DEF RSI_PERIOD
<1>2. /\ vote \in Signal
      /\ vote = SELL => loss = 0 \/ 5999 * gain >= 14001 * loss
      /\ vote # SELL => loss > 0 /\ 5999 * gain <= 14001 * loss
      /\ vote = BUY => 14001 * gain <= 5999 * loss
  BY <1>1 DEF RsiVotes
<1> QED
  BY <1>2 DEF RsiSaid, BUY, SELL

\* What the bands are made of, seen from the price.
LEMMA SeenFromLast ==
    ASSUME NEW p \in Int, NEW sum \in Int, NEW squares \in Int
    PROVE  /\ (20 * p - sum) * (20 * p - sum) = Square(sum - 20 * p)
           /\ 20 * squares - sum * sum
              = 20 * (squares - 2 * (p * sum) + 20 * (p * p)) - Square(sum - 20 * p)
<1>1. PICK x \in Int, y \in Int, z \in Int : x = p * p /\ y = p * sum /\ z = sum * sum
  OBVIOUS
<1>2. (sum - 20 * p) * (sum - 20 * p) = z - 40 * y + 400 * x
  BY <1>1
<1>3. (20 * p - sum) * (20 * p - sum) = z - 40 * y + 400 * x
  BY <1>1
<1> QED
  BY <1>1, <1>2, <1>3 DEF Square

\* A multiple of what is rounded to is not rounded.
LEMMA Quotient ==
    ASSUME NEW y \in Nat \ {0}, NEW m \in Int
    PROVE  (y * m) \div y = m
OBVIOUS

LEMMA NotRounded ==
    ASSUME NEW p \in Int, NEW n \in Int, p = Grain * n
    PROVE  RoundedUp(p) = p /\ RoundedDown(p) = p
<1>1. Grain \in Nat \ {0}
  BY GrainAssumption
<1>2. \A y \in Nat \ {0}, m \in Int : (y * m) \div y = m /\ -(y * m) = y * (-m) /\ -m \in Int
  OBVIOUS
<1>3. p \div Grain = n /\ (-p) \div Grain = -n
  BY <1>1, <1>2
<1>4. Grain * (-n) = -p /\ -(-p) = p
  BY <1>1, <1>2
<1> QED
  BY <1>3, <1>4 DEF RoundedUp, RoundedDown

\* The vote of the bands, of a rounded price and the sums of a window.
Outside(off, sum, squares) ==
    off >= 0 /\ (20 - 1) * off * off >= 4 * 20 * (20 * squares - sum * sum)

FarOutside(off, sum, squares) ==
    off >= 0 /\ (20 - 1) * off * off > 4 * 20 * (20 * squares - sum * sum)

Bands(vote, up, down, step, sum, squares) ==
    /\ vote \in Signal
    /\ IF vote = BUY THEN Outside(sum - 20 * up + step, sum, squares)
                     ELSE ~FarOutside(sum - 20 * up + step, sum, squares)
    /\ vote = SELL => Outside(20 * down - sum + step, sum, squares)

BandsSay(vote, s, q, step) ==
    /\ vote = BUY => s + step >= 0 /\ 19 * Square(s + step) + 80 * Square(s) >= 1600 * q
    /\ vote = SELL => step - s >= 0 /\ 19 * Square(step - s) + 80 * Square(s) >= 1600 * q
    /\ s = 0 /\ q = 0 => vote = BUY
    /\ vote \in Signal

\* What the bands say of the sums of distances.
LEMMA BandsAre ==
    ASSUME NEW p \in Int, NEW sum \in Int, NEW squares \in Int,
           NEW s \in Int, NEW q \in Nat, NEW step \in Nat \ {0},
           s = sum - 20 * p, q = squares - 2 * (p * sum) + 20 * (p * p),
           NEW vote, Bands(vote, p, p, step, sum, squares)
    PROVE  BandsSay(vote, s, q, step)
<1>3. PICK ss \in Int : ss = Square(s)
  BY SquareOf
<1>4. s = 0 => ss = 0
  BY <1>3 DEF Square
<1>5. 20 * squares - sum * sum = 20 * q - ss
  <2>1. 20 * squares - sum * sum = 20 * q - Square(s)
    BY SeenFromLast
  <2> QED
    BY <1>3, <2>1
<1>6. ASSUME NEW off \in Int
      PROVE  /\ Outside(off, sum, squares)
                    => off >= 0 /\ 19 * Square(off) + 80 * ss >= 1600 * q
             /\ off >= 0 /\ 19 * Square(off) + 80 * ss > 1600 * q
                    => FarOutside(off, sum, squares)
  <2>1. PICK oo \in Int : oo = off * off
    OBVIOUS
  <2>2. (20 - 1) * off * off = 19 * oo
    BY <2>1
  <2>3. Square(off) = oo
    BY <2>1 DEF Square
  <2>4. /\ 19 * oo >= 4 * 20 * (20 * q - ss) => 19 * oo + 80 * ss >= 1600 * q
        /\ 19 * oo + 80 * ss > 1600 * q => 19 * oo > 4 * 20 * (20 * q - ss)
    OBVIOUS
  <2> QED
    BY <1>5, <2>2, <2>3, <2>4 DEF Outside, FarOutside
<1>7. PICK below \in Int : below = sum - 20 * p + step /\ below = s + step
  <2>1. PICK x : x = s + step
    OBVIOUS
  <2>2. x \in Int /\ x = sum - 20 * p + step
    BY <2>1
  <2> QED
    BY <2>1, <2>2
<1>8. PICK above \in Int : above = 20 * p - sum + step /\ above = step - s
  <2>1. PICK x : x = step - s
    OBVIOUS
  <2>2. x \in Int /\ x = 20 * p - sum + step
    BY <2>1
  <2> QED
    BY <2>1, <2>2
<1>9. /\ vote \in Signal
      /\ IF vote = BUY THEN Outside(below, sum, squares) ELSE ~FarOutside(below, sum, squares)
      /\ vote = SELL => Outside(above, sum, squares)
  BY <1>7, <1>8 DEF Bands
<1>10. ASSUME s = 0, q = 0 PROVE vote = BUY
  <2>1. below = step /\ Square(below) > 0 /\ Square(below) \in Int
    BY <1>7, <1>10 DEF Square
  <2>2. 19 * Square(below) + 80 * ss > 1600 * q
    BY <1>4, <1>10, <2>1
  <2> QED
    BY <1>6, <1>9, <2>1, <2>2
<1>11. vote = BUY => s + step >= 0 /\ 19 * Square(s + step) + 80 * Square(s) >= 1600 * q
  BY <1>3, <1>6, <1>7, <1>9
<1>12. vote = SELL => step - s >= 0 /\ 19 * Square(step - s) + 80 * Square(s) >= 1600 * q
  <2>1. SELL # BUY
    BY DEF SELL, BUY
  <2> QED
    BY <1>3, <1>6, <1>8, <1>9, <2>1
<1>13. s = 0 /\ q = 0 => vote = BUY
  BY <1>10
<1> QED
  BY <1>9, <1>11, <1>12, <1>13 DEF BandsSay

\* The votes of the bands look at nothing else than the two sums.
LEMMA BollingerIs ==
    ASSUME NEW closes, NEW p, NEW vote \in BollingerVotes(closes, p)
    PROVE  Bands(vote, RoundedUp(p), RoundedDown(p), 10 * Grain,
                 FoldSeq(+, 0, LastOf(closes, 20)),
                 FoldSeq(LAMBDA c, total : c * c + total, 0, LastOf(closes, 20)))
<1>1. BOLLINGER_PERIOD = 20
  BY DEF BOLLINGER_PERIOD
<1> QED
  BY <1>1, Zenon DEF BollingerVotes, Bands, Outside, FarOutside

\* RSI and the bands, of the closes of some rows.
Agree(rows, rsi, bollinger) ==
    IF Flat(SubSeq(rows, 1, 20))
    THEN rsi = SELL /\ bollinger = BUY
    ELSE rsi = HOLD \/ bollinger = HOLD \/ rsi = bollinger

\* What twenty closes are to the bands, and the last fifteen of them to RSI.
Stretch(w, c, s, q, won, lost, step) ==
    /\ \A i \in 1..20 : w[i] \in Int
    /\ \A i \in 1..15 : c[i] = w[i + 5]
    /\ Spread(w, w[20], s, q, step)
    /\ Swings(c, 14, won, lost)

\* Seen from the last close, the first seven that RSI looks at are no further up than what
\* was lost, and no further down than what was won.
LEMMA SevenCloses ==
    ASSUME NEW w, NEW c, NEW s, NEW q, NEW won, NEW lost, NEW step,
           Stretch(w, c, s, q, won, lost, step),
           NEW b, b = [i \in 1..7 |-> w[i + 5] - w[20]]
    PROVE  /\ \A i \in 1..7 : b[i] \in Int /\ b[i] <= lost /\ -b[i] <= won
           /\ b[1] = lost - won
           /\ SevenApart(b, s, q)
<1>1. /\ \A i \in 1..20 : w[i] \in Int
      /\ \A i \in 1..15 : c[i] = w[i + 5]
      /\ Spread(w, w[20], s, q, step)
      /\ Swings(c, 14, won, lost)
  BY DEF Stretch
<1>2. won \in Nat /\ lost \in Nat
  BY <1>1 DEF Swings
<1>9. PICK r : r = w[20]
  OBVIOUS
<1>3. PICK p \in Int : p = w[20] /\ p = c[15]
  <2>1. 20 \in 1..20 /\ 15 \in 1..15 /\ 15 + 5 = 20
    OBVIOUS
  <2>2. r \in Int /\ c[15] = r
    BY <1>1, <1>9, <2>1
  <2> QED
    BY <1>9, <2>2
<1>4. ASSUME NEW i \in 1..7 PROVE b[i] \in Int /\ b[i] <= lost /\ -b[i] <= won
  <2>1. i + 5 \in 1..20 /\ i \in 1..15
    OBVIOUS
  <2>2. PICK v \in Int : v = w[i + 5] /\ v = c[i]
    BY <1>1, <2>1
  <2>3. c[i] <= c[15] + lost /\ c[i] >= c[15] - won
    BY <1>1, <2>1 DEF Swings
  <2>4. b[i] = v - p
    BY <1>3, <2>2
  <2> QED
    BY <1>2, <1>3, <2>2, <2>3, <2>4
<1>5. b[1] = lost - won
  <2>1. c[15] = c[1] + won - lost
    BY <1>1 DEF Swings
  <2>2. PICK v \in Int : v = w[6] /\ v = c[1]
    <3>1. 6 \in 1..20 /\ 1 \in 1..15 /\ 1 + 5 = 6
      OBVIOUS
    <3>2. w[6] \in Int /\ c[1] = w[6]
      BY <1>1, <3>1
    <3> QED
      BY <3>2
  <2>4. 1 \in 1..7 /\ 1 + 5 = 6
    OBVIOUS
  <2>5. b[1] = w[6] - w[20]
    BY <2>4
  <2>3. b[1] = v - p
    BY <1>3, <2>2, <2>5
  <2> QED
    BY <1>2, <1>3, <2>1, <2>2, <2>3
<1>6. SevenApart(b, s, q)
  BY <1>1, Zenon DEF Spread
<1> QED
  BY <1>4, <1>5, <1>6

\* At the lower band, and far more was won than lost: only of closes that are all the same.
RiseFrom(b, won, lost) ==
    /\ won \in Nat /\ lost \in Nat
    /\ \A i \in 1..7 : b[i] \in Int /\ b[i] <= lost
    /\ b[1] = lost - won
    /\ 7 * lost <= 3 * won

LEMMA NoneIsLow ==
    ASSUME NEW s, NEW q, NEW won, NEW lost, NEW step, NEW b,
           RiseFrom(b, won, lost), SevenApart(b, s, q), AtBand(s, q, step)
    PROVE  q = 0
<1>1. q = 0 \/ (s > 0 /\ 102 * Square(s) >= 1600 * q)
  BY AtBandOrFar
<1>2. CASE s > 0 /\ 102 * Square(s) >= 1600 * q
  <2>1. s \in Nat /\ q \in Nat
    BY <1>2 DEF AtBand
  <2>2. BothFar(s, q, won, lost, b)
    BY <1>2, <2>1 DEF BothFar, RiseFrom
  <2>3. s = 0
    BY <2>2, TooSpread
  <2> QED
    BY <1>2, <2>3
<1> QED
  BY <1>1, <1>2

\* The seven, turned upside down, are as far apart.
LEMMA SevenMirrored ==
    ASSUME NEW s \in Int, NEW q \in Nat, NEW b, \A i \in 1..7 : b[i] \in Int,
           SevenApart(b, s, q)
    PROVE  SevenApart([i \in 1..7 |-> -b[i]], -s, q) /\ Square(-s) = Square(s)
<1>1. Square(-s) = Square(s)
  BY SquareOf
<1>2. ASSUME NEW i \in 1..7 PROVE Apart(-b[i], -s) = Apart(b[i], s)
  <2>1. PICK v \in Int : v = b[i]
    OBVIOUS
  <2>2. PICK y : y = 19 * v - s
    OBVIOUS
  <2>3. y \in Int /\ 19 * (-v) - (-s) = -y
    BY <2>2
  <2> QED
    BY <2>1, <2>2, <2>3, SquareOf DEF Apart
<1>3. PICK n : n = [i \in 1..7 |-> -b[i]]
  OBVIOUS
<1>4. \A i \in 1..7 : Apart(n[i], -s) = Apart(b[i], s)
  BY <1>2, <1>3
<1>5. /\ Apart(n[1], -s) = Apart(b[1], s) /\ Apart(n[2], -s) = Apart(b[2], s)
      /\ Apart(n[3], -s) = Apart(b[3], s) /\ Apart(n[4], -s) = Apart(b[4], s)
      /\ Apart(n[5], -s) = Apart(b[5], s) /\ Apart(n[6], -s) = Apart(b[6], s)
      /\ Apart(n[7], -s) = Apart(b[7], s)
  BY <1>4
<1>6. SevenApart(n, -s, q)
  BY <1>1, <1>5, Zenon DEF SevenApart
<1> QED
  BY <1>1, <1>3, <1>6

\* RSI and the bands take opposite sides only of closes that are all the same.
LEMMA NotOpposite ==
    ASSUME NEW w, NEW c, NEW s, NEW q, NEW won, NEW lost, NEW step \in Nat \ {0},
           NEW rsi, NEW bollinger,
           Stretch(w, c, s, q, won, lost, step),
           RsiSaid(rsi, won, lost), BandsSay(bollinger, s, q, step),
           ~(\A i \in 1..20 : w[i] = w[20])
    PROVE  ~(rsi = SELL /\ bollinger = BUY) /\ ~(rsi = BUY /\ bollinger = SELL)
<1>1. PICK b : b = [i \in 1..7 |-> w[i + 5] - w[20]]
  OBVIOUS
<1>2. /\ \A i \in 1..7 : b[i] \in Int /\ b[i] <= lost /\ -b[i] <= won
      /\ b[1] = lost - won
      /\ SevenApart(b, s, q)
  BY <1>1, SevenCloses
<1>3. Spread(w, w[20], s, q, step) /\ Swings(c, 14, won, lost)
  BY DEF Stretch
<1>4. /\ s \in Int /\ q \in Nat /\ won \in Nat /\ lost \in Nat
      /\ q >= step * s /\ q >= -(step * s)
      /\ q = 0 \/ q >= step * step
  BY <1>3 DEF Spread, Swings
<1>5. q # 0
  BY <1>3, NoSpread
<1>6. ASSUME rsi = SELL, bollinger = BUY PROVE FALSE
  <2>1. 7 * lost <= 3 * won
    BY <1>6 DEF RsiSaid
  <2>2. s + step >= 0 /\ 19 * Square(s + step) + 80 * Square(s) >= 1600 * q
    BY <1>6 DEF BandsSay
  <2>3. \A i \in 1..7 : b[i] \in Int /\ b[i] <= lost
    BY <1>2
  <2>5. RiseFrom(b, won, lost)
    BY <1>2, <1>4, <2>1, <2>3 DEF RiseFrom
  <2>6. AtBand(s, q, step)
    BY <1>4, <2>2 DEF AtBand
  <2>4. q = 0
    BY <1>2, <2>5, <2>6, NoneIsLow
  <2> QED
    BY <1>5, <2>4
<1>7. ASSUME rsi = BUY, bollinger = SELL PROVE FALSE
  <2>1. 7 * won <= 3 * lost
    BY <1>7 DEF RsiSaid
  <2>2. step - s >= 0 /\ 19 * Square(step - s) + 80 * Square(s) >= 1600 * q
    BY <1>7 DEF BandsSay
  <2>3. PICK t : t = -s
    OBVIOUS
  <2>4. /\ t \in Int /\ t + step = step - s /\ -(step * s) = step * t
    <3>1. step * (-s) = -(step * s) /\ -s \in Int /\ -s + step = step - s
      BY <1>4
    <3> QED
      BY <2>3, <3>1
  <2>5. PICK n : n = [i \in 1..7 |-> -b[i]]
    OBVIOUS
  <2>6. SevenApart(n, t, q) /\ Square(t) = Square(s)
    BY <1>2, <1>4, <2>3, <2>5, SevenMirrored
  <2>7. \A i \in 1..7 : n[i] \in Int /\ n[i] <= won
    BY <1>2, <2>5
  <2>8. n[1] = won - lost
    BY <1>2, <1>4, <2>5
  <2>9. /\ t + step >= 0 /\ 19 * Square(t + step) + 80 * Square(t) >= 1600 * q
        /\ q >= step * t
    <3>1. Square(t + step) = Square(step - s)
      BY <2>4
    <3> QED
      BY <1>4, <2>2, <2>4, <2>6, <3>1
  <2>11. RiseFrom(n, lost, won)
    BY <1>4, <2>1, <2>7, <2>8 DEF RiseFrom
  <2>12. AtBand(t, q, step)
    BY <1>4, <2>4, <2>9 DEF AtBand
  <2>10. q = 0
    BY <2>6, <2>11, <2>12, NoneIsLow
  <2> QED
    BY <1>5, <2>10
<1> QED
  BY <1>6, <1>7

\* A price without a remainder is a whole number of steps, and is not rounded.
LEMMA WholeSteps ==
    ASSUME NEW x \in Int, NEW step \in Nat \ {0}, x % step = 0
    PROVE  Stepwise(x, step)
<1>1. x = step * (x \div step) /\ x \div step \in Int
  OBVIOUS
<1> QED
  BY <1>1 DEF Stepwise

LEMMA StepsNotRounded ==
    ASSUME NEW p \in Int, NEW step, step = 10 * Grain, Stepwise(p, step)
    PROVE  RoundedUp(p) = p /\ RoundedDown(p) = p
<1>1. PICK m \in Int : p = step * m
  BY DEF Stepwise
<1>3. Grain \in Int
  BY GrainAssumption
<1>4. PICK n : n = 10 * m
  OBVIOUS
<1>2. n \in Int /\ p = Grain * n
  <2>1. (10 * Grain) * m = Grain * (10 * m)
    BY <1>3
  <2> QED
    BY <1>1, <1>4, <2>1
<1> QED
  BY <1>2, NotRounded

\* RSI and the bands of twenty closes or more, the last one of which is the price.
LEMMA StretchVotes ==
    ASSUME NEW rows \in Seq(Int), Len(rows) >= 20, Coarse(rows),
           NEW rsi \in RsiVotes(Closes(rows)),
           NEW bollinger \in BollingerVotes(Closes(rows), rows[1])
    PROVE  Agree(rows, rsi, bollinger)
<1>1. PICK closes : closes = Closes(rows)
  OBVIOUS
<1>2. PICK w : w = LastOf(closes, 20)
  OBVIOUS
<1>3. PICK c : c = LastOf(closes, 15)
  OBVIOUS
<1>4. Newest(rows, w, 20) /\ Newest(rows, c, 15)
  <2>1. 20 \in 1..Limit /\ 15 \in 1..Limit /\ Len(rows) >= 15
    BY DEF Limit
  <2> QED
    BY <1>1, <1>2, <1>3, <2>1, NewestCloses
<1>5. \A i \in 1..20 : w[i] \in Int /\ w[i] = rows[20 + 1 - i]
  BY <1>4 DEF Newest
<1>6. \A i \in 1..15 : c[i] \in Int /\ c[i] = w[i + 5]
  <2> SUFFICES ASSUME NEW i \in 1..15 PROVE c[i] \in Int /\ c[i] = w[i + 5]
    OBVIOUS
  <2>1. c[i] \in Int /\ c[i] = rows[15 + 1 - i]
    BY <1>4 DEF Newest
  <2>2. i + 5 \in 1..20 /\ 15 + 1 - i = 20 + 1 - (i + 5)
    OBVIOUS
  <2> QED
    BY <1>5, <2>1, <2>2
<1>30. PICK p : p = w[20]
  OBVIOUS
<1>7. p \in Int /\ p = w[20]
  <2>1. 20 \in 1..20
    OBVIOUS
  <2> QED
    BY <1>5, <1>30, <2>1
<1>8. rows[1] = p
  BY <1>5, <1>7
<1>9. PICK won, lost : won = Gains(c) /\ lost = Losses(c)
  OBVIOUS
<1>10. Swings(c, 14, won, lost)
  <2>1. Len(c) = 14 + 1 /\ \A k \in 1..(14 + 1) : c[k] \in Int
    BY <1>4, <1>6 DEF Newest
  <2> QED
    BY <1>9, <2>1, GainsAndLosses
<1>11. PICK sum : sum = FoldSeq(+, 0, w)
  OBVIOUS
<1>12. PICK squares : squares = FoldSeq(LAMBDA x, total : x * x + total, 0, w)
  OBVIOUS
<1>13. DOMAIN w = 1..20
  BY <1>4 DEF Newest
<1>14. PICK f : Running(f, [i \in 1..20 |-> w[i]], 20) /\ f[20] = sum
  <2>1. PICK v \in [1..20 -> Int] : v = [i \in 1..20 |-> w[i]]
    BY <1>5
  <2>2. SumsTo(v, 20, FoldSeq(+, 0, w))
    BY <1>13, <2>1, FoldedSum
  <2> QED
    BY <1>11, <2>1, <2>2 DEF SumsTo
<1>15. PICK h : Running(h, [i \in 1..20 |-> w[i] * w[i]], 20) /\ h[20] = squares
  <2>3. PICK v : v = [i \in 1..20 |-> w[i] * w[i]]
    OBVIOUS
  <2>4. \A n \in Int : n * n \in Int
    OBVIOUS
  <2>5. \A i \in 1..20 : w[i] * w[i] \in Int
    BY <1>5, <2>4
  <2>1. v \in [1..20 -> Int] /\ v = [i \in 1..20 |-> w[i] * w[i]]
    BY <2>3, <2>5
  <2>2. SumsTo(v, 20, FoldSeq(LAMBDA x, total : x * x + total, 0, w))
    BY <1>13, <2>1, FoldedSquares
  <2> QED
    BY <1>12, <2>1, <2>2 DEF SumsTo
<1>27. PICK step \in Nat \ {0} : step = 10 * Grain
  <2>1. 10 * Grain \in Nat \ {0}
    BY GrainAssumption
  <2> QED
    BY <2>1
<1>28. InSteps(w, step)
  <2> SUFFICES ASSUME NEW i \in 1..20 PROVE Stepwise(w[i], step)
    BY DEF InSteps
  <2>1. 20 + 1 - i \in DOMAIN rows
    OBVIOUS
  <2>2. w[i] % step = 0
    BY <1>5, <1>27, <2>1 DEF Coarse
  <2> QED
    BY <1>5, <1>27, <2>2, WholeSteps
<1>29. RoundedUp(p) = p /\ RoundedDown(p) = p
  <2>1. 20 \in 1..20
    OBVIOUS
  <2>2. Stepwise(p, step)
    BY <1>7, <1>28, <2>1 DEF InSteps
  <2> QED
    BY <1>7, <1>27, <2>2, StepsNotRounded
<1>16. PICK s, q : s = sum - 20 * p /\ q = squares - 2 * (p * sum) + 20 * (p * p)
  OBVIOUS
<1>17. Spread(w, p, s, q, step)
  BY <1>5, <1>7, <1>14, <1>15, <1>16, <1>27, <1>28, Deviations
<1>18. s \in Int /\ q \in Nat /\ won \in Nat /\ lost \in Nat
  BY <1>10, <1>17 DEF Spread, Swings
<1>19. sum \in Int /\ squares \in Int
  BY <1>14, <1>15 DEF Running
<1>21. BandsSay(bollinger, s, q, step)
  <2>1. Bands(bollinger, RoundedUp(p), RoundedDown(p), 10 * Grain, sum, squares)
    BY <1>1, <1>2, <1>8, <1>11, <1>12, BollingerIs, Zenon
  <2>2. Bands(bollinger, p, p, step, sum, squares)
    BY <1>27, <1>29, <2>1, Zenon
  <2> QED
    BY <1>7, <1>16, <1>18, <1>19, <1>27, <2>2, BandsAre
<1>23. RsiSaid(rsi, won, lost)
  BY <1>1, <1>3, <1>9, <1>18, RsiSays
<1>24. Flat(SubSeq(rows, 1, 20)) <=> \A i \in 1..20 : w[i] = p
  <2>1. PICK t : t = SubSeq(rows, 1, 20)
    OBVIOUS
  <2>2. DOMAIN t = 1..20 /\ \A i \in 1..20 : t[i] = rows[i]
    BY <2>1
  <2>3. \A i \in 1..20 : 20 + 1 - i \in 1..20 /\ 20 + 1 - (20 + 1 - i) = i
    OBVIOUS
  <2>4. \A i \in 1..20 : rows[i] = w[20 + 1 - i]
    BY <1>5, <2>3
  <2>7. t[1] = p
    <3>1. 1 \in 1..20
      OBVIOUS
    <3> QED
      BY <1>8, <2>2, <3>1
  <2>5. Flat(t) <=> \A i \in 1..20 : rows[i] = p
    BY <2>2, <2>7 DEF Flat
  <2>6. (\A i \in 1..20 : rows[i] = p) <=> \A i \in 1..20 : w[i] = p
    BY <1>5, <2>3, <2>4
  <2> QED
    BY <2>1, <2>5, <2>6
<1>25. CASE \A i \in 1..20 : w[i] = p
  <2>1. s = 0 /\ q = 0
    BY <1>17, <1>25 DEF Spread
  <2>2. bollinger = BUY
    BY <1>21, <2>1 DEF BandsSay
  <2>5. \A i \in 1..15 : i + 5 \in 1..20
    OBVIOUS
  <2>6. \A i \in 1..15 : c[i] = p
    BY <1>6, <1>25, <2>5
  <2>7. 14 + 1 = 15 /\ 1 \in 1..15
    OBVIOUS
  <2>3. \A i \in 1..(14 + 1) : c[i] = c[1]
    BY <2>6, <2>7
  <2>4. lost = 0
    BY <1>10, <2>3 DEF Swings
  <2>8. rsi = SELL
    BY <1>23, <2>4 DEF RsiSaid
  <2> QED
    BY <1>24, <1>25, <2>2, <2>8 DEF Agree
<1>26. CASE ~(\A i \in 1..20 : w[i] = p)
  <2>1. Stretch(w, c, s, q, won, lost, step)
    BY <1>5, <1>6, <1>7, <1>10, <1>17 DEF Stretch
  <2>2. ~(rsi = SELL /\ bollinger = BUY) /\ ~(rsi = BUY /\ bollinger = SELL)
    BY <1>7, <1>21, <1>23, <1>26, <1>27, <2>1, NotOpposite
  <2>3. rsi \in Signal /\ bollinger \in Signal
    BY <1>21, <1>23 DEF BandsSay, RsiSaid
  <2>4. rsi = HOLD \/ bollinger = HOLD \/ rsi = bollinger
    BY <2>2, <2>3 DEF Signal
  <2> QED
    BY <1>24, <1>26, <2>4 DEF Agree
<1> QED
  BY <1>25, <1>26

\* Ballots of so many rows.
LEMMA Ballots ==
    ASSUME NEW rows \in Seq(Int), Len(rows) >= 20, NEW price, NEW volume,
           NEW x \in VotesOn(rows, price, volume)
    PROVE  /\ "rsi" \in x.known /\ "bollinger" \in x.known
           /\ x.vote["rsi"] \in RsiVotes(Closes(rows))
           /\ x.vote["bollinger"] \in BollingerVotes(Closes(rows), price)
           /\ x.vote["ema"] \in EmaVotes(Closes(rows), price)
           /\ x.vote["macd"] \in MomentumVotes(Closes(rows)) \cup {HOLD}
           /\ x.vote["obv"] \in MomentumVotes(Closes(rows)) \cup {HOLD}
<1>1. PICK closes : closes = Closes(rows)
  OBVIOUS
<1>2. PICK known : known = Known(Len(closes), volume)
  OBVIOUS
<1>3. Len(closes) \in Nat /\ Len(closes) >= 20
  <2>1. 20 \in 1..Limit
    BY DEF Limit
  <2> QED
    BY <1>1, <2>1, NewestCloses
<1>4. "rsi" \in known /\ "bollinger" \in known /\ "ema" \in known
  BY <1>2, <1>3 DEF Known, Indicator
<1> DEFINE May(i, votes) == IF i \in known THEN votes ELSE {HOLD}
           ballots == [rsi       : May("rsi", RsiVotes(closes)),
                       bollinger : May("bollinger", BollingerVotes(closes, price)),
                       ema       : May("ema", EmaVotes(closes, price)),
                       macd      : May("macd", MomentumVotes(closes)),
                       obv       : May("obv", MomentumVotes(closes))]
<1>5. VotesOn(rows, price, volume) = {[known |-> known, vote |-> v] : v \in ballots}
  BY <1>1, <1>2 DEF VotesOn
<1>6. PICK v : v \in ballots /\ x = [known |-> known, vote |-> v]
  <2> HIDE DEF ballots
  <2> QED
    BY <1>5
<1>7. /\ v["rsi"] \in May("rsi", RsiVotes(closes))
      /\ v["bollinger"] \in May("bollinger", BollingerVotes(closes, price))
      /\ v["ema"] \in May("ema", EmaVotes(closes, price))
      /\ v["macd"] \in May("macd", MomentumVotes(closes))
      /\ v["obv"] \in May("obv", MomentumVotes(closes))
  <2> HIDE DEF May
  <2> QED
    BY <1>6
<1>8. x.known = known /\ x.vote = v
  BY <1>6
<1> HIDE DEF ballots
<1> QED
  BY <1>1, <1>4, <1>7, <1>8

\* The average of a market that never moved is its price, if that is not rounded.
LEMMA FlatAverage ==
    ASSUME NEW c, Len(c) \in Nat, Len(c) >= 2, NEW p, NEW n \in Int, p = Grain * n,
           \A i \in 1..Len(c) : c[i] = p
    PROVE  EmaVotes(c, p) \subseteq {HOLD}
<1>1. Grain \in Nat \ {0} /\ p \in Int
  BY GrainAssumption
<1>2. /\ {c[i] : i \in 1..(Len(c) - 1)} = {p}
      /\ c[Len(c)] = p
      /\ {p} \cup {p} = {p}
  <2>1. 1 \in 1..(Len(c) - 1) /\ Len(c) \in 1..Len(c)
    OBVIOUS
  <2> QED
    BY <2>1
<1>3. Min({p}) = p /\ Max({p}) = p
  <2>1. Min({p}) = CHOOSE x \in {p} : \A y \in {p} : x =< y
    BY DEF Min
  <2>2. Max({p}) = CHOOSE x \in {p} : \A y \in {p} : x >= y
    BY DEF Max
  <2>3. p =< p /\ p >= p
    BY <1>1
  <2> QED
    BY <2>1, <2>2, <2>3
<1>4. p \div Grain = n
  BY <1>1, Quotient
<1>5. EMA_PERIOD + 1 = 21
  BY DEF EMA_PERIOD
<1>6. ASSUME NEW v \in EmaVotes(c, p) PROVE v = HOLD
  <2>1. PICK r \in {Grain * m : m \in (p \div Grain)..(p \div Grain + 1)} :
           /\ 21 * (2 * r - Grain) <= 2 * (2 * p + (21 - 2) * p)
           /\ v = IF p > r THEN BUY ELSE IF p < r THEN SELL ELSE HOLD
    BY <1>2, <1>3, <1>5 DEF EmaVotes
  <2>2. PICK m \in n..(n + 1) : r = Grain * m
    BY <1>4, <2>1
  <2>3. Grain * (n + 1) = p + Grain
    BY <1>1
  <2>4. m = n
    <3>1. m = n \/ m = n + 1
      BY <2>2
    <3>2. CASE m = n + 1
      <4>1. r = p + Grain
        BY <2>2, <2>3, <3>2
      <4>2. ~(21 * (2 * (p + Grain) - Grain) <= 2 * (2 * p + (21 - 2) * p))
        BY <1>1
      <4> QED
        BY <2>1, <4>1, <4>2
    <3> QED
      BY <3>1, <3>2
  <2> QED
    BY <1>1, <2>1, <2>2, <2>4
<1> QED
  BY <1>6

\* Of a market that never moved nobody but RSI and the bands has anything to say.
LEMMA FlatMarket ==
    ASSUME NEW rows \in Seq(Int), Len(rows) >= 20, Flat(rows), Coarse(rows)
    PROVE  /\ EmaVotes(Closes(rows), rows[1]) \subseteq {HOLD}
           /\ MomentumVotes(Closes(rows)) = {HOLD}
           /\ Flat(SubSeq(rows, 1, 20))
<1>1. PICK p : p = rows[1]
  OBVIOUS
<1>2. \A i \in 1..Len(rows) : rows[i] = p
  BY <1>1 DEF Flat
<1>3. PICK c : c = Closes(rows)
  OBVIOUS
<1>4. PICK m \in 1..Len(rows) : m = Min({Limit, Len(rows)})
  <2>1. Min({Limit, Len(rows)}) = IF Limit < Len(rows) THEN Limit ELSE Len(rows)
    BY MinOfTwo DEF Limit
  <2> QED
    BY <2>1 DEF Limit
<1>5. PICK s : s = SubSeq(rows, 1, m)
  OBVIOUS
<1>6. Len(s) = m /\ \A i \in 1..m : s[i] = p
  BY <1>2, <1>5
<1>7. c = [i \in 1..m |-> s[(m - i) + 1]]
  BY <1>3, <1>4, <1>5, <1>6 DEF Closes, Reverse
<1>8. DOMAIN c = 1..m /\ \A i \in 1..m : c[i] = p
  <2>1. \A i \in 1..m : (m - i) + 1 \in 1..m
    BY <1>4
  <2> QED
    BY <1>6, <1>7, <2>1
<1>9. 1 \in 1..m
  BY <1>4
<1>10. Flat(c) /\ p = c[1]
  BY <1>8, <1>9 DEF Flat
<1>14. m >= 2 /\ Len(c) = m
  <2>1. m >= 20
    <3>1. PICK l \in Nat : l = Len(rows) /\ l >= 20
      OBVIOUS
    <3>2. Min({100, l}) = IF 100 < l THEN 100 ELSE l
      BY MinOfTwo
    <3>3. m = Min({100, l})
      BY <1>4, <3>1 DEF Limit
    <3>4. (IF 100 < l THEN 100 ELSE l) >= 20
      BY <3>1
    <3> QED
      BY <3>2, <3>3, <3>4
  <2> QED
    BY <1>7, <1>4, <2>1
<1>15. PICK n \in Int : p = Grain * n
  <2>1. 1 \in DOMAIN rows /\ rows[1] \in Int
    OBVIOUS
  <2>2. p % (10 * Grain) = 0 /\ p \in Int
    BY <1>1, <2>1 DEF Coarse
  <2>3. 10 * Grain \in Nat \ {0} /\ Grain \in Int
    BY GrainAssumption
  <2>4. PICK k \in Int : p = (10 * Grain) * k
    BY <2>2, <2>3, WholeSteps DEF Stepwise
  <2>5. (10 * Grain) * k = Grain * (10 * k) /\ 10 * k \in Int
    BY <2>3
  <2>6. PICK i : i = 10 * k
    OBVIOUS
  <2> QED
    BY <2>4, <2>5, <2>6
<1>11. EmaVotes(c, p) \subseteq {HOLD}
  <2>1. \A i \in 1..Len(c) : c[i] = p
    BY <1>8, <1>14
  <2>2. Len(c) \in Nat /\ Len(c) >= 2
    BY <1>4, <1>14
  <2> QED
    BY <1>15, <2>1, <2>2, FlatAverage
<1>12. MomentumVotes(c) = {HOLD}
  BY <1>10 DEF MomentumVotes
<1>13. Flat(SubSeq(rows, 1, 20))
  <2>1. PICK t : t = SubSeq(rows, 1, 20)
    OBVIOUS
  <2>2. DOMAIN t = 1..20 /\ \A i \in 1..20 : t[i] = rows[i]
    BY <2>1
  <2>3. 1 \in 1..20 /\ \A i \in 1..20 : i \in 1..Len(rows)
    OBVIOUS
  <2>4. \A i \in 1..20 : t[i] = p
    BY <1>2, <2>2, <2>3
  <2> QED
    BY <2>1, <2>2, <2>3, <2>4 DEF Flat
<1> QED
  BY <1>1, <1>3, <1>11, <1>12, <1>13

\* Where the two differ by less than the threshold, amplified or not, they make no signal.
Balanced(m, adx) ==
    LET difference == Factor(m, adx) * (Weight[m]["bollinger"] - Weight[m]["rsi"])
    IN  -HoldThreshold(m) < difference /\ difference < HoldThreshold(m)

\* Of the two alone, on opposite sides, nothing is made.
LEMMA NothingSignalled ==
    ASSUME NEW m \in Mode, NEW adx \in Adx, Balanced(m, adx), NEW x,
           "rsi" \in x.known, "bollinger" \in x.known,
           x.vote["rsi"] = SELL, x.vote["bollinger"] = BUY,
           x.vote["ema"] = HOLD, x.vote["macd"] = HOLD, x.vote["obv"] = HOLD
    PROVE  Signals(m, x, adx) = {HOLD}
<1>1. /\ Weight[m]["rsi"] \in Int /\ Weight[m]["bollinger"] \in Int
      /\ Weight[m]["ema"] \in Int /\ Weight[m]["macd"] \in Int /\ Weight[m]["obv"] \in Int
  BY WeightAssumption DEF Indicator
<1>2. Score(m, x) = Weight[m]["bollinger"] - Weight[m]["rsi"]
  <2>1. /\ Term(m, x, "rsi") = -Weight[m]["rsi"]
        /\ Term(m, x, "bollinger") = Weight[m]["bollinger"]
        /\ Term(m, x, "ema") = 0 /\ Term(m, x, "macd") = 0 /\ Term(m, x, "obv") = 0
    BY <1>1 DEF Term, BUY, HOLD, SELL
  <2> QED
    BY <1>1, <2>1, ScoreIsSum
<1>3. PICK s : s = Modified(m, x, adx)
  OBVIOUS
<1>4. PICK t : t = HoldThreshold(m)
  OBVIOUS
<1>5. s \in Int /\ t \in Int /\ -t < s /\ s < t
  <2>1. Factor(m, adx) \in Int
    BY FactorPositive
  <2>2. s = Factor(m, adx) * (Weight[m]["bollinger"] - Weight[m]["rsi"])
    BY <1>2, <1>3 DEF Modified
  <2>3. t \in Int
    BY <1>4 DEF HoldThreshold
  <2>4. Weight[m]["bollinger"] - Weight[m]["rsi"] \in Int
    BY <1>1
  <2>5. s \in Int
    BY <2>1, <2>2, <2>4
  <2> QED
    BY <1>4, <2>2, <2>3, <2>5 DEF Balanced
<1>6. Signals(m, x, adx) =
         {g \in Signal : /\ g = BUY => s > t \/ (s = t /\ Rounded(m, x))
                         /\ g = HOLD => -t <= s /\ s <= t
                         /\ g = SELL => s < -t \/ (s = -t /\ Rounded(m, x))}
  BY <1>3, <1>4, Zenon DEF Signals
<1>7. -t <= s /\ s <= t /\ ~(s > t) /\ s # t /\ ~(s < -t) /\ s # -t
  BY <1>5
<1> QED
  BY <1>6, <1>7 DEF Signal, BUY, HOLD, SELL

\* The indicators were computed of prices that were read, and a signal made of them.
Computes == asked.kind = "indicators" =>
    /\ asked.rows \in Histories
    /\ \E m \in Mode, adx \in Adx, volume \in BOOLEAN :
          \E x \in VotesOn(asked.rows, asked.price, volume) :
              asked.vote = x.vote /\ answer.signal \in Signals(m, x, adx)

\* Every question about indicators is one that the endpoint can ask.
LEMMA ComputesAlways == Spec => []Computes
<1>1. Init => Computes
  BY DEF Init, Nothing, Computes
<1>2. Computes /\ [Next]_vars => Computes'
  <2> SUFFICES ASSUME Computes, [Next]_vars
               PROVE  Computes'
    OBVIOUS
  <2>1. ASSUME NEW m \in Mode, NEW rows \in Rows, NEW volume \in BOOLEAN,
               NEW range \in BOOLEAN, GetSignal(m, rows, volume, range)
        PROVE  Computes'
    BY <2>1 DEF GetSignal, Computes
  <2>2. CASE GetSignalOfUnknown
    BY <2>2 DEF GetSignalOfUnknown, Computes
  <2>3. ASSUME NEW h \in Holdings, WarnOfHoldings(h)
        PROVE  Computes'
    BY <2>3 DEF WarnOfHoldings, Computes
  <2>4. ASSUME NEW h \in Holdings, AnalyseHoldings(h)
        PROVE  Computes'
    BY <2>4 DEF AnalyseHoldings, Computes
  <2>5. ASSUME NEW prices \in Prices, DetectAnomalies(prices)
        PROVE  Computes'
    BY <2>5 DEF DetectAnomalies, Computes
  <2>6. ASSUME NEW m \in Mode, NEW rows \in Histories, NEW price, NEW volume \in BOOLEAN,
               NEW range \in BOOLEAN, GetIndicators(m, rows, price, volume, range)
        PROVE  Computes'
    <3>1. PICK x \in VotesOn(rows, price, volume), adx \in AdxOf(Len(rows), range) :
             /\ asked' = [kind |-> "indicators", mode |-> m, rows |-> rows, price |-> price,
                          vote |-> x.vote]
             /\ \E g \in Signals(m, x, adx) :
                   answer' = [kind |-> "indicators", signal |-> g,
                              confidence |-> Confidence(m, x, adx, g)]
      BY <2>6, Zenon DEF GetIndicators
    <3>2. PICK g \in Signals(m, x, adx) :
             answer' = [kind |-> "indicators", signal |-> g,
                        confidence |-> Confidence(m, x, adx, g)]
      BY <3>1
    <3>3. /\ asked'.rows = rows /\ asked'.price = price /\ asked'.vote = x.vote
          /\ answer'.signal = g
      BY <3>1, <3>2
    <3>4. adx \in Adx
      BY DEF AdxOf, Adx
    <3> QED
      BY <3>3, <3>4 DEF Computes
  <2>7. CASE Forget
    BY <2>7 DEF Forget, Nothing, Computes
  <2>8. CASE UNCHANGED vars
    BY <2>8 DEF vars, Computes
  <2> QED
    BY <2>1, <2>2, <2>3, <2>4, <2>5, <2>6, <2>7, <2>8 DEF Next, Decide
<1> QED
  BY <1>1, <1>2, PTL DEF Spec

\* The votes of RSI and the bands (_compute_rsi, _compute_bollinger, generate) are not on
\* opposite sides of a market that moved, whatever its prices of three decimals are and
\* however ties of the rounding go; and as long as the weights of the two differ by less
\* than the threshold, as the defaults do, nothing is signalled of such a market that never
\* moved.
THEOREM StretchVotesAlwaysAgree ==
    ASSUME \A m \in Mode, adx \in Adx : Balanced(m, adx)
    PROVE  Spec => []StretchVotesAgree
<1>1. Computes => StretchVotesAgree
  <2> SUFFICES ASSUME Computes, asked.kind = "indicators",
                      Len(asked.rows) >= BOLLINGER_PERIOD, Coarse(asked.rows),
                      asked.price = asked.rows[1]
               PROVE  StretchVotesAgree
    BY DEF StretchVotesAgree
  <2>1. PICK m \in Mode, adx \in Adx, volume \in BOOLEAN :
           \E x \in VotesOn(asked.rows, asked.price, volume) :
               asked.vote = x.vote /\ answer.signal \in Signals(m, x, adx)
    BY DEF Computes
  <2>2. PICK x \in VotesOn(asked.rows, asked.price, volume) :
           asked.vote = x.vote /\ answer.signal \in Signals(m, x, adx)
    BY <2>1
  <2>3. PICK rows : rows = asked.rows
    OBVIOUS
  <2>4. rows \in Seq(Int) /\ Len(rows) >= 20 /\ Coarse(rows)
    BY <2>3, PricesAssumption DEF Computes, BOLLINGER_PERIOD
  <2>5. x \in VotesOn(rows, rows[1], volume)
    BY <2>3
  <2>6. /\ "rsi" \in x.known /\ "bollinger" \in x.known
        /\ x.vote["rsi"] \in RsiVotes(Closes(rows))
        /\ x.vote["bollinger"] \in BollingerVotes(Closes(rows), rows[1])
        /\ x.vote["ema"] \in EmaVotes(Closes(rows), rows[1])
        /\ x.vote["macd"] \in MomentumVotes(Closes(rows)) \cup {HOLD}
        /\ x.vote["obv"] \in MomentumVotes(Closes(rows)) \cup {HOLD}
    BY <2>4, <2>5, Ballots
  <2>7. Agree(rows, x.vote["rsi"], x.vote["bollinger"])
    BY <2>4, <2>6, StretchVotes
  <2>8. ASSUME Flat(rows) PROVE answer.signal = HOLD
    <3>1. /\ EmaVotes(Closes(rows), rows[1]) \subseteq {HOLD}
          /\ MomentumVotes(Closes(rows)) = {HOLD}
          /\ Flat(SubSeq(rows, 1, 20))
      BY <2>4, <2>8, FlatMarket
    <3>2. x.vote["ema"] = HOLD /\ x.vote["macd"] = HOLD /\ x.vote["obv"] = HOLD
      BY <2>6, <3>1
    <3>3. x.vote["rsi"] = SELL /\ x.vote["bollinger"] = BUY
      BY <2>7, <3>1 DEF Agree
    <3>4. Balanced(m, adx)
      OBVIOUS
    <3>5. Signals(m, x, adx) = {HOLD}
      BY <2>6, <3>2, <3>3, <3>4, NothingSignalled
    <3> QED
      BY <2>2, <3>5
  <2>9. BOLLINGER_PERIOD = 20
    BY DEF BOLLINGER_PERIOD
  <2> QED
    BY <2>2, <2>3, <2>7, <2>8, <2>9, Zenon DEF StretchVotesAgree, Agree
<1> QED
  BY <1>1, ComputesAlways, PTL
=============================================================================
