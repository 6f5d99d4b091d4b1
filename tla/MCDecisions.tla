---------------------------- MODULE MCDecisions ----------------------------
(***************************************************************************)
(* Decisions with the default weights of config.py.  Rows are one per set  *)
(* of indicators they are enough for.  Holdings vary the positions under   *)
(* one return, and the returns under one position.  Price windows have a   *)
(* newest price, some of a second one, and the rest of a third.            *)
(***************************************************************************)
EXTENDS Decisions

CONSTANTS A, B, C, D

DefaultWeight ==
    [m \in Mode |->
        CASE m = "trend-following" ->
                 [rsi |-> 15, macd |-> 30, bollinger |-> 10, ema |-> 25, obv |-> 20]
          [] m = "mean-reversion" ->
                 [rsi |-> 35, macd |-> 15, bollinger |-> 35, ema |-> 10, obv |-> 5]
          [] m = "caution" ->
                 [rsi |-> 25, macd |-> 20, bollinger |-> 30, ema |-> 15, obv |-> 10]]

\* Newest first: a last price, a swing, a plateau, and what came before it.
History(n, c, b, k, a, d) ==
    [m \in 1..n |-> CASE m = 1 -> c [] m <= k + 1 -> b [] m <= 14 -> a [] OTHER -> d]

\* Prices of three decimals, some one step apart, and prices of five.
EveryHistory ==
    {History(n, c, b, k, a, d) :
        n \in {1, 15, 20, 35}, k \in {0, 1, 7}, c, b, a, d \in {900, 1000, 1300}}
    \cup {History(20, c, b, k, a, d) : k \in {1, 7}, c, b, a, d \in {1000, 1001, 1004}}

EveryRows == {1, 2, 15, 20, 35}

Position(symbols, values) == [symbol : symbols, value : values, enough : BOOLEAN]

FewPositions == UNION {[1..n -> Position({A, B}, {1, 3})] : n \in 0..3}

FourSymbols ==
    {ps \in [1..4 -> Position({A, B, C, D}, {1, 2})] :
        <<ps[1].symbol, ps[2].symbol, ps[3].symbol, ps[4].symbol>> = <<A, B, C, D>>}

FourReturns == UNION {[1..n -> {-9, -2, -1, 0, 4}] : n \in 1..4}

OnePosition == [symbol |-> A, value |-> 1, enough |-> TRUE]

EveryHolding ==
    [positions : FewPositions \cup FourSymbols, returns : {<<-1>>}]
    \cup [positions : {<<OnePosition>>}, returns : FourReturns]

Window(n, c, b, k, a) ==
    [m \in 1..n |-> IF m = 1 THEN c ELSE IF m <= k + 1 THEN b ELSE a]

EveryWindow ==
    {Window(n, c, b, k, a) : n \in {19, 20}, c, b, a \in {100, 101, 104, 120}, k \in 0..6}
=============================================================================
