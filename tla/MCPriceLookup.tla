--------------------------- MODULE MCPriceLookup ---------------------------
(***************************************************************************)
(* PriceLookup for Finnhub (times without a zone, quotes that may be old,  *)
(* the symbol as asked) and for Binance (the current time, with a zone,    *)
(* the symbol in upper case).                                              *)
(***************************************************************************)
EXTENDS PriceLookup, TLC

CONSTANTS r1, r2, AAPL, MSFT, BTC, btc

MCRequests == {r1, r2}

Stocks == {AAPL, MSFT}
StockKey == [n \in Stocks |-> n]
StockSymbol == [n \in Stocks |-> n]

Coins == {BTC, btc}
CoinKey == [n \in Coins |-> btc]
CoinSymbol == [n \in Coins |-> BTC]

FreshOrOld == {0, 2}
Current == {0}
OldestPartition == 0

OneOfEach == [f \in Faults |-> 1]
NoFaults == [f \in Faults |-> 0]

Symmetry == Permutations(MCRequests) \cup Permutations(Stocks)
=============================================================================
