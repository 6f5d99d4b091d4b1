-------------------------- MODULE MCMovingAverage --------------------------
(***************************************************************************)
(* MovingAverage with the MA consumer alone, a window of two points, and   *)
(* quotes of two providers, two of them with the same timestamp.           *)
(***************************************************************************)
EXTENDS MovingAverage, TLC

CONSTANTS ma, e1, e2, e3, finnhub, binance

MCConsumers == {ma}
MCIds == {e1, e2, e3}
MCStamp == e1 :> 1 @@ e2 :> 2 @@ e3 :> 2
MCProvider == e1 :> finnhub @@ e2 :> binance @@ e3 :> binance
MCBudget == [f \in Faults |-> IF f \in {"crash", "dup", "keyLoss"} THEN 1 ELSE 0]
=============================================================================
