----------------------------- MODULE MCAlerts -----------------------------
(***************************************************************************)
(* Alerts with the one anomaly consumer of docker-compose.yml, a request,  *)
(* and webhooks with and without a filter.                                 *)
(***************************************************************************)
EXTENDS Alerts, TLC

CONSTANTS consumer, request, all, high, AAPL, book

MCConsumers == {consumer}
MCRequests == {request}
TwoHooks == {all, high}

Spike == [type |-> "zscore_spike", severity |-> "high", subject |-> AAPL]
Crossover == [type |-> "ma_crossover", severity |-> "low", subject |-> AAPL]
Volatility == [type |-> "volatility_breach", severity |-> "medium", subject |-> book]

MCSubjects == {AAPL, book}
HighOfAapl == {k \in Kind : k.severity = "high" /\ k.subject = AAPL}
MCWants == all :> Kind @@ high :> HighOfAapl

MCFindings == consumer :> {<<Spike, Crossover>>} @@ request :> {<<>>, <<Volatility>>}
=============================================================================
