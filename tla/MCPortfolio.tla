---------------------------- MODULE MCPortfolio ----------------------------
(***************************************************************************)
(* Portfolio with a few concurrent requests.                               *)
(***************************************************************************)
EXTENDS Portfolio, TLC

CONSTANTS h1, h2, h3, AAPL

MCHandlers == {h1, h2, h3}
TwoHandlers == {h1, h2}
OneSymbol == {AAPL}
MCQuantities == {1, 2}
MCPrices == {1, 3}
OnePrice == {1}

Symmetry == Permutations(MCHandlers)
=============================================================================
