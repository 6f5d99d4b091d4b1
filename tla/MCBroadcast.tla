---------------------------- MODULE MCBroadcast ----------------------------
(***************************************************************************)
(* Broadcast with a few connections.                                       *)
(***************************************************************************)
EXTENDS Broadcast, TLC

CONSTANTS c1, c2

MCClients == {c1, c2}

Symmetry == Permutations(MCClients)
=============================================================================
