--------------------------- MODULE MCConsumerLoop ---------------------------
(***************************************************************************)
(* ConsumerLoop with the two consumer groups of docker-compose.yml, and    *)
(* the fault budgets its runs use.                                         *)
(***************************************************************************)
EXTENDS ConsumerLoop, TLC

CONSTANTS ma, anomaly, e1, e2

MCConsumers == {ma, anomaly}
MCIds == {e1, e2}

MayHappen(faults) == [f \in Faults |-> IF f \in faults THEN 1 ELSE 0]

AllFaults == MayHappen(Faults)
NoFaults == MayHappen({})

\* The groups run the same loop and event ids carry no order.
Symmetry == Permutations(MCConsumers) \cup Permutations(MCIds)
=============================================================================
