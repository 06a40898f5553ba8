--------------------------- MODULE MCCtpOrderFlow ---------------------------
(* Model-checking instance of CtpOrderFlow: two strategies on one account,  *)
(* each hydrated with a position of its own.                               *)
EXTENDS CtpOrderFlow, TLC

CONSTANTS A, B

MCStrategies  == {A, B}
MCInitialLots == [s \in MCStrategies |-> 1]

StrategySymmetry == Permutations(MCStrategies)

ASSUME HydratedAssumption == BrokerLots = TotalLots(InitialLots)
=============================================================================
