--------------------------- MODULE MCLiveRecovery ---------------------------
(* Model-checking instance of LiveRecovery: two strategies on two accounts, *)
(* an order each, one of them of two lots.                                  *)
EXTENDS LiveRecovery, TLC

CONSTANTS S1, S2, A1, A2, O1, O2

MCStrategies == {S1, S2}
MCAccounts == {A1, A2}
MCOrders == {O1, O2}
MCOwner == O1 :> S1 @@ O2 :> S2
MCVolume == O1 :> 2 @@ O2 :> 1

Shared == S1 :> A1 @@ S2 :> A1
Own    == S1 :> A1 @@ S2 :> A2
MCConfigurations == {[account |-> Shared, byHand |-> FALSE, apart |-> FALSE],
                     [account |-> Own, byHand |-> TRUE, apart |-> TRUE]}
=============================================================================
