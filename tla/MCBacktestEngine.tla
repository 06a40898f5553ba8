-------------------------- MODULE MCBacktestEngine --------------------------
(* Model-checking instance of BacktestEngine: opening and closing of     *)
(* today's lots on an exchange that tells them from older ones.              *)
EXTENDS BacktestEngine, TLC

CONSTANTS X, Y

MCStrategies == {X, Y}
MCOne == {X}
MCExchanges == {"SHFE"}
Sell(offset) == [side |-> "Sell", offset |-> offset, exchange |-> "SHFE"]
BuyToOpen == [side |-> "Buy", offset |-> "Open", exchange |-> "SHFE"]
MCRequests == {BuyToOpen, Sell("CloseToday")}
MCPolicies == Policy
MCNative == {"native"}

StrategySymmetry == Permutations(MCStrategies)
=============================================================================
