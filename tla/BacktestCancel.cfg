CONSTANTS
    X = X
    Y = Y
    Strategies <- MCStrategies
    Exchanges <- MCExchanges
    Requests <- MCRequests
    Policies <- MCNative
    MaxOrders = 2
    MaxVolume = 1
    CancelsFromUpdates = TRUE
SYMMETRY StrategySymmetry
SPECIFICATION Spec
INVARIANT EndIsDelivered
