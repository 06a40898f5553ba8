CONSTANTS
    X = X
    Y = Y
    Strategies <- MCOne
    Exchanges <- MCExchanges
    Requests <- MCRequests
    Policies <- MCPolicies
    MaxOrders = 3
    MaxVolume = 2
    CancelsFromUpdates = FALSE
SPECIFICATION Spec
INVARIANTS
    BookMatchesFills
    NoOrderIsLost
    EndIsDelivered
PROPERTY ImplementsOrderLife
