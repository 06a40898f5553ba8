CONSTANTS
    A = A
    B = B
    Strategies <- MCStrategies
    InitialLots <- MCInitialLots
    BrokerLots = 2
    MaxOrders = 2
    MaxVolume = 2
    MaxOutstanding = 2
    OneExitAtATime = TRUE
CHECK_DEADLOCK FALSE
SYMMETRY StrategySymmetry
SPECIFICATION SafeSpec
INVARIANTS
    NeverOverbooked
    QuietBooksAreComplete
    WorkingOrdersAreReachable
    MapsAreReclaimed
PROPERTY FilledMeansFull
