CONSTANTS
    A = A
    B = B
    Strategies <- MCStrategies
    InitialLots <- MCInitialLots
    BrokerLots = 2
    MaxOrders = 1
    MaxVolume = 3
    MaxOutstanding = 2
    OneExitAtATime = TRUE
CHECK_DEADLOCK FALSE
SPECIFICATION Spec
PROPERTIES
    EndIsReported
    ImplementsLedger
