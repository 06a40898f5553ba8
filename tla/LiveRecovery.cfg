CONSTANTS
    S1 = S1
    S2 = S2
    A1 = A1
    A2 = A2
    O1 = O1
    O2 = O2
    Manual = Manual
    ManualAccount = A2
    Strategies <- MCStrategies
    Accounts <- MCAccounts
    Orders <- MCOrders
    Owner <- MCOwner
    Volume <- MCVolume
    Configurations <- MCConfigurations
    MaxReports = 1
    MaxFaults = 2
CHECK_DEADLOCK FALSE
SPECIFICATION Spec
INVARIANTS
    AttachmentsAddUp
    RecoveredOnce
    AdjustedOnce
    TradesReachStrategies
