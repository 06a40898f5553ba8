CONSTANTS
    X = X
    Y = Y
    NoAccount = NoAccount
    Accounts <- MCAccounts
    NeedsAuth = TRUE
    ReconnectEnabled = TRUE
    MaxAttempts = 0
    MaxTrouble = 5
CHECK_DEADLOCK FALSE
SPECIFICATION Spec
INVARIANT TradingIsHydrated
PROPERTY Recovers
