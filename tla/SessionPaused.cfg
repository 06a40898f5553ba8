CONSTANTS
    X = X
    Y = Y
    NoAccount = NoAccount
    Accounts <- MCAccounts
    NeedsAuth = FALSE
    ReconnectEnabled = TRUE
    MaxAttempts = 0
    MaxTrouble = 2
CHECK_DEADLOCK FALSE
SPECIFICATION Spec
PROPERTY PauseEnds
