CONSTANTS
    Night = Night
    Index = Index
    Pair = Pair
    Idle = Idle
    Spread = Spread
    Header = Header
    NoFile = NoFile
    Clients = {"csv", "arbitrage", "live"}
    ReconnectEnabled = TRUE
    Limits = {0, 1}
    Batches = 2
    MaxTicks = 2
    MaxTrouble = 2
    Symbols <- MCSymbols
    Kind <- MCKind
    Moments <- MCMoments
    Payloads = {1}
    Files <- MCFiles
    LeftFiles <- MCLeft
    Streams <- MCStreams
    Exchanges <- MCExchanges
    Listed <- MCListed
    Wanted <- MCWanted
    NeedsAuth = TRUE
    Days = {8, 9}
    Instruments = {"i", "j"}
    Labels = {8, 9}
    MaxEvents = 1
CHECK_DEADLOCK FALSE
SPECIFICATION MCSafe
INVARIANTS
    FilesAreWhole
    StopLosesNothing
    SessionKeepsItsDay
    NoPartialDiscovery
    NoLostWakeup
    
