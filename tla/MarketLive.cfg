CONSTANTS
    Night = Night
    Index = Index
    Pair = Pair
    Idle = Idle
    Spread = Spread
    Header = Header
    NoFile = NoFile
    Clients = {"csv", "arbitrage", "live"}
    ReconnectEnabled = TRUE
    Limits = {0, 1}
    Batches = 1
    MaxTicks = 2
    MaxTrouble = 1
    Symbols <- MCSymbols
    Kind <- MCKind
    Moments <- MCOneMoment
    Payloads = {1}
    Files <- MCFiles
    LeftFiles <- MCLeft
    Streams <- MCStreams
    Exchanges <- MCExchanges
    Listed <- MCListed
    Wanted <- MCWanted
    NeedsAuth = TRUE
    Days = {8}
    Instruments = {"i", "j"}
    Labels = {8, 9}
    MaxEvents = 1
CHECK_DEADLOCK FALSE
SPECIFICATION MCSpec
PROPERTIES
    
    StopEnds
    TicksAreSeen
