CONSTANTS
    Exchanges <- MCExchanges
    MaxLots = 4
    MaxFill = 2
    Prices <- MCPrices
    Sizes = {1, 2}
    Trades <- MCTrades
    Volumes = {1, 2}
    Setups <- MCSetups
    QueuePercent = 100
    NoQuote = NoQuote
    NoOrder = NoOrder
    NoFill = NoFill
    Listings <- MCListings
CHECK_DEADLOCK FALSE
SPECIFICATION MCSpec
INVARIANTS
    BookMatchesFills
    
    FillsArePaidFor
    NobodyJumpsTheQueue
    LoadersAgree
    EveryTickOnce
PROPERTIES
    
    LotsKeepTheirAge
