SPECIFICATION FairSpec
CONSTANTS
    Sources = {binance}
    Fragile = {binance}
    MaxVersion = 2
    MaxDrops = 1
    Failed = Failed
    Streams = {st1}
    Backlog = 1
    NoSummary = NoSummary
    Stopped = Stopped
PROPERTIES
    NewestReachesBook
    ChangeReachesClient
    Reconnects
    ExchangesClose
CHECK_DEADLOCK FALSE
