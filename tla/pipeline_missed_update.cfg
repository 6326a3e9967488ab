SPECIFICATION FairSpec
CONSTANTS
    Sources = {binance}
    Fragile = {binance}
    MaxVersion = 2
    MaxDrops = 0
    Failed = Failed
    Streams = {st1}
    Backlog = 1
    NoSummary = NoSummary
    Stopped = Stopped
PROPERTIES
    ClientCatchesUp
CHECK_DEADLOCK FALSE
