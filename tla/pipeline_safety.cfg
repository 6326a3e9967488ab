SPECIFICATION Spec
CONSTANTS
    Sources = {binance, bitstamp}
    Fragile = {binance}
    MaxVersion = 2
    MaxDrops = 0
    Failed = Failed
    Streams = {st1}
    Backlog = 2
    NoSummary = NoSummary
    Stopped = Stopped
INVARIANTS
    TypeOK
    NewestInFlight
    InOrder
PROPERTIES
    ImplementsConflatedFeed
CHECK_DEADLOCK FALSE
