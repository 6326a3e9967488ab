SPECIFICATION FairSpec
CONSTANTS
    eth = eth
    btc = btc
    bad = bad
    feed1 = feed1
    feed2 = feed2
    feed3 = feed3
    Symbols = {eth}
    Openable = {eth}
    Feeds = {feed1, feed2}
    SymbolOf <- MCSymbolOf
    Streams = {st1, st2}
    NoFeed = NoFeed
PROPERTIES
    IdleFeedStops
    ShutdownEmptiesRegistry
    SignalledStreamEnds
CHECK_DEADLOCK FALSE
