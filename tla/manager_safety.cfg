SPECIFICATION Spec
CONSTANTS
    eth = eth
    btc = btc
    bad = bad
    feed1 = feed1
    feed2 = feed2
    feed3 = feed3
    Symbols = {eth, bad}
    Openable = {eth}
    Feeds = {feed1, feed2}
    SymbolOf <- MCSymbolOf
    Streams = {st1, st2, st3}
    NoFeed = NoFeed
SYMMETRY Symmetry
INVARIANTS
    TypeOK
    SubscriptionsExact
    MapExactlyLive
    SingleOwner
    NoIdleFeedLeak
PROPERTIES
    ImplementsRegistry
CHECK_DEADLOCK FALSE
