SPECIFICATION Spec
CONSTANTS
    Sources = {binance, bitstamp}
    N = 2
    NaN = NaN
    Messages <- MCMessages
    Times <- MCTimes
    MaxUpdates = 2
SYMMETRY Symmetry
INVARIANTS
    DepthLimit
CHECK_DEADLOCK FALSE
