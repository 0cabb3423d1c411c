SPECIFICATION Spec
CONSTANTS
    w1 = w1
    w2 = w2
    Watches <- TwoWatches
    WatchBuffer = 1
    MaxIndex = 2
    MaxEpoch = 0
INVARIANT
    LatestIsCancelable
CHECK_DEADLOCK FALSE
