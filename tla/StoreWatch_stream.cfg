SPECIFICATION FairSpec
CONSTANTS
    w1 = w1
    w2 = w2
    Watches <- TwoWatches
    WatchBuffer = 1
    MaxIndex = 2
    MaxEpoch = 1
INVARIANTS
    TypeOK
    EventsInOrder
    UnwatchReachesTheOnlyWatch
PROPERTIES
    CancelCloses
    LastChangeDelivered
    ImplementsFeed
CHECK_DEADLOCK FALSE
