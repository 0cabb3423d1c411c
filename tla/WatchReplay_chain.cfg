SPECIFICATION FairSpec
CONSTANTS
    EventBuffer = 2
    WatchURLs <- MCWatchURLs
    SidecarMayDecline = TRUE
    MaxFrames = 1
    MaxFaults = 2
INVARIANTS
    TypeOK
    NoSilentLoss
    NoStaleConnection
    EveryDisconnectCounts
PROPERTIES
    CancelStops
    ReplayAfterBreak
    DoubtIsResolved
    FollowsSidecar
    Settles
CHECK_DEADLOCK FALSE
