SPECIFICATION Spec
CONSTANTS
    EventBuffer = 1
    WatchURLs <- OneWatchURL
    SidecarMayDecline = FALSE
    MaxFrames = 1
    MaxFaults = 1
INVARIANT
    DisconnectsAreReceived
CHECK_DEADLOCK FALSE
