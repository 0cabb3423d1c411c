SPECIFICATION Spec
CONSTANTS
    EventBuffer = 1
    WatchURLs <- OneWatchURL
    SidecarMayDecline = TRUE
    MaxFrames = 1
    MaxFaults = 1
PROPERTY
    DeclinedIsNotReplayed
CHECK_DEADLOCK FALSE
