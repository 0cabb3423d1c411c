SPECIFICATION AgentSpec
CONSTANTS
    EventBuffer = 1
    WatchURLs <- OneWatchURL
    SidecarMayDecline = FALSE
    MaxFrames = 0
    MaxFaults = 1
    Setups <- ServedSetups
INVARIANT
    FinalDeregister
CHECK_DEADLOCK FALSE
