SPECIFICATION AgentSpec
CONSTANTS
    EventBuffer = 1
    WatchURLs <- OneWatchURL
    SidecarMayDecline = FALSE
    MaxFrames = 0
    MaxFaults = 1
    Setups <- UnservedSetups
INVARIANT
    ContextEndFinishes
CHECK_DEADLOCK FALSE
