SPECIFICATION AgentFairSpec
CONSTANTS
    EventBuffer = 1
    WatchURLs <- OneWatchURL
    SidecarMayDecline = TRUE
    MaxFrames = 0
    MaxFaults = 1
    Setups <- AllSetups
INVARIANTS
    AgentTypeOK
    CleanExit
    ServeErrorReported
    ReplayAccounting
PROPERTIES
    DeregisterAfterDrain
    RunReturns
CHECK_DEADLOCK FALSE
