SPECIFICATION FairSpec
CONSTANTS
    k1 = k1
    k2 = k2
    k3 = k3
    g1 = g1
    g2 = g2
    s1 = s1
    Keys <- ThreeKeys
    Getters <- TwoGetters
    Scopes <- OneScope
    ScopeOf <- Shared
    Clients <- AllClients
    CacheTTL = 1
    MaxTime = 2
INVARIANTS
    TypeOK
    OneWatchPerScope
    CachedIsWatched
    WatchersRun
    StaleOnlyIfWrittenDuringGet
    CapacityBound
PROPERTIES
    Converges
    FreshEvictedOnlyWhenFull
CHECK_DEADLOCK FALSE
