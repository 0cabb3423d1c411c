SPECIFICATION Spec
CONSTANTS
    k1 = k1
    k2 = k2
    k3 = k3
    g1 = g1
    g2 = g2
    s1 = s1
    Keys <- TwoKeys
    Getters <- TwoGetters
    Scopes <- OneScope
    ScopeOf <- Shared
    Clients <- Unlimited
    CacheTTL = 1
    MaxTime = 0
INVARIANT
    WatchedIsFresh
CHECK_DEADLOCK FALSE
