\* Two services, one of them refreshed alone or both together; nothing fails and
\* no client goes away.
SPECIFICATION FairSpec
CONSTANTS
    Keys = {"prod", "dev"}
    Configured = {"prod", "dev"}
    Canon <- MCCanon
    Callers = {c1}
    Workers = {w1}
    Startup = startup
    Free = free
    TTL = 1
    RateLimit = 1
    TicksPerSecond = 1
    MaxTime = 1
    MaxVersion = 0
    CanFail = FALSE
    CanCancel = FALSE
PROPERTIES
    StaleIndexRebuilt
    EagerBuildLands
    
