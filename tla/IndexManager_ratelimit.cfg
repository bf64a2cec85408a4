\* Callers spell the name of one service in two ways.
SPECIFICATION Spec
CONSTANTS
    Keys = {"prod", "PROD"}
    Configured = {"prod"}
    Canon <- MCCanon
    Callers = {c1}
    Workers = {w1}
    Startup = startup
    Free = free
    TTL = 2
    RateLimit = 2
    TicksPerSecond = 1
    MaxTime = 2
    MaxVersion = 0
    CanFail = FALSE
    CanCancel = FALSE
PROPERTIES
    RefreshSpacedPerService
