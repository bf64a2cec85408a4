\* One caller deploys and refreshes while the build started at boot is in flight;
\* nothing fails and nobody goes away.
SPECIFICATION Spec
CONSTANTS
    Keys = {"prod"}
    Configured = {"prod"}
    Canon <- MCCanon
    Callers = {c1}
    Workers = {w1}
    Startup = startup
    Free = free
    TTL = 2
    RateLimit = 1
    TicksPerSecond = 1
    MaxTime = 2
    MaxVersion = 1
    CanFail = FALSE
    CanCancel = FALSE
PROPERTIES
    RefreshCoversCall
