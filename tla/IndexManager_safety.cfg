\* One service: refresh calls that may be cancelled race with searches,
\* failing builds and deployments.
SPECIFICATION Spec
CONSTANTS
    Keys = {"prod"}
    Configured = {"prod"}
    Canon <- MCCanon
    Callers = {c1, c2}
    Workers = {w1}
    Startup = startup
    Free = free
    TTL = 2
    RateLimit = 2
    TicksPerSecond = 1
    MaxTime = 5
    MaxVersion = 2
    CanFail = TRUE
    CanCancel = TRUE
SYMMETRY CallerSymmetry
INVARIANTS
    TypeOK
    SingleFlight
    
    OverlappingRefreshesSpaced
PROPERTIES
    IndexNeverRegresses
