\* Two calls share the cache while the API changes twice; a link outlives the
\* longest download by nothing, and a document in the cache by two ticks.
SPECIFICATION FairSpec
CONSTANTS
    Calls = {c1, c2}
    MaxExports = 2
    MaxAttempts = 2
    Attempt = 1
    MaxPause = 1
    LinkLife = 1
    TTL = 2
    MaxTime = 10
    MaxVersion = 1
CHECK_DEADLOCK FALSE
INVARIANTS
    TypeOK
    DocumentAgeBounded
    CallTimeBounded
PROPERTIES
    CallEnds
