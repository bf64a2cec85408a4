\* The client's budget ends a tick before that of a health call, as 55 and 60 s do; time
\* runs on for what a cancelled health call leaves behind.
SPECIFICATION FairSpec
CONSTANTS
    ClientTimeout = 3
    HealthTimeout = 4
    MaxLimit = 2
    Limits <- MCLimits
    MaxRows = 3
    Room = 2
    MaxTime = 5
INVARIANTS
    TypeOK
    EndsInBudget
    UnflaggedIsComplete
    
PROPERTIES
    CallEnds
