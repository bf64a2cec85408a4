\* Three requests, so that one queues behind another; two processes follow the first.
SPECIFICATION FairSpec
CONSTANTS
    N = 3
    Risky = {2, 3}
    Requests = {r1, r2, r3}
    MaxCrashes = 2
INVARIANTS
    
    MirrorFetchesOnce
PROPERTIES
    ComesToServe
