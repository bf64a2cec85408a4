\* Two builds of one service in a row, of two APIs each, one at a time; either may
\* be abandoned, and none is started after the second: the system may stop.
SPECIFICATION FairSpec
CONSTANTS
    Apis = {a1, a2}
    Builds = {b1, b2}
    MaxConcurrency = 1
    Budget = 1
    MaxTime = 2
CHECK_DEADLOCK FALSE
INVARIANTS
    TypeOK
    PermitsConserved
    NoTaskOutlivesResult
    PartialIffCutOff
    ResultAccounts
PROPERTIES
    BuildReturns
