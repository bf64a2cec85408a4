\* Two requests with unknown keys arrive together; no fetch fails.
SPECIFICATION Spec
CONSTANTS
    Kids = {"k1", "k2"}
    Requests = {r1, r2}
    Tokens <- MCTokens
    NoToken = none
    Interval = 2
    Leeway = 1
    MaxTime = 3
    CanFail = FALSE
INVARIANTS
    OneRefreshPerInterval
