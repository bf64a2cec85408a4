\* Two requests race with rotations of two keys; fetches may fail.
SPECIFICATION Spec
CONSTANTS
    Kids = {"k1", "k2"}
    Requests = {r1, r2}
    Tokens <- MCTokens
    NoToken = none
    Interval = 2
    Leeway = 1
    MaxTime = 4
    CanFail = TRUE
SYMMETRY RequestSymmetry
INVARIANTS
    TypeOK
    RotationOutageBounded
    OwnFetchDecides
    AdmissionIsSound
