\* A collection of up to five items, one of which does not match; pages of two, of
\* which list_all reads two.
SPECIFICATION FairSpec
CONSTANTS
    Items = {1, 2, 3, 4, 5}
    Matching = {1, 2, 3, 5}
    Weight <- MCWeight
    Base = 1
    Hint = 1
    MaxBytes = 4
    PageSize = 2
    MaxPages = 2
    MaxInline = 2
    NServices = 2
    Limits <- MCLimits
    Offsets <- MCOffsets
    MaxChanges = 1
    None = None
INVARIANTS
    TypeOK
    WalkLosesNothing
    
PROPERTIES
    StallsExplained
    OmissionsAnnounced
    WalkEnds
