SPECIFICATION FairSpec
CONSTANTS
    i1 = i1
    i2 = i2
    Ids <- MCIds
    None = None
    MaxEvents = 4
    MaxTotal = 2
    MaxStarts = 2
INVARIANTS
    TypeOK
    
PROPERTIES
    KeepsLedger
    InteractionsRecorded
CHECK_DEADLOCK FALSE
