SPECIFICATION FairSpec
CONSTANTS
    Nil = Nil
    Mishaps = {}
    MaxChanges = 2
    MaxFaults = 2
CHECK_DEADLOCK FALSE
INVARIANTS
    TypeOK
    NoOrphan
PROPERTIES
    RequestsKept
    Settles
