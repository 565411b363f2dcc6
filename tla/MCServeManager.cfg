SPECIFICATION FairSpec
CONSTANTS
    Main = main
    Sub = sub
    Nil = Nil
    Gone = Gone
    MaxFaults = 1
INVARIANTS
    TypeOK
    ListFollows
CHECK_DEADLOCK FALSE
PROPERTY NoOrphan Settles
