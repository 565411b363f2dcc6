SPECIFICATION FairSpec
CONSTANTS
    Workers = {w1, w2}
    Nil = Nil
    Gone = Gone
    Mishaps = {}
    MaxRestarts = 1
    MaxOutages = 1
    MaxLoads = 1
    MaxFails = 1
INVARIANTS
    TypeOK
    Placed
    OneHost
PROPERTIES
    NotTakenBack
    Retried
CHECK_DEADLOCK FALSE
