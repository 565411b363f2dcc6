SPECIFICATION FairSpec
CONSTANTS
    Workers = {w1, w2}
    Nil = Nil
    Gone = Gone
    Mishaps = {"outlast"}
    MaxRestarts = 0
    MaxOutages = 1
    MaxLoads = 1
    MaxFails = 0
PROPERTY
    Retried
CHECK_DEADLOCK FALSE
