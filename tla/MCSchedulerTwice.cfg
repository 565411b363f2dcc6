SPECIFICATION FairSpec
CONSTANTS
    Workers = {w1, w2}
    Nil = Nil
    Gone = Gone
    Mishaps = {"overlap"}
    MaxRestarts = 0
    MaxOutages = 0
    MaxLoads = 1
    MaxFails = 0
PROPERTY
    NotScheduledTwice
CHECK_DEADLOCK FALSE
