SPECIFICATION FairSpec
CONSTANTS
    Workers = {w1, w2}
    Nil = Nil
    Gone = Gone
    Mishaps = {"replay"}
    MaxRestarts = 1
    MaxOutages = 0
    MaxLoads = 0
    MaxFails = 1
PROPERTY
    OnlyFailedRestarted
CHECK_DEADLOCK FALSE
