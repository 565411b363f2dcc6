SPECIFICATION FairSpec
CONSTANTS
    Servers = {s1, s2}
    Nil = Nil
    Gone = Gone
    MaxReplicas = 2
    MaxEvents = 2
    MaxFaults = 1
    MaxLate = 2
INVARIANTS
    TypeOK
    CountKept
    ReadyKept
    NoOvershoot
CHECK_DEADLOCK FALSE
PROPERTY Converges
