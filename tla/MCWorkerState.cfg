SPECIFICATION FairSpec
CONSTANTS
    Grace = 3
    Reschedule = 4
    Labelled = TRUE
    Nil = Nil
    MaxFaults = 1
    MaxEvents = 2
INVARIANT TypeOK
PROPERTIES
    NotTakenForDead
    StateFollows
