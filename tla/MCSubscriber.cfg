SPECIFICATION FairSpec
CONSTANTS
    Ids = {r1, r2}
    Wanted = {"UPDATED", "DELETED"}
    Size = 2
    None = None
    MaxEvents = 5
INVARIANTS
    TypeOK
    TokenForEntry
    NewestSeen
    NoPutterLeft
PROPERTIES
    NeverBackwards
    EntryServed
    KeepsPromise
CHECK_DEADLOCK FALSE
