SPECIFICATION FairSpec
CONSTANTS
    Keys = {k1, k2}
    Payloads = {p}
    Nil = Nil
    Sticky = TRUE
    Window = 1
    MaxWait = 1
    Delays = {1}
    BackoffBase = 1
    BackoffCap = 1
    MaxFailures = 0
INVARIANTS
    TypeOK
    ReadyKeysConsistent
    NoStrandedKey
    DeletedFirst
    NoLostWakeup
    OneDelayedEntry
PROPERTIES
    PendingServed
    KeepsPromise
