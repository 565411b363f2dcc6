SPECIFICATION TypesSpec
CONSTANTS
    Keys = {small}
    Definitions = {A, B, C}
    Absent = Absent
    Payloads = {A, B, C, Absent}
    Nil = Nil
    Sticky = FALSE
    Window = 0
    MaxWait = 0
    Delays = {}
    BackoffBase = 1
    BackoffCap = 4
    MaxFailures = 2
    Mishaps = {}
    MaxChanges = 4
    MaxBreaks = 1
    MaxFails = 1
INVARIANTS
    TypesTypeOK
    AtMostOneActive
    NewestEventWins
PROPERTY
    EventuallyProjected
