SPECIFICATION TypesSpec
CONSTANTS
    Keys = {small}
    Definitions = {A, B}
    Absent = Absent
    Payloads = {A, B, Absent}
    Nil = Nil
    Sticky = FALSE
    Window = 0
    MaxWait = 0
    Delays = {}
    BackoffBase = 1
    BackoffCap = 4
    MaxFailures = 2
    Mishaps = {"overtaking"}
    MaxChanges = 2
    MaxBreaks = 0
    MaxFails = 1
INVARIANT
    NewestEventWins
