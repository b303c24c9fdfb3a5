SPECIFICATION FairSpec
CONSTANTS
    Owner = own
    Members = {m1}
    UI = ui
    Concurrent = FALSE
    SameSecond = FALSE
    Faulty = {}
    MaxKey = 2
    MaxTime = 9
    MaxOps = 1
    MaxChanges = 3
    MaxFaults = 0
CHECK_DEADLOCK FALSE
PROPERTIES
    OutboxDrains
