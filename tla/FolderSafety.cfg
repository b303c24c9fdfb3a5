SPECIFICATION FairSpec
CONSTANTS
    a = a
    b = b
    x = x
    y = y
    z = z
    Device = {a, b}
    Op = {x, y, z}
    Outbox <- MCOutbox
    BatchSize = 2
    LocksAge = TRUE
    MaxFaults = 2
CHECK_DEADLOCK FALSE
INVARIANTS
    SentPublished
    LockedSafety
PROPERTIES
    QuietProgress
