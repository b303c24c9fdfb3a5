SPECIFICATION Spec
CONSTANTS
    a = a
    b = b
    x = x
    y = y
    z = z
    Device = {a, b}
    Op = {x, y, z}
    Outbox <- MCOutbox
    BatchSize = 1
    LocksAge = FALSE
    MaxFaults = 1
CHECK_DEADLOCK FALSE
INVARIANTS
    NeverBlocked
