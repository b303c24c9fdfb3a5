SPECIFICATION SafetySpec
CONSTANTS
    d1 = d1
    d2 = d2
    w1 = w1
    w2 = w2
    w3 = w3
    n = n
    m = m
    c = c
    Device = {d1, d2}
    Worker = {w1, w2, w3}
    Op = {n, m, c}
    HostOf <- MCHostOf
    Author <- MCAuthor
    BodyOp = {n}
    Target <- MCTarget
    Founders = {d2}
    BatchSize = 1
INVARIANTS
    AppliedPrefix
    AuthorOrder
    SerialHistoryComplete
PROPERTIES
    ImplementsLog
SYMMETRY AlikeWorkers
