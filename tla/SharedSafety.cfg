SPECIFICATION Spec
CHECK_DEADLOCK FALSE
CONSTANTS
    BlobUsers = {"u1"}
    Nobody = "nobody"
    Blobs = {1, 2}
    Chunks = {1, 2}
    Versions = {1, 2}
    OldKey = {1}
    Refs = {"r1"}
    Quota = 4
    BlobFaults = {"put", "complete", "sweep", "collect"}
    MaxBlobFaults = 1
    LimitKeys = {"a", "b", "c"}
    Rate = 1
    Burst = 2
    MaxKeys = 2
    IdleTicks = 2
    TrimTicks = 2
    MaxLimitTime = 3
    SampleSize = 1
    Accounts = {1, 2, 3}
    Invites = {1, 2, 3}
    UserLimit = 2
    InviteTTL = 1
    MaxEnrolTime = 2
    MaxAttempts = 3
    MaxFailures = 1
INVARIANTS
    AttachmentsReadable
    HistoryKept
    
    QuotaAccounted
    RowsMatchFiles
    
    WithinRate
    ServerRecoverable
    EnrolledOnce
