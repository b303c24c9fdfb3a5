SPECIFICATION NotesSpec
CONSTANTS
    None = None
    MaxLogical = 3
    MaxFutureSkew = 1
    Edit = {x, y}
    Retention = 1
    MaxBackups = 3
    MaxBackupFaults = 2
    FaultPhases = {"export", "publish", "catalog", "rotate", "unlist", "verify", "prepare", "aside", "envelope", "open", "close", "read", "register", "reregister"}
    CrashPhases = {"export", "publish", "catalog", "rotate", "unlist", "verify", "prepare", "close", "read", "idle", "register", "reregister"}
    SafeFaults = {"export", "publish", "catalog", "rotate", "unlist", "verify", "prepare", "aside", "envelope", "open"}
    SafeCrashes = {"export", "publish", "catalog", "rotate", "unlist", "verify", "prepare", "close", "read"}
    Device = {1, 2}
    Note = {n}
    NoteRetention = 1
    Creators = {1}
    MaxOps = 4
    MaxWideOps = 3
    MaxWall = 2
    MaxNoteFaults = 1
    MaxKey = 3
    MaxVersion = 3
    AccountFaults = {"crash", "torn", "envelope", "open", "copy", "migrate", "insert", "load", "database", "key", "unlock", "blobs"}
    MaxAccountFaults = 3
    MaxCleanFaults = 2
CHECK_DEADLOCK FALSE
INVARIANTS
    BodiesConverge
