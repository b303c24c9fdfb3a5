SPECIFICATION Spec
CONSTANTS
    MaxInput = 3
    MaxAttempts = 2
    Initiators = {"i1", "i2"}
    Responders = {"r1"}
    Codes = {"c1", "c2"}
    Mistyped = {"i2"}
    MaxFrames = 1
    MaxClosed = 1
    MaxVersion = 3
    MaxUpdateFaults = 3
CHECK_DEADLOCK FALSE
INVARIANTS
    
    
    SavedIsDurable
    PairingAgrees
    CatalogIsTree
    
    HistoryFaithful
    DiffMinimal
    
