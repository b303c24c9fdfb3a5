SPECIFICATION Spec
CHECK_DEADLOCK FALSE
PROPERTIES
    Convergence
    
    
    CatchesUp
    
