SPECIFICATION Spec
CHECK_DEADLOCK FALSE
PROPERTIES
    CommandsReturn
    TriggerServed
    RequestsReturn
    HintsArrive
    
