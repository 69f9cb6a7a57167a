SPECIFICATION Spec
CONSTANTS
    Threads = {t1, t2, t3}
    NoThread = NoThread
    MaxSize = 3
    MaxCallbacks = 4
INVARIANTS
    InOrder
    NoStranded
    
PROPERTY
    AllDelivered
CHECK_DEADLOCK FALSE
