CONSTANTS
    Jobs = {j1}
    Syncs = {s1}
    Shut = Shut
    None = None
    MaxFaults = 1
SPECIFICATION Spec
INVARIANTS
    BuffersQuiet
    OwnReply
CHECK_DEADLOCK FALSE
PROPERTIES
    ImplementsContract
    ShutdownQuiet
    
    DestructorReturns
