SPECIFICATION FairSpec
CONSTANTS
    Jobs = {j1, j2}
    BadJobs = {j2}
    Inputs = {i1, i2}
    Outputs = {o1, o2}
    User = User
    Dev = Dev
    None = None
    PoolSize = 3
    MaxOngoing = 1
    MaxFaults = 1
INVARIANTS
    
    
    
    ShutdownQuiet
PROPERTIES
    
    ShutdownEndsAlone
CHECK_DEADLOCK FALSE
