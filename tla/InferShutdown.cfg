SPECIFICATION FairSpec
CONSTANTS
    Jobs = {j1, j2}
    BadJobs = {}
    Inputs = {i1}
    Outputs = {o1}
    User = User
    Dev = Dev
    None = None
    PoolSize = 2
    MaxOngoing = 1
    MaxFaults = 0
PROPERTIES
    ShutdownEnds
CHECK_DEADLOCK FALSE
