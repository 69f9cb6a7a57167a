SPECIFICATION FairSpec
CONSTANTS
    A = A
    B = B
    C = C
    CoreOps = {A}
    None = None
    NumDevices = 1
    MaxBatch <- Twos
    MaxOngoing <- Twos
    Dynamic = {}
    DefaultBatch = {}
    FastSwitch = {}
    ConfigureFirst = FALSE
    IdleOpt = FALSE
    Priorities = {16}
    NormalPriority = 16
    Thresholds = {2}
    Timeouts = {"finite"}
    Api = {"add_core_op", "enqueue_infer_request", "set_timeout", "set_threshold"}
    Failures = {}
    MaxInstances = 1
    Slots <- Twos
PROPERTY TimeoutServed
