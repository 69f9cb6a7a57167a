SPECIFICATION Spec
CONSTANTS
    A = A
    B = B
    C = C
    CoreOps = {A}
    None = None
    NumDevices = 1
    MaxBatch <- Threes
    MaxOngoing <- Threes
    Dynamic = {}
    DefaultBatch = {}
    FastSwitch = {}
    ConfigureFirst = TRUE
    IdleOpt = FALSE
    Priorities = {16}
    NormalPriority = 16
    Thresholds = {3}
    Timeouts = {"finite"}
    Api = {"add_core_op", "enqueue_infer_request", "set_timeout", "set_threshold"}
    Failures = {}
    MaxInstances = 1
    Slots <- Threes
PROPERTY TimeoutFromFirstFrame
