SPECIFICATION FairSpec
CONSTANTS
    A = A
    B = B
    C = C
    CoreOps = {A, B}
    None = None
    NumDevices = 1
    MaxBatch <- Twos
    MaxOngoing <- Twos
    Dynamic = {B}
    DefaultBatch = {}
    FastSwitch = {}
    ConfigureFirst = FALSE
    IdleOpt = FALSE
    Priorities = {16}
    NormalPriority = 16
    Thresholds = {2}
    Timeouts = {"infinite"}
    Api = {"add_core_op", "remove_core_op", "enqueue_infer_request", "shutdown"}
    Failures = {"prepare_transfers"}
    MaxInstances = 1
    Slots <- Ones
PROPERTIES
    RequestsFinish
    ShutdownReturns
CHECK_DEADLOCK FALSE
