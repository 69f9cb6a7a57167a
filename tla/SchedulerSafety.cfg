SPECIFICATION Spec
CONSTANTS
    A = A
    B = B
    C = C
    CoreOps = {A, B}
    None = None
    NumDevices = 1
    MaxBatch <- Twos
    MaxOngoing <- Twos
    Dynamic = {B}
    DefaultBatch = {}
    FastSwitch = {B}
    ConfigureFirst = FALSE
    IdleOpt = TRUE
    Priorities = {16, 17}
    NormalPriority = 16
    Thresholds = {2}
    Timeouts = {"finite"}
    Api = {"add_core_op", "remove_core_op", "enqueue_infer_request", "set_priority"}
    Failures = {"set_core_op", "infer_async", "out_of_memory", "deactivate_core_op", "prepare_transfers"}
    MaxInstances = 1
    Slots <- TwoOfA
INVARIANTS
    ThreadsApart
    ExactlyOnce
    
    BoundedBypass
CHECK_DEADLOCK FALSE
