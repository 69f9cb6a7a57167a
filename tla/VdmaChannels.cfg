CONSTANTS
    A = A
    B = B
    None = None
    Groups = {A, B}
    Channels = {A, B}
    GroupOf <- OwnGroup
    DescCount = 4
    PendingSize = 2
    OngoingSize = 2
    Splits <- MCSplits
    Failures = {"launch", "abort"}
    Modes = {"scheduled", "direct"}
    MaxTransfers <- TwoOne
    WaitMayFail = TRUE
SPECIFICATION Spec
INVARIANTS
    CalledBackOnce
    DescriptorsAccounted
    CompletionsMatch
    LaunchesBeforeReset
    CancelsExactly
PROPERTIES
    ImplementsService
    TransfersFinish
    SwitchReturns
CHECK_DEADLOCK FALSE
