CONSTANTS
    Jobs = {j1, j2}
    Syncs = {s1}
    Shut = Shut
    None = None
    QueueSize = 1
SPECIFICATION Spec
INVARIANT TypeOK
PROPERTIES
    ImplementsPeer
    AnswersOwed
    TeardownEnds
CHECK_DEADLOCK FALSE
