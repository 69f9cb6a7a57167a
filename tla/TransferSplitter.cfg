SPECIFICATION BoundarySpec
CONSTANTS
    Alignment = 4
    MaxBuffers = 2
    Division = 2
    PageSizes = {2}
    DescCounts = {2, 4, 5, 6}
    MaxBytes = 9
    MaxLength = 3
    MinPage = 2
    DefaultPage = 4
    MaxPage = 32
    MinDescs = 2
    MaxDescsCount = 8
    CoreQueue = 40
    MinScale = 2
    MaxScale = 4
    QueueLimit = 15
    MaxTransfer = 260
    Shmifos = {2, 4, 8, 16, 32, 64}
    Batches = {1, 2, 4}
    PerFrame = {1, 3, 4}
INVARIANTS
    SplitIsRight
    SizesAreRight
    FrameIsTaken
PROPERTIES
    SizingEnds
CHECK_DEADLOCK FALSE
