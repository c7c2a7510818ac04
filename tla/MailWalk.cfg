CONSTANTS
    ChunkSize = 4
    AvoidWidth = 3
    Sizes = {0, 1, 3, 5}
    MaxOdd = 1
    Cap = 8
    BatchSize = 4
    EdgeTolerance = 1
    MisTail = 1
    ZeroYield = 3
SPECIFICATION FairSpec
CHECK_DEADLOCK FALSE
INVARIANTS
    WalkIsSound
PROPERTIES
    WalkEnds
