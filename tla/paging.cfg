SPECIFICATION FairSpec
CONSTANTS
    UProc = {u1, u2}
    InitProc = init
    Useg3 = useg3
    MAX_PAGES = 2
    MaxBlocks = 2
    SWAP_POOL_SIZE = 2
    MAX_HEAD = 1
    MAX_SECT = 3
    NULL = NULL
INVARIANTS
    TypeOK
    SectorsOnce
    PoolAgrees
    FrameExclusiveAtFirst
PROPERTIES
    LoadedRight
    BroughtInOnce
    FaultServed
CHECK_DEADLOCK FALSE
