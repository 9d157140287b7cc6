SPECIFICATION Spec
CONSTANTS
    UProc = {u1}
    InitProc = init
    Useg3 = useg3
    MAX_PAGES = 2
    MaxBlocks = 1
    SWAP_POOL_SIZE = 2
    MAX_HEAD = 1
    MAX_SECT = 3
    NULL = NULL
INVARIANT FrameExclusive
CHECK_DEADLOCK FALSE
