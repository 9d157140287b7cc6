SPECIFICATION Spec
CONSTANTS
    UProc = {u1, u2}
    InitProc = init
    MaxLen = 0
    MaxTransfers = 0
    Wrap = 4
    NULL = NULL
INVARIANT BufferIntact
CHECK_DEADLOCK FALSE
