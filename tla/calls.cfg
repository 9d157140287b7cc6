SPECIFICATION FairSpec
CONSTANTS
    UProc = {u1, u2}
    InitProc = init
    MaxLen = 1
    MaxTransfers = 1
    Wrap = 4
    NULL = NULL
INVARIANTS
    TypeOK
    OneUser
    ExclusiveDevices
    HaltsAfterAll
PROPERTY CallsReturn
CHECK_DEADLOCK FALSE
