SPECIFICATION FairSpec
CONSTANTS
    UProc = {u1, u2, u3}
    UPROCMAX = 2
    SECOND = 1
    MaxSec = 2
    NULL = NULL
INVARIANTS
    TypeOK
    NodesKept
    EverySleeperHasACall
PROPERTIES
    OverdueServed
    DelayEnds
CHECK_DEADLOCK FALSE
