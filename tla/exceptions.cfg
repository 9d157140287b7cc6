SPECIFICATION Spec
CONSTANTS
    UProc = {u1}
    InitProc = init
    Proc = {u1, init}
    SCHED_TIME_SLICE = 2
    Almost = 1
    Late = 1
    Busy = 1
    MaxTime = 4
    NULL = NULL
INVARIANTS
    TypeOK
    TrapEnds
    ChargedOnce
    TimerPositive
PROPERTIES
    ReturnsRight
    DiesInTerminate
CHECK_DEADLOCK FALSE
