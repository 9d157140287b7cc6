SPECIFICATION Spec
CONSTANTS
    UProc = {u1, u2}
    UPROCMAX = 2
    SECOND = 1
    MaxSec = 1
    NULL = NULL
PROPERTY NotEarly
CHECK_DEADLOCK FALSE
