SPECIFICATION Spec
CONSTANTS
    Pcb = {p1, p2, p3}
    Semd = {d1, d2}
    Sem = {1, 2}
    NULL = NULL
INVARIANT TailIsAChild
CHECK_DEADLOCK FALSE
