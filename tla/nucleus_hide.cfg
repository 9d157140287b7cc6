SPECIFICATION Spec
CONSTANTS
    Pcb = {p1, p2}
    Semd = {d1, d2}
    Sem = {s1}
    Device = {disk}
    Terminal = {}
    Clock = clock
    Weights = {1}
    MaxWeight = 1
    InitValue = 0
    MaxValue = 1
    MaxSoft = 3
    NULL = NULL
SYMMETRY Symmetry
INVARIANT CantHide
CHECK_DEADLOCK FALSE
