SPECIFICATION FairSpec
CONSTANTS
    Pcb = {p1, p2}
    Semd = {d1, d2}
    Sem = {}
    Device = {}
    Terminal = {term}
    Clock = clock
    Weights = {}
    MaxWeight = 1
    InitValue = 1
    MaxValue = 1
    MaxSoft = 3
    NULL = NULL
PROPERTIES
    ClockWakes
    IOCompletes
CHECK_DEADLOCK FALSE
