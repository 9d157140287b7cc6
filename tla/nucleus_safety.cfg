SPECIFICATION Spec
CONSTANTS
    Pcb = {p1, p2, p3}
    Semd = {d1, d2, d3}
    Sem = {s1}
    Device = {disk}
    Terminal = {}
    Clock = clock
    Weights = {1, 2}
    MaxWeight = 2
    InitValue = 1
    MaxValue = 2
    MaxSoft = 3
    NULL = NULL
SYMMETRY Symmetry
INVARIANTS
    TypeOK
    OneQueue
    CantHide
    FamilyTree
    CreditOK
    UnitAccounting
    NoFalseDeadlock
    HaltIffEmpty
PROPERTIES
    FirstComeFirstServed
    KillKeepsUnits
    ImplementsServices
CHECK_DEADLOCK FALSE
