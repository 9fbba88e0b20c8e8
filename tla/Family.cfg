CONSTANTS
    PCB = {p1, p2, p3, p4}
    USERSEM = {m1}
    DevCount = 1
    NULL = NULL
    MaxSem = 0
    MaxDebt = 1
    MaxSoft = 1
SPECIFICATION Spec
SYMMETRY Symmetry
INVARIANTS
    FamilySound
    NoOrphans
PROPERTIES
    ImplementsKernel
    NobodyOvertakes
