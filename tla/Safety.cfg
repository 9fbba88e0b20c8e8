CONSTANTS
    PCB = {p1, p2, p3}
    USERSEM = {m1, m2}
    DevCount = 1
    NULL = NULL
    MaxSem = 1
    MaxDebt = 3
    MaxSoft = 4
SPECIFICATION Spec
SYMMETRY Symmetry
INVARIANTS
    TypeOK
    EveryProcessPlaced
    SemaphoreBalance
    DeviceSemaphoreCovers
    CountsCover
    StopJustified
    NeverIdleWithWork
    PassUpHasSavedState
PROPERTY ClockWaitBlocks
