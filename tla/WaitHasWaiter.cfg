CONSTANTS
    PCB = {p1, p2}
    USERSEM = {m1}
    DevCount = 1
    NULL = NULL
    MaxSem = 1
    MaxDebt = 2
    MaxSoft = 2
SPECIFICATION Spec
INVARIANT WaitHasWaiter
