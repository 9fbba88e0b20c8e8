CONSTANTS
    PCB = {p1, p2, p3}
    USERSEM = {m1}
    DevCount = 1
    NULL = NULL
    MaxSem = 0
    MaxDebt = 1
    MaxSoft = 1
SPECIFICATION FairSpec
PROPERTIES
    ReadyProcessRuns
    ClockWaiterWakes
    DeviceWaiterWakes
