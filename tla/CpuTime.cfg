CONSTANTS
    PROC = {p, q}
    NULL = NULL
    PLT_TIME_SLICE = 2
    TimerRange = 16
    TodRange = 128
    Boot = 60
    Latency = 1
    MaxWork = 2
    MaxNow = 8
SPECIFICATION Spec
INVARIANTS TypeOK NothingForgotten ChargedOnce SliceBounded
