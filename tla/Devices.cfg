CONSTANTS
    Line = {3, 7}
    Device = {0, 7}
    Uses <- MCUses
    MaxSem = 2
SPECIFICATION FairSpec
INVARIANTS TypeOK WokenByOwnHalf CommandAnsweredOnce ReturnsAfterEnd
PROPERTY WaiterWakes
