CONSTANTS
    PCB = {p1, p2, p3, p4}
    BLOCKING = {p1, p2, p3}
    QUEUE = {ready, blocked}
    ADDRESS = {2, 5, 7}
    MAXINT = 4
    NULL = NULL
SPECIFICATION Phase1Spec
INVARIANTS
    OneListEach
    DoublyLinked
    ParentHasChild
    LeftOfRight
    SortedAndWhole
    DescriptorForEveryone
PROPERTIES
    ImplementsPcbLists
    ImplementsForest
    ImplementsSemQueues
