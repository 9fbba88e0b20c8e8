CONSTANTS
    PCB = {1, 2, 3, 4, 5, 6, 7, 8, 9}
    USERSEM = {term_mut, testsem, startp2, endp2, endp3, blkp4, synp4, endp4, endp5, endp8, endcreate, blkp8, s}
    term_mut = term_mut
    testsem = testsem
    startp2 = startp2
    endp2 = endp2
    endp3 = endp3
    blkp4 = blkp4
    synp4 = synp4
    endp4 = endp4
    endp5 = endp5
    endp8 = endp8
    endcreate = endcreate
    blkp8 = blkp8
    s = s
    NULL = NULL
    DevCount = 1
    MaxSem = 5
    MaxDebt = 9
    MaxSoft = 2
    Preemptible = {"p1", "p2", "p3", "p5", "p5a", "p5b_user", "p5b", "p5mm", "BUSERROR", "ADDRERROR", "SYSCALLEXCPT", "p6", "p7", "p8root", "child1", "child2", "p8leaf"}
    Incarnations = 4
    Chars = 1
    MaxPreempt = 5
SPECIFICATION TestSpec
INVARIANTS
    TerminalNotLost
    OnePrints
PROPERTY TestFinishes
