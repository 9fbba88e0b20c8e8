CONSTANTS
    PCB = {1, 2, 3, 4, 5, 6, 7, 8, 9}
    USERSEM = {term_mut, testsem, startp2, endp2, endp3, blkp4, synp4, endp4, endp5, endp8, endcreate, blkp8, s}
    term_mut = term_mut
    testsem = testsem
    startp2 = startp2
    endp2 = endp2
    endp3 = endp3
    blkp4 = blkp4
    synp4 = synp4
    endp4 = endp4
    endp5 = endp5
    endp8 = endp8
    endcreate = endcreate
    blkp8 = blkp8
    s = s
    NULL = NULL
    DevCount = 1
    MaxSem = 5
    MaxDebt = 9
    MaxSoft = 1
    Preemptible = {"p4"}
    Incarnations = 4
    Chars = 1
    MaxPreempt = 1
SPECIFICATION TestSpec
PROPERTY TestFinishes
