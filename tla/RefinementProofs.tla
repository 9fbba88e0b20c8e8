-------------------------- MODULE RefinementProofs --------------------------
(***************************************************************************)
(* The nucleus implements Kernel, for any number of pcbs, semaphores and   *)
(* devices: every step of Nucleus is a step of Kernel or changes nothing   *)
(* of what Kernel sees.                                                    *)
(***************************************************************************)
EXTENDS NucleusProofs, NucleusRefinement

\* S holds R and, by the parents prnt, the children of all its members.
Down(R, prnt, S) == R \subseteq S /\ \A c \in PCB : prnt[c] \in S => c \in S

Least(R, prnt, S) ==
    /\ S \in SUBSET PCB /\ Down(R, prnt, S)
    /\ \A T \in SUBSET PCB : Down(R, prnt, T) => S \subseteq T

-----------------------------------------------------------------------------
(* Families                                                                *)

\* Every set of pcbs has a smallest family: what all its families share.
LEMMA LeastExists ==
    ASSUME NEW R \in SUBSET PCB, NEW prnt
    PROVE  \E S \in SUBSET PCB : Least(R, prnt, S)
<1> DEFINE S == {p \in PCB : \A T \in SUBSET PCB : Down(R, prnt, T) => p \in T}
<1>1. S \in SUBSET PCB /\ R \subseteq S
  BY DEF Down
<1>2. ASSUME NEW c \in PCB, prnt[c] \in S
      PROVE  c \in S
  <2> SUFFICES ASSUME NEW T \in SUBSET PCB, Down(R, prnt, T)
               PROVE  c \in T
    OBVIOUS
  <2>1. prnt[c] \in T
    BY <1>2
  <2> QED
    BY <1>2, <2>1 DEF Down
<1>3. \A T \in SUBSET PCB : Down(R, prnt, T) => S \subseteq T
  OBVIOUS
<1>4. Down(R, prnt, S)
  BY <1>1, <1>2 DEF Down
<1> HIDE DEF S
<1> QED
  BY <1>1, <1>3, <1>4 DEF Least

\* There is only one.
LEMMA LeastUnique ==
    ASSUME NEW R, NEW prnt, NEW S, NEW T, Least(R, prnt, S), Least(R, prnt, T)
    PROVE  S = T
BY DEF Least

\* The doomed pcbs are the family of those on the stack of terminateProcess.
LEMMA DoomedLeast ==
    Typed => Doomed \in SUBSET PCB /\ Least(ToSet(terminating), p_prnt, Doomed)
<1> SUFFICES ASSUME Typed
             PROVE  Doomed \in SUBSET PCB /\ Least(ToSet(terminating), p_prnt, Doomed)
  OBVIOUS
<1>1. CASE terminating = <<>>
  <2>1. Doomed = {} /\ ToSet(terminating) = {}
    BY <1>1, EmptyQueue DEF Doomed
  <2> QED
    BY <2>1 DEF Least, Down
<1>2. CASE terminating # <<>>
  <2>1. \A S : Closed(S) <=> Down(ToSet(terminating), p_prnt, S)
    BY DEF Closed, Down
  <2>2. ToSet(terminating) \in SUBSET PCB
    BY MembersTyped DEF Typed
  <2>3. PICK S \in SUBSET PCB : Least(ToSet(terminating), p_prnt, S)
    BY <2>2, LeastExists
  <2>4. \E D \in SUBSET PCB : Closed(D) /\ \A T \in SUBSET PCB : Closed(T) => D \subseteq T
    BY <2>1, <2>3 DEF Least
  <2>5. /\ Doomed \in SUBSET PCB /\ Closed(Doomed)
        /\ \A T \in SUBSET PCB : Closed(T) => Doomed \subseteq T
    BY <1>2, <2>4 DEF Doomed
  <2> QED
    BY <2>1, <2>5 DEF Least
<1> QED
  BY <1>1, <1>2

\* The same in the next state.
LEMMA DoomedNext ==
    Typed' => Doomed' \in SUBSET PCB /\ Least(ToSet(terminating'), p_prnt', Doomed')
<1>1. (Typed => Doomed \in SUBSET PCB /\ Least(ToSet(terminating), p_prnt, Doomed))'
  BY DoomedLeast, PTL
<1> QED
  BY <1>1 DEF Least, Down

\* Outside of terminateProcess nobody is doomed, and Kernel sees the variables
\* of the nucleus as they are.
LEMMA Settled ==
    Typed /\ terminating = <<>> =>
        /\ Doomed = {}
        /\ alive = Live /\ parent = p_prnt /\ running = currentProcess
        /\ ready = ToSet(readyQueue)
        /\ waiting = [s \in Semaphore |-> ToSet(asl[s])]
        /\ value = userSem
<1> SUFFICES ASSUME Typed, terminating = <<>>
             PROVE  /\ Doomed = {}
                    /\ alive = Live /\ parent = p_prnt /\ running = currentProcess
                    /\ ready = ToSet(readyQueue)
                    /\ waiting = [s \in Semaphore |-> ToSet(asl[s])]
                    /\ value = userSem
  OBVIOUS
<1>1. Doomed = {}
  BY DEF Doomed
<1>2. alive = Live /\ running = currentProcess /\ ready = ToSet(readyQueue)
  BY <1>1 DEF alive, running, ready
<1>3. parent = p_prnt
  BY <1>1 DEF parent, Typed
<1>4. waiting = [s \in Semaphore |-> ToSet(asl[s])]
  BY <1>1 DEF waiting
<1>5. value = userSem
  <2>1. \A s \in USERSEM : Cardinality(ToSet(asl[s]) \cap {}) = 0
    BY FS_EmptySet
  <2>2. userSem \in [USERSEM -> Int] /\ \A s \in USERSEM : userSem[s] + 0 = userSem[s]
    BY DEF Typed
  <2>3. value = [s \in USERSEM |-> userSem[s] + Cardinality(ToSet(asl[s]) \cap {})]
    BY <1>1 DEF value
  <2> QED
    BY <2>1, <2>2, <2>3
<1> QED
  BY <1>1, <1>2, <1>3, <1>4, <1>5

\* The same in the next state.
LEMMA SettledNext ==
    Typed' /\ terminating' = <<>> =>
        /\ alive' = Live' /\ parent' = p_prnt' /\ running' = currentProcess'
        /\ ready' = ToSet(readyQueue')
        /\ waiting' = [s \in Semaphore |-> ToSet(asl'[s])]
        /\ value' = userSem'
<1>1. (Typed /\ terminating = <<>> =>
        /\ Doomed = {}
        /\ alive = Live /\ parent = p_prnt /\ running = currentProcess
        /\ ready = ToSet(readyQueue)
        /\ waiting = [s \in Semaphore |-> ToSet(asl[s])]
        /\ value = userSem)'
  BY Settled, PTL
<1> QED
  BY <1>1

-----------------------------------------------------------------------------
(* System calls                                                            *)

\* The scheduler gives the processor to some process of its queue.
LEMMA SchedulerSchedules ==
    ASSUME NEW rq \in Seq(PCB), IsInjective(rq), scheduler(rq),
           running' = currentProcess', ready' = ToSet(readyQueue')
    PROVE  Abstract!Schedule(ToSet(rq))
<1>1. CASE rq # <<>>
  <2>1. currentProcess' = Head(rq) /\ readyQueue' = Tail(rq)
    BY <1>1 DEF scheduler
  <2>2. Head(rq) \in ToSet(rq) /\ ToSet(Tail(rq)) = ToSet(rq) \ {Head(rq)}
    BY <1>1, TailQueue
  <2> QED
    BY <2>1, <2>2 DEF Abstract!Schedule
<1>2. CASE rq = <<>>
  <2>1. currentProcess' = NULL /\ readyQueue' = <<>>
    BY <1>2 DEF scheduler
  <2> QED
    BY <1>2, <2>1, EmptyQueue DEF Abstract!Schedule
<1> QED
  BY <1>1, <1>2

\* A step that changes nothing Kernel can see.
LEMMA Unseen ==
    ASSUME UNCHANGED <<pcbFree, p_prnt, asl, userSem, currentProcess, terminating>>,
           ToSet(readyQueue') = ToSet(readyQueue)
    PROVE  UNCHANGED Abstract!vars
<1>1. Doomed' = Doomed
  BY DEF Doomed, Closed
<1> QED
  BY <1>1 DEF Abstract!vars, alive, parent, running, ready, waiting, value, Live

\* SYS1 is Create, unless there is no free pcb.
LEMMA CreateStep ==
    ASSUME Inv, Typed', Executing, NEW support \in BOOLEAN, createProcess(support)
    PROVE  (\E p \in PCB : Abstract!Create(p)) \/ UNCHANGED Abstract!vars
<1>0. terminating = <<>> /\ terminating' = <<>> /\ currentProcess \in Live /\ Typed
  BY DEF Executing, createProcess, Inv, ModeSound, EveryProcessPlaced, CurrentSound
<1>1. CASE pcbFree = {}
  <2>1. UNCHANGED <<pcbFree, p_prnt, asl, userSem, currentProcess, terminating, readyQueue>>
    BY <1>1 DEF createProcess, resume, tree, sems
  <2> QED
    BY <2>1, Unseen
<1>2. ASSUME NEW p \in pcbFree,
             pcbFree' = pcbFree \ {p}, p_prnt' = [p_prnt EXCEPT ![p] = currentProcess],
             resume(insertProcQ(readyQueue, p)), UNCHANGED <<asl, userSem>>
      PROVE  \E q \in PCB : Abstract!Create(q)
  <2>1. p \in PCB /\ p \notin Live /\ Live' = Live \cup {p}
    BY <1>0, <1>2 DEF Live, Typed
  <2>2. /\ currentProcess' = currentProcess
        /\ ToSet(readyQueue') = ToSet(readyQueue) \cup {p}
    BY <1>0, <1>2, <2>1, AppendQueue DEF resume, insertProcQ, Typed
  <2>3. currentProcess # NULL
    BY <1>0, Addresses DEF Live
  <2>4. Abstract!Create(p)
    BY <1>0, <1>2, <2>1, <2>2, <2>3, Settled, SettledNext DEF Abstract!Create
  <2> QED
    BY <2>1, <2>4
<1> QED
  BY <1>1, <1>2 DEF createProcess, sems

\* insertBlocked puts the running process among those waiting.
LEMMA BlockStep ==
    ASSUME Inv, Typed', Executing, NEW s \in Semaphore, blockCurrentProcessHelper(s),
           UNCHANGED terminating
    PROVE  Abstract!Block(s)
<1>0. /\ terminating = <<>> /\ terminating' = <<>> /\ currentProcess \in PCB
      /\ currentProcess # NULL /\ Typed
  BY Addresses DEF Executing, Inv, ModeSound, Typed
<1>1. asl \in [Semaphore -> Seq(PCB)] /\ readyQueue \in Seq(PCB) /\ IsInjective(readyQueue)
  BY <1>0 DEF Typed, Inv, EveryProcessPlaced, ReadyQueueSound
<1>2. asl' = [asl EXCEPT ![s] = Append(@, currentProcess)] /\ scheduler(readyQueue)
  BY DEF blockCurrentProcessHelper, insertBlocked, insertProcQ
<1>3. ToSet(Append(asl[s], currentProcess)) = ToSet(asl[s]) \cup {currentProcess}
  BY <1>0, <1>1, AppendQueue
<1>4. waiting' = [waiting EXCEPT ![s] = @ \cup {running}]
  <2>1. \A t \in Semaphore : ToSet(asl'[t]) = IF t = s THEN ToSet(asl[t]) \cup {currentProcess}
                                              ELSE ToSet(asl[t])
    BY <1>1, <1>2, <1>3
  <2>2. /\ waiting = [t \in Semaphore |-> ToSet(asl[t])] /\ running = currentProcess
        /\ waiting' = [t \in Semaphore |-> ToSet(asl'[t])]
    BY <1>0, Settled, SettledNext
  <2> QED
    BY <2>1, <2>2
<1>5. Abstract!Schedule(ToSet(readyQueue))
  BY <1>0, <1>1, <1>2, SchedulerSchedules, SettledNext
<1> QED
  BY <1>0, <1>4, <1>5, Settled DEF Abstract!Block

\* SYS3 is P.
LEMMA PasserenStep ==
    ASSUME Inv, Typed', Executing, NEW s \in USERSEM, passeren(s)
    PROVE  Abstract!P(s)
<1>0. /\ terminating = <<>> /\ terminating' = <<>> /\ UNCHANGED terminating
      /\ currentProcess # NULL /\ Typed /\ s \in Semaphore
  BY Addresses DEF Executing, Inv, ModeSound, passeren
<1>1. /\ userSem \in [USERSEM -> Int] /\ userSem' = [userSem EXCEPT ![s] = @ - 1]
      /\ UNCHANGED <<pcbFree, p_prnt>>
  BY <1>0 DEF Typed, passeren, tree
<1>2. userSem'[s] < 0 <=> userSem[s] <= 0
  BY <1>1
<1>3. /\ UNCHANGED <<alive, parent>> /\ running # NULL
      /\ value = userSem /\ value' = [value EXCEPT ![s] = @ - 1]
  BY <1>0, <1>1, Settled, SettledNext DEF Live
<1>4. CASE userSem[s] <= 0
  <2>1. blockCurrentProcessHelper(s)
    BY <1>2, <1>4 DEF passeren, mustBlock
  <2>2. Abstract!Block(s)
    BY <1>0, <2>1, BlockStep
  <2> QED
    BY <1>3, <1>4, <2>2 DEF Abstract!P
<1>5. CASE userSem[s] > 0
  <2>1. UNCHANGED <<readyQueue, currentProcess, asl>>
    BY <1>1, <1>2, <1>5 DEF passeren, mustBlock, resume, blocking
  <2>2. UNCHANGED <<running, ready, waiting>>
    BY <1>0, <2>1, Settled, SettledNext
  <2> QED
    BY <1>3, <1>5, <2>2 DEF Abstract!P
<1> QED
  BY <1>1, <1>4, <1>5

\* removeBlocked takes the first of those waiting.
LEMMA WakeStep ==
    ASSUME Inv, Typed', terminating = <<>>, terminating' = <<>>,
           NEW s \in Semaphore, asl[s] # <<>>, removeBlocked(s)
    PROVE  /\ Head(asl[s]) \in PCB /\ Head(asl[s]) \in waiting[s]
           /\ waiting' = [waiting EXCEPT ![s] = @ \ {Head(asl[s])}]
<1>0. Typed /\ asl \in [Semaphore -> Seq(PCB)] /\ IsInjective(asl[s])
  BY DEF Typed, Inv, EveryProcessPlaced, AslSound
<1>1. asl' = [asl EXCEPT ![s] = Tail(@)]
  BY DEF removeBlocked
<1>2. /\ Head(asl[s]) \in PCB /\ Head(asl[s]) \in ToSet(asl[s])
      /\ ToSet(Tail(asl[s])) = ToSet(asl[s]) \ {Head(asl[s])}
  BY <1>0, TailQueue
<1>3. \A t \in Semaphore : ToSet(asl'[t]) = IF t = s THEN ToSet(asl[t]) \ {Head(asl[s])}
                                            ELSE ToSet(asl[t])
  BY <1>0, <1>1, <1>2
<1>4. /\ waiting = [t \in Semaphore |-> ToSet(asl[t])]
      /\ waiting' = [t \in Semaphore |-> ToSet(asl'[t])]
  BY <1>0, Settled, SettledNext
<1> QED
  BY <1>2, <1>3, <1>4

\* SYS4 is V: the balance of values and queues lets the code decide by the value.
LEMMA VerhogenStep ==
    ASSUME Inv, CountInv, Typed', Executing, NEW s \in USERSEM, verhogen(s)
    PROVE  Abstract!V(s)
<1>0. /\ terminating = <<>> /\ terminating' = <<>>
      /\ currentProcess # NULL /\ Typed /\ s \in Semaphore
  BY Addresses DEF Executing, Inv, ModeSound, verhogen
<1>1. /\ userSem \in [USERSEM -> Int] /\ userSem' = [userSem EXCEPT ![s] = @ + 1]
      /\ UNCHANGED <<pcbFree, p_prnt>> /\ readyQueue \in Seq(PCB)
  BY <1>0 DEF Typed, verhogen, tree
<1>2. Len(asl[s]) = IF userSem[s] < 0 THEN -userSem[s] ELSE 0
  BY DEF CountInv, Balanced, SemaphoreBalance
<1>3. /\ UNCHANGED <<alive, parent>> /\ running # NULL
      /\ value' = [value EXCEPT ![s] = @ + 1]
  BY <1>0, <1>1, Settled, SettledNext DEF Live
<1>4. CASE asl[s] # <<>> /\ userSem'[s] <= 0
  <2>1. /\ removeBlocked(s) /\ currentProcess' = currentProcess
        /\ readyQueue' = Append(readyQueue, Head(asl[s]))
    <3>1. ~(userSem'[s] > 0 \/ asl[s] = <<>>)
      BY <1>1, <1>4
    <3> QED
      BY <3>1 DEF verhogen, resume, insertProcQ
  <2>2. /\ Head(asl[s]) \in PCB /\ Head(asl[s]) \in waiting[s]
        /\ waiting' = [waiting EXCEPT ![s] = @ \ {Head(asl[s])}]
    BY <1>0, <1>4, <2>1, WakeStep
  <2>3. ready' = ready \cup {Head(asl[s])} /\ UNCHANGED running
    BY <1>0, <1>1, <2>1, <2>2, AppendQueue, Settled, SettledNext
  <2> QED
    BY <1>3, <2>2, <2>3 DEF Abstract!V
<1>5. CASE ~(asl[s] # <<>> /\ userSem'[s] <= 0)
  <2>1. asl[s] = <<>>
    <3>1. Len(asl[s]) \in Nat /\ (asl[s] = <<>> <=> Len(asl[s]) = 0)
      BY <1>0, Lengths
    <3> QED
      BY <1>1, <1>2, <1>5, <3>1
  <2>2. UNCHANGED <<readyQueue, currentProcess, asl>>
    BY <1>5 DEF verhogen, resume, blocking
  <2>3. waiting[s] = {}
    BY <1>0, <2>1, Settled, EmptyQueue
  <2>4. UNCHANGED <<running, ready, waiting>>
    BY <1>0, <2>2, Settled, SettledNext
  <2> QED
    BY <1>3, <2>3, <2>4 DEF Abstract!V
<1> QED
  BY <1>4, <1>5

\* SYS5 and SYS7 are Await when they block, and go unseen when they do not.
LEMMA WaitStep ==
    ASSUME Inv, Typed', Executing, NEW e \in DeviceSem,
           UNCHANGED <<pcbFree, tree, userSem, terminating>>,
           \/ blockCurrentProcessHelper(e)
           \/ resume(readyQueue) /\ UNCHANGED blocking
    PROVE  Abstract!Await(e) \/ UNCHANGED Abstract!vars
<1>1. CASE blockCurrentProcessHelper(e)
  <2>1. e \in Semaphore /\ Typed /\ terminating = <<>> /\ terminating' = <<>>
    BY Addresses DEF Inv, Executing
  <2>2. Abstract!Block(e)
    BY <1>1, <2>1, BlockStep
  <2>3. UNCHANGED <<alive, parent, value>>
    BY <2>1, Settled, SettledNext DEF Live, tree
  <2> QED
    BY <2>2, <2>3 DEF Abstract!Await
<1>2. CASE resume(readyQueue) /\ UNCHANGED blocking
  BY <1>2, Unseen DEF resume, blocking, tree
<1> QED
  BY <1>1, <1>2

\* Kernel and the nucleus count with the same Cardinality.
LEMMA SameCardinality == \A S : Abstract!Cardinality(S) = Cardinality(S)
BY Zenon DEF Abstract!Cardinality, Cardinality

\* Entering terminateProcess for the current process is Kill: its family is what
\* is doomed from then on.
LEMMA KillStep ==
    ASSUME Inv, Typed', Executing, terminateCurrent
    PROVE  Abstract!Kill
<1> DEFINE cur == currentProcess
<1>0. /\ terminating = <<>> /\ terminating' = <<cur>> /\ cur \in PCB /\ cur # NULL /\ Typed
      /\ UNCHANGED <<pcbFree, p_prnt, asl, userSem, readyQueue, currentProcess>>
  BY Addresses DEF Executing, Inv, ModeSound, Typed, terminateCurrent, tree, blocking, sems,
     dispatch
<1>1. ToSet(<<cur>>) = {cur}
  BY DEF ToSet
<1>2. /\ alive = Live /\ parent = p_prnt /\ running = cur /\ ready = ToSet(readyQueue)
      /\ waiting = [s \in Semaphore |-> ToSet(asl[s])] /\ value = userSem
  BY <1>0, Settled
<1>3. Doomed' \in SUBSET PCB /\ Least({cur}, p_prnt, Doomed')
  BY <1>0, <1>1, DoomedNext
<1>4. Abstract!Family(running) = Doomed'
  <2> DEFINE closed(S) == cur \in S /\ \A c \in PCB : p_prnt[c] \in S => c \in S
             fam == CHOOSE S \in SUBSET PCB :
                       closed(S) /\ \A T \in SUBSET PCB : closed(T) => S \subseteq T
  <2>1. Abstract!Family(running) = fam
    BY <1>2 DEF Abstract!Family
  <2>2. \A S : closed(S) <=> Down({cur}, p_prnt, S)
    BY DEF Down
  <2> HIDE DEF closed
  <2>3. \E S \in SUBSET PCB : closed(S) /\ \A T \in SUBSET PCB : closed(T) => S \subseteq T
    BY <1>3, <2>2 DEF Least
  <2>4. /\ fam \in SUBSET PCB /\ closed(fam)
        /\ \A T \in SUBSET PCB : closed(T) => fam \subseteq T
    BY <2>3
  <2> HIDE DEF fam
  <2>5. Least({cur}, p_prnt, fam)
    BY <2>2, <2>4 DEF Least
  <2> QED
    BY <1>3, <2>1, <2>5, LeastUnique
<1>5. running' = NULL
  BY <1>0 DEF running
<1>6. alive' = alive \ Doomed' /\ ready' = ready \ Doomed'
  BY <1>0, <1>2 DEF alive, ready, Live
<1>7. parent' = [p \in PCB |-> IF p \in Doomed' THEN NULL ELSE parent[p]]
  BY <1>0, <1>2 DEF parent
<1>8. waiting' = [s \in USERSEM \cup DeviceSem |-> waiting[s] \ Doomed']
  <2>1. waiting' = [s \in Semaphore |-> ToSet(asl[s]) \ Doomed']
    BY <1>0 DEF waiting
  <2> QED
    BY <1>2, <2>1 DEF Semaphore
<1>9. value' = [s \in USERSEM |-> value[s] + Cardinality(waiting[s] \cap Doomed')]
  <2>1. value' = [s \in USERSEM |-> userSem[s] + Cardinality(ToSet(asl[s]) \cap Doomed')]
    BY <1>0 DEF value
  <2>2. \A s \in USERSEM : waiting[s] = ToSet(asl[s])
    BY <1>2, Addresses
  <2> QED
    BY <1>2, <2>1, <2>2
<1>10. running # NULL
  BY <1>0, <1>2
<1>11. value' = [s \in USERSEM |-> value[s] + Abstract!Cardinality(waiting[s] \cap Doomed')]
  BY <1>9, SameCardinality
<1> QED
  BY <1>4, <1>5, <1>6, <1>7, <1>8, <1>10, <1>11 DEF Abstract!Kill

\* Passing up goes unseen; dying is Kill.
LEMMA PassUpStep ==
    ASSUME Inv, Typed', Executing, passUpOrDie
    PROVE  Abstract!Kill \/ UNCHANGED Abstract!vars
<1>1. CASE terminateCurrent
  BY <1>1, KillStep
<1>2. CASE ~terminateCurrent
  <2>1. UNCHANGED <<pcbFree, p_prnt, asl, userSem, currentProcess, terminating, readyQueue>>
    BY <1>2 DEF passUpOrDie, tree, blocking, sems
  <2> QED
    BY <2>1, Unseen
<1> QED
  BY <1>1, <1>2

\* Every system call, from any process, is one step of Kernel or goes unseen.
LEMMA SystemCallStep ==
    ASSUME Inv, CountInv, Typed', systemTrapHandler
    PROVE  [Abstract!Next]_(Abstract!vars)
<1> USE DEF systemTrapHandler, Abstract!Next
<1>0. Executing
  OBVIOUS
<1>1. CASE \E support \in BOOLEAN : createProcess(support)
  BY <1>0, <1>1, CreateStep
<1>2. CASE terminateCurrent
  BY <1>0, <1>2, KillStep
<1>3. CASE \E s \in USERSEM : passeren(s)
  BY <1>0, <1>3, PasserenStep
<1>4. CASE \E s \in USERSEM : verhogen(s)
  BY <1>0, <1>4, VerhogenStep
<1>5. ASSUME NEW d \in DEVICE, waitForIO(d)
      PROVE  [Abstract!Next]_(Abstract!vars)
  <2>1. /\ UNCHANGED <<pcbFree, tree, userSem, terminating>>
        /\ blockCurrentProcessHelper(d) \/ (resume(readyQueue) /\ UNCHANGED blocking)
    BY <1>5 DEF waitForIO
  <2>2. d \in DeviceSem
    BY <1>5, Addresses
  <2> QED
    BY <1>0, <2>1, <2>2, WaitStep
<1>6. CASE waitForClock
  <2>1. /\ UNCHANGED <<pcbFree, tree, userSem, terminating>>
        /\ \/ blockCurrentProcessHelper(CLOCK_INDEX)
           \/ resume(readyQueue) /\ UNCHANGED blocking
    BY <1>6 DEF waitForClock, blocking
  <2> QED
    BY <1>0, <2>1, Addresses, WaitStep
<1>7. CASE getCPUTime \/ getSupportData
  BY <1>7, Unseen DEF getCPUTime, getSupportData, returnToCaller, resume, tree, blocking, sems
<1>8. CASE passUpOrDie
  BY <1>0, <1>8, PassUpStep
<1> QED
  BY <1>1, <1>2, <1>3, <1>4, <1>5, <1>6, <1>7, <1>8

-----------------------------------------------------------------------------
(* terminateProcess                                                        *)

\* A call for a child: the child was doomed already.
LEMMA DescendStep ==
    ASSUME Inv, Typed', terminateChild
    PROVE  UNCHANGED Abstract!vars
<1> USE Addresses
<1> DEFINE n == Len(terminating)
           p == terminating[n]
           c == Head(p_child[p])
<1>0. Typed /\ terminating \in Seq(PCB) /\ terminating # <<>>
  BY DEF Inv, Typed, terminateChild
<1>1. n \in 1 .. n /\ p \in PCB /\ p \in ToSet(terminating)
  <2>1. n \in Nat /\ n > 0
    BY <1>0, EmptySeq
  <2> QED
    BY <1>0, <2>1, InQueue
<1>2. /\ p_child[p] # <<>> /\ p_prnt' = [p_prnt EXCEPT ![c] = NULL]
      /\ terminating' = Append(terminating, c)
      /\ UNCHANGED <<pcbFree, asl, userSem, readyQueue, currentProcess>>
  BY DEF terminateChild, blocking, sems, dispatch
<1>3. c \in PCB /\ p_prnt[c] = p
  <2>1. p_child[p] \in Seq(PCB) /\ ToSet(p_child[p]) = {q \in Live : p_prnt[q] = p}
    BY <1>0, <1>1 DEF Typed, Inv, Family, TreeSound
  <2>2. c \in PCB /\ c \in ToSet(p_child[p])
    BY <1>2, <2>1, TailQueue
  <2> QED
    BY <2>1, <2>2
<1>4. ToSet(terminating') = ToSet(terminating) \cup {c}
  BY <1>0, <1>2, <1>3, AppendQueue
<1>5. p_prnt \in [PCB -> PCB \cup {NULL}]
  BY <1>0 DEF Typed
<1> HIDE DEF n, p, c
<1>6. ASSUME NEW S \in SUBSET PCB
      PROVE  Down(ToSet(terminating'), p_prnt', S) <=> Down(ToSet(terminating), p_prnt, S)
  <2>1. ASSUME Down(ToSet(terminating'), p_prnt', S)
        PROVE  Down(ToSet(terminating), p_prnt, S)
    BY <1>2, <1>3, <1>4, <1>5, <2>1 DEF Down
  <2>2. ASSUME Down(ToSet(terminating), p_prnt, S)
        PROVE  Down(ToSet(terminating'), p_prnt', S)
    BY <1>1, <1>2, <1>3, <1>4, <1>5, <2>2 DEF Down
  <2> QED
    BY <2>1, <2>2
<1>7. Least(ToSet(terminating), p_prnt, Doomed) /\ Doomed \in SUBSET PCB
  BY <1>0, DoomedLeast
<1>8. Doomed' = Doomed
  <2>1. Least(ToSet(terminating'), p_prnt', Doomed')
    BY DoomedNext
  <2>2. Least(ToSet(terminating), p_prnt, Doomed')
    BY <1>6, <2>1 DEF Least
  <2> QED
    BY <1>7, <2>2, LeastUnique
<1>9. c \in Doomed
  BY <1>1, <1>3, <1>7 DEF Least, Down
<1>10. parent' = parent
  <2>1. /\ parent = [q \in PCB |-> IF q \in Doomed THEN NULL ELSE p_prnt[q]]
        /\ parent' = [q \in PCB |-> IF q \in Doomed THEN NULL ELSE p_prnt'[q]]
    BY <1>8 DEF parent
  <2>2. \A q \in PCB : q \notin Doomed => p_prnt'[q] = p_prnt[q]
    BY <1>2, <1>5, <1>9
  <2> QED
    BY <2>1, <2>2
<1>11. UNCHANGED <<alive, ready, waiting, value>>
  BY <1>2, <1>8 DEF alive, ready, waiting, value, Live
<1>12. running = NULL /\ running' = NULL
  <2>1. terminating' # <<>>
    BY <1>0, <1>2, <1>3
  <2> QED
    BY <1>0, <2>1 DEF running
<1> QED
  BY <1>10, <1>11, <1>12 DEF Abstract!vars

\* The end of a call: its pcb was no longer seen, and what it gives back was
\* already counted.  The outermost call ends with the dispatch of another process.
LEMMA ReturnStep ==
    ASSUME Inv, Inv', terminating # <<>>, p_child[terminating[Len(terminating)]] = <<>>,
           terminateSelf(terminating[Len(terminating)])
    PROVE  Abstract!Dispatch \/ UNCHANGED Abstract!vars
<1> USE Addresses
<1> DEFINE n == Len(terminating)
           p == terminating[n]
<1>0. Typed /\ Typed' /\ terminating \in Seq(PCB)
  BY DEF Inv, Typed
<1>1. n \in Nat /\ n > 0 /\ DOMAIN terminating = 1 .. n /\ n \in 1 .. n /\ 1 \in 1 .. n
  BY <1>0, EmptySeq
<1>2. /\ pcbFree' = pcbFree \cup {p} /\ p_semAdd' = p_semAdd
      /\ terminating' = SubSeq(terminating, 1, n - 1)
      /\ \/ p = currentProcess /\ outChild(p) /\ UNCHANGED userSem
         \/ p # currentProcess /\ UNCHANGED tree
      /\ n # 1 => UNCHANGED currentProcess
  BY DEF terminateSelf, resume, sems
<1>3. /\ terminating[1] = currentProcess
      /\ \A i \in 1 .. n :
           /\ terminating[i] \in Live
           /\ i > 1 => p_prnt[terminating[i]] = NULL /\ terminating[i] # currentProcess
      /\ \A i \in 1 .. n : i # n => terminating[i] # p
  BY <1>0, <1>1 DEF Inv, Family, StackSound, IsInjective
<1>4. /\ p_prnt \in [PCB -> PCB \cup {NULL}] /\ userSem \in [USERSEM -> Int]
      /\ p_semAdd \in [PCB -> Semaphore \cup {NULL}] /\ Live \subseteq PCB
  BY <1>0 DEF Typed, Live
<1>5. p \in Live /\ p \in PCB /\ p_child[p] = <<>>
  BY <1>1, <1>3, <1>4
<1>6. /\ p # currentProcess => p_prnt[p] = NULL
      /\ n = 1 => p = currentProcess
      /\ n # 1 => p # currentProcess
  <2>1. n > 1 => p_prnt[p] = NULL /\ p # currentProcess
    BY <1>1, <1>3
  <2>2. n = 1 => p = currentProcess
    BY <1>3
  <2>3. \A m \in Nat : m > 0 => m = 1 \/ m > 1
    OBVIOUS
  <2> QED
    BY <1>1, <2>1, <2>2, <2>3, Zenon
<1>7. \A c \in PCB : p_prnt[c] # p
  BY <1>4, <1>5, EmptyQueue DEF Inv, Family, TreeSound, Live
<1>8. ToSet(terminating') = ToSet(terminating) \ {p}
  <2>1. /\ DOMAIN terminating' = 1 .. n - 1
        /\ \A i \in 1 .. n - 1 : terminating'[i] = terminating[i]
    BY <1>0, <1>1, <1>2, SubSeqProperties
  <2>0. \A m \in Nat : \A i \in 1 .. m : (i # m <=> i \in 1 .. m - 1)
    OBVIOUS
  <2>2. \A i \in 1 .. n : (i # n <=> i \in 1 .. n - 1)
    BY <1>1, <2>0
  <2>3. p = terminating[n]
    OBVIOUS
  <2> HIDE DEF p
  <2>4. ToSet(terminating') = {terminating[i] : i \in 1 .. n - 1}
    BY <2>1 DEF ToSet
  <2>5. ToSet(terminating) = {terminating[i] : i \in 1 .. n}
    BY <1>1 DEF ToSet
  <2> HIDE DEF n
  <2> QED
    BY <1>1, <1>3, <2>2, <2>3, <2>4, <2>5
<1>9. p \in ToSet(terminating)
  BY <1>0, <1>1, InQueue
<1>10. Live' = Live \ {p}
  BY <1>2 DEF Live
<1> HIDE DEF p, n
<1>11. \A q \in PCB : p_prnt'[q] = IF q = p THEN NULL ELSE p_prnt[q]
  BY <1>2, <1>4, <1>5, <1>6 DEF outChild, tree
<1>12. Doomed \in SUBSET PCB /\ Least(ToSet(terminating), p_prnt, Doomed)
  BY <1>0, DoomedLeast
<1>13. p \in Doomed
  BY <1>9, <1>12 DEF Least, Down
<1>14. Doomed' = Doomed \ {p}
  <2> DEFINE D == Doomed \ {p}
  <2>1. Least(ToSet(terminating'), p_prnt', Doomed')
    BY <1>0, DoomedNext
  <2>2. Down(ToSet(terminating'), p_prnt', D)
    <3>1. ToSet(terminating') \subseteq D
      BY <1>8, <1>12 DEF Least, Down
    <3>2. ASSUME NEW c \in PCB, p_prnt'[c] \in D
          PROVE  c \in D
      <4>1. c # p /\ p_prnt[c] \in Doomed
        BY <1>11, <1>12, <3>2
      <4> QED
        BY <1>12, <4>1 DEF Least, Down
    <3> QED
      BY <3>1, <3>2 DEF Down
  <2>3. ASSUME NEW T \in SUBSET PCB, Down(ToSet(terminating'), p_prnt', T)
        PROVE  D \subseteq T
    <3>1. Down(ToSet(terminating), p_prnt, T \cup {p})
      <4>1. ToSet(terminating) \subseteq T \cup {p}
        BY <1>8, <2>3 DEF Down
      <4>2. ASSUME NEW c \in PCB, p_prnt[c] \in T \cup {p}
            PROVE  c \in T \cup {p}
        <5>1. p_prnt[c] \in T
          BY <1>7, <4>2
        <5> QED
          BY <1>11, <2>3, <5>1 DEF Down
      <4> QED
        BY <4>1, <4>2 DEF Down
    <3>2. T \cup {p} \in SUBSET PCB
      BY <1>5
    <3>3. Doomed \subseteq T \cup {p}
      BY <1>12, <3>1, <3>2 DEF Least
    <3> QED
      BY <3>3
  <2>4. D \in SUBSET PCB
    BY <1>12
  <2> HIDE DEF D
  <2>5. Least(ToSet(terminating'), p_prnt', D)
    BY <2>2, <2>3, <2>4 DEF Least
  <2>6. Doomed' = D
    BY <2>1, <2>5, LeastUnique
  <2> QED
    BY <2>6 DEF D
<1>15. alive' = alive
  BY <1>10, <1>13, <1>14 DEF alive
<1>16. parent' = parent
  <2>1. /\ parent = [q \in PCB |-> IF q \in Doomed THEN NULL ELSE p_prnt[q]]
        /\ parent' = [q \in PCB |-> IF q \in Doomed' THEN NULL ELSE p_prnt'[q]]
    BY DEF parent
  <2>2. ASSUME NEW q \in PCB
        PROVE  (IF q \in Doomed' THEN NULL ELSE p_prnt'[q])
                  = (IF q \in Doomed THEN NULL ELSE p_prnt[q])
    BY <1>11, <1>13, <1>14
  <2> QED
    BY <2>1, <2>2
<1>17. \A s \in Semaphore : /\ ToSet(asl[s]) = {q \in Live : p_semAdd[q] = s}
                            /\ ToSet(asl'[s]) = {q \in Live \ {p} : p_semAdd[q] = s}
  BY <1>2, <1>10 DEF Inv, EveryProcessPlaced, AslSound
<1>18. waiting' = waiting
  <2>1. /\ waiting = [s \in Semaphore |-> ToSet(asl[s]) \ Doomed]
        /\ waiting' = [s \in Semaphore |-> ToSet(asl'[s]) \ Doomed']
    BY DEF waiting
  <2>2. \A s \in Semaphore : ToSet(asl'[s]) \ Doomed' = ToSet(asl[s]) \ Doomed
    BY <1>13, <1>14, <1>17
  <2> QED
    BY <2>1, <2>2
<1>19. value' = value
  <2> DEFINE A(s) == ToSet(asl[s]) \cap Doomed
  <2>1. ASSUME NEW s \in USERSEM
        PROVE  userSem'[s] + Cardinality(ToSet(asl'[s]) \cap Doomed')
                  = userSem[s] + Cardinality(A(s))
    <3>0. s \in Semaphore /\ s \notin DeviceSem /\ userSem[s] \in Int
      BY <1>4
    <3>1. ToSet(asl'[s]) \cap Doomed' = A(s) \ {p}
      BY <1>13, <1>14, <1>17, <3>0
    <3>2. CASE p_semAdd[p] = s
      <4>1. p # currentProcess
        BY <1>5, <3>0, <3>2 DEF Inv, EveryProcessPlaced, CurrentSound
      <4>2. userSem'[s] = userSem[s] + 1
        BY <1>4, <3>0, <3>2, <4>1 DEF terminateSelf, giveBack, p, n
      <4>3. p \in A(s)
        BY <1>5, <1>13, <1>17, <3>0, <3>2
      <4>4. IsFiniteSet(A(s))
        BY <1>12, PcbAssumption, FS_Subset
      <4>5. /\ Cardinality(A(s)) \in Nat
            /\ Cardinality(A(s) \ {p}) = Cardinality(A(s)) - 1
        <5>1. Cardinality(A(s)) \in Nat
          BY <4>4, FS_CardinalityType
        <5>2. ASSUME NEW B, IsFiniteSet(B), p \in B
              PROVE  Cardinality(B \ {p}) = Cardinality(B) - 1
          BY <5>2, FS_RemoveElement
        <5> QED
          BY <4>3, <4>4, <5>1, <5>2
      <4>6. Cardinality(ToSet(asl'[s]) \cap Doomed') = Cardinality(A(s)) - 1
        BY <3>1, <4>5
      <4>7. \A u \in Int, k \in Nat : (u + 1) + (k - 1) = u + k
        OBVIOUS
      <4> QED
        BY <3>0, <4>2, <4>5, <4>6, <4>7
    <3>3. CASE p_semAdd[p] # s
      <4>1. userSem'[s] = userSem[s]
        BY <1>4, <1>5, <3>3 DEF terminateSelf, giveBack, sems, p, n
      <4>2. p \notin A(s)
        BY <1>17, <3>0, <3>3
      <4>3. A(s) \ {p} = A(s)
        BY <4>2
      <4> QED
        BY <3>1, <4>1, <4>3
    <3> QED
      BY <3>2, <3>3
  <2>2. /\ value = [s \in USERSEM |-> userSem[s] + Cardinality(A(s))]
        /\ value' = [s \in USERSEM |-> userSem'[s] + Cardinality(ToSet(asl'[s]) \cap Doomed')]
    BY DEF value
  <2> QED
    BY <2>1, <2>2
<1>20. running = NULL
  BY DEF running
<1>21. CASE n = 1
  <2>1. p = currentProcess /\ scheduler(readyQueue) /\ terminating' = <<>>
    BY <1>2, <1>6, <1>21 DEF terminateSelf, p, n
  <2>2. Doomed' = {}
    BY <2>1 DEF Doomed
  <2>3. ready = ToSet(readyQueue)
    <3>1. p \notin ToSet(readyQueue)
      BY <2>1 DEF Inv, EveryProcessPlaced, ReadyQueueSound
    <3> QED
      BY <1>13, <1>14, <2>2, <3>1 DEF ready
  <2>4. running' = currentProcess' /\ ready' = ToSet(readyQueue')
    BY <1>0, <2>1, SettledNext
  <2>5. readyQueue \in Seq(PCB) /\ IsInjective(readyQueue)
    BY <1>0 DEF Typed, Inv, EveryProcessPlaced, ReadyQueueSound
  <2>6. Abstract!Schedule(ready)
    BY <2>1, <2>3, <2>4, <2>5, SchedulerSchedules
  <2>7. CASE ready # {}
    BY <1>15, <1>16, <1>18, <1>19, <1>20, <2>6, <2>7 DEF Abstract!Dispatch
  <2>8. CASE ready = {}
    BY <1>15, <1>16, <1>18, <1>19, <1>20, <2>6, <2>8 DEF Abstract!Schedule, Abstract!vars
  <2> QED
    BY <2>7, <2>8
<1>22. CASE n # 1
  <2>1. currentProcess' = currentProcess /\ p # currentProcess
    BY <1>2, <1>6, <1>22
  <2>2. running' = NULL
    <3>1. currentProcess \in ToSet(terminating')
      <4>1. currentProcess \in ToSet(terminating)
        BY <1>0, <1>1, <1>3, InQueue
      <4> QED
        BY <1>8, <2>1, <4>1
    <3>2. terminating' # <<>>
      BY <3>1, EmptyQueue
    <3> QED
      BY <3>2 DEF running
  <2>3. ready' = ready
    <3>1. /\ ToSet(readyQueue) = {q \in Live \ {currentProcess} : p_semAdd[q] = NULL}
          /\ ToSet(readyQueue') = {q \in Live' \ {currentProcess'} : p_semAdd'[q] = NULL}
      BY DEF Inv, EveryProcessPlaced, ReadyQueueSound
    <3>2. ToSet(readyQueue') = ToSet(readyQueue) \ {p}
      BY <1>2, <1>10, <2>1, <3>1
    <3> QED
      BY <1>13, <1>14, <3>2 DEF ready
  <2> QED
    BY <1>15, <1>16, <1>18, <1>19, <1>20, <2>2, <2>3 DEF Abstract!vars
<1> QED
  BY <1>21, <1>22

-----------------------------------------------------------------------------
(* Interrupts                                                              *)

\* How a handler ends: the interrupted process goes on, or one is dispatched.
LEMMA ReturnContinues ==
    ASSUME Typed, Typed', terminating = <<>>, terminating' = <<>>,
           NEW rq \in Seq(PCB), IsInjective(rq), returnFromInterrupt(rq)
    PROVE  Abstract!Continue(ToSet(rq))
<1>1. /\ running = currentProcess /\ running' = currentProcess'
      /\ ready' = ToSet(readyQueue')
  BY Settled, SettledNext
<1>2. CASE currentProcess # NULL
  BY <1>1, <1>2 DEF returnFromInterrupt, resume, Abstract!Continue
<1>3. CASE currentProcess = NULL
  <2>1. scheduler(rq)
    BY <1>3 DEF returnFromInterrupt
  <2>2. Abstract!Schedule(ToSet(rq))
    BY <1>1, <2>1, SchedulerSchedules
  <2> QED
    BY <1>1, <1>3, <2>2 DEF Abstract!Continue
<1> QED
  BY <1>2, <1>3

\* A handler that wakes nobody dispatches, if the processor was idle, or goes unseen.
LEMMA NobodyWoken ==
    ASSUME Typed, Typed', terminating = <<>>, terminating' = <<>>,
           NEW rq \in Seq(PCB), IsInjective(rq), returnFromInterrupt(rq),
           ToSet(rq) = ToSet(readyQueue), UNCHANGED <<pcbFree, p_prnt, userSem, asl>>
    PROVE  Abstract!Dispatch \/ UNCHANGED Abstract!vars
<1>1. Abstract!Continue(ready)
  BY ReturnContinues, Settled
<1>2. UNCHANGED <<alive, parent, waiting, value>>
  BY Settled, SettledNext DEF Live
<1>3. CASE running # NULL
  BY <1>1, <1>2, <1>3 DEF Abstract!Continue, Abstract!vars
<1>4. CASE running = NULL /\ ready # {}
  BY <1>1, <1>2, <1>4 DEF Abstract!Continue, Abstract!Dispatch
<1>5. CASE running = NULL /\ ready = {}
  BY <1>1, <1>2, <1>5 DEF Abstract!Continue, Abstract!Schedule, Abstract!vars
<1> QED
  BY <1>3, <1>4, <1>5

\* The end of a time slice is Preempt.
LEMMA PltStep ==
    ASSUME Inv, Typed', PLTInterruptHandler
    PROVE  Abstract!Preempt \/ UNCHANGED Abstract!vars
<1>0. /\ Typed /\ terminating = <<>> /\ terminating' = <<>>
      /\ UNCHANGED <<pcbFree, p_prnt, asl, userSem, terminating>>
  BY DEF Inv, PLTInterruptHandler, Unmasked, tree, blocking, sems
<1>1. CASE currentProcess = NULL
  <2>1. UNCHANGED <<readyQueue, currentProcess>>
    BY <1>1 DEF PLTInterruptHandler
  <2> QED
    BY <1>0, <2>1, Unseen
<1>2. CASE currentProcess # NULL
  <2> DEFINE rq == Append(readyQueue, currentProcess)
  <2>1. scheduler(rq) /\ currentProcess \in PCB /\ readyQueue \in Seq(PCB)
    BY <1>0, <1>2 DEF PLTInterruptHandler, insertProcQ, Typed
  <2>2. IsInjective(readyQueue) /\ currentProcess \notin ToSet(readyQueue)
    BY DEF Inv, EveryProcessPlaced, ReadyQueueSound
  <2>3. rq \in Seq(PCB) /\ IsInjective(rq) /\ ToSet(rq) = ToSet(readyQueue) \cup {currentProcess}
    BY <2>1, <2>2, AppendQueue
  <2>4. /\ running = currentProcess /\ ready = ToSet(readyQueue)
        /\ running' = currentProcess' /\ ready' = ToSet(readyQueue')
        /\ UNCHANGED <<alive, parent, waiting, value>>
    BY <1>0, Settled, SettledNext DEF Live
  <2> HIDE DEF rq
  <2>5. Abstract!Schedule(ready \cup {running})
    BY <2>1, <2>3, <2>4, SchedulerSchedules
  <2> QED
    BY <1>2, <2>4, <2>5 DEF Abstract!Preempt
<1> QED
  BY <1>1, <1>2

\* A tick of the pseudo-clock is Wake for all who wait for it.
LEMMA TickStep ==
    ASSUME Inv, Typed', intervalTimerInterruptHandler
    PROVE  Abstract!Wake(CLOCK_INDEX) \/ Abstract!Dispatch \/ UNCHANGED Abstract!vars
<1> USE Addresses
<1> DEFINE woken == asl[CLOCK_INDEX]
           rq == readyQueue \o woken
<1>0. /\ Typed /\ terminating = <<>> /\ terminating' = <<>>
      /\ UNCHANGED <<pcbFree, p_prnt, userSem>>
      /\ asl' = [asl EXCEPT ![CLOCK_INDEX] = <<>>] /\ returnFromInterrupt(rq)
  BY DEF Inv, intervalTimerInterruptHandler, Unmasked, tree
<1>1. asl \in [Semaphore -> Seq(PCB)] /\ readyQueue \in Seq(PCB) /\ woken \in Seq(PCB)
  BY <1>0 DEF Typed
<1>2. /\ IsInjective(readyQueue) /\ IsInjective(woken)
      /\ ToSet(readyQueue) \cap ToSet(woken) = {}
  BY DEF Inv, EveryProcessPlaced, ReadyQueueSound, AslSound
<1> HIDE DEF woken
<1>3. rq \in Seq(PCB) /\ IsInjective(rq) /\ ToSet(rq) = ToSet(readyQueue) \cup ToSet(woken)
  BY <1>1, <1>2, ConcatQueue
<1> HIDE DEF rq
<1>4. /\ UNCHANGED <<alive, parent, value>> /\ ready = ToSet(readyQueue)
      /\ waiting = [s \in Semaphore |-> ToSet(asl[s])]
      /\ waiting' = [s \in Semaphore |-> ToSet(asl'[s])]
  BY <1>0, Settled, SettledNext DEF Live
<1>5. CASE woken = <<>>
  <2>1. asl' = asl /\ ToSet(rq) = ToSet(readyQueue)
    BY <1>0, <1>1, <1>3, <1>5, EmptyQueue DEF woken
  <2> QED
    BY <1>0, <1>3, <2>1, NobodyWoken
<1>6. CASE woken # <<>>
  <2> DEFINE ps == ToSet(woken)
  <2>1. ps # {} /\ ps = waiting[CLOCK_INDEX]
    BY <1>1, <1>4, <1>6, NoMember DEF woken
  <2>2. waiting' = [waiting EXCEPT ![CLOCK_INDEX] = @ \ ps]
    <3>1. \A s \in Semaphore : ToSet(asl'[s]) = IF s = CLOCK_INDEX THEN {} ELSE ToSet(asl[s])
      BY <1>0, <1>1, EmptyQueue
    <3>2. ToSet(asl[CLOCK_INDEX]) \ ps = {}
      BY <1>4, <2>1
    <3> QED
      BY <1>4, <3>1, <3>2
  <2>3. Abstract!Continue(ready \cup ps)
    BY <1>0, <1>3, <1>4, ReturnContinues
  <2>4. ps \in (SUBSET waiting[CLOCK_INDEX]) \ {{}}
    BY <2>1
  <2> HIDE DEF ps
  <2> QED
    BY <1>4, <2>2, <2>3, <2>4 DEF Abstract!Wake
<1> QED
  BY <1>5, <1>6

\* An interrupt of a device is Wake for the first who waits for it.
LEMMA DeviceStep ==
    ASSUME Inv, Typed', nonTimerInterruptHandler
    PROVE  \/ \E e \in DeviceSem : Abstract!Wake(e)
           \/ Abstract!Dispatch \/ UNCHANGED Abstract!vars
<1> USE Addresses
<1>0. /\ Typed /\ terminating = <<>> /\ terminating' = <<>>
      /\ UNCHANGED <<pcbFree, p_prnt, userSem>>
  BY DEF Inv, nonTimerInterruptHandler, Unmasked, tree
<1>1. PICK d \in DEVICE :
        \/ /\ asl[d] # <<>> /\ removeBlocked(d)
           /\ returnFromInterrupt(insertProcQ(readyQueue, Head(asl[d])))
        \/ asl[d] = <<>> /\ UNCHANGED blocking /\ returnFromInterrupt(readyQueue)
  BY DEF nonTimerInterruptHandler
<1>2. /\ d \in DeviceSem /\ d \in Semaphore /\ asl \in [Semaphore -> Seq(PCB)]
      /\ readyQueue \in Seq(PCB) /\ IsInjective(readyQueue)
  BY <1>0 DEF Typed, Inv, EveryProcessPlaced, ReadyQueueSound
<1>3. UNCHANGED <<alive, parent, value>> /\ ready = ToSet(readyQueue)
  BY <1>0, Settled, SettledNext DEF Live
<1>4. CASE asl[d] = <<>>
  BY <1>0, <1>1, <1>2, <1>4, NobodyWoken DEF blocking
<1>5. CASE asl[d] # <<>>
  <2> DEFINE p == Head(asl[d])
             rq == Append(readyQueue, p)
  <2>1. removeBlocked(d) /\ returnFromInterrupt(rq)
    BY <1>1, <1>5 DEF insertProcQ
  <2>2. p \in PCB /\ p \in waiting[d] /\ waiting' = [waiting EXCEPT ![d] = @ \ {p}]
    BY <1>0, <1>2, <1>5, <2>1, WakeStep
  <2>3. p \notin ToSet(readyQueue)
    <3>1. p \in ToSet(asl[d])
      BY <1>2, <1>5, TailQueue
    <3> HIDE DEF p
    <3> QED
      BY <1>2, <3>1 DEF Inv, EveryProcessPlaced, ReadyQueueSound, AslSound
  <2> HIDE DEF p
  <2>4. rq \in Seq(PCB) /\ IsInjective(rq) /\ ToSet(rq) = ToSet(readyQueue) \cup {p}
    BY <1>2, <2>2, <2>3, AppendQueue
  <2> HIDE DEF rq
  <2>5. Abstract!Continue(ready \cup {p})
    BY <1>0, <1>3, <2>1, <2>4, ReturnContinues
  <2>6. {p} \in (SUBSET waiting[d]) \ {{}}
    BY <2>2
  <2>7. Abstract!Wake(d)
    BY <1>3, <2>2, <2>5, <2>6 DEF Abstract!Wake
  <2> QED
    BY <1>2, <2>7
<1> QED
  BY <1>4, <1>5

-----------------------------------------------------------------------------
(* The theorem                                                             *)

\* main() leaves one process, which runs.
LEMMA RefinesInit == Init => Abstract!Init
<1> SUFFICES ASSUME Init
             PROVE  Abstract!Init
  OBVIOUS
<1>1. PICK p \in PCB : pcbFree = PCB \ {p} /\ currentProcess = p
  BY DEF Init
<1>2. Typed /\ terminating = <<>>
  BY InitTyped DEF Init
<1>3. /\ alive = Live /\ parent = p_prnt /\ running = currentProcess
      /\ ready = ToSet(readyQueue)
      /\ waiting = [s \in Semaphore |-> ToSet(asl[s])] /\ value = userSem
  BY <1>2, Settled
<1>4. alive = {p} /\ running = p
  BY <1>1, <1>3 DEF Live
<1>5. parent = [q \in PCB |-> NULL] /\ ready = {}
  BY <1>3, EmptyQueue DEF Init
<1>6. waiting = [s \in USERSEM \cup DeviceSem |-> {}]
  <2>1. \A s \in Semaphore : ToSet(asl[s]) = {}
    BY EmptyQueue DEF Init
  <2> QED
    BY <1>3, <2>1 DEF Semaphore
<1>7. value \in [USERSEM -> Nat]
  BY <1>3, BoundAssumption DEF Init
<1> QED
  BY <1>4, <1>5, <1>6, <1>7 DEF Abstract!Init

\* Every step of the nucleus and of the machine is a step of Kernel or goes unseen.
LEMMA RefinesNext ==
    ASSUME Inv, CountInv, Inv', [Next]_vars
    PROVE  [Abstract!Next]_(Abstract!vars)
<1> USE DEF Abstract!Next
<1>0. Typed'
  BY DEF Inv
<1>1. CASE systemTrapHandler
  BY <1>0, <1>1, SystemCallStep
<1>2. CASE programTrapHandler
  BY <1>0, <1>2, PassUpStep DEF programTrapHandler
<1>3. CASE terminateProcess
  <2>1. CASE terminateChild
    BY <1>0, <2>1, DescendStep
  <2>2. CASE ~terminateChild
    BY <1>3, <2>2, ReturnStep DEF terminateProcess
  <2> QED
    BY <2>1, <2>2
<1>4. CASE PLTInterruptHandler
  BY <1>0, <1>4, PltStep
<1>5. CASE intervalTimerInterruptHandler
  BY <1>0, <1>5, TickStep, Addresses
<1>6. CASE nonTimerInterruptHandler
  BY <1>0, <1>6, DeviceStep
<1>7. CASE \/ PltExpires \/ IntervalTimerExpires \/ StayStopped \/ UNCHANGED vars
           \/ \E d \in DEVICE : StartDevice(d) \/ DeviceCompletes(d)
  <2>1. UNCHANGED <<pcbFree, p_prnt, asl, userSem, currentProcess, terminating, readyQueue>>
    BY <1>7 DEF PltExpires, IntervalTimerExpires, StartDevice, DeviceCompletes, StayStopped,
       vars, nucleusState, dispatch, tree, blocking, sems
  <2> QED
    BY <2>1, Unseen
<1> QED
  BY <1>1, <1>2, <1>3, <1>4, <1>5, <1>6, <1>7 DEF Next

\* For any number of pcbs, semaphores and devices, the nucleus implements Kernel:
\* each call and interrupt is atomic, and so is the recursive termination of a
\* whole family (exceptions.c:365-408).
THEOREM Refinement == Spec => ImplementsKernel
<1>1. Init => Abstract!Init
  BY RefinesInit
<1>2. Inv /\ CountInv /\ Inv' /\ [Next]_vars => [Abstract!Next]_(Abstract!vars)
  BY RefinesNext
<1> QED
  BY <1>1, <1>2, CountInvariance, PTL DEF Spec, ImplementsKernel, Abstract!Spec
=============================================================================
