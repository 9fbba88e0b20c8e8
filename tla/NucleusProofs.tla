--------------------------- MODULE NucleusProofs ---------------------------
(***************************************************************************)
(* Proofs about Nucleus, for any number of pcbs, user semaphores and       *)
(* devices and any bounds.                                                 *)
(***************************************************************************)
EXTENDS Nucleus, QueueLemmas

\* There is a current process exactly while the processor executes one, or has
\* gone astray for it.
ModeSound == currentProcess # NULL <=> cpu \in {"process", "wild"}

\* The part of the state the scheduler sets is of its type.
Dispatched ==
    /\ readyQueue \in Seq(PCB) /\ currentProcess \in PCB \cup {NULL}
    /\ cpu \in {"process", "wait", "halt", "panic", "pltPanic", "wild"}
    /\ plt \in {"off", "ticking", "expired"}
    /\ ModeSound

-----------------------------------------------------------------------------

\* The semaphores of the nucleus are integers, those of the processes are not,
\* and NULL is neither a pcb nor a semaphore.
LEMMA Addresses ==
    /\ NULL \notin PCB /\ NULL \notin Semaphore
    /\ USERSEM \subseteq Semaphore /\ DeviceSem \subseteq Semaphore
    /\ DEVICE \subseteq DeviceSem /\ CLOCK_INDEX \in DeviceSem /\ CLOCK_INDEX \notin DEVICE
    /\ \A s \in USERSEM : s \notin DeviceSem
    /\ \A s \in Semaphore : s \notin DeviceSem => s \in USERSEM
BY PcbAssumption, SemAssumption, BoundAssumption
   DEF Semaphore, DeviceSem, DEVICE, CLOCK_INDEX

\* outProcQ gives a queue back, without p if p was in it.
LEMMA OutProcQ ==
    ASSUME NEW q \in Seq(PCB), NEW p
    PROVE  /\ outProcQ(q, p) \in Seq(PCB)
           /\ p \in ToSet(q) => Len(outProcQ(q, p)) = Len(q) - 1
           /\ IsInjective(q) => /\ IsInjective(outProcQ(q, p))
                                /\ ToSet(outProcQ(q, p)) = ToSet(q) \ {p}
<1>0. DOMAIN q = 1 .. Len(q)
  OBVIOUS
<1>1. CASE \E i \in DOMAIN q : q[i] = p
  <2> DEFINE i == CHOOSE i \in DOMAIN q : q[i] = p
  <2>1. i \in 1 .. Len(q) /\ q[i] = p
    BY <1>0, <1>1
  <2>2. outProcQ(q, p) = RemoveAt(q, i)
    BY <1>1 DEF outProcQ
  <2> HIDE DEF i
  <2>3. RemoveAt(q, i) \in Seq(PCB) /\ Len(RemoveAt(q, i)) = Len(q) - 1
    BY <2>1, RemoveAtQueue
  <2>4. ASSUME IsInjective(q)
        PROVE  IsInjective(RemoveAt(q, i)) /\ ToSet(RemoveAt(q, i)) = ToSet(q) \ {p}
    BY <2>1, <2>4, OutQueue
  <2> QED
    BY <2>2, <2>3, <2>4
<1>2. CASE ~\E i \in DOMAIN q : q[i] = p
  <2>1. outProcQ(q, p) = q
    BY <1>2 DEF outProcQ
  <2>2. p \notin ToSet(q)
    BY <1>0, <1>2, InQueue
  <2> QED
    BY <2>1, <2>2
<1> QED
  BY <1>1, <1>2

\* The scheduler leaves a queue, a current process or none, and the processor
\* in the state that goes with it.
LEMMA SchedulerTyped ==
    ASSUME NEW rq \in Seq(PCB), scheduler(rq), plt \in {"off", "ticking", "expired"}
    PROVE  Dispatched'
<1>1. CASE rq # <<>>
  <2>1. Head(rq) \in PCB /\ Tail(rq) \in Seq(PCB)
    BY <1>1, TailQueue
  <2>2. /\ currentProcess' = Head(rq) /\ readyQueue' = Tail(rq)
        /\ plt' = "ticking" /\ cpu' = "process"
    BY <1>1 DEF scheduler
  <2> QED
    BY <2>1, <2>2, Addresses DEF ModeSound, Dispatched
<1>2. CASE rq = <<>>
  <2>1. /\ currentProcess' = NULL /\ readyQueue' = rq
        /\ cpu' \in {"wait", "halt", "panic"}
        /\ plt' \in {"off", "ticking", "expired"}
    BY <1>2 DEF scheduler
  <2> QED
    BY <2>1 DEF ModeSound, Dispatched
<1> QED
  BY <1>1, <1>2

\* Returning to the process that trapped changes only the Ready Queue.
LEMMA ResumeTyped ==
    ASSUME NEW rq \in Seq(PCB), resume(rq), Typed, ModeSound
    PROVE  Dispatched'
BY DEF resume, Typed, ModeSound, Dispatched

\* The type invariant, without the sign of the counts, is inductive.
LEMMA TypedStep ==
    ASSUME Typed, ModeSound, Next
    PROVE  Typed' /\ ModeSound'
<1> USE Addresses
<1>0. Executing => currentProcess \in PCB
  BY DEF Executing, ModeSound, Typed
<1>a. /\ readyQueue \in Seq(PCB) /\ asl \in [Semaphore -> Seq(PCB)]
      /\ plt \in {"off", "ticking", "expired"}
  BY DEF Typed
<1>1. ASSUME Executing, NEW support \in BOOLEAN, createProcess(support),
             saveState, UNCHANGED hardware
      PROVE  Typed' /\ ModeSound'
  <2>1. CASE pcbFree = {}
    BY <1>1, <2>1 DEF createProcess, resume, saveState, hardware, tree, sems, Typed, ModeSound
  <2>2. ASSUME NEW p \in pcbFree,
               pcbFree' = pcbFree \ {p},
               p_supportStruct' = [p_supportStruct EXCEPT ![p] = support],
               p_semAdd' = [p_semAdd EXCEPT ![p] = NULL],
               p_prnt' = [p_prnt EXCEPT ![p] = currentProcess],
               p_child' = [p_child EXCEPT ![p] = <<>>, ![currentProcess] = <<p>> \o @],
               resume(insertProcQ(readyQueue, p)),
               processCount' = processCount + 1
        PROVE  Typed' /\ ModeSound'
    <3>1. p \in PCB /\ currentProcess \in PCB
      BY <1>0, <1>1 DEF Typed
    <3>2. p_child' \in [PCB -> Seq(PCB)]
      <4>1. <<>> \in Seq(PCB) /\ <<p>> \o <<>> \in Seq(PCB)
        BY <3>1, ConsQueue
      <4>2. <<p>> \o p_child[currentProcess] \in Seq(PCB)
        BY <3>1, ConsQueue DEF Typed
      <4> QED
        BY <2>2, <3>1, <4>1, <4>2 DEF Typed
    <3>3. insertProcQ(readyQueue, p) \in Seq(PCB)
      BY <3>1, <1>a, AppendQueue DEF insertProcQ
    <3>4. Dispatched'
      BY <2>2, <3>3, ResumeTyped
    <3>5. UNCHANGED <<asl, sems, softBlockedCount, terminating, hardware>> /\ saveState
      BY <1>1 DEF createProcess
    <3>6. /\ pcbFree' \in SUBSET PCB
          /\ p_supportStruct' \in [PCB -> BOOLEAN]
          /\ p_semAdd' \in [PCB -> Semaphore \cup {NULL}]
          /\ p_prnt' \in [PCB -> PCB \cup {NULL}]
          /\ processCount' \in Int
      BY <2>2, <3>1 DEF Typed
    <3> QED
      BY <3>2, <3>4, <3>5, <3>6 DEF saveState, hardware, sems, Typed, Dispatched
  <2> QED
    BY <1>1, <2>1, <2>2 DEF createProcess
<1>2. ASSUME Executing, terminateCurrent, savedExceptionState' \in BOOLEAN, UNCHANGED hardware
      PROVE  Typed' /\ ModeSound'
  BY <1>0, <1>2 DEF terminateCurrent, hardware, tree, blocking, sems, dispatch, counts, Typed, ModeSound
<1>3. ASSUME NEW s \in Semaphore, Executing, blockCurrentProcessHelper(s)
      PROVE  /\ Dispatched'
             /\ asl' \in [Semaphore -> Seq(PCB)]
             /\ p_semAdd' \in [PCB -> Semaphore \cup {NULL}]
  <2>1. scheduler(readyQueue) /\ insertBlocked(s, currentProcess)
    BY <1>3 DEF blockCurrentProcessHelper
  <2>2. Append(asl[s], currentProcess) \in Seq(PCB)
    BY <1>0, <1>a, <1>3, AppendQueue
  <2> QED
    BY <1>0, <1>a, <1>3, <2>1, <2>2, SchedulerTyped DEF insertBlocked, insertProcQ, Typed
<1>4. ASSUME NEW s \in Semaphore, asl[s] # <<>>, removeBlocked(s)
      PROVE  /\ asl' \in [Semaphore -> Seq(PCB)]
             /\ p_semAdd' \in [PCB -> Semaphore \cup {NULL}]
             /\ insertProcQ(readyQueue, Head(asl[s])) \in Seq(PCB)
  <2>1. Head(asl[s]) \in PCB /\ Tail(asl[s]) \in Seq(PCB)
    BY <1>a, <1>4, TailQueue
  <2>2. insertProcQ(readyQueue, Head(asl[s])) \in Seq(PCB)
    BY <1>a, <2>1, AppendQueue DEF insertProcQ
  <2> QED
    BY <1>4, <2>1, <2>2 DEF removeBlocked, unblock, Typed
<1>5. ASSUME Executing, NEW s \in USERSEM, passeren(s), saveState, UNCHANGED hardware
      PROVE  Typed' /\ ModeSound'
  <2>1. CASE blockCurrentProcessHelper(s)
    BY <1>3, <1>5, <2>1 DEF passeren, saveState, hardware, tree, counts, Typed, Dispatched
  <2>2. CASE resume(readyQueue) /\ UNCHANGED blocking
    BY <1>5, <2>2 DEF passeren, saveState, hardware, tree, counts, blocking, resume, Typed, ModeSound
  <2> QED
    BY <1>5, <2>1, <2>2 DEF passeren
<1>6. ASSUME Executing, NEW s \in USERSEM, verhogen(s), saveState, UNCHANGED hardware
      PROVE  Typed' /\ ModeSound'
  <2>a. userSem' \in [USERSEM -> Int]
    BY <1>6 DEF verhogen, Typed
  <2>b. /\ UNCHANGED <<pcbFree, p_supportStruct, p_prnt, p_child, semaphoreDevices, processCount,
                       softBlockedCount, terminating, intervalTimer, device>>
        /\ savedExceptionState' = TRUE
    BY <1>6 DEF verhogen, saveState, hardware, tree, counts
  <2>1. CASE asl[s] # <<>> /\ removeBlocked(s) /\ resume(insertProcQ(readyQueue, Head(asl[s])))
    <3>1. Dispatched'
      BY <1>4, <2>1, <1>6, ResumeTyped
    <3>2. asl' \in [Semaphore -> Seq(PCB)] /\ p_semAdd' \in [PCB -> Semaphore \cup {NULL}]
      BY <1>4, <2>1, <1>6
    <3> QED
      BY <2>a, <2>b, <3>1, <3>2 DEF Typed, Dispatched
  <2>2. CASE resume(readyQueue) /\ UNCHANGED blocking
    <3>1. UNCHANGED <<asl, p_semAdd, readyQueue, currentProcess, cpu, plt>>
      BY <2>2 DEF resume, blocking
    <3> QED
      BY <2>a, <2>b, <3>1 DEF Typed, ModeSound
  <2> QED
    BY <1>6, <2>1, <2>2 DEF verhogen
<1>7. ASSUME Executing, NEW d \in DEVICE, waitForIO(d), saveState, UNCHANGED hardware
      PROVE  Typed' /\ ModeSound'
  <2>1. CASE blockCurrentProcessHelper(d)
    BY <1>3, <1>7, <2>1 DEF waitForIO, saveState, hardware, tree, Typed, Dispatched
  <2>2. CASE resume(readyQueue) /\ UNCHANGED blocking
    BY <1>7, <2>2 DEF waitForIO, saveState, hardware, tree, blocking, resume, Typed, ModeSound
  <2> QED
    BY <1>7, <2>1, <2>2 DEF waitForIO
<1>8. ASSUME Executing, waitForClock, saveState, UNCHANGED hardware
      PROVE  Typed' /\ ModeSound'
  <2>1. CASE softBlockedCount' = softBlockedCount + 1 /\ blockCurrentProcessHelper(CLOCK_INDEX)
    BY <1>3, <1>8, <2>1 DEF waitForClock, saveState, hardware, tree, Typed, Dispatched
  <2>2. CASE resume(readyQueue) /\ UNCHANGED <<blocking, softBlockedCount>>
    BY <1>8, <2>2 DEF waitForClock, saveState, hardware, tree, blocking, resume, Typed, ModeSound
  <2> QED
    BY <1>8, <2>1, <2>2 DEF waitForClock
<1>9. ASSUME Executing, returnToCaller, saveState, UNCHANGED hardware
      PROVE  Typed' /\ ModeSound'
  BY <1>9 DEF returnToCaller, resume, saveState, hardware, tree, blocking, sems, counts, Typed, ModeSound
<1>10. ASSUME Executing, passUpOrDie, savedExceptionState' \in BOOLEAN, UNCHANGED hardware
       PROVE  Typed' /\ ModeSound'
  <2>1. CASE terminateCurrent
    BY <1>2, <1>10, <2>1
  <2>2. CASE ~terminateCurrent
    BY <1>10, <2>2 DEF passUpOrDie, Executing, hardware, tree, blocking, sems, counts, Typed, ModeSound
  <2> QED
    BY <2>1, <2>2
<1>11. CASE systemTrapHandler
  BY <1>11, <1>1, <1>2, <1>5, <1>6, <1>7, <1>8, <1>9, <1>10
  DEF systemTrapHandler, saveState, getCPUTime, getSupportData
<1>12. CASE programTrapHandler
  BY <1>12, <1>10 DEF programTrapHandler, Typed
<1>13. CASE terminateChild
  <2> DEFINE p == terminating[Len(terminating)]
  <2>1. p \in PCB
    BY <1>13, EmptySeq DEF terminateChild, Typed
  <2>2. Head(p_child[p]) \in PCB /\ Tail(p_child[p]) \in Seq(PCB)
    BY <1>13, <2>1, TailQueue DEF terminateChild, Typed
  <2>3. Append(terminating, Head(p_child[p])) \in Seq(PCB)
    BY <2>2, AppendQueue DEF Typed
  <2> QED
    BY <1>13, <2>1, <2>2, <2>3
    DEF terminateChild, blocking, sems, dispatch, counts, hardware, Typed, ModeSound
<1>14. ASSUME terminating # <<>>, NEW p \in PCB, terminateSelf(p)
       PROVE  Typed' /\ ModeSound'
  <2>1. terminating' \in Seq(PCB)
    BY <1>14, EmptySeq, SubSeqProperties DEF terminateSelf, Typed
  <2>2. ASSUME NEW rq \in Seq(PCB), IF Len(terminating) = 1 THEN scheduler(rq) ELSE resume(rq)
        PROVE  /\ Dispatched'
    BY <1>a, <2>2, SchedulerTyped, ResumeTyped
  <2>3. CASE p = currentProcess
    <3>1. /\ p_child' \in [PCB -> Seq(PCB)]
          /\ p_prnt' \in [PCB -> PCB \cup {NULL}]
      <4>1. CASE p_prnt[p] = NULL
        BY <1>14, <2>3, <4>1 DEF terminateSelf, outChild, tree, Typed
      <4>2. CASE p_prnt[p] # NULL
        <5>1. outProcQ(p_child[p_prnt[p]], p) \in Seq(PCB)
          BY <4>2, OutProcQ DEF Typed
        <5>2. /\ p_child' = [p_child EXCEPT ![p_prnt[p]] = outProcQ(p_child[p_prnt[p]], p)]
              /\ p_prnt' = [p_prnt EXCEPT ![p] = NULL]
          BY <1>14, <2>3, <4>2 DEF terminateSelf, outChild, Typed
        <5> QED
          BY <4>2, <5>1, <5>2 DEF Typed
      <4> QED
        BY <4>1, <4>2
    <3>2. /\ UNCHANGED <<asl, sems, softBlockedCount, p_supportStruct, p_semAdd,
                         savedExceptionState, hardware>>
          /\ IF Len(terminating) = 1 THEN scheduler(readyQueue) ELSE resume(readyQueue)
          /\ pcbFree' = pcbFree \cup {p} /\ processCount' = processCount - 1
      BY <1>14, <2>3 DEF terminateSelf
    <3>3. Dispatched'
      BY <1>a, <2>2, <3>2
    <3>4. UNCHANGED <<asl, userSem, semaphoreDevices, softBlockedCount, p_supportStruct, p_semAdd,
                      savedExceptionState, intervalTimer, device>>
      BY <3>2 DEF sems, hardware
    <3>5. pcbFree' \in SUBSET PCB /\ processCount' \in Int
      BY <3>2 DEF Typed
    <3> QED
      BY <2>1, <3>1, <3>3, <3>4, <3>5 DEF Typed, Dispatched
  <2>4. CASE p # currentProcess /\ p_semAdd[p] # NULL
    <3>1. p_semAdd[p] \in Semaphore
      BY <2>4 DEF Typed
    <3>2. asl' \in [Semaphore -> Seq(PCB)]
      <4>1. outProcQ(asl[p_semAdd[p]], p) \in Seq(PCB)
        BY <1>a, <3>1, OutProcQ
      <4>2. asl' = [asl EXCEPT ![p_semAdd[p]] = outProcQ(asl[p_semAdd[p]], p)]
        BY <1>14, <1>a, <2>4, <3>1 DEF terminateSelf, outBlocked
      <4> QED
        BY <1>a, <3>1, <4>1, <4>2
    <3>3. /\ userSem' \in [USERSEM -> Int] /\ semaphoreDevices' \in [DeviceSem -> Int]
          /\ softBlockedCount' \in Int
      BY <1>14, <2>4, <3>1 DEF terminateSelf, giveBack, sems, Typed
    <3>4. /\ UNCHANGED <<tree, p_supportStruct, p_semAdd, savedExceptionState, hardware>>
          /\ IF Len(terminating) = 1 THEN scheduler(readyQueue) ELSE resume(readyQueue)
          /\ pcbFree' = pcbFree \cup {p} /\ processCount' = processCount - 1
      BY <1>14, <2>4 DEF terminateSelf
    <3>5. Dispatched'
      BY <1>a, <2>2, <3>4
    <3>6. UNCHANGED <<p_prnt, p_child, p_supportStruct, p_semAdd, savedExceptionState, intervalTimer, device>>
      BY <3>4 DEF tree, hardware
    <3>7. pcbFree' \in SUBSET PCB /\ processCount' \in Int
      BY <3>4 DEF Typed
    <3> QED
      BY <2>1, <3>2, <3>3, <3>5, <3>6, <3>7 DEF Typed, Dispatched
  <2>5. CASE p # currentProcess /\ p_semAdd[p] = NULL
    <3>1. /\ UNCHANGED <<tree, asl, sems, softBlockedCount, p_supportStruct, p_semAdd,
                         savedExceptionState, hardware>>
          /\ IF Len(terminating) = 1 THEN scheduler(outProcQ(readyQueue, p))
                                     ELSE resume(outProcQ(readyQueue, p))
          /\ pcbFree' = pcbFree \cup {p} /\ processCount' = processCount - 1
      BY <1>14, <2>5 DEF terminateSelf
    <3>2. outProcQ(readyQueue, p) \in Seq(PCB)
      BY <1>a, OutProcQ
    <3> QED
      BY <2>1, <2>2, <3>1, <3>2 DEF Typed, Dispatched, tree, sems, hardware
  <2> QED
    BY <2>3, <2>4, <2>5
<1>15. CASE terminateProcess
  <2>1. terminating # <<>> => terminating[Len(terminating)] \in PCB
    BY EmptySeq DEF Typed
  <2> QED
    BY <1>13, <1>14, <1>15, <2>1 DEF terminateProcess
<1>16. CASE PLTInterruptHandler
  <2>1. CASE currentProcess # NULL
    <3>1. insertProcQ(readyQueue, currentProcess) \in Seq(PCB)
      BY <1>a, <2>1, AppendQueue DEF insertProcQ, Typed
    <3> QED
      BY <1>16, <1>a, <2>1, <3>1, SchedulerTyped
      DEF PLTInterruptHandler, saveState, counts, tree, blocking, sems, hardware, Typed, Dispatched
  <2>2. CASE currentProcess = NULL
    BY <1>16, <2>2
    DEF PLTInterruptHandler, saveState, counts, tree, blocking, sems, hardware, Typed, ModeSound
  <2> QED
    BY <2>1, <2>2
<1>17. ASSUME NEW rq \in Seq(PCB), returnFromInterrupt(rq)
       PROVE  /\ Dispatched'
  BY <1>a, <1>17, SchedulerTyped, ResumeTyped DEF returnFromInterrupt
<1>18. CASE intervalTimerInterruptHandler
  <2>1. asl[CLOCK_INDEX] \in Seq(PCB) /\ Len(asl[CLOCK_INDEX]) \in Nat
    BY <1>a
  <2>2. readyQueue \o asl[CLOCK_INDEX] \in Seq(PCB)
    BY <1>a, <2>1, ConcatQueue
  <2>3. /\ asl' \in [Semaphore -> Seq(PCB)]
        /\ p_semAdd' \in [PCB -> Semaphore \cup {NULL}]
    BY <1>18, <1>a DEF intervalTimerInterruptHandler, unblock, Typed
  <2>4. Dispatched'
    BY <1>17, <1>18, <2>2 DEF intervalTimerInterruptHandler
  <2> QED
    BY <1>18, <2>1, <2>3, <2>4
    DEF intervalTimerInterruptHandler, saveState, loadIntervalTimer, resetClock, tree, Typed, Dispatched
<1>19. CASE nonTimerInterruptHandler
  <2>1. PICK d \in DEVICE :
          /\ device' = [device EXCEPT ![d] = "ready"]
          /\ semaphoreDevices' = [semaphoreDevices EXCEPT ![d] = @ + 1]
          /\ UNCHANGED processCount
          /\ \/ /\ asl[d] # <<>> /\ removeBlocked(d)
                /\ softBlockedCount' = softBlockedCount - 1
                /\ returnFromInterrupt(insertProcQ(readyQueue, Head(asl[d])))
             \/ /\ UNCHANGED <<blocking, softBlockedCount>>
                /\ returnFromInterrupt(readyQueue)
    BY <1>19 DEF nonTimerInterruptHandler
  <2>2. UNCHANGED <<pcbFree, p_supportStruct, tree, userSem, terminating, intervalTimer>> /\ saveState
    BY <1>19 DEF nonTimerInterruptHandler
  <2>3. /\ device' \in [DEVICE -> {"ready", "busy", "interrupting"}]
        /\ semaphoreDevices' \in [DeviceSem -> Int] /\ processCount' \in Int
    BY <2>1 DEF Typed
  <2>4. /\ UNCHANGED <<pcbFree, p_supportStruct, p_prnt, p_child, userSem, terminating, intervalTimer>>
        /\ savedExceptionState' = TRUE
    BY <2>2 DEF tree, saveState
  <2>5. CASE /\ asl[d] # <<>> /\ removeBlocked(d)
             /\ softBlockedCount' = softBlockedCount - 1
             /\ returnFromInterrupt(insertProcQ(readyQueue, Head(asl[d])))
    <3>1. /\ asl' \in [Semaphore -> Seq(PCB)] /\ p_semAdd' \in [PCB -> Semaphore \cup {NULL}]
          /\ insertProcQ(readyQueue, Head(asl[d])) \in Seq(PCB)
      BY <1>4, <2>5
    <3>2. Dispatched'
      BY <1>17, <1>19, <2>5, <3>1
    <3>3. softBlockedCount' \in Int
      BY <2>5 DEF Typed
    <3> QED
      BY <2>3, <2>4, <3>1, <3>2, <3>3 DEF Typed, Dispatched
  <2>6. CASE UNCHANGED <<blocking, softBlockedCount>> /\ returnFromInterrupt(readyQueue)
    <3>1. Dispatched'
      BY <1>17, <1>19, <1>a, <2>6
    <3>2. UNCHANGED <<asl, p_semAdd, softBlockedCount>>
      BY <2>6 DEF blocking
    <3> QED
      BY <2>3, <2>4, <3>1, <3>2 DEF Typed, Dispatched
  <2> QED
    BY <2>1, <2>5, <2>6
<1>20. CASE \/ PltExpires \/ IntervalTimerExpires \/ StayStopped
            \/ \E d \in DEVICE : StartDevice(d) \/ DeviceCompletes(d)
  <2>1. CASE PltExpires \/ IntervalTimerExpires
    BY <2>1 DEF PltExpires, IntervalTimerExpires, nucleusState, hardware, tree, blocking, sems,
       counts, Typed, ModeSound
  <2>2. CASE StayStopped
    BY <2>2, SMTT(30) DEF StayStopped, vars, hardware, tree, blocking, sems, dispatch, counts, Typed, ModeSound
  <2>3. ASSUME NEW d \in DEVICE, StartDevice(d) \/ DeviceCompletes(d)
        PROVE  Typed' /\ ModeSound'
    <3>1. /\ UNCHANGED <<nucleusState, plt, intervalTimer>>
          /\ \/ device' = [device EXCEPT ![d] = "busy"]
             \/ device' = [device EXCEPT ![d] = "interrupting"]
      BY <2>3 DEF StartDevice, DeviceCompletes
    <3>2. /\ UNCHANGED <<pcbFree, p_supportStruct, p_prnt, p_child, asl, p_semAdd>>
          /\ UNCHANGED <<userSem, semaphoreDevices, processCount, softBlockedCount, readyQueue>>
          /\ UNCHANGED <<currentProcess, cpu, savedExceptionState, terminating>>
      BY <3>1 DEF nucleusState, tree, blocking, sems, counts
    <3>3. device' \in [DEVICE -> {"ready", "busy", "interrupting"}]
      BY <3>1 DEF Typed
    <3> QED
      BY <3>1, <3>2, <3>3 DEF Typed, ModeSound
  <2> QED
    BY <1>20, <2>1, <2>2, <2>3
<1> QED
  BY <1>11, <1>12, <1>15, <1>16, <1>18, <1>19, <1>20 DEF Next

-----------------------------------------------------------------------------

\* Whoever has a support structure got it from a system call, and the first of
\* those set savedExceptionState.
SupportSaved ==
    /\ \A p \in PCB : p_supportStruct[p] => savedExceptionState
    /\ cpu # "wild"

\* The scheduler, and the return to a process, never send the processor astray.
LEMMA NotWild ==
    ASSUME NEW rq, scheduler(rq) \/ resume(rq), cpu # "wild"
    PROVE  cpu' # "wild"
BY DEF scheduler, resume

\* Only pass up can send the processor astray, and not when every pcb with a
\* support structure comes with a saved state.
LEMMA SupportSavedStep ==
    ASSUME Typed, ModeSound, SupportSaved, Next
    PROVE  SupportSaved'
<1> USE DEF SupportSaved
<1>1. ASSUME Executing, passUpOrDie, UNCHANGED savedExceptionState \/ saveState
      PROVE  SupportSaved'
  <2>1. currentProcess \in PCB
    BY <1>1 DEF Executing, ModeSound, Typed
  <2>2. CASE terminateCurrent
    BY <1>1, <2>2 DEF terminateCurrent, dispatch, saveState
  <2>3. CASE ~terminateCurrent
    BY <1>1, <2>1, <2>3 DEF passUpOrDie, saveState
  <2> QED
    BY <2>2, <2>3
<1>2. CASE programTrapHandler
  BY <1>1, <1>2 DEF programTrapHandler
<1>3. CASE systemTrapHandler
  <2> USE <1>3 DEF systemTrapHandler, saveState
  <2>1. ASSUME NEW support \in BOOLEAN, createProcess(support)
        PROVE  SupportSaved'
    BY <2>1 DEF createProcess, resume
  <2>2. CASE terminateCurrent
    BY <2>2 DEF terminateCurrent, dispatch
  <2>3. ASSUME NEW s \in USERSEM, passeren(s)
        PROVE  SupportSaved'
    BY <2>3, NotWild DEF passeren, blockCurrentProcessHelper
  <2>4. ASSUME NEW s \in USERSEM, verhogen(s)
        PROVE  SupportSaved'
    BY <2>4, NotWild DEF verhogen
  <2>5. ASSUME NEW d \in DEVICE, waitForIO(d)
        PROVE  SupportSaved'
    BY <2>5, NotWild DEF waitForIO, blockCurrentProcessHelper
  <2>6. CASE waitForClock
    BY <2>6, NotWild DEF waitForClock, blockCurrentProcessHelper
  <2>7. CASE returnToCaller
    BY <2>7, NotWild DEF returnToCaller
  <2>8. CASE passUpOrDie
    BY <1>1, <2>8
  <2> QED
    BY <2>1, <2>2, <2>3, <2>4, <2>5, <2>6, <2>7, <2>8 DEF getCPUTime, getSupportData
<1>4. CASE terminateProcess
  <2>1. CASE terminateChild
    BY <2>1 DEF terminateChild, dispatch
  <2>2. ASSUME NEW p, terminateSelf(p)
        PROVE  SupportSaved'
    <3>1. \E rq : scheduler(rq) \/ resume(rq)
      BY <2>2 DEF terminateSelf
    <3>2. UNCHANGED <<p_supportStruct, savedExceptionState>>
      BY <2>2 DEF terminateSelf
    <3> QED
      BY <3>1, <3>2, NotWild
  <2> QED
    BY <1>4, <2>1, <2>2 DEF terminateProcess
<1>5. CASE PLTInterruptHandler
  BY <1>5, NotWild DEF PLTInterruptHandler, saveState
<1>6. CASE intervalTimerInterruptHandler
  BY <1>6, NotWild DEF intervalTimerInterruptHandler, returnFromInterrupt, saveState
<1>7. CASE nonTimerInterruptHandler
  BY <1>7, NotWild DEF nonTimerInterruptHandler, returnFromInterrupt, saveState
<1>8. CASE \/ PltExpires \/ IntervalTimerExpires \/ StayStopped
           \/ \E d \in DEVICE : StartDevice(d) \/ DeviceCompletes(d)
  BY <1>8 DEF PltExpires, IntervalTimerExpires, StartDevice, DeviceCompletes, StayStopped, vars,
     nucleusState, dispatch
<1> QED
  BY <1>2, <1>3, <1>4, <1>5, <1>6, <1>7, <1>8 DEF Next

\* main() leaves every variable with its type (initial.c:259-306).
LEMMA InitTyped ==
    ASSUME Init
    PROVE  Typed /\ ModeSound /\ SupportSaved
<1>1. PICK p \in PCB : pcbFree = PCB \ {p} /\ currentProcess = p
  BY DEF Init
<1>2. <<>> \in Seq(PCB)
  OBVIOUS
<1>3. userSem \in [USERSEM -> Int]
  BY BoundAssumption DEF Init
<1>4. /\ p_prnt \in [PCB -> PCB \cup {NULL}]
      /\ p_child \in [PCB -> Seq(PCB)]
      /\ p_semAdd \in [PCB -> Semaphore \cup {NULL}]
      /\ p_supportStruct \in [PCB -> BOOLEAN]
      /\ asl \in [Semaphore -> Seq(PCB)]
  BY <1>2 DEF Init
<1>5. /\ semaphoreDevices \in [DeviceSem -> Int]
      /\ device \in [DEVICE -> {"ready", "busy", "interrupting"}]
  BY DEF Init
<1>6. /\ readyQueue \in Seq(PCB) /\ terminating \in Seq(PCB)
      /\ processCount \in Int /\ softBlockedCount \in Int
      /\ cpu = "process" /\ plt = "ticking" /\ intervalTimer = "ticking"
  BY <1>2 DEF Init
<1>7. SupportSaved
  BY <1>6 DEF SupportSaved, Init
<1>8. savedExceptionState \in BOOLEAN
  BY Zenon DEF Init
<1> QED
  BY <1>1, <1>3, <1>4, <1>5, <1>6, <1>7, <1>8, Addresses DEF Typed, ModeSound

\* Nothing changes in a stuttering step.
LEMMA TypedStutter ==
    ASSUME Typed, ModeSound, SupportSaved, UNCHANGED vars
    PROVE  Typed' /\ ModeSound' /\ SupportSaved'
BY DEF Typed, ModeSound, SupportSaved, vars, tree, blocking, sems, dispatch, counts, hardware

\* Every variable keeps its type, and there is a current process exactly while
\* the processor executes one (scheduler.c:122-158).
THEOREM Types == Spec => [](Typed /\ ModeSound /\ SupportSaved)
<1>1. Init => Typed /\ ModeSound /\ SupportSaved
  BY InitTyped
<1>2. Typed /\ ModeSound /\ SupportSaved /\ [Next]_vars => (Typed /\ ModeSound /\ SupportSaved)'
  BY TypedStep, SupportSavedStep, TypedStutter
<1> QED
  BY <1>1, <1>2, PTL DEF Spec

\* No exception is passed up from a state nobody saved (exceptions.c:723).
THEOREM PassUpSafe == Spec => []PassUpHasSavedState
<1>1. SupportSaved => PassUpHasSavedState
  BY DEF SupportSaved, PassUpHasSavedState
<1> QED
  BY <1>1, Types, PTL

-----------------------------------------------------------------------------
(* Every process in its place                                              *)

\* The pcbs that may run: live, and not blocked.
Runnable == {p \in Live : p_semAdd[p] = NULL}

-----------------------------------------------------------------------------

\* The scheduler, given all runnable pcbs, makes one of them the current process
\* and leaves the others in the Ready Queue.
LEMMA SchedulerPlaces ==
    ASSUME NEW rq \in Seq(PCB), scheduler(rq),
           IsInjective(rq), ToSet(rq) = Runnable'
    PROVE  CurrentSound' /\ ReadyQueueSound'
<1>1. CASE rq # <<>>
  <2>1. currentProcess' = Head(rq) /\ readyQueue' = Tail(rq)
    BY <1>1 DEF scheduler
  <2>2. /\ Head(rq) \in ToSet(rq) /\ ToSet(Tail(rq)) = ToSet(rq) \ {Head(rq)}
        /\ IsInjective(Tail(rq))
    BY <1>1, TailQueue
  <2> QED
    BY <2>1, <2>2 DEF CurrentSound, ReadyQueueSound, Runnable
<1>2. CASE rq = <<>>
  <2>1. currentProcess' = NULL /\ readyQueue' = rq
    BY <1>2 DEF scheduler
  <2>2. ToSet(rq) = {} /\ IsInjective(rq)
    BY <1>2, NoMember
  <2> QED
    BY <2>1, <2>2 DEF CurrentSound, ReadyQueueSound, Runnable
<1> QED
  BY <1>1, <1>2

\* The process that trapped goes on, with all other runnable pcbs in the queue.
LEMMA ResumePlaces ==
    ASSUME NEW rq, resume(rq), IsInjective(rq),
           ToSet(rq) = Runnable' \ {currentProcess},
           currentProcess # NULL => currentProcess \in Runnable'
    PROVE  CurrentSound' /\ ReadyQueueSound'
BY DEF resume, CurrentSound, ReadyQueueSound, Runnable

\* Blocking a runnable process puts it in one semaphore's queue.
LEMMA BlockPlaces ==
    ASSUME Typed, EveryProcessPlaced, UNCHANGED pcbFree,
           NEW s \in Semaphore, NEW p \in Runnable, insertBlocked(s, p)
    PROVE  /\ AslSound'
           /\ Runnable' = Runnable \ {p}
<1> USE Addresses
<1>1. p \in PCB /\ p_semAdd[p] = NULL /\ p \in Live /\ Live' = Live /\ Live \subseteq PCB
  BY DEF Runnable, Live
<1>2. /\ p_semAdd \in [PCB -> Semaphore \cup {NULL}] /\ asl \in [Semaphore -> Seq(PCB)]
      /\ p_semAdd' = [p_semAdd EXCEPT ![p] = s]
      /\ asl' = [asl EXCEPT ![s] = Append(@, p)]
  BY DEF Typed, insertBlocked, insertProcQ
<1>3. \A t \in Semaphore : p \notin ToSet(asl[t])
  BY <1>1 DEF EveryProcessPlaced, AslSound
<1>4. ASSUME NEW t \in Semaphore
      PROVE  /\ ToSet(asl'[t]) = {q \in Live : p_semAdd'[q] = t}
             /\ IsInjective(asl'[t])
  <2>1. ToSet(asl[t]) = {q \in Live : p_semAdd[q] = t} /\ IsInjective(asl[t])
    BY DEF EveryProcessPlaced, AslSound
  <2>2. CASE t = s
    <3>1. /\ ToSet(Append(asl[t], p)) = ToSet(asl[t]) \cup {p}
          /\ IsInjective(Append(asl[t], p))
      BY <1>1, <1>2, <1>3, <2>1, AppendQueue
    <3>2. asl'[t] = Append(asl[t], p)
      BY <1>2, <2>2
    <3> QED
      BY <1>1, <1>2, <2>1, <2>2, <3>1, <3>2
  <2>3. CASE t # s
    BY <1>1, <1>2, <2>1, <2>3
  <2> QED
    BY <2>2, <2>3
<1>5. Runnable' = Runnable \ {p}
  BY <1>1, <1>2 DEF Runnable
<1> QED
  BY <1>1, <1>4, <1>5 DEF AslSound

\* Waking the first process of a queue makes it runnable.
LEMMA WakePlaces ==
    ASSUME Typed, EveryProcessPlaced, UNCHANGED pcbFree,
           NEW s \in Semaphore, asl[s] # <<>>, removeBlocked(s)
    PROVE  /\ AslSound'
           /\ Runnable' = Runnable \cup {Head(asl[s])}
           /\ Head(asl[s]) \in PCB /\ Head(asl[s]) \notin Runnable
           /\ p_semAdd[Head(asl[s])] = s
<1> USE Addresses
<1> DEFINE p == Head(asl[s])
<1>1. /\ p_semAdd \in [PCB -> Semaphore \cup {NULL}] /\ asl \in [Semaphore -> Seq(PCB)]
      /\ p_semAdd' = [q \in PCB |-> IF q = p THEN NULL ELSE p_semAdd[q]]
      /\ asl' = [asl EXCEPT ![s] = Tail(@)]
      /\ Live' = Live /\ Live \subseteq PCB
  BY DEF Typed, removeBlocked, unblock, Live
<1>2. \A t \in Semaphore : ToSet(asl[t]) = {q \in Live : p_semAdd[q] = t} /\ IsInjective(asl[t])
  BY DEF EveryProcessPlaced, AslSound
<1>3. /\ p \in PCB /\ p \in ToSet(asl[s])
      /\ ToSet(Tail(asl[s])) = ToSet(asl[s]) \ {p} /\ IsInjective(Tail(asl[s]))
  BY <1>1, <1>2, TailQueue
<1> HIDE DEF p
<1>4. p \in Live /\ p_semAdd[p] = s
  BY <1>2, <1>3
<1>5. ASSUME NEW t \in Semaphore
      PROVE  /\ ToSet(asl'[t]) = {q \in Live : p_semAdd'[q] = t}
             /\ IsInjective(asl'[t])
  <2>1. CASE t = s
    <3>1. asl'[t] = Tail(asl[s])
      BY <1>1, <2>1
    <3> QED
      BY <1>1, <1>2, <1>3, <1>4, <2>1, <3>1
  <2>2. CASE t # s
    BY <1>1, <1>2, <1>4, <2>2
  <2> QED
    BY <2>1, <2>2
<1>6. Runnable' = Runnable \cup {p} /\ p \notin Runnable
  BY <1>1, <1>4 DEF Runnable
<1> QED
  BY <1>1, <1>3, <1>4, <1>5, <1>6 DEF AslSound, p

\* A step that moves no pcb.
LEMMA NobodyMoves ==
    ASSUME EveryProcessPlaced,
           UNCHANGED <<pcbFree, p_semAdd, asl, readyQueue, currentProcess>>
    PROVE  EveryProcessPlaced'
BY DEF EveryProcessPlaced, CurrentSound, ReadyQueueSound, AslSound, Live

\* terminateSelf takes its victim out of the one place it is in.
LEMMA TerminateSelfPlaces ==
    ASSUME Typed, ModeSound, EveryProcessPlaced, StackSound,
           terminating # <<>>, terminateSelf(terminating[Len(terminating)])
    PROVE  EveryProcessPlaced'
<1> USE Addresses
<1> DEFINE p == terminating[Len(terminating)]
<1>0. terminating \in Seq(PCB) /\ Len(terminating) \in Nat /\ Len(terminating) > 0
  BY EmptySeq DEF Typed
<1>1. Len(terminating) \in DOMAIN terminating /\ 1 \in DOMAIN terminating
  BY <1>0
<1>2. /\ p \in Live /\ currentProcess = terminating[1]
      /\ currentProcess \in Live
      /\ Len(terminating) = 1 <=> p = currentProcess
  <2>1. currentProcess = terminating[1]
    BY DEF StackSound
  <2>2. p \in Live /\ terminating[1] \in Live
    BY <1>1 DEF StackSound
  <2>3. Len(terminating) > 1 => p # currentProcess
    BY <1>1 DEF StackSound
  <2>4. Len(terminating) = 1 => p = terminating[1]
    OBVIOUS
  <2>5. \A n \in Nat : n > 0 => (n = 1 <=> ~(n > 1))
    OBVIOUS
  <2>6. Len(terminating) = 1 <=> ~(Len(terminating) > 1)
    BY <1>0, <2>5, Zenon
  <2> HIDE DEF p
  <2> QED
    BY <2>1, <2>2, <2>3, <2>4, <2>5, <2>6
<1>3. /\ pcbFree' = pcbFree \cup {p} /\ p_semAdd' = p_semAdd
      /\ \/ /\ p = currentProcess /\ asl' = asl
            /\ IF Len(terminating) = 1 THEN scheduler(readyQueue) ELSE resume(readyQueue)
         \/ /\ p # currentProcess /\ p_semAdd[p] # NULL /\ outBlocked(p)
            /\ IF Len(terminating) = 1 THEN scheduler(readyQueue) ELSE resume(readyQueue)
         \/ /\ p # currentProcess /\ p_semAdd[p] = NULL /\ asl' = asl
            /\ IF Len(terminating) = 1 THEN scheduler(outProcQ(readyQueue, p))
                                       ELSE resume(outProcQ(readyQueue, p))
  BY DEF terminateSelf
<1> HIDE DEF p
<1>4. /\ p \in PCB /\ Live' = Live \ {p} /\ Live \subseteq PCB
      /\ p_semAdd \in [PCB -> Semaphore \cup {NULL}]
      /\ asl \in [Semaphore -> Seq(PCB)] /\ readyQueue \in Seq(PCB)
  BY <1>2, <1>3 DEF Live, Typed
<1>5. /\ p_semAdd[currentProcess] = NULL
      /\ ToSet(readyQueue) = Runnable \ {currentProcess} /\ IsInjective(readyQueue)
      /\ \A s \in Semaphore : ToSet(asl[s]) = {q \in Live : p_semAdd[q] = s} /\ IsInjective(asl[s])
  BY <1>2, <1>4 DEF EveryProcessPlaced, CurrentSound, ReadyQueueSound, AslSound, Runnable
<1>6. Runnable' = Runnable \ {p} /\ currentProcess \in Runnable
  BY <1>2, <1>3, <1>4, <1>5 DEF Runnable
<1>7. CASE p = currentProcess
  <2>1. asl' = asl /\ scheduler(readyQueue)
    BY <1>2, <1>3, <1>7
  <2>2. AslSound'
    BY <1>3, <1>4, <1>5, <1>7, <2>1 DEF AslSound
  <2>3. CurrentSound' /\ ReadyQueueSound'
    BY <1>4, <1>5, <1>6, <1>7, <2>1, SchedulerPlaces
  <2> QED
    BY <2>2, <2>3 DEF EveryProcessPlaced
<1>8. CASE p # currentProcess /\ p_semAdd[p] # NULL
  <2>1. outBlocked(p) /\ resume(readyQueue)
    BY <1>2, <1>3, <1>8
  <2> DEFINE s == p_semAdd[p]
  <2>2. s \in Semaphore /\ asl' = [asl EXCEPT ![s] = outProcQ(@, p)]
    BY <1>4, <1>8, <2>1 DEF outBlocked
  <2>3. /\ IsInjective(outProcQ(asl[s], p)) /\ ToSet(outProcQ(asl[s], p)) = ToSet(asl[s]) \ {p}
    BY <1>4, <1>5, <2>2, OutProcQ
  <2>4. ASSUME NEW t \in Semaphore
        PROVE  /\ ToSet(asl'[t]) = {q \in Live' : p_semAdd'[q] = t}
               /\ IsInjective(asl'[t])
    <3>1. CASE t = s
      <4>1. asl'[t] = outProcQ(asl[s], p)
        BY <1>4, <2>2, <3>1
      <4> QED
        BY <1>3, <1>4, <1>5, <2>2, <2>3, <3>1, <4>1
    <3>2. CASE t # s
      BY <1>3, <1>4, <1>5, <2>2, <3>2
    <3> QED
      BY <3>1, <3>2
  <2>5. AslSound'
    BY <2>4 DEF AslSound
  <2>6. Runnable' = Runnable
    BY <1>6, <1>8 DEF Runnable
  <2>7. CurrentSound' /\ ReadyQueueSound'
    BY <1>5, <1>6, <2>1, <2>6, ResumePlaces
  <2> QED
    BY <2>5, <2>7 DEF EveryProcessPlaced
<1>9. CASE p # currentProcess /\ p_semAdd[p] = NULL
  <2>1. asl' = asl /\ resume(outProcQ(readyQueue, p))
    BY <1>2, <1>3, <1>9
  <2>2. AslSound'
    BY <1>3, <1>4, <1>5, <1>9, <2>1 DEF AslSound
  <2>3. /\ IsInjective(outProcQ(readyQueue, p))
        /\ ToSet(outProcQ(readyQueue, p)) = ToSet(readyQueue) \ {p}
    BY <1>4, <1>5, OutProcQ
  <2>4. CurrentSound' /\ ReadyQueueSound'
    BY <1>5, <1>6, <1>9, <2>1, <2>3, ResumePlaces
  <2> QED
    BY <2>2, <2>4 DEF EveryProcessPlaced
<1> QED
  BY <1>7, <1>8, <1>9

\* Every step of the nucleus and of the machine leaves each process in exactly
\* one place.
LEMMA PlacedStep ==
    ASSUME Typed, ModeSound, EveryProcessPlaced, StackSound, Next
    PROVE  EveryProcessPlaced'
<1> USE Addresses
<1>a. /\ readyQueue \in Seq(PCB) /\ asl \in [Semaphore -> Seq(PCB)]
      /\ p_semAdd \in [PCB -> Semaphore \cup {NULL}]
      /\ Live \subseteq PCB /\ Runnable \subseteq Live /\ pcbFree \subseteq PCB
  BY DEF Typed, Live, Runnable
<1>b. /\ currentProcess # NULL => currentProcess \in Runnable
      /\ ToSet(readyQueue) = Runnable \ {currentProcess} /\ IsInjective(readyQueue)
  BY DEF EveryProcessPlaced, CurrentSound, ReadyQueueSound, Runnable
<1>c. Executing => currentProcess \in Runnable
  BY <1>b DEF Executing, ModeSound
<1>1. ASSUME Executing, NEW support \in BOOLEAN, createProcess(support)
      PROVE  EveryProcessPlaced'
  <2>1. CASE pcbFree = {}
    BY <1>1, <2>1, NobodyMoves DEF createProcess, resume
  <2>2. ASSUME NEW p \in pcbFree, pcbFree' = pcbFree \ {p},
               p_semAdd' = [p_semAdd EXCEPT ![p] = NULL], asl' = asl,
               resume(insertProcQ(readyQueue, p))
        PROVE  EveryProcessPlaced'
    <3>1. p \in PCB /\ p \notin Live /\ Live' = Live \cup {p}
      BY <1>a, <2>2 DEF Live
    <3>2. Runnable' = Runnable \cup {p} /\ p \notin Runnable /\ p # currentProcess
      BY <1>1, <1>a, <1>c, <2>2, <3>1 DEF Runnable
    <3>3. AslSound'
      BY <1>a, <2>2, <3>1 DEF EveryProcessPlaced, AslSound
    <3>4. /\ ToSet(insertProcQ(readyQueue, p)) = ToSet(readyQueue) \cup {p}
          /\ IsInjective(insertProcQ(readyQueue, p))
      BY <1>a, <1>b, <3>1, <3>2, AppendQueue DEF insertProcQ
    <3>5. CurrentSound' /\ ReadyQueueSound'
      BY <1>b, <2>2, <3>2, <3>4, ResumePlaces
    <3> QED
      BY <3>3, <3>5 DEF EveryProcessPlaced
  <2> QED
    BY <1>1, <2>1, <2>2 DEF createProcess
<1>2. CASE terminateCurrent
  BY <1>2, NobodyMoves DEF terminateCurrent, blocking, dispatch
<1>3. ASSUME Executing, NEW s \in Semaphore, blockCurrentProcessHelper(s), UNCHANGED pcbFree
      PROVE  EveryProcessPlaced'
  <2>1. insertBlocked(s, currentProcess) /\ scheduler(readyQueue)
    BY <1>3 DEF blockCurrentProcessHelper
  <2>2. AslSound' /\ Runnable' = Runnable \ {currentProcess}
    BY <1>3, <1>c, <2>1, BlockPlaces
  <2>3. CurrentSound' /\ ReadyQueueSound'
    BY <1>a, <1>b, <2>1, <2>2, SchedulerPlaces
  <2> QED
    BY <2>2, <2>3 DEF EveryProcessPlaced
<1>4. ASSUME resume(readyQueue), UNCHANGED blocking, UNCHANGED pcbFree
      PROVE  EveryProcessPlaced'
  BY <1>4, NobodyMoves DEF resume, blocking
<1>5. ASSUME NEW s \in USERSEM, Executing, passeren(s)
      PROVE  EveryProcessPlaced'
  BY <1>3, <1>4, <1>5 DEF passeren
<1>6. ASSUME NEW rq \in Seq(PCB), returnFromInterrupt(rq), IsInjective(rq),
             ToSet(rq) = Runnable' \ {currentProcess}, Runnable \subseteq Runnable',
             AslSound'
      PROVE  EveryProcessPlaced'
  <2>1. CASE currentProcess # NULL /\ resume(rq)
    BY <1>6, <1>b, <2>1, ResumePlaces DEF EveryProcessPlaced
  <2>2. CASE currentProcess = NULL /\ scheduler(rq)
    <3>1. NULL \notin Runnable'
      BY DEF Runnable, Live
    <3>2. ToSet(rq) = Runnable'
      BY <1>6, <2>2, <3>1
    <3> QED
      BY <1>6, <2>2, <3>2, SchedulerPlaces DEF EveryProcessPlaced
  <2> QED
    BY <1>6, <2>1, <2>2 DEF returnFromInterrupt
<1>7. ASSUME NEW s \in Semaphore, asl[s] # <<>>, removeBlocked(s), UNCHANGED pcbFree
      PROVE  LET rq == insertProcQ(readyQueue, Head(asl[s]))
             IN /\ AslSound' /\ Runnable \subseteq Runnable'
                /\ rq \in Seq(PCB) /\ IsInjective(rq)
                /\ ToSet(rq) = Runnable' \ {currentProcess}
  <2> DEFINE p == Head(asl[s])
  <2>1. AslSound' /\ Runnable' = Runnable \cup {p} /\ p \in PCB /\ p \notin Runnable
    BY <1>7, WakePlaces
  <2>2. p # currentProcess
    BY <1>b, <2>1
  <2> HIDE DEF p
  <2>3. /\ Append(readyQueue, p) \in Seq(PCB) /\ IsInjective(Append(readyQueue, p))
        /\ ToSet(Append(readyQueue, p)) = ToSet(readyQueue) \cup {p}
    BY <1>a, <1>b, <2>1, AppendQueue
  <2> QED
    BY <1>b, <2>1, <2>2, <2>3 DEF insertProcQ, p
<1>8. ASSUME NEW s \in USERSEM, Executing, verhogen(s)
      PROVE  EveryProcessPlaced'
  <2>1. CASE asl[s] # <<>> /\ removeBlocked(s) /\ resume(insertProcQ(readyQueue, Head(asl[s])))
    <3>1. UNCHANGED pcbFree /\ currentProcess # NULL
      BY <1>8, <1>a, <1>c DEF verhogen
    <3> QED
      BY <1>6, <1>7, <2>1, <3>1 DEF returnFromInterrupt
  <2>2. CASE resume(readyQueue) /\ UNCHANGED blocking
    BY <1>4, <1>8, <2>2 DEF verhogen
  <2> QED
    BY <1>8, <2>1, <2>2 DEF verhogen
<1>9. ASSUME NEW d \in DEVICE, Executing, waitForIO(d)
      PROVE  EveryProcessPlaced'
  BY <1>3, <1>4, <1>9 DEF waitForIO
<1>10. ASSUME Executing, waitForClock
       PROVE  EveryProcessPlaced'
  BY <1>3, <1>4, <1>10 DEF waitForClock
<1>11. CASE returnToCaller
  BY <1>4, <1>11 DEF returnToCaller
<1>12. CASE passUpOrDie
  BY <1>2, <1>12, NobodyMoves DEF passUpOrDie, blocking
<1>13. CASE systemTrapHandler
  BY <1>13, <1>1, <1>2, <1>5, <1>8, <1>9, <1>10, <1>11, <1>12
  DEF systemTrapHandler, getCPUTime, getSupportData
<1>14. CASE programTrapHandler
  BY <1>14, <1>12 DEF programTrapHandler
<1>15. CASE terminateProcess
  <2>1. CASE terminateChild
    BY <2>1, NobodyMoves DEF terminateChild, blocking, dispatch
  <2> QED
    BY <1>15, <2>1, TerminateSelfPlaces DEF terminateProcess
<1>16. CASE PLTInterruptHandler
  <2>0. UNCHANGED <<pcbFree, blocking>>
    BY <1>16 DEF PLTInterruptHandler
  <2>1. CASE currentProcess # NULL /\ scheduler(insertProcQ(readyQueue, currentProcess))
    <3>1. /\ insertProcQ(readyQueue, currentProcess) \in Seq(PCB)
          /\ ToSet(insertProcQ(readyQueue, currentProcess)) = Runnable
          /\ IsInjective(insertProcQ(readyQueue, currentProcess))
      <4>1. /\ currentProcess \in PCB /\ currentProcess \in Runnable
            /\ currentProcess \notin ToSet(readyQueue)
        BY <1>a, <1>b, <2>1
      <4>2. /\ Append(readyQueue, currentProcess) \in Seq(PCB)
            /\ ToSet(Append(readyQueue, currentProcess)) = ToSet(readyQueue) \cup {currentProcess}
            /\ IsInjective(Append(readyQueue, currentProcess))
        BY <1>a, <1>b, <4>1, AppendQueue
      <4> QED
        BY <1>b, <4>1, <4>2 DEF insertProcQ
    <3>2. Runnable' = Runnable /\ AslSound'
      BY <2>0 DEF Runnable, Live, blocking, EveryProcessPlaced, AslSound
    <3> QED
      BY <2>1, <3>1, <3>2, SchedulerPlaces DEF EveryProcessPlaced
  <2>2. CASE UNCHANGED <<readyQueue, currentProcess, plt>>
    BY <2>0, <2>2, NobodyMoves DEF blocking
  <2> QED
    BY <1>16, <2>1, <2>2 DEF PLTInterruptHandler
<1>17. CASE intervalTimerInterruptHandler
  <2> DEFINE woken == asl[CLOCK_INDEX]
  <2>1. /\ pcbFree' = pcbFree
        /\ asl' = [asl EXCEPT ![CLOCK_INDEX] = <<>>]
        /\ p_semAdd' = [p \in PCB |-> IF p \in ToSet(woken) THEN NULL ELSE p_semAdd[p]]
        /\ returnFromInterrupt(readyQueue \o woken)
    BY <1>17 DEF intervalTimerInterruptHandler, unblock
  <2>2. \A s \in Semaphore : ToSet(asl[s]) = {p \in Live : p_semAdd[p] = s} /\ IsInjective(asl[s])
    BY DEF EveryProcessPlaced, AslSound
  <2>3. woken \in Seq(PCB) /\ IsInjective(woken) /\ ToSet(woken) = {p \in Live : p_semAdd[p] = CLOCK_INDEX}
    BY <1>a, <2>2
  <2> HIDE DEF woken
  <2>4. Live' = Live /\ Runnable' = Runnable \cup ToSet(woken) /\ ToSet(woken) \cap Runnable = {}
    BY <1>a, <2>1, <2>3 DEF Live, Runnable
  <2>5. ASSUME NEW s \in Semaphore
        PROVE  ToSet(asl'[s]) = {p \in Live' : p_semAdd'[p] = s} /\ IsInjective(asl'[s])
    <3>1. CASE s = CLOCK_INDEX
      <4>1. asl'[s] = <<>> /\ ToSet(<<>>) = {} /\ IsInjective(<<>>)
        BY <1>a, <2>1, <3>1, NoMember
      <4>2. {p \in Live' : p_semAdd'[p] = s} = {}
        BY <1>a, <2>1, <2>3, <2>4, <3>1
      <4> QED
        BY <4>1, <4>2
    <3>2. CASE s # CLOCK_INDEX
      BY <1>a, <2>1, <2>2, <2>3, <2>4, <3>2
    <3> QED
      BY <3>1, <3>2
  <2>6. /\ readyQueue \o woken \in Seq(PCB) /\ IsInjective(readyQueue \o woken)
        /\ ToSet(readyQueue \o woken) = ToSet(readyQueue) \cup ToSet(woken)
    <3>1. ToSet(readyQueue) \cap ToSet(woken) = {}
      BY <1>b, <2>4
    <3> QED
      BY <1>a, <1>b, <2>3, <3>1, ConcatQueue
  <2>7. ToSet(readyQueue \o woken) = Runnable' \ {currentProcess}
    <3>1. currentProcess \notin ToSet(woken)
      <4>1. CASE currentProcess = NULL
        BY <1>a, <2>3, <4>1
      <4>2. CASE currentProcess # NULL
        BY <1>b, <2>4, <4>2
      <4> QED
        BY <4>1, <4>2
    <3> QED
      BY <1>b, <2>4, <2>6, <3>1
  <2>8. AslSound'
    BY <2>5 DEF AslSound
  <2> QED
    BY <1>6, <2>1, <2>4, <2>6, <2>7, <2>8
<1>18. CASE nonTimerInterruptHandler
  <2>1. PICK d \in DEVICE :
          \/ /\ asl[d] # <<>> /\ removeBlocked(d)
             /\ returnFromInterrupt(insertProcQ(readyQueue, Head(asl[d])))
          \/ UNCHANGED <<blocking, softBlockedCount>> /\ returnFromInterrupt(readyQueue)
    BY <1>18 DEF nonTimerInterruptHandler
  <2>2. UNCHANGED pcbFree
    BY <1>18 DEF nonTimerInterruptHandler
  <2>3. CASE asl[d] # <<>> /\ removeBlocked(d)
             /\ returnFromInterrupt(insertProcQ(readyQueue, Head(asl[d])))
    BY <1>6, <1>7, <2>2, <2>3
  <2>4. CASE UNCHANGED <<blocking, softBlockedCount>> /\ returnFromInterrupt(readyQueue)
    <3>1. Runnable' = Runnable /\ AslSound'
      BY <2>2, <2>4 DEF Runnable, Live, blocking, EveryProcessPlaced, AslSound
    <3> QED
      BY <1>6, <1>a, <1>b, <2>4, <3>1
  <2> QED
    BY <2>1, <2>3, <2>4
<1>19. CASE \/ PltExpires \/ IntervalTimerExpires \/ StayStopped
            \/ \E d \in DEVICE : StartDevice(d) \/ DeviceCompletes(d)
  BY <1>19, NobodyMoves DEF PltExpires, IntervalTimerExpires, StartDevice, DeviceCompletes,
     StayStopped, vars, nucleusState, blocking, dispatch
<1> QED
  BY <1>13, <1>14, <1>15, <1>16, <1>17, <1>18, <1>19 DEF Next

-----------------------------------------------------------------------------
(* The recursive terminateProcess kills a tree of distinct live processes;  *)
(* with it, the invariant of the nucleus is inductive.                      *)

Family == TreeSound /\ StackSound /\ Ranked(Nat)

-----------------------------------------------------------------------------

\* A step that neither touches the tree nor moves the CPU under a termination.
LEMMA FamilyStays ==
    ASSUME Typed, Family, UNCHANGED <<pcbFree, tree, terminating>>,
           terminating = <<>> \/ UNCHANGED <<currentProcess, cpu>>
    PROVE  Family'
<1>1. TreeSound'
  BY DEF Family, TreeSound, tree, Live
<1>2. StackSound'
  <2>1. CASE terminating = <<>>
    <3>1. terminating' = <<>> /\ DOMAIN <<>> = {} /\ IsInjective(<<>>)
      BY <2>1, EmptyQueue
    <3> QED
      BY <3>1 DEF StackSound
  <2>2. CASE UNCHANGED <<currentProcess, cpu>>
    BY <2>2 DEF Family, StackSound, tree, Live
  <2> QED
    BY <2>1, <2>2
<1>3. Ranked(Nat)'
  BY DEF Family, Ranked, tree
<1> QED
  BY <1>1, <1>2, <1>3 DEF Family

\* SYS1 hangs a leaf under the current process.
LEMMA FamilyGrows ==
    ASSUME Typed, Family, NEW p \in pcbFree, currentProcess \in Live,
           terminating = <<>>, UNCHANGED terminating,
           pcbFree' = pcbFree \ {p},
           p_prnt' = [p_prnt EXCEPT ![p] = currentProcess],
           p_child' = [p_child EXCEPT ![p] = <<>>, ![currentProcess] = <<p>> \o @]
    PROVE  Family'
<1> USE Addresses
<1> DEFINE cur == currentProcess
<1>1. /\ p \in PCB /\ cur \in PCB /\ p # cur /\ p \notin Live /\ cur \notin pcbFree
      /\ Live' = Live \cup {p} /\ Live \subseteq PCB /\ pcbFree \subseteq PCB
      /\ p_prnt \in [PCB -> PCB \cup {NULL}] /\ p_child \in [PCB -> Seq(PCB)]
  BY DEF Typed, Live
<1>2. /\ \A q \in PCB : /\ ToSet(p_child[q]) = {c \in Live : p_prnt[c] = q}
                        /\ IsInjective(p_child[q])
      /\ \A q \in pcbFree : p_child[q] = <<>> /\ p_prnt[q] = NULL
  BY DEF Family, TreeSound
<1>3. /\ p_child'[cur] = <<p>> \o p_child[cur]
      /\ \A q \in PCB : q # cur => p_child'[q] = p_child[q]
  BY <1>1, <1>2
<1>4. \A q \in PCB : p_prnt'[q] = IF q = p THEN cur ELSE p_prnt[q]
  BY <1>1
<1>5. /\ ToSet(<<p>> \o p_child[cur]) = ToSet(p_child[cur]) \cup {p}
      /\ IsInjective(<<p>> \o p_child[cur])
  <2>1. p \notin ToSet(p_child[cur])
    BY <1>1, <1>2
  <2> QED
    BY <1>1, <1>2, <2>1, ConsQueue
<1> HIDE DEF cur
<1>6. ASSUME NEW q \in PCB
      PROVE  ToSet(p_child'[q]) = {c \in Live' : p_prnt'[c] = q} /\ IsInjective(p_child'[q])
  <2>1. CASE q = cur
    <3>1. ToSet(p_child'[q]) = {c \in Live : p_prnt[c] = q} \cup {p} /\ IsInjective(p_child'[q])
      BY <1>1, <1>2, <1>3, <1>5, <2>1
    <3>2. {c \in Live' : p_prnt'[c] = q} = {c \in Live : p_prnt[c] = q} \cup {p}
      BY <1>1, <1>4, <2>1
    <3> QED
      BY <3>1, <3>2
  <2>2. CASE q # cur
    <3>1. ToSet(p_child'[q]) = {c \in Live : p_prnt[c] = q} /\ IsInjective(p_child'[q])
      BY <1>2, <1>3, <2>2
    <3>2. {c \in Live' : p_prnt'[c] = q} = {c \in Live : p_prnt[c] = q}
      BY <1>1, <1>4, <2>2
    <3> QED
      BY <3>1, <3>2
  <2> QED
    BY <2>1, <2>2
<1>7. \A q \in pcbFree' : p_child'[q] = <<>> /\ p_prnt'[q] = NULL
  BY <1>1, <1>2, <1>3, <1>4
<1>8. TreeSound'
  BY <1>6, <1>7 DEF TreeSound
<1>9. terminating' = <<>> /\ DOMAIN <<>> = {} /\ IsInjective(<<>>)
  BY EmptyQueue
<1>10. StackSound'
  BY <1>9 DEF StackSound
<1>11. Ranked(Nat)'
  <2>1. PICK rank \in [PCB -> Nat] : \A q \in PCB : p_prnt[q] # NULL => rank[p_prnt[q]] < rank[q]
    BY DEF Family, Ranked
  <2> DEFINE new == [rank EXCEPT ![p] = rank[cur] + 1]
  <2>2. new \in [PCB -> Nat]
    BY <1>1, <2>1
  <2>3. \A q \in PCB : p_prnt[q] # p
    <3> SUFFICES ASSUME NEW q \in PCB, p_prnt[q] = p PROVE FALSE
      OBVIOUS
    <3>1. q \notin pcbFree
      BY <1>1, <1>2
    <3>2. q \in ToSet(p_child[p])
      BY <1>1, <1>2, <3>1 DEF Live
    <3>3. ToSet(p_child[p]) = {}
      BY <1>2, EmptyQueue
    <3> QED
      BY <3>2, <3>3
  <2>4. ASSUME NEW q \in PCB, p_prnt'[q] # NULL PROVE new[p_prnt'[q]] < new[q]
    <3>1. CASE q = p
      BY <1>1, <1>4, <2>1, <3>1
    <3>2. CASE q # p
      <4>1. p_prnt'[q] = p_prnt[q] /\ p_prnt[q] \in PCB /\ p_prnt[q] # p
        BY <1>1, <1>4, <2>3, <2>4, <3>2
      <4> QED
        BY <2>1, <2>4, <3>2, <4>1
    <3> QED
      BY <3>1, <3>2
  <2> HIDE DEF new
  <2> QED
    BY <1>9, <2>2, <2>4 DEF Ranked
<1> QED
  BY <1>8, <1>10, <1>11 DEF Family

\* SYS2 starts with the current process.
LEMMA FamilyDoomed ==
    ASSUME Typed, Family, currentProcess \in Live, cpu = "process",
           UNCHANGED <<pcbFree, tree, currentProcess, cpu>>,
           terminating' = <<currentProcess>>
    PROVE  Family'
<1>1. TreeSound'
  BY DEF Family, TreeSound, tree, Live
<1>2. DOMAIN terminating' = {1} /\ terminating'[1] = currentProcess
  OBVIOUS
<1>3. StackSound'
  <2>1. IsInjective(terminating')
    BY <1>2 DEF IsInjective
  <2>2. Live' = Live
    BY DEF Live
  <2> QED
    BY <1>2, <2>1, <2>2 DEF StackSound
<1>4. Ranked(Nat)'
  BY <1>2 DEF Family, Ranked, tree
<1> QED
  BY <1>1, <1>3, <1>4 DEF Family

\* A call for the first child: the child is alive, off the stack and not the
\* current process, because ranks grow along the stack and down the tree.
LEMMA FamilyDescends ==
    ASSUME Typed, Family, terminateChild
    PROVE  Family'
<1> USE Addresses
<1> DEFINE n == Len(terminating)
           p == terminating[n]
           c == Head(p_child[p])
<1>0. terminating \in Seq(PCB) /\ terminating # <<>>
  BY DEF Typed, terminateChild
<1>1. n \in Nat /\ n > 0 /\ DOMAIN terminating = 1 .. n /\ n \in 1 .. n /\ 1 \in 1 .. n
  BY <1>0, EmptySeq
<1>2. /\ p_child[p] # <<>>
      /\ p_child' = [p_child EXCEPT ![p] = Tail(@)]
      /\ p_prnt' = [p_prnt EXCEPT ![c] = NULL]
      /\ terminating' = Append(terminating, c)
      /\ UNCHANGED <<pcbFree, currentProcess, cpu>>
  BY DEF terminateChild, dispatch
<1>3. /\ p_prnt \in [PCB -> PCB \cup {NULL}] /\ p_child \in [PCB -> Seq(PCB)]
      /\ pcbFree \subseteq PCB /\ Live \subseteq PCB /\ Live' = Live
  BY <1>2 DEF Typed, Live
<1>4. /\ cpu = "process" /\ terminating[1] = currentProcess /\ IsInjective(terminating)
      /\ \A i \in 1 .. n :
           /\ terminating[i] \in Live
           /\ i > 1 => p_prnt[terminating[i]] = NULL /\ terminating[i] # currentProcess
  BY <1>0, <1>1 DEF Family, StackSound
<1>5. p \in Live
  BY <1>1, <1>4
<1>6. /\ \A q \in PCB : /\ ToSet(p_child[q]) = {d \in Live : p_prnt[d] = q}
                        /\ IsInjective(p_child[q])
      /\ \A q \in pcbFree : p_child[q] = <<>> /\ p_prnt[q] = NULL
  BY DEF Family, TreeSound
<1>7. /\ c \in ToSet(p_child[p]) /\ IsInjective(Tail(p_child[p]))
      /\ ToSet(Tail(p_child[p])) = ToSet(p_child[p]) \ {c}
  BY <1>2, <1>3, <1>5, <1>6, TailQueue
<1>8. PICK rank \in [PCB -> Nat] :
        /\ \A q \in PCB : p_prnt[q] # NULL => rank[p_prnt[q]] < rank[q]
        /\ \A i, j \in 1 .. n : i < j => rank[terminating[i]] < rank[terminating[j]]
  BY <1>1 DEF Family, Ranked
<1>9. \A i \in 1 .. n : i # n => rank[terminating[i]] < rank[p]
  <2>1. \A m \in Nat : \A i \in 1 .. m : i # m => i < m
    OBVIOUS
  <2> QED
    BY <1>1, <1>8, <2>1, Zenon
<1>10. DOMAIN terminating' = 1 .. n + 1 /\ terminating'[n + 1] = c
  BY <1>0, <1>2
<1>11. \A i \in 1 .. n : terminating'[i] = terminating[i]
  BY <1>0, <1>2
<1>12. terminating \in Seq(PCB) /\ Append(terminating, c) \in Seq(PCB)
  <2>1. c \in PCB
    BY <1>3, <1>6, <1>7, <1>5
  <2> QED
    BY <1>0, <2>1, AppendQueue
<1> HIDE DEF n, p, c
<1>13. c \in Live /\ p_prnt[c] = p /\ p_prnt[c] # NULL /\ c \in PCB /\ p \in PCB
  BY <1>3, <1>5, <1>6, <1>7
<1>14. rank[p] < rank[c]
  BY <1>8, <1>13
<1>15. \A i \in 1 .. n : rank[terminating[i]] < rank[c] /\ terminating[i] # c
  <2> SUFFICES ASSUME NEW i \in 1 .. n
               PROVE  rank[terminating[i]] < rank[c] /\ terminating[i] # c
    OBVIOUS
  <2>1. /\ rank[terminating[i]] \in Nat /\ rank[p] \in Nat /\ rank[c] \in Nat
    BY <1>3, <1>4, <1>8, <1>13
  <2>2. CASE i = n
    BY <1>14, <2>1, <2>2 DEF p
  <2>3. CASE i # n
    BY <1>9, <1>14, <2>1, <2>3
  <2> QED
    BY <2>2, <2>3
<1>16. c # currentProcess
  BY <1>1, <1>4, <1>15
<1>17. ASSUME NEW q \in PCB
       PROVE  ToSet(p_child'[q]) = {d \in Live' : p_prnt'[d] = q} /\ IsInjective(p_child'[q])
  <2>1. CASE q = p
    <3>1. p_child'[q] = Tail(p_child[p])
      BY <1>2, <1>3, <2>1
    <3> QED
      BY <1>2, <1>3, <1>6, <1>7, <1>13, <2>1, <3>1
  <2>2. CASE q # p
    BY <1>2, <1>3, <1>6, <1>13, <2>2
  <2> QED
    BY <2>1, <2>2
<1>18. \A q \in pcbFree' : p_child'[q] = <<>> /\ p_prnt'[q] = NULL
  BY <1>2, <1>3, <1>5, <1>6, <1>13 DEF Live
<1>19. TreeSound'
  BY <1>17, <1>18 DEF TreeSound
<1>20. ASSUME NEW i \in 1 .. n + 1
       PROVE  /\ terminating'[i] \in Live'
              /\ i > 1 => p_prnt'[terminating'[i]] = NULL /\ terminating'[i] # currentProcess'
  <2>1. CASE i = n + 1
    BY <1>2, <1>3, <1>10, <1>13, <1>16, <2>1
  <2>2. CASE i # n + 1
    <3>1. i \in 1 .. n
      BY <1>1, <2>2
    <3> QED
      BY <1>2, <1>3, <1>4, <1>11, <1>15, <3>1
  <2> QED
    BY <2>1, <2>2
<1>21. IsInjective(terminating')
  <2>1. c \notin ToSet(terminating)
    BY <1>0, <1>15, InQueue DEF n
  <2> QED
    BY <1>2, <1>4, <1>12, <1>13, <2>1, AppendQueue
<1>22. StackSound'
  <2>1. terminating'[1] = currentProcess'
    BY <1>1, <1>2, <1>4, <1>11
  <2> QED
    BY <1>2, <1>4, <1>10, <1>20, <1>21, <2>1 DEF StackSound
<1>23. Ranked(Nat)'
  <2>1. \A q \in PCB : p_prnt'[q] # NULL => rank[p_prnt'[q]] < rank[q]
    BY <1>2, <1>3, <1>8
  <2>2. ASSUME NEW i \in 1 .. n + 1, NEW j \in 1 .. n + 1, i < j
        PROVE  rank[terminating'[i]] < rank[terminating'[j]]
    <3>1. i \in 1 .. n
      BY <1>1, <2>2
    <3>2. CASE j = n + 1
      BY <1>10, <1>11, <1>15, <3>1, <3>2
    <3>3. CASE j # n + 1
      <4>1. j \in 1 .. n
        BY <1>1, <3>3
      <4> QED
        BY <1>8, <1>11, <2>2, <3>1, <4>1
    <3> QED
      BY <3>2, <3>3
  <2> QED
    BY <1>8, <1>10, <2>1, <2>2 DEF Ranked
<1> QED
  BY <1>19, <1>22, <1>23 DEF Family

\* The end of a call: a pcb without children leaves its parent and is freed.
LEMMA FamilyShrinks ==
    ASSUME Typed, Family, terminating # <<>>,
           p_child[terminating[Len(terminating)]] = <<>>,
           terminateSelf(terminating[Len(terminating)])
    PROVE  Family'
<1> USE Addresses
<1> DEFINE n == Len(terminating)
           p == terminating[n]
<1>0. terminating \in Seq(PCB) /\ terminating # <<>>
  BY DEF Typed
<1>1. n \in Nat /\ n > 0 /\ DOMAIN terminating = 1 .. n /\ n \in 1 .. n /\ 1 \in 1 .. n
  BY <1>0, EmptySeq
<1>2. /\ pcbFree' = pcbFree \cup {p}
      /\ terminating' = SubSeq(terminating, 1, n - 1)
      /\ \/ p = currentProcess /\ outChild(p)
         \/ p # currentProcess /\ UNCHANGED tree
      /\ n # 1 => UNCHANGED <<currentProcess, cpu>>
  BY DEF terminateSelf, resume
<1>3. /\ p_prnt \in [PCB -> PCB \cup {NULL}] /\ p_child \in [PCB -> Seq(PCB)]
      /\ pcbFree \subseteq PCB /\ Live \subseteq PCB
  BY DEF Typed, Live
<1>4. /\ cpu = "process" /\ terminating[1] = currentProcess
      /\ \A i \in 1 .. n :
           /\ terminating[i] \in Live
           /\ i > 1 => p_prnt[terminating[i]] = NULL /\ terminating[i] # currentProcess
      /\ \A i \in 1 .. n : i # n => terminating[i] # p
  BY <1>0, <1>1 DEF Family, StackSound, IsInjective
<1>5. p \in Live /\ p \in PCB /\ p_child[p] = <<>>
  BY <1>1, <1>3, <1>4
<1>6. /\ \A q \in PCB : /\ ToSet(p_child[q]) = {d \in Live : p_prnt[d] = q}
                        /\ IsInjective(p_child[q])
      /\ \A q \in pcbFree : p_child[q] = <<>> /\ p_prnt[q] = NULL
  BY DEF Family, TreeSound
<1>7. /\ DOMAIN terminating' = 1 .. n - 1
      /\ \A i \in 1 .. n - 1 : terminating'[i] = terminating[i]
  BY <1>0, <1>1, <1>2, SubSeqProperties
<1>8. p # currentProcess => p_prnt[p] = NULL
  <2>1. n > 1 => p_prnt[p] = NULL
    BY <1>1, <1>4
  <2>2. n = 1 => p = currentProcess
    BY <1>4
  <2>3. \A m \in Nat : m > 0 => m = 1 \/ m > 1
    OBVIOUS
  <2> QED
    BY <1>1, <2>1, <2>2, <2>3, Zenon
<1> HIDE DEF n, p
<1>9. Live' = Live \ {p}
  BY <1>2 DEF Live
<1>10. \A q \in PCB : p_prnt'[q] = IF q = p THEN NULL ELSE p_prnt[q]
  BY <1>2, <1>3, <1>5, <1>8 DEF outChild, tree
<1>11. ASSUME NEW q \in PCB
       PROVE  /\ ToSet(p_child'[q]) = ToSet(p_child[q]) \ {p}
              /\ IsInjective(p_child'[q])
              /\ p_child[q] = <<>> => p_child'[q] = <<>>
  <2>1. CASE q = p_prnt[p]
    <3>1. p = currentProcess /\ p_prnt[p] # NULL
      BY <1>8, <2>1
    <3>2. p_child'[q] = outProcQ(p_child[q], p)
      BY <1>2, <1>3, <2>1, <3>1 DEF outChild
    <3>3. p \in ToSet(p_child[q])
      BY <1>5, <1>6, <2>1
    <3>4. p_child[q] # <<>>
      BY <3>3, EmptyQueue
    <3>5. p_child[q] \in Seq(PCB) /\ IsInjective(p_child[q])
      BY <1>3, <1>6
    <3>6. /\ IsInjective(outProcQ(p_child[q], p))
          /\ ToSet(outProcQ(p_child[q], p)) = ToSet(p_child[q]) \ {p}
      BY <3>5, OutProcQ
    <3> QED
      BY <3>2, <3>4, <3>6
  <2>2. CASE q # p_prnt[p]
    <3>1. p_child'[q] = p_child[q]
      BY <1>2, <1>3, <2>2 DEF outChild, tree
    <3>2. p \notin ToSet(p_child[q])
      BY <1>6, <2>2
    <3> QED
      BY <1>6, <3>1, <3>2
  <2> QED
    BY <2>1, <2>2
<1>12. TreeSound'
  <2>1. ASSUME NEW q \in PCB
        PROVE  ToSet(p_child'[q]) = {d \in Live' : p_prnt'[d] = q} /\ IsInjective(p_child'[q])
    BY <1>3, <1>6, <1>9, <1>10, <1>11
  <2>2. \A q \in pcbFree' : p_child'[q] = <<>> /\ p_prnt'[q] = NULL
    BY <1>2, <1>3, <1>5, <1>6, <1>10, <1>11
  <2> QED
    BY <2>1, <2>2 DEF TreeSound
<1>13. StackSound'
  <2>1. CASE n = 1
    <3>1. DOMAIN terminating' = {}
      BY <1>7, <2>1
    <3>2. terminating' = <<>>
      <4>1. terminating' = SubSeq(terminating, 1, 0)
        BY <1>2, <2>1
      <4> QED
        BY <4>1, SubSeqEmpty
    <3> QED
      BY <3>1, <3>2, EmptyQueue DEF StackSound
  <2>2. CASE n # 1
    <3>1. n - 1 \in Nat /\ 1 \in 1 .. n - 1 /\ \A i \in 1 .. n - 1 : i \in 1 .. n /\ i # n
      BY <1>1, <2>2
    <3>2. ASSUME NEW i \in 1 .. n - 1
          PROVE  /\ terminating'[i] \in Live'
                 /\ i > 1 => p_prnt'[terminating'[i]] = NULL /\ terminating'[i] # currentProcess'
      BY <1>2, <1>3, <1>4, <1>7, <1>9, <1>10, <2>2, <3>1, SMTT(30)
    <3>3. cpu' = "process" /\ terminating'[1] = currentProcess'
      BY <1>2, <1>4, <1>7, <2>2, <3>1
    <3>4. IsInjective(terminating')
      BY <1>1, <1>7, <3>1 DEF Family, StackSound, IsInjective
    <3> QED
      BY <1>7, <3>2, <3>3, <3>4 DEF StackSound
  <2> QED
    BY <2>1, <2>2
<1>14. Ranked(Nat)'
  <2>1. PICK rank \in [PCB -> Nat] :
          /\ \A q \in PCB : p_prnt[q] # NULL => rank[p_prnt[q]] < rank[q]
          /\ \A i, j \in 1 .. n : i < j => rank[terminating[i]] < rank[terminating[j]]
    BY <1>1 DEF Family, Ranked
  <2>2. \A q \in PCB : p_prnt'[q] # NULL => rank[p_prnt'[q]] < rank[q]
    BY <1>10, <2>1
  <2>3. \A i \in 1 .. n - 1 : i \in 1 .. n
    BY <1>1
  <2>4. \A i, j \in 1 .. n - 1 : i < j => rank[terminating'[i]] < rank[terminating'[j]]
    BY <1>7, <2>1, <2>3
  <2> QED
    BY <1>7, <2>1, <2>2, <2>4 DEF Ranked
<1> QED
  BY <1>12, <1>13, <1>14 DEF Family

\* Every step keeps the tree a tree and the recursion on live, distinct pcbs.
LEMMA FamilyStep ==
    ASSUME Typed, ModeSound, EveryProcessPlaced, Family, Next
    PROVE  Family'
<1>0. Executing => currentProcess \in Live /\ cpu = "process" /\ terminating = <<>>
  BY DEF Executing, ModeSound, EveryProcessPlaced, CurrentSound
<1>1. ASSUME Executing, NEW support \in BOOLEAN, createProcess(support)
      PROVE  Family'
  <2>1. CASE pcbFree = {}
    BY <1>0, <1>1, <2>1, FamilyStays DEF createProcess
  <2>2. CASE pcbFree # {}
    BY <1>0, <1>1, <2>2, FamilyGrows DEF createProcess
  <2> QED
    BY <2>1, <2>2
<1>2. ASSUME Executing, terminateCurrent
      PROVE  Family'
  BY <1>0, <1>2, FamilyDoomed DEF terminateCurrent, dispatch
<1>3. ASSUME Executing, \/ \E s \in USERSEM : passeren(s) \/ verhogen(s)
                        \/ \E d \in DEVICE : waitForIO(d)
                        \/ waitForClock \/ returnToCaller
      PROVE  Family'
  BY <1>0, <1>3, FamilyStays DEF passeren, verhogen, waitForIO, waitForClock, returnToCaller
<1>4. ASSUME Executing, passUpOrDie
      PROVE  Family'
  BY <1>0, <1>2, <1>4, FamilyStays DEF passUpOrDie
<1>5. CASE systemTrapHandler
  BY <1>5, <1>1, <1>2, <1>3, <1>4 DEF systemTrapHandler, getCPUTime, getSupportData
<1>6. CASE programTrapHandler
  BY <1>6, <1>4 DEF programTrapHandler
<1>7. CASE terminateProcess
  BY <1>7, FamilyDescends, FamilyShrinks DEF terminateProcess
<1>8. CASE PLTInterruptHandler \/ intervalTimerInterruptHandler \/ nonTimerInterruptHandler
  BY <1>8, FamilyStays
  DEF PLTInterruptHandler, intervalTimerInterruptHandler, nonTimerInterruptHandler, Unmasked
<1>9. CASE \/ PltExpires \/ IntervalTimerExpires \/ StayStopped
           \/ \E d \in DEVICE : StartDevice(d) \/ DeviceCompletes(d)
  BY <1>9, FamilyStays DEF PltExpires, IntervalTimerExpires, StartDevice, DeviceCompletes,
     StayStopped, vars, nucleusState, dispatch
<1> QED
  BY <1>5, <1>6, <1>7, <1>8, <1>9 DEF Next

-----------------------------------------------------------------------------

\* At most one live process has no parent, apart from those terminateProcess has
\* taken from their parents and will free.
OneRoot ==
    \A p, q \in Live :
        p_prnt[p] = NULL /\ p_prnt[q] = NULL
            => \/ p = q
               \/ \E i \in DOMAIN terminating : i > 1 /\ terminating[i] \in {p, q}

\* A parent is lost only on the way into terminateProcess's stack.
LEMMA OneRootStep ==
    ASSUME Typed, ModeSound, EveryProcessPlaced, Family, OneRoot, Next
    PROVE  OneRoot'
<1> USE Addresses
<1>0. Executing => currentProcess \in Live /\ terminating = <<>>
  BY DEF Executing, ModeSound, EveryProcessPlaced, CurrentSound
<1>a. Live \subseteq PCB /\ pcbFree \subseteq PCB /\ p_prnt \in [PCB -> PCB \cup {NULL}]
  BY DEF Typed, Live
<1>1. ASSUME UNCHANGED <<pcbFree, tree>>, terminating = <<>> \/ UNCHANGED terminating
      PROVE  OneRoot'
  <2>1. CASE terminating = <<>>
    BY <1>1, <2>1, EmptyQueue DEF OneRoot, tree, Live
  <2>2. CASE UNCHANGED terminating
    BY <1>1, <2>2 DEF OneRoot, tree, Live
  <2> QED
    BY <1>1, <2>1, <2>2
<1>2. ASSUME Executing, NEW support \in BOOLEAN, createProcess(support)
      PROVE  OneRoot'
  <2>1. CASE pcbFree = {}
    BY <1>0, <1>1, <1>2, <2>1 DEF createProcess
  <2>2. CASE pcbFree # {}
    <3>1. PICK p \in pcbFree : /\ pcbFree' = pcbFree \ {p}
                               /\ p_prnt' = [p_prnt EXCEPT ![p] = currentProcess]
      BY <1>2, <2>2 DEF createProcess
    <3>2. /\ p \in PCB /\ Live' = Live \cup {p} /\ currentProcess # NULL
          /\ terminating' = terminating
      BY <1>0, <1>2, <1>a, <3>1 DEF Live, createProcess
    <3>3. \A q \in Live' : p_prnt'[q] = NULL => q \in Live /\ p_prnt[q] = NULL
      BY <1>a, <3>1, <3>2
    <3> QED
      BY <3>2, <3>3 DEF OneRoot
  <2> QED
    BY <2>1, <2>2
<1>3. CASE systemTrapHandler
  <2>1. CASE terminateCurrent
    BY <1>0, <1>1, <1>3, <2>1 DEF terminateCurrent, systemTrapHandler
  <2>2. ASSUME \/ \E s \in USERSEM : passeren(s) \/ verhogen(s)
               \/ \E d \in DEVICE : waitForIO(d)
               \/ waitForClock \/ returnToCaller
        PROVE  OneRoot'
    BY <1>1, <2>2 DEF passeren, verhogen, waitForIO, waitForClock, returnToCaller
  <2>3. CASE passUpOrDie
    BY <1>1, <2>1, <2>3 DEF passUpOrDie
  <2> QED
    BY <1>2, <1>3, <2>1, <2>2, <2>3 DEF systemTrapHandler, getCPUTime, getSupportData
<1>4. CASE programTrapHandler
  BY <1>0, <1>1, <1>4 DEF programTrapHandler, passUpOrDie, terminateCurrent
<1>5. CASE terminateChild
  <2> DEFINE n == Len(terminating)
             c == Head(p_child[terminating[n]])
  <2>1. /\ p_prnt' = [p_prnt EXCEPT ![c] = NULL]
        /\ terminating' = Append(terminating, c) /\ pcbFree' = pcbFree
        /\ terminating \in Seq(PCB) /\ terminating # <<>>
    BY <1>5 DEF terminateChild, Typed
  <2>2. /\ n \in Nat /\ n > 0
        /\ DOMAIN terminating = 1 .. n /\ DOMAIN terminating' = 1 .. n + 1
        /\ terminating'[n + 1] = c /\ n + 1 \in 1 .. n + 1 /\ n + 1 > 1
        /\ \A i \in 1 .. n : i \in 1 .. n + 1 /\ terminating'[i] = terminating[i]
    BY <2>1, EmptySeq
  <2> HIDE DEF n, c
  <2>3. SUFFICES ASSUME NEW p \in Live, NEW q \in Live, p_prnt'[p] = NULL, p_prnt'[q] = NULL
                 PROVE  \/ p = q
                        \/ \E i \in DOMAIN terminating' : i > 1 /\ terminating'[i] \in {p, q}
    BY <2>1 DEF OneRoot, Live
  <2>4. CASE c \in {p, q}
    BY <2>2, <2>4
  <2>5. CASE c \notin {p, q}
    <3>1. p_prnt[p] = NULL /\ p_prnt[q] = NULL
      BY <1>a, <2>1, <2>3, <2>5
    <3>2. p = q \/ \E i \in 1 .. n : i > 1 /\ terminating[i] \in {p, q}
      BY <2>2, <3>1 DEF OneRoot
    <3> QED
      BY <2>2, <3>2
  <2> QED
    BY <2>4, <2>5
<1>6. ASSUME terminating # <<>>, terminateSelf(terminating[Len(terminating)])
      PROVE  OneRoot'
  <2> DEFINE n == Len(terminating)
             v == terminating[n]
  <2>1. /\ pcbFree' = pcbFree \cup {v} /\ terminating' = SubSeq(terminating, 1, n - 1)
        /\ UNCHANGED tree \/ outChild(v)
        /\ terminating \in Seq(PCB) /\ terminating # <<>>
    BY <1>6 DEF terminateSelf, Typed
  <2>2. n \in Nat /\ n > 0 /\ DOMAIN terminating = 1 .. n
    BY <2>1, EmptySeq
  <2>3. /\ DOMAIN terminating' = 1 .. n - 1
        /\ \A i \in 1 .. n - 1 : terminating'[i] = terminating[i]
    BY <2>1, <2>2, SubSeqProperties
  <2>4. \A i \in 1 .. n : terminating[i] # v => i # n
    OBVIOUS
  <2> HIDE DEF n, v
  <2>5. \A i \in 1 .. n : i # n => i \in 1 .. n - 1
    BY <2>2
  <2>6. Live' = Live \ {v}
    BY <2>1 DEF Live
  <2>7. \A p \in Live' : p_prnt'[p] = p_prnt[p]
    BY <1>a, <2>1, <2>6 DEF outChild, tree
  <2>8. SUFFICES ASSUME NEW p \in Live', NEW q \in Live', p_prnt[p] = NULL, p_prnt[q] = NULL
                 PROVE  \/ p = q
                        \/ \E i \in DOMAIN terminating' : i > 1 /\ terminating'[i] \in {p, q}
    BY <2>7 DEF OneRoot
  <2>9. p = q \/ \E i \in 1 .. n : i > 1 /\ terminating[i] \in {p, q}
    BY <2>2, <2>6, <2>8 DEF OneRoot
  <2>10. ASSUME NEW i \in 1 .. n, i > 1, terminating[i] \in {p, q}
         PROVE  i \in 1 .. n - 1 /\ terminating'[i] \in {p, q}
    BY <2>3, <2>4, <2>5, <2>6, <2>10
  <2> QED
    BY <2>3, <2>9, <2>10
<1>7. CASE terminateProcess
  BY <1>5, <1>6, <1>7 DEF terminateProcess
<1>8. CASE PLTInterruptHandler \/ intervalTimerInterruptHandler \/ nonTimerInterruptHandler
  BY <1>1, <1>8
  DEF PLTInterruptHandler, intervalTimerInterruptHandler, nonTimerInterruptHandler
<1>9. CASE \/ PltExpires \/ IntervalTimerExpires \/ StayStopped
           \/ \E d \in DEVICE : StartDevice(d) \/ DeviceCompletes(d)
  BY <1>1, <1>9 DEF PltExpires, IntervalTimerExpires, StartDevice, DeviceCompletes,
     StayStopped, vars, nucleusState
<1> QED
  BY <1>3, <1>4, <1>7, <1>8, <1>9 DEF Next

-----------------------------------------------------------------------------

\* The inductive invariant.  Placement alone is not inductive: that the victim of
\* terminateSelf is live and is not the process that goes on running comes from
\* StackSound, which needs the tree and the ranks.
Inv ==
    /\ Typed /\ ModeSound /\ SupportSaved
    /\ EveryProcessPlaced
    /\ Family /\ OneRoot

\* It holds when main() has started the first process.
LEMMA InitInv == Init => Inv
<1> SUFFICES ASSUME Init PROVE Inv
  OBVIOUS
<1>1. PICK p \in PCB : pcbFree = PCB \ {p} /\ currentProcess = p
  BY DEF Init
<1>2. Live = {p}
  BY <1>1 DEF Live
<1>3. /\ \A q \in PCB : p_prnt[q] = NULL /\ p_child[q] = <<>> /\ p_semAdd[q] = NULL
      /\ \A s \in Semaphore : asl[s] = <<>>
      /\ readyQueue = <<>> /\ terminating = <<>>
  BY DEF Init
<1>4. NULL \notin PCB /\ NULL \notin Semaphore
  BY Addresses
<1>5. EveryProcessPlaced
  BY <1>1, <1>2, <1>3, <1>4, EmptyQueue
  DEF EveryProcessPlaced, CurrentSound, ReadyQueueSound, AslSound
<1>6. TreeSound
  BY <1>1, <1>2, <1>3, <1>4, EmptyQueue DEF TreeSound
<1>7. StackSound
  BY <1>3, EmptyQueue DEF StackSound
<1>8. Ranked(Nat)
  <2> DEFINE rank == [q \in PCB |-> 0]
  <2>1. rank \in [PCB -> Nat]
    OBVIOUS
  <2> HIDE DEF rank
  <2>2. \A q \in PCB : p_prnt[q] # NULL => rank[p_prnt[q]] < rank[q]
    BY <1>3
  <2>3. \A i, j \in DOMAIN terminating : i < j => rank[terminating[i]] < rank[terminating[j]]
    BY <1>3, EmptyQueue
  <2> QED
    BY <2>1, <2>2, <2>3 DEF Ranked
<1>9. OneRoot
  BY <1>2 DEF OneRoot
<1> QED
  BY <1>5, <1>6, <1>7, <1>8, <1>9, InitTyped DEF Inv, Family

\* Every step preserves it.
LEMMA StepInv == Inv /\ [Next]_vars => Inv'
<1> SUFFICES ASSUME Inv, [Next]_vars PROVE Inv'
  OBVIOUS
<1> USE DEF Inv
<1>1. CASE Next
  <2>1. Typed' /\ ModeSound' /\ SupportSaved'
    BY <1>1, TypedStep, SupportSavedStep
  <2>2. EveryProcessPlaced'
    BY <1>1, PlacedStep DEF Family
  <2>3. Family' /\ OneRoot'
    BY <1>1, FamilyStep, OneRootStep
  <2> QED
    BY <2>1, <2>2, <2>3
<1>2. CASE UNCHANGED vars
  <2>1. Typed' /\ ModeSound' /\ SupportSaved'
    BY <1>2, TypedStutter
  <2>2. EveryProcessPlaced'
    BY <1>2, NobodyMoves DEF vars, blocking, dispatch
  <2>3. Family'
    BY <1>2, FamilyStays DEF vars, dispatch
  <2>4. OneRoot'
    BY <1>2 DEF vars, tree, OneRoot, Live
  <2> QED
    BY <2>1, <2>2, <2>3, <2>4
<1> QED
  BY <1>1, <1>2

\* The invariant holds in every reachable state.
THEOREM Invariance == Spec => []Inv
BY InitInv, StepInv, PTL DEF Spec

\* Every live process is the current one, in the Ready Queue or blocked where its
\* p_semAdd says, and freed pcbs are nowhere (exceptions.c:373-402).
THEOREM Placement == Spec => []EveryProcessPlaced
<1>1. Inv => EveryProcessPlaced
  BY DEF Inv
<1> QED
  BY <1>1, Invariance, PTL

\* A termination never leaves a descendant of its victim behind
\* (exceptions.c:368-370).
THEOREM NobodyOrphaned == Spec => []NoOrphans
<1>1. Inv => NoOrphans
  <2> SUFFICES ASSUME Inv, terminating = <<>>
               PROVE  /\ \A p \in Live : p_prnt[p] # NULL => p_prnt[p] \in Live
                      /\ \A p, q \in Live : p_prnt[p] = NULL /\ p_prnt[q] = NULL => p = q
    BY DEF NoOrphans
  <2>1. ASSUME NEW p \in Live, p_prnt[p] # NULL PROVE p_prnt[p] \in Live
    <3>1. p_prnt[p] \in PCB
      BY <2>1 DEF Inv, Typed, Live
    <3>2. p \in ToSet(p_child[p_prnt[p]])
      BY <3>1 DEF Inv, Family, TreeSound
    <3>3. p_child[p_prnt[p]] # <<>>
      BY <3>2, EmptyQueue
    <3> QED
      BY <3>1, <3>3 DEF Inv, Family, TreeSound, Live
  <2>2. \A p, q \in Live : p_prnt[p] = NULL /\ p_prnt[q] = NULL => p = q
    BY EmptyQueue DEF Inv, OneRoot
  <2> QED
    BY <2>1, <2>2
<1> QED
  BY <1>1, Invariance, PTL

\* The process tree is a tree at every step of the recursive termination, of a
\* height that the number of pcbs bounds: the recursion of terminateProcess ends,
\* and never reaches a pcb that is freed, running or being killed already
\* (exceptions.c:368-370).
THEOREM FamilyAlwaysSound == Spec => []FamilySound
<1>1. ASSUME Typed, Ranked(Nat) PROVE Ranked(0 .. Cardinality(PCB))
  <2> PICK rank \in [PCB -> Nat] :
             /\ \A p \in PCB : p_prnt[p] # NULL => rank[p_prnt[p]] < rank[p]
             /\ \A i, j \in DOMAIN terminating :
                  i < j => rank[terminating[i]] < rank[terminating[j]]
    BY <1>1 DEF Ranked
  <2> DEFINE below(p) == {q \in PCB : rank[q] < rank[p]}
             height   == [p \in PCB |-> Cardinality(below(p))]
  <2>1. ASSUME NEW p \in PCB
        PROVE  IsFiniteSet(below(p)) /\ Cardinality(below(p)) \in 0 .. Cardinality(PCB)
    <3>1. below(p) \in SUBSET PCB /\ IsFiniteSet(PCB)
      BY PcbAssumption
    <3>2. IsFiniteSet(below(p)) /\ Cardinality(below(p)) <= Cardinality(PCB)
      BY <3>1, FS_Subset
    <3>3. Cardinality(below(p)) \in Nat /\ Cardinality(PCB) \in Nat
      BY <3>1, <3>2, FS_CardinalityType
    <3> QED
      BY <3>2, <3>3
  <2>2. ASSUME NEW p \in PCB, NEW q \in PCB, rank[p] < rank[q]
        PROVE  height[p] < height[q]
    <3>1. below(p) \in SUBSET below(q) /\ p \in below(q) /\ p \notin below(p)
      BY <2>2
    <3>2. /\ Cardinality(below(p)) <= Cardinality(below(q))
          /\ Cardinality(below(q)) = Cardinality(below(p)) => below(q) = below(p)
      BY <2>1, <3>1, FS_Subset
    <3>3. Cardinality(below(p)) \in Int /\ Cardinality(below(q)) \in Int
      BY <2>1
    <3>4. Cardinality(below(p)) # Cardinality(below(q))
      BY <3>1, <3>2
    <3> HIDE DEF below
    <3> QED
      BY <3>2, <3>3, <3>4
  <2>3. height \in [PCB -> 0 .. Cardinality(PCB)]
    BY <2>1
  <2>4. \A p \in PCB : p_prnt[p] # NULL => p_prnt[p] \in PCB
    BY <1>1 DEF Typed
  <2>5. \A i \in DOMAIN terminating : terminating[i] \in PCB
    BY <1>1 DEF Typed
  <2> HIDE DEF height
  <2> QED
    BY <2>2, <2>3, <2>4, <2>5 DEF Ranked
<1>2. Inv => FamilySound
  BY <1>1 DEF Inv, Family, FamilySound
<1> QED
  BY <1>2, Invariance, PTL

-----------------------------------------------------------------------------
(* The semaphores and the two counts agree with the queues, and so the      *)
(* scheduler's choice between waiting, HALT and PANIC is justified.         *)

\* The pseudo-clock semaphore is never above zero.
ClockNeverAbove == semaphoreDevices[CLOCK_INDEX] <= 0

Balanced == SemaphoreBalance /\ DeviceSemaphoreCovers /\ ClockNeverAbove

\* A processor that executes no process has none to execute, and the counts are
\* those the scheduler stopped for.
Idle ==
    /\ cpu \in {"wait", "halt", "panic"} => readyQueue = <<>>
    /\ cpu = "halt" => processCount = 0
    /\ cpu = "panic" => processCount # 0 /\ softBlockedCount <= 0

-----------------------------------------------------------------------------
(* What the operations of the active semaphore list do to lengths          *)

\* Every queue has a length, and is empty iff the length is zero.
LEMMA Lengths ==
    ASSUME Typed
    PROVE  \A s \in Semaphore :
             /\ asl[s] \in Seq(PCB) /\ Len(asl[s]) \in Nat
             /\ asl[s] = <<>> <=> Len(asl[s]) = 0
<1> SUFFICES ASSUME NEW s \in Semaphore
             PROVE  /\ asl[s] \in Seq(PCB) /\ Len(asl[s]) \in Nat
                    /\ asl[s] = <<>> <=> Len(asl[s]) = 0
  OBVIOUS
<1>1. asl[s] \in Seq(PCB)
  BY DEF Typed
<1> QED
  BY <1>1, EmptySeq

\* insertBlocked lengthens one queue.
LEMMA BlockLength ==
    ASSUME Typed, NEW s \in Semaphore, NEW p \in PCB, insertBlocked(s, p)
    PROVE  \A t \in Semaphore : Len(asl'[t]) = IF t = s THEN Len(asl[t]) + 1 ELSE Len(asl[t])
<1>1. asl \in [Semaphore -> Seq(PCB)] /\ asl' = [asl EXCEPT ![s] = Append(@, p)]
  BY DEF Typed, insertBlocked, insertProcQ
<1>2. Len(Append(asl[s], p)) = Len(asl[s]) + 1
  BY <1>1, AppendQueue
<1> QED
  BY <1>1, <1>2

\* removeBlocked shortens one queue.
LEMMA WakeLength ==
    ASSUME Typed, NEW s \in Semaphore, asl[s] # <<>>, removeBlocked(s)
    PROVE  \A t \in Semaphore : Len(asl'[t]) = IF t = s THEN Len(asl[t]) - 1 ELSE Len(asl[t])
<1>1. asl \in [Semaphore -> Seq(PCB)] /\ asl' = [asl EXCEPT ![s] = Tail(@)]
  BY DEF Typed, removeBlocked
<1>2. Len(Tail(asl[s])) = Len(asl[s]) - 1
  BY <1>1, TailQueue
<1> QED
  BY <1>1, <1>2

\* outBlocked shortens the queue its pcb is in.
LEMMA OutLength ==
    ASSUME Typed, EveryProcessPlaced,
           NEW p \in Live, p_semAdd[p] # NULL, outBlocked(p)
    PROVE  \A t \in Semaphore :
             Len(asl'[t]) = IF t = p_semAdd[p] THEN Len(asl[t]) - 1 ELSE Len(asl[t])
<1> DEFINE s == p_semAdd[p]
<1>1. asl \in [Semaphore -> Seq(PCB)] /\ s \in Semaphore
  BY DEF Typed, Live
<1>2. asl' = [asl EXCEPT ![s] = outProcQ(@, p)]
  BY DEF outBlocked
<1>3. p \in ToSet(asl[s])
  BY <1>1 DEF EveryProcessPlaced, AslSound
<1> HIDE DEF s
<1>4. Len(outProcQ(asl[s], p)) = Len(asl[s]) - 1
  BY <1>1, <1>3, OutProcQ
<1> QED
  BY <1>1, <1>2, <1>4 DEF s

-----------------------------------------------------------------------------
(* Semaphores                                                              *)

\* A step that touches no semaphore and no queue.
LEMMA BalanceStays ==
    ASSUME Balanced, UNCHANGED <<asl, userSem, semaphoreDevices>>
    PROVE  Balanced'
BY DEF Balanced, SemaphoreBalance, DeviceSemaphoreCovers, ClockNeverAbove

\* Values and lengths agree after every P, V, tick, completion and termination.
LEMMA BalanceStep ==
    ASSUME Typed, ModeSound, EveryProcessPlaced, StackSound, Balanced, Next
    PROVE  Balanced'
<1> USE Addresses
<1>a. /\ userSem \in [USERSEM -> Int] /\ semaphoreDevices \in [DeviceSem -> Int]
      /\ asl \in [Semaphore -> Seq(PCB)]
  BY DEF Typed
<1>b. /\ \A s \in USERSEM : Len(asl[s]) = IF userSem[s] < 0 THEN -userSem[s] ELSE 0
      /\ \A s \in DeviceSem : Len(asl[s]) # 0 => Len(asl[s]) <= -semaphoreDevices[s]
      /\ semaphoreDevices[CLOCK_INDEX] <= 0
  BY Lengths DEF Balanced, SemaphoreBalance, DeviceSemaphoreCovers, ClockNeverAbove
<1>c. \A s \in Semaphore : Len(asl[s]) \in Nat
  BY Lengths
<1>d. ASSUME \A s \in USERSEM : Len(asl'[s]) = IF userSem'[s] < 0 THEN -userSem'[s] ELSE 0,
             \A s \in DeviceSem : Len(asl'[s]) # 0 => Len(asl'[s]) <= -semaphoreDevices'[s],
             semaphoreDevices'[CLOCK_INDEX] <= 0
      PROVE  Balanced'
  <2>1. Typed'
    BY TypedStep
  <2>2. \A s \in Semaphore : asl'[s] = <<>> <=> Len(asl'[s]) = 0
    <3>1. ASSUME NEW s \in Semaphore PROVE asl'[s] \in Seq(PCB)
      BY <2>1 DEF Typed
    <3> QED
      BY <3>1, EmptySeq
  <2> QED
    BY <1>d, <2>2 DEF Balanced, SemaphoreBalance, DeviceSemaphoreCovers, ClockNeverAbove
<1>e. Executing => currentProcess \in PCB
  BY DEF Executing, ModeSound, Typed
<1>1. ASSUME NEW s \in USERSEM, Executing, passeren(s)
      PROVE  Balanced'
  <2>1. userSem' = [userSem EXCEPT ![s] = @ - 1] /\ UNCHANGED semaphoreDevices
    BY <1>1 DEF passeren
  <2>2. CASE userSem[s] - 1 < 0
    <3>1. insertBlocked(s, currentProcess)
      BY <1>1, <1>a, <2>1, <2>2 DEF passeren, mustBlock, blockCurrentProcessHelper
    <3>2. \A t \in Semaphore : Len(asl'[t]) = IF t = s THEN Len(asl[t]) + 1 ELSE Len(asl[t])
      BY <1>1, <1>e, <3>1, BlockLength
    <3>3. \A t \in USERSEM : Len(asl'[t]) = IF userSem'[t] < 0 THEN -userSem'[t] ELSE 0
      BY <1>a, <1>b, <1>c, <2>1, <2>2, <3>2
    <3>4. \A t \in DeviceSem : asl'[t] = asl[t] \/ Len(asl'[t]) = Len(asl[t])
      BY <3>2
    <3> QED
      BY <1>b, <1>d, <2>1, <3>3, <3>4
  <2>3. CASE ~(userSem[s] - 1 < 0)
    <3>1. UNCHANGED asl
      BY <1>1, <1>a, <2>1, <2>3 DEF passeren, mustBlock, blocking
    <3>2. \A t \in USERSEM : Len(asl'[t]) = IF userSem'[t] < 0 THEN -userSem'[t] ELSE 0
      BY <1>a, <1>b, <1>c, <2>1, <2>3, <3>1
    <3> QED
      BY <1>b, <1>d, <2>1, <3>1, <3>2
  <2> QED
    BY <2>2, <2>3
<1>2. ASSUME NEW s \in USERSEM, Executing, verhogen(s)
      PROVE  Balanced'
  <2>1. userSem' = [userSem EXCEPT ![s] = @ + 1] /\ UNCHANGED semaphoreDevices
    BY <1>2 DEF verhogen
  <2>2. CASE userSem[s] + 1 <= 0 /\ asl[s] # <<>>
    <3>1. removeBlocked(s)
      BY <1>2, <1>a, <2>1, <2>2 DEF verhogen
    <3>2. \A t \in Semaphore : Len(asl'[t]) = IF t = s THEN Len(asl[t]) - 1 ELSE Len(asl[t])
      BY <1>2, <2>2, <3>1, WakeLength
    <3>3. \A t \in USERSEM : Len(asl'[t]) = IF userSem'[t] < 0 THEN -userSem'[t] ELSE 0
      BY <1>a, <1>b, <1>c, <2>1, <2>2, <3>2
    <3>4. \A t \in DeviceSem : Len(asl'[t]) = Len(asl[t])
      BY <3>2
    <3> QED
      BY <1>b, <1>d, <2>1, <3>3, <3>4
  <2>3. CASE ~(userSem[s] + 1 <= 0 /\ asl[s] # <<>>)
    <3>1. UNCHANGED asl
      BY <1>2, <1>a, <2>1, <2>3 DEF verhogen, blocking
    <3>2. userSem[s] >= 0
      BY <1>a, <1>b, <1>c, <2>3, Lengths
    <3>3. \A t \in USERSEM : Len(asl'[t]) = IF userSem'[t] < 0 THEN -userSem'[t] ELSE 0
      BY <1>a, <1>b, <1>c, <2>1, <3>1, <3>2
    <3> QED
      BY <1>b, <1>d, <2>1, <3>1, <3>3
  <2> QED
    BY <2>2, <2>3
<1>3. ASSUME NEW d \in DeviceSem, Executing,
             semaphoreDevices' = [semaphoreDevices EXCEPT ![d] = @ - 1], UNCHANGED userSem,
             \/ semaphoreDevices'[d] < 0 /\ insertBlocked(d, currentProcess)
             \/ ~(semaphoreDevices'[d] < 0) /\ UNCHANGED blocking
      PROVE  Balanced'
  <2>0. semaphoreDevices'[CLOCK_INDEX] <= 0
    BY <1>3, <1>a, <1>b
  <2>1. CASE semaphoreDevices'[d] < 0 /\ insertBlocked(d, currentProcess)
    <3>1. \A t \in Semaphore : Len(asl'[t]) = IF t = d THEN Len(asl[t]) + 1 ELSE Len(asl[t])
      BY <1>3, <1>e, <2>1, BlockLength
    <3>2. \A t \in USERSEM : Len(asl'[t]) = Len(asl[t])
      BY <3>1
    <3>3. \A t \in DeviceSem : Len(asl'[t]) # 0 => Len(asl'[t]) <= -semaphoreDevices'[t]
      BY <1>3, <1>a, <1>b, <1>c, <2>1, <3>1, SMTT(30)
    <3> QED
      BY <1>3, <1>b, <1>d, <2>0, <3>2, <3>3
  <2>2. CASE ~(semaphoreDevices'[d] < 0) /\ UNCHANGED blocking
    <3>1. \A t \in DeviceSem : Len(asl'[t]) # 0 => Len(asl'[t]) <= -semaphoreDevices'[t]
      BY <1>3, <1>a, <1>b, <1>c, <2>2 DEF blocking
    <3> QED
      BY <1>3, <1>b, <1>d, <2>0, <2>2, <3>1 DEF blocking
  <2> QED
    BY <1>3, <2>1, <2>2
<1>4. ASSUME NEW d \in DEVICE, Executing, waitForIO(d)
      PROVE  Balanced'
  BY <1>3, <1>4 DEF waitForIO, mustBlock, blockCurrentProcessHelper
<1>5. ASSUME Executing, waitForClock
      PROVE  Balanced'
  BY <1>3, <1>5 DEF waitForClock, mustBlock, blockCurrentProcessHelper, blocking
<1>6. CASE systemTrapHandler
  <2>1. ASSUME \/ \E support \in BOOLEAN : createProcess(support)
               \/ terminateCurrent \/ returnToCaller \/ passUpOrDie
        PROVE  Balanced'
    BY <2>1, BalanceStays DEF createProcess, terminateCurrent, returnToCaller, passUpOrDie, blocking, sems
  <2> QED
    BY <1>1, <1>2, <1>4, <1>5, <1>6, <2>1 DEF systemTrapHandler, getCPUTime, getSupportData
<1>7. CASE programTrapHandler
  BY <1>7, BalanceStays DEF programTrapHandler, passUpOrDie, terminateCurrent, blocking, sems
<1>8. CASE terminateChild
  BY <1>8, BalanceStays DEF terminateChild, blocking, sems
<1>9. ASSUME terminating # <<>>, terminateSelf(terminating[Len(terminating)])
      PROVE  Balanced'
  <2> DEFINE p == terminating[Len(terminating)]
  <2>1. p \in Live
    <3>1. Len(terminating) \in DOMAIN terminating
      BY <1>9, EmptySeq DEF Typed
    <3> QED
      BY <3>1 DEF StackSound
  <2>2. \/ UNCHANGED <<asl, sems>>
        \/ p_semAdd[p] # NULL /\ outBlocked(p) /\ giveBack(p_semAdd[p])
    BY <1>9 DEF terminateSelf
  <2> HIDE DEF p
  <2>3. CASE UNCHANGED <<asl, sems>>
    BY <2>3, BalanceStays DEF sems
  <2>4. CASE p_semAdd[p] # NULL /\ outBlocked(p) /\ giveBack(p_semAdd[p])
    <3> DEFINE s == p_semAdd[p]
    <3>1. s \in Semaphore
      BY <2>1, <2>4 DEF Typed, Live
    <3>2. \A t \in Semaphore : Len(asl'[t]) = IF t = s THEN Len(asl[t]) - 1 ELSE Len(asl[t])
      BY <2>1, <2>4, OutLength
    <3>3. \A t \in Semaphore : Len(asl'[t]) \in Nat
      <4>1. Typed'
        BY TypedStep
      <4> QED
        BY <4>1 DEF Typed
    <3>4. giveBack(s)
      BY <2>4
    <3> HIDE DEF s
    <3>5. CASE s \notin DeviceSem
      <4>1. s \in USERSEM /\ userSem' = [userSem EXCEPT ![s] = @ + 1] /\ UNCHANGED semaphoreDevices
        BY <3>1, <3>4, <3>5 DEF giveBack
      <4>2. \A t \in USERSEM : Len(asl'[t]) = IF userSem'[t] < 0 THEN -userSem'[t] ELSE 0
        BY <1>a, <1>b, <1>c, <3>2, <3>3, <4>1
      <4>3. \A t \in DeviceSem : Len(asl'[t]) = Len(asl[t])
        BY <3>2, <3>5
      <4> QED
        BY <1>b, <1>d, <4>1, <4>2, <4>3
    <3>6. CASE s \in DeviceSem
      <4>1. UNCHANGED <<userSem, semaphoreDevices>>
        BY <3>4, <3>6 DEF giveBack, sems
      <4>2. \A t \in USERSEM : Len(asl'[t]) = Len(asl[t])
        BY <3>2, <3>6
      <4>3. ASSUME NEW t \in DeviceSem, Len(asl'[t]) # 0
            PROVE  Len(asl'[t]) <= -semaphoreDevices'[t]
        <5>1. /\ Len(asl'[t]) \in Nat /\ Len(asl[t]) \in Nat /\ semaphoreDevices[t] \in Int
              /\ Len(asl[t]) # 0 => Len(asl[t]) <= -semaphoreDevices[t]
              /\ Len(asl'[t]) = IF t = s THEN Len(asl[t]) - 1 ELSE Len(asl[t])
          BY <1>a, <1>b, <1>c, <3>2, <3>3
        <5> QED
          BY <4>1, <4>3, <5>1
      <4> QED
        BY <1>b, <1>d, <4>1, <4>2, <4>3
    <3> QED
      BY <3>5, <3>6
  <2> QED
    BY <2>2, <2>3, <2>4
<1>10. CASE terminateProcess
  BY <1>8, <1>9, <1>10 DEF terminateProcess
<1>11. CASE PLTInterruptHandler
  BY <1>11, BalanceStays DEF PLTInterruptHandler, blocking, sems
<1>12. CASE intervalTimerInterruptHandler
  <2>1. /\ asl' = [asl EXCEPT ![CLOCK_INDEX] = <<>>] /\ UNCHANGED userSem
        /\ semaphoreDevices' = [semaphoreDevices EXCEPT ![CLOCK_INDEX] = 0]
    BY <1>12 DEF intervalTimerInterruptHandler, resetClock
  <2>2. /\ \A t \in Semaphore : t # CLOCK_INDEX => asl'[t] = asl[t]
        /\ asl'[CLOCK_INDEX] = <<>> /\ Len(asl'[CLOCK_INDEX]) = 0
    BY <1>a, <2>1
  <2>3. \A t \in USERSEM : Len(asl'[t]) = Len(asl[t])
    BY <2>2
  <2>4. \A t \in DeviceSem : Len(asl'[t]) # 0 => Len(asl'[t]) <= -semaphoreDevices'[t]
    BY <1>a, <1>b, <2>1, <2>2
  <2>5. semaphoreDevices'[CLOCK_INDEX] <= 0
    BY <1>a, <2>1
  <2> QED
    BY <1>b, <1>d, <2>1, <2>3, <2>4, <2>5
<1>13. CASE nonTimerInterruptHandler
  <2>1. PICK d \in DEVICE :
          /\ semaphoreDevices' = [semaphoreDevices EXCEPT ![d] = @ + 1]
          /\ \/ asl[d] # <<>> /\ removeBlocked(d)
             \/ asl[d] = <<>> /\ UNCHANGED <<blocking, softBlockedCount>>
    BY <1>13 DEF nonTimerInterruptHandler
  <2>2. UNCHANGED userSem
    BY <1>13 DEF nonTimerInterruptHandler
  <2>3. semaphoreDevices'[CLOCK_INDEX] <= 0
    BY <1>a, <1>b, <2>1
  <2>4. CASE asl[d] # <<>> /\ removeBlocked(d)
    <3>1. \A t \in Semaphore : Len(asl'[t]) = IF t = d THEN Len(asl[t]) - 1 ELSE Len(asl[t])
      BY <2>1, <2>4, WakeLength
    <3>2. \A t \in USERSEM : Len(asl'[t]) = Len(asl[t])
      BY <2>1, <3>1
    <3>3. \A t \in DeviceSem : Len(asl'[t]) # 0 => Len(asl'[t]) <= -semaphoreDevices'[t]
      BY <1>a, <1>b, <1>c, <2>1, <3>1
    <3> QED
      BY <1>b, <1>d, <2>2, <2>3, <3>2, <3>3
  <2>5. CASE asl[d] = <<>> /\ UNCHANGED <<blocking, softBlockedCount>>
    <3>1. asl' = asl /\ Len(asl[d]) = 0
      BY <2>5 DEF blocking
    <3>2. \A t \in DeviceSem : Len(asl'[t]) # 0 => Len(asl'[t]) <= -semaphoreDevices'[t]
      BY <1>a, <1>b, <1>c, <2>1, <3>1
    <3> QED
      BY <1>b, <1>d, <2>2, <2>3, <3>1, <3>2
  <2> QED
    BY <2>1, <2>4, <2>5
<1>14. CASE \/ PltExpires \/ IntervalTimerExpires \/ StayStopped
            \/ \E d \in DEVICE : StartDevice(d) \/ DeviceCompletes(d)
  BY <1>14, BalanceStays DEF PltExpires, IntervalTimerExpires, StartDevice, DeviceCompletes,
     StayStopped, vars, nucleusState, blocking, sems
<1> QED
  BY <1>6, <1>7, <1>10, <1>11, <1>12, <1>13, <1>14 DEF Next

-----------------------------------------------------------------------------
(* Counts                                                                  *)

\* There are finitely many pcbs, so live and blocked ones can be counted.
LEMMA Countable ==
    ASSUME Typed
    PROVE  /\ IsFiniteSet(Live) /\ IsFiniteSet(SoftBlocked)
           /\ Cardinality(Live) \in Nat /\ Cardinality(SoftBlocked) \in Nat
<1>1. Live \subseteq PCB /\ SoftBlocked \subseteq PCB
  BY DEF Live, SoftBlocked
<1>2. IsFiniteSet(Live) /\ IsFiniteSet(SoftBlocked)
  BY <1>1, PcbAssumption, FS_Subset
<1> QED
  BY <1>2, FS_CardinalityType

\* A step that neither counts nor blocks.
LEMMA CountsStay ==
    ASSUME CountsCover, UNCHANGED <<pcbFree, p_semAdd, counts>>
    PROVE  CountsCover'
BY DEF CountsCover, SoftBlocked, Live, counts

\* The counts follow the pcbs through every step.
LEMMA CountsStep ==
    ASSUME Typed, ModeSound, EveryProcessPlaced, StackSound, CountsCover, Next
    PROVE  CountsCover'
<1> USE Addresses
<1>a. /\ p_semAdd \in [PCB -> Semaphore \cup {NULL}] /\ asl \in [Semaphore -> Seq(PCB)]
      /\ pcbFree \subseteq PCB /\ Live \subseteq PCB
      /\ processCount \in Int /\ softBlockedCount \in Int
  BY DEF Typed, Live
<1>b. /\ processCount = Cardinality(Live) /\ softBlockedCount >= Cardinality(SoftBlocked)
  BY DEF CountsCover
<1>c. Executing => currentProcess \in Live /\ p_semAdd[currentProcess] = NULL
  BY DEF Executing, ModeSound, EveryProcessPlaced, CurrentSound
<1>1. ASSUME Executing, NEW support \in BOOLEAN, createProcess(support)
      PROVE  CountsCover'
  <2>1. CASE pcbFree = {}
    BY <1>1, <2>1, CountsStay DEF createProcess, counts
  <2>2. CASE pcbFree # {}
    <3>1. PICK p \in pcbFree : /\ pcbFree' = pcbFree \ {p}
                               /\ p_semAdd' = [p_semAdd EXCEPT ![p] = NULL]
                               /\ processCount' = processCount + 1
      BY <1>1, <2>2 DEF createProcess
    <3>2. softBlockedCount' = softBlockedCount
      BY <1>1 DEF createProcess
    <3>3. Live' = Live \cup {p} /\ p \notin Live /\ p \in PCB
      BY <1>a, <3>1 DEF Live
    <3>4. SoftBlocked' = SoftBlocked
      BY <1>a, <3>1, <3>3 DEF SoftBlocked
    <3>5. Cardinality(Live') = Cardinality(Live) + 1
      BY <3>3, Countable, FS_AddElement
    <3> QED
      BY <1>b, <3>1, <3>2, <3>4, <3>5 DEF CountsCover
  <2> QED
    BY <2>1, <2>2
<1>2. ASSUME Executing, NEW s \in Semaphore, insertBlocked(s, currentProcess),
             UNCHANGED <<pcbFree, processCount>>,
             softBlockedCount' = IF s \in DeviceSem THEN softBlockedCount + 1 ELSE softBlockedCount
      PROVE  CountsCover'
  <2> DEFINE p == currentProcess
  <2>1. p \in Live /\ p_semAdd[p] = NULL /\ p_semAdd' = [p_semAdd EXCEPT ![p] = s] /\ Live' = Live
    BY <1>2, <1>c DEF insertBlocked, Live
  <2> HIDE DEF p
  <2>2. p \notin SoftBlocked
    BY <2>1 DEF SoftBlocked
  <2>3. CASE s \in DeviceSem
    <3>1. SoftBlocked' = SoftBlocked \cup {p}
      BY <1>a, <2>1, <2>3 DEF SoftBlocked
    <3>2. Cardinality(SoftBlocked') = Cardinality(SoftBlocked) + 1
      BY <2>2, <3>1, Countable, FS_AddElement
    <3> QED
      BY <1>2, <1>a, <1>b, <2>1, <2>3, <3>2, Countable DEF CountsCover
  <2>4. CASE s \notin DeviceSem
    <3>1. SoftBlocked' = SoftBlocked
      BY <1>a, <2>1, <2>4 DEF SoftBlocked
    <3> QED
      BY <1>2, <1>b, <2>1, <2>4, <3>1 DEF CountsCover
  <2> QED
    BY <2>3, <2>4
<1>3. ASSUME NEW s \in USERSEM, Executing, passeren(s)
      PROVE  CountsCover'
  <2>1. CASE blockCurrentProcessHelper(s)
    BY <1>2, <1>3, <2>1 DEF passeren, blockCurrentProcessHelper, counts
  <2>2. CASE UNCHANGED blocking
    BY <1>3, <2>2, CountsStay DEF passeren, blocking
  <2> QED
    BY <1>3, <2>1, <2>2 DEF passeren
<1>4. ASSUME NEW s \in Semaphore, asl[s] # <<>>, removeBlocked(s),
             UNCHANGED <<pcbFree, processCount>>,
             softBlockedCount' = IF s \in DeviceSem THEN softBlockedCount - 1 ELSE softBlockedCount
      PROVE  CountsCover'
  <2> DEFINE p == Head(asl[s])
  <2>1. p \in PCB /\ p_semAdd[p] = s /\ p \in Live
    <3>1. p \in PCB /\ p_semAdd[p] = s
      BY <1>4, WakePlaces
    <3>2. p \in ToSet(asl[s])
      BY <1>4, <1>a, TailQueue
    <3> QED
      BY <3>1, <3>2 DEF EveryProcessPlaced, AslSound
  <2>2. /\ Live' = Live
        /\ p_semAdd' = [q \in PCB |-> IF q = p THEN NULL ELSE p_semAdd[q]]
    BY <1>4 DEF removeBlocked, unblock, Live
  <2> HIDE DEF p
  <2>3. CASE s \in DeviceSem
    <3>1. SoftBlocked' = SoftBlocked \ {p} /\ p \in SoftBlocked
      BY <1>a, <2>1, <2>2, <2>3 DEF SoftBlocked
    <3>2. Cardinality(SoftBlocked') = Cardinality(SoftBlocked) - 1
      BY <3>1, Countable, FS_RemoveElement
    <3> QED
      BY <1>4, <1>a, <1>b, <2>2, <2>3, <3>2, Countable DEF CountsCover
  <2>4. CASE s \notin DeviceSem
    <3>1. SoftBlocked' = SoftBlocked
      BY <1>a, <2>1, <2>2, <2>4 DEF SoftBlocked
    <3> QED
      BY <1>4, <1>b, <2>2, <2>4, <3>1 DEF CountsCover
  <2> QED
    BY <2>3, <2>4
<1>5. ASSUME NEW s \in USERSEM, Executing, verhogen(s)
      PROVE  CountsCover'
  <2>1. CASE asl[s] # <<>> /\ removeBlocked(s)
    BY <1>4, <1>5, <2>1 DEF verhogen, counts
  <2>2. CASE UNCHANGED blocking
    BY <1>5, <2>2, CountsStay DEF verhogen, blocking
  <2> QED
    BY <1>5, <2>1, <2>2 DEF verhogen
<1>6. ASSUME softBlockedCount' = softBlockedCount + 1, UNCHANGED <<pcbFree, p_semAdd, processCount>>
      PROVE  CountsCover'
  <2>1. Live' = Live /\ SoftBlocked' = SoftBlocked
    BY <1>6 DEF Live, SoftBlocked
  <2> QED
    BY <1>6, <1>a, <1>b, <2>1, Countable DEF CountsCover
<1>7. ASSUME NEW d \in DEVICE, Executing, waitForIO(d)
      PROVE  CountsCover'
  <2>1. CASE blockCurrentProcessHelper(d)
    BY <1>2, <1>7, <2>1 DEF waitForIO, blockCurrentProcessHelper
  <2>2. CASE UNCHANGED blocking
    BY <1>6, <1>7, <2>2 DEF waitForIO, blocking
  <2> QED
    BY <1>7, <2>1, <2>2 DEF waitForIO
<1>8. ASSUME Executing, waitForClock
      PROVE  CountsCover'
  <2>1. CASE softBlockedCount' = softBlockedCount + 1 /\ blockCurrentProcessHelper(CLOCK_INDEX)
    BY <1>2, <1>8, <2>1 DEF waitForClock, blockCurrentProcessHelper
  <2>2. CASE UNCHANGED <<blocking, softBlockedCount>>
    BY <1>8, <2>2, CountsStay DEF waitForClock, blocking, counts
  <2> QED
    BY <1>8, <2>1, <2>2 DEF waitForClock
<1>9. ASSUME terminateCurrent \/ returnToCaller \/ passUpOrDie
      PROVE  CountsCover'
  BY <1>9, CountsStay DEF terminateCurrent, returnToCaller, passUpOrDie, blocking
<1>10. CASE systemTrapHandler
  BY <1>1, <1>3, <1>5, <1>7, <1>8, <1>9, <1>10 DEF systemTrapHandler, getCPUTime, getSupportData
<1>11. CASE programTrapHandler
  BY <1>9, <1>11 DEF programTrapHandler
<1>12. CASE terminateChild
  BY <1>12, CountsStay DEF terminateChild, blocking
<1>13. ASSUME terminating # <<>>, terminateSelf(terminating[Len(terminating)])
       PROVE  CountsCover'
  <2> DEFINE p == terminating[Len(terminating)]
  <2>1. p \in Live
    <3>1. Len(terminating) \in DOMAIN terminating
      BY <1>13, EmptySeq DEF Typed
    <3> QED
      BY <3>1 DEF StackSound
  <2>2. /\ pcbFree' = pcbFree \cup {p} /\ processCount' = processCount - 1
        /\ UNCHANGED p_semAdd
        /\ \/ (p = currentProcess \/ p_semAdd[p] = NULL) /\ UNCHANGED softBlockedCount
           \/ p_semAdd[p] # NULL /\ giveBack(p_semAdd[p])
    BY <1>13 DEF terminateSelf
  <2> HIDE DEF p
  <2>3. Live' = Live \ {p} /\ SoftBlocked' = SoftBlocked \ {p}
    BY <2>2 DEF Live, SoftBlocked
  <2>4. /\ Cardinality(Live') = Cardinality(Live) - 1
        /\ Cardinality(SoftBlocked') = IF p \in SoftBlocked THEN Cardinality(SoftBlocked) - 1
                                                            ELSE Cardinality(SoftBlocked)
    BY <2>1, <2>3, Countable, FS_RemoveElement
  <2>5. softBlockedCount' = IF p \in SoftBlocked THEN softBlockedCount - 1 ELSE softBlockedCount
    <3>1. CASE (p = currentProcess \/ p_semAdd[p] = NULL) /\ UNCHANGED softBlockedCount
      <4>1. p_semAdd[p] = NULL
        BY <1>a, <2>1, <3>1 DEF EveryProcessPlaced, CurrentSound
      <4> QED
        BY <3>1, <4>1 DEF SoftBlocked
    <3>2. CASE p_semAdd[p] # NULL /\ giveBack(p_semAdd[p])
      BY <2>1, <3>2 DEF giveBack, SoftBlocked
    <3> QED
      BY <2>2, <3>1, <3>2
  <2> QED
    BY <1>a, <1>b, <2>2, <2>4, <2>5, Countable DEF CountsCover
<1>14. CASE terminateProcess
  BY <1>12, <1>13, <1>14 DEF terminateProcess
<1>15. CASE PLTInterruptHandler
  BY <1>15, CountsStay DEF PLTInterruptHandler, blocking
<1>16. CASE intervalTimerInterruptHandler
  <2> DEFINE woken == asl[CLOCK_INDEX]
  <2>1. /\ UNCHANGED <<pcbFree, processCount>>
        /\ p_semAdd' = [p \in PCB |-> IF p \in ToSet(woken) THEN NULL ELSE p_semAdd[p]]
        /\ softBlockedCount' = softBlockedCount - Len(woken)
    BY <1>16 DEF intervalTimerInterruptHandler, unblock
  <2>2. /\ woken \in Seq(PCB) /\ IsInjective(woken)
        /\ ToSet(woken) = {p \in Live : p_semAdd[p] = CLOCK_INDEX}
    BY <1>a DEF EveryProcessPlaced, AslSound
  <2> HIDE DEF woken
  <2>3. Live' = Live /\ SoftBlocked' = SoftBlocked \ ToSet(woken) /\ SoftBlocked \cap ToSet(woken) = ToSet(woken)
    BY <1>a, <2>1, <2>2 DEF Live, SoftBlocked
  <2>4. Cardinality(ToSet(woken)) = Len(woken) /\ Len(woken) \in Nat
    <3>1. Cardinality(ToSet(woken)) = Len(woken)
      BY <2>2, QueueLength
    <3>2. Len(woken) \in Nat
      BY <2>2
    <3> QED
      BY <3>1, <3>2
  <2>5. Cardinality(SoftBlocked') = Cardinality(SoftBlocked) - Len(woken)
    <3>1. Cardinality(SoftBlocked \ ToSet(woken))
            = Cardinality(SoftBlocked) - Cardinality(SoftBlocked \cap ToSet(woken))
      BY Countable, FS_Difference
    <3> QED
      BY <2>3, <2>4, <3>1
  <2> QED
    BY <1>a, <1>b, <2>1, <2>3, <2>4, <2>5, Countable DEF CountsCover
<1>17. CASE nonTimerInterruptHandler
  <2>1. PICK d \in DEVICE :
          \/ asl[d] # <<>> /\ removeBlocked(d) /\ softBlockedCount' = softBlockedCount - 1
          \/ UNCHANGED <<blocking, softBlockedCount>>
    BY <1>17 DEF nonTimerInterruptHandler
  <2>2. UNCHANGED <<pcbFree, processCount>>
    BY <1>17 DEF nonTimerInterruptHandler
  <2>3. CASE asl[d] # <<>> /\ removeBlocked(d) /\ softBlockedCount' = softBlockedCount - 1
    BY <1>4, <2>2, <2>3
  <2>4. CASE UNCHANGED <<blocking, softBlockedCount>>
    BY <2>2, <2>4, CountsStay DEF blocking, counts
  <2> QED
    BY <2>1, <2>3, <2>4
<1>18. CASE \/ PltExpires \/ IntervalTimerExpires \/ StayStopped
            \/ \E d \in DEVICE : StartDevice(d) \/ DeviceCompletes(d)
  BY <1>18, CountsStay DEF PltExpires, IntervalTimerExpires, StartDevice, DeviceCompletes,
     StayStopped, vars, nucleusState, blocking
<1> QED
  BY <1>10, <1>11, <1>14, <1>15, <1>16, <1>17, <1>18 DEF Next

-----------------------------------------------------------------------------
(* Stopping                                                                *)

\* The scheduler stops the processor only for the counts it stops for.
LEMMA SchedulerIdles ==
    ASSUME NEW rq, scheduler(rq)
    PROVE  Idle'
BY DEF scheduler, Idle

\* The processor starts and stops executing processes only in the scheduler.
LEMMA IdleStep ==
    ASSUME Typed, ModeSound, StackSound, Idle, Next
    PROVE  Idle'
<1>1. ASSUME cpu' \notin {"wait", "halt", "panic"}
      PROVE  Idle'
  BY <1>1 DEF Idle
<1>2. ASSUME NEW rq, resume(rq), cpu = "process"
      PROVE  Idle'
  BY <1>1, <1>2 DEF resume
<1>3. ASSUME cpu = "process", terminateCurrent
      PROVE  Idle'
  BY <1>1, <1>3 DEF terminateCurrent, dispatch
<1>4. ASSUME cpu = "process", passUpOrDie
      PROVE  Idle'
  BY <1>1, <1>3, <1>4 DEF passUpOrDie
<1>5. CASE systemTrapHandler
  <2>1. cpu = "process"
    BY <1>5 DEF systemTrapHandler, Executing
  <2>2. ASSUME \/ \E support \in BOOLEAN : createProcess(support)
               \/ \E s \in USERSEM : passeren(s) \/ verhogen(s)
               \/ \E d \in DEVICE : waitForIO(d)
               \/ waitForClock \/ returnToCaller
        PROVE  Idle'
    <3>1. \E rq : scheduler(rq) \/ resume(rq)
      BY <2>2 DEF createProcess, passeren, verhogen, waitForIO, waitForClock, returnToCaller,
         blockCurrentProcessHelper
    <3> QED
      BY <1>2, <2>1, <3>1, SchedulerIdles
  <2> QED
    BY <1>3, <1>4, <1>5, <2>1, <2>2 DEF systemTrapHandler, getCPUTime, getSupportData
<1>6. CASE programTrapHandler
  BY <1>4, <1>6 DEF programTrapHandler, Executing
<1>7. CASE terminateProcess
  <2>1. cpu = "process"
    BY <1>7 DEF terminateProcess, terminateChild, StackSound
  <2>2. CASE terminateChild
    BY <1>1, <2>1, <2>2 DEF terminateChild, dispatch
  <2>3. ASSUME NEW p, terminateSelf(p)
        PROVE  Idle'
    <3>1. \E rq : scheduler(rq) \/ resume(rq)
      BY <2>3 DEF terminateSelf
    <3> QED
      BY <1>2, <2>1, <3>1, SchedulerIdles
  <2> QED
    BY <1>7, <2>2, <2>3 DEF terminateProcess
<1>8. CASE PLTInterruptHandler
  BY <1>1, <1>8, SchedulerIdles DEF PLTInterruptHandler
<1>9. ASSUME Unmasked, NEW rq, returnFromInterrupt(rq)
      PROVE  Idle'
  <2>1. CASE currentProcess # NULL /\ resume(rq)
    BY <1>2, <1>9, <2>1 DEF ModeSound, Unmasked
  <2> QED
    BY <1>9, <2>1, SchedulerIdles DEF returnFromInterrupt
<1>10. CASE intervalTimerInterruptHandler
  BY <1>9, <1>10 DEF intervalTimerInterruptHandler
<1>11. CASE nonTimerInterruptHandler
  BY <1>9, <1>11 DEF nonTimerInterruptHandler
<1>12. CASE \/ PltExpires \/ IntervalTimerExpires \/ StayStopped
            \/ \E d \in DEVICE : StartDevice(d) \/ DeviceCompletes(d)
  BY <1>12 DEF PltExpires, IntervalTimerExpires, StartDevice, DeviceCompletes,
     StayStopped, vars, nucleusState, dispatch, counts, Idle
<1> QED
  BY <1>5, <1>6, <1>7, <1>8, <1>10, <1>11, <1>12 DEF Next

-----------------------------------------------------------------------------

\* What is added to Inv: it keeps itself, given Inv.
CountInv == Balanced /\ CountsCover /\ Idle

\* main() starts with every device semaphore at zero and one process.
LEMMA InitCounts == Init => CountInv
<1> SUFFICES ASSUME Init PROVE CountInv
  OBVIOUS
<1>1. PICK p \in PCB : pcbFree = PCB \ {p} /\ currentProcess = p
  BY DEF Init
<1>2. Live = {p} /\ SoftBlocked = {}
  <2>1. Live = {p}
    BY <1>1 DEF Live
  <2>2. p_semAdd[p] = NULL
    BY DEF Init
  <2> QED
    BY <2>1, <2>2, Addresses DEF SoftBlocked
<1>3. Cardinality(Live) = 1 /\ Cardinality(SoftBlocked) = 0
  BY <1>2, FS_EmptySet, FS_Singleton
<1>4. CountsCover
  BY <1>3 DEF Init, CountsCover
<1>5. \A s \in Semaphore : asl[s] = <<>> /\ Len(asl[s]) = 0
  BY DEF Init
<1>6. Balanced
  <2>1. \A s \in USERSEM : userSem[s] \in Int /\ ~(userSem[s] < 0)
    BY BoundAssumption DEF Init
  <2>2. semaphoreDevices[CLOCK_INDEX] = 0
    BY Addresses DEF Init
  <2> QED
    BY <1>5, <2>1, <2>2, Addresses DEF Balanced, SemaphoreBalance, DeviceSemaphoreCovers, ClockNeverAbove
<1>7. Idle
  BY DEF Init, Idle
<1> QED
  BY <1>4, <1>6, <1>7 DEF CountInv

\* Every step preserves it.
LEMMA StepCounts == Inv /\ CountInv /\ [Next]_vars => CountInv'
<1> SUFFICES ASSUME Inv, CountInv, [Next]_vars PROVE CountInv'
  OBVIOUS
<1> USE DEF Inv, Family, CountInv
<1>1. CASE Next
  <2>1. Balanced'
    BY <1>1, BalanceStep
  <2>2. CountsCover'
    BY <1>1, CountsStep
  <2>3. Idle'
    BY <1>1, IdleStep
  <2> QED
    BY <2>1, <2>2, <2>3
<1>2. CASE UNCHANGED vars
  <2>1. Balanced'
    BY <1>2, BalanceStays DEF vars, blocking, sems
  <2>2. CountsCover'
    BY <1>2, CountsStay DEF vars, blocking
  <2>3. Idle'
    BY <1>2 DEF vars, dispatch, counts, Idle
  <2> QED
    BY <2>1, <2>2, <2>3
<1> QED
  BY <1>1, <1>2

\* Both invariants hold in every reachable state.
THEOREM CountInvariance == Spec => [](Inv /\ CountInv)
BY InitInv, InitCounts, StepInv, StepCounts, PTL DEF Spec

\* A user semaphore's negative value is the number of its waiters
\* (exceptions.c:391, 432, 471).
THEOREM SemaphoresBalance == Spec => []SemaphoreBalance
<1>1. CountInv => SemaphoreBalance
  BY DEF CountInv, Balanced
<1> QED
  BY <1>1, CountInvariance, PTL

\* Nobody sleeps on a device or clock whose semaphore does not say so
\* (exceptions.c:396, interrupts.c:302, 307).
THEOREM DevicesCover == Spec => []DeviceSemaphoreCovers
<1>1. CountInv => DeviceSemaphoreCovers
  BY DEF CountInv, Balanced
<1> QED
  BY <1>1, CountInvariance, PTL

\* The counts the scheduler decides by cover the processes (scheduler.c:143-147).
THEOREM CountsSound == Spec => []CountsCover
<1>1. CountInv => CountsCover
  BY DEF CountInv
<1> QED
  BY <1>1, CountInvariance, PTL

\* The type invariant: in particular neither count becomes negative.
THEOREM TypeCorrect == Spec => []TypeOK
<1>1. Inv /\ CountInv => TypeOK
  <2> SUFFICES ASSUME Inv, CountInv PROVE TypeOK
    OBVIOUS
  <2>1. Typed /\ CountsCover
    BY DEF Inv, CountInv
  <2>2. softBlockedCount \in Int
    BY <2>1 DEF Typed
  <2> QED
    BY <2>1, <2>2, Countable DEF TypeOK, CountsCover
<1> QED
  BY <1>1, CountInvariance, PTL

\* The processor waits only when no process is ready (interrupts.c:354, 407).
THEOREM NoIdleWithWork == Spec => []NeverIdleWithWork
<1>1. Inv /\ CountInv => NeverIdleWithWork
  BY DEF Inv, CountInv, Idle, ModeSound, NeverIdleWithWork
<1> QED
  BY <1>1, CountInvariance, PTL

\* HALT and the scheduler's PANIC are justified (scheduler.c:143-156).
THEOREM StopsJustified == Spec => []StopJustified
<1>1. Inv /\ CountInv => StopJustified
  <2> SUFFICES ASSUME Inv, CountInv PROVE StopJustified
    OBVIOUS
  <2>1. Typed /\ ModeSound /\ EveryProcessPlaced /\ CountsCover /\ Idle
    BY DEF Inv, CountInv
  <2>2. ASSUME cpu = "halt" PROVE pcbFree = PCB
    <3>1. Live = {}
      BY <2>1, <2>2, Countable, FS_EmptySet DEF CountsCover, Idle
    <3> QED
      BY <2>1, <3>1 DEF Live, Typed
  <2>3. ASSUME cpu = "panic"
        PROVE  Live # {} /\ \A p \in Live : p_semAdd[p] \in USERSEM
    <3>1. Live # {}
      BY <2>1, <2>3, FS_EmptySet DEF CountsCover, Idle
    <3>2. SoftBlocked = {}
      <4>1. Cardinality(SoftBlocked) \in Nat /\ softBlockedCount \in Int
        BY <2>1, Countable DEF Typed
      <4>2. Cardinality(SoftBlocked) = 0
        BY <2>1, <2>3, <4>1 DEF CountsCover, Idle
      <4> QED
        BY <2>1, <4>2, Countable, FS_EmptySet
    <3>3. currentProcess = NULL /\ readyQueue = <<>>
      BY <2>1, <2>3 DEF ModeSound, Idle
    <3>4. \A p \in Live : p_semAdd[p] # NULL
      BY <2>1, <3>3, EmptyQueue, Addresses DEF EveryProcessPlaced, ReadyQueueSound, Live
    <3>5. \A p \in Live : p_semAdd[p] \in Semaphore /\ p_semAdd[p] \notin DeviceSem
      BY <2>1, <3>2, <3>4 DEF Typed, Live, SoftBlocked
    <3> QED
      BY <3>1, <3>5, Addresses
  <2> QED
    BY <2>2, <2>3 DEF StopJustified
<1> QED
  BY <1>1, CountInvariance, PTL

\* SYS7 always blocks its caller (exceptions.c:627-628): only a P on the clock
\* lowers its semaphore, a tick finds it at zero or below.
THEOREM ClockAlwaysBlocks == Spec => ClockWaitBlocks
<1> DEFINE A == semaphoreDevices'[CLOCK_INDEX] < semaphoreDevices[CLOCK_INDEX]
                  => asl'[CLOCK_INDEX] = Append(asl[CLOCK_INDEX], currentProcess)
<1>1. Inv /\ CountInv /\ [Next]_vars => [A]_vars
  <2> SUFFICES ASSUME Inv, CountInv, Next PROVE A
    OBVIOUS
  <2> USE Addresses
  <2>1. /\ semaphoreDevices \in [DeviceSem -> Int] /\ semaphoreDevices[CLOCK_INDEX] <= 0
        /\ asl \in [Semaphore -> Seq(PCB)]
    BY DEF Inv, CountInv, Typed, Balanced, ClockNeverAbove
  <2>2. ASSUME semaphoreDevices'[CLOCK_INDEX] >= semaphoreDevices[CLOCK_INDEX],
               semaphoreDevices'[CLOCK_INDEX] \in Int
        PROVE  A
    BY <2>1, <2>2
  <2>3. ASSUME UNCHANGED semaphoreDevices
        PROVE  A
    BY <2>1, <2>2, <2>3
  <2>4. CASE systemTrapHandler
    <3>1. CASE waitForClock
      <4>1. semaphoreDevices'[CLOCK_INDEX] < 0
        BY <2>1, <3>1 DEF waitForClock
      <4>2. insertBlocked(CLOCK_INDEX, currentProcess)
        BY <3>1, <4>1 DEF waitForClock, mustBlock, blockCurrentProcessHelper
      <4> QED
        BY <2>1, <4>2 DEF insertBlocked, insertProcQ
    <3>2. ASSUME NEW d \in DEVICE, waitForIO(d)
          PROVE  A
      BY <2>1, <2>2, <3>2 DEF waitForIO
    <3> QED
      BY <2>3, <2>4, <3>1, <3>2 DEF systemTrapHandler, createProcess, terminateCurrent, passeren,
         verhogen, getCPUTime, getSupportData, returnToCaller, passUpOrDie, sems
  <2>5. CASE programTrapHandler
    BY <2>3, <2>5 DEF programTrapHandler, passUpOrDie, terminateCurrent, sems
  <2>6. CASE terminateProcess
    BY <2>3, <2>6 DEF terminateProcess, terminateChild, terminateSelf, giveBack, sems
  <2>7. CASE PLTInterruptHandler
    BY <2>3, <2>7 DEF PLTInterruptHandler, sems
  <2>8. CASE intervalTimerInterruptHandler
    BY <2>1, <2>2, <2>8 DEF intervalTimerInterruptHandler, resetClock
  <2>9. CASE nonTimerInterruptHandler
    BY <2>1, <2>2, <2>9 DEF nonTimerInterruptHandler
  <2>10. CASE \/ PltExpires \/ IntervalTimerExpires \/ StayStopped
              \/ \E d \in DEVICE : StartDevice(d) \/ DeviceCompletes(d)
    BY <2>3, <2>10 DEF PltExpires, IntervalTimerExpires, StartDevice, DeviceCompletes,
       StayStopped, vars, nucleusState, sems
  <2> QED
    BY <2>4, <2>5, <2>6, <2>7, <2>8, <2>9, <2>10 DEF Next
<1> QED
  BY <1>1, CountInvariance, PTL DEF Spec, ClockWaitBlocks

-----------------------------------------------------------------------------
(* First come, first served                                                *)

\* Nobody is ahead in r of a member of q who was not in q, if any two positions of
\* r are in the same order in q.
LEMMA OrderKept ==
    ASSUME NEW S, NEW q \in Seq(S), NEW r \in Seq(S),
           \A j \in 1 .. Len(r) : \A k \in 1 .. Len(r) :
             k < j /\ r[j] \in ToSet(q) =>
               \E i \in 1 .. Len(q), h \in 1 .. Len(q) : h < i /\ q[i] = r[j] /\ q[h] = r[k]
    PROVE  InOrder(q, r)
<1> SUFFICES ASSUME NEW p \in ToSet(q), NEW y \in Ahead(r, p)
             PROVE  y \in Ahead(q, p)
  BY DEF InOrder
<1>1. DOMAIN q = 1 .. Len(q) /\ DOMAIN r = 1 .. Len(r)
  OBVIOUS
<1>2. PICK k \in 1 .. Len(r), j \in 1 .. Len(r) : k < j /\ r[j] = p /\ r[k] = y
  BY <1>1 DEF Ahead
<1>3. PICK i \in 1 .. Len(q), h \in 1 .. Len(q) : h < i /\ q[i] = p /\ q[h] = y
  BY <1>2
<1> QED
  BY <1>1, <1>3 DEF Ahead

\* Nothing changes; the queue is emptied.
LEMMA OrderSame ==
    ASSUME NEW q
    PROVE  InOrder(q, q) /\ InOrder(q, <<>>)
BY EmptyQueue DEF InOrder, Ahead

\* insertProcQ puts a pcb that was not in the queue behind all others.
LEMMA OrderAppend ==
    ASSUME NEW S, NEW q \in Seq(S), NEW x \in S, x \notin ToSet(q)
    PROVE  InOrder(q, Append(q, x))
<1> DEFINE r == Append(q, x)
<1>1. /\ r \in Seq(S) /\ Len(r) = Len(q) + 1 /\ Len(q) \in Nat
      /\ \A i \in 1 .. Len(q) : r[i] = q[i]
      /\ r[Len(q) + 1] = x
  OBVIOUS
<1> HIDE DEF r
<1>2. ASSUME NEW j \in 1 .. Len(r), NEW k \in 1 .. Len(r), k < j, r[j] \in ToSet(q)
      PROVE  \E i \in 1 .. Len(q), h \in 1 .. Len(q) : h < i /\ q[i] = r[j] /\ q[h] = r[k]
  <2>1. j # Len(q) + 1
    BY <1>1, <1>2
  <2>2. j \in 1 .. Len(q) /\ k \in 1 .. Len(q)
    BY <1>1, <1>2, <2>1
  <2>3. r[j] = q[j] /\ r[k] = q[k]
    BY <1>1, <2>2
  <2> QED
    BY <1>2, <2>2, <2>3
<1>3. InOrder(q, r)
  <2>1. \A j \in 1 .. Len(r) : \A k \in 1 .. Len(r) :
         k < j /\ r[j] \in ToSet(q) =>
           \E i \in 1 .. Len(q), h \in 1 .. Len(q) : h < i /\ q[i] = r[j] /\ q[h] = r[k]
    BY <1>2
  <2>2. q \in Seq(S) /\ r \in Seq(S)
    BY <1>1
  <2> QED
    BY <2>1, <2>2, OrderKept
<1> QED
  BY <1>3 DEF r

\* Those who are woken at once join behind all others.
LEMMA OrderConcat ==
    ASSUME NEW S, NEW q \in Seq(S), NEW w \in Seq(S), ToSet(q) \cap ToSet(w) = {}
    PROVE  InOrder(q, q \o w)
<1> DEFINE r == q \o w
<1>1. /\ r \in Seq(S) /\ Len(r) = Len(q) + Len(w) /\ Len(q) \in Nat /\ Len(w) \in Nat
      /\ \A k \in 1 .. Len(q) + Len(w) : r[k] = IF k <= Len(q) THEN q[k] ELSE w[k - Len(q)]
  BY ConcatProperties
<1> HIDE DEF r
<1>2. ASSUME NEW j \in 1 .. Len(r), NEW k \in 1 .. Len(r), k < j, r[j] \in ToSet(q)
      PROVE  \E i \in 1 .. Len(q), h \in 1 .. Len(q) : h < i /\ q[i] = r[j] /\ q[h] = r[k]
  <2>1. j <= Len(q)
    <3> SUFFICES ASSUME ~(j <= Len(q))
                 PROVE  FALSE
      OBVIOUS
    <3>1. j - Len(q) \in 1 .. Len(w) /\ r[j] = w[j - Len(q)]
      BY <1>1
    <3>2. r[j] \in ToSet(w)
      BY <3>1, InQueue
    <3> QED
      BY <1>2, <3>2
  <2>2. j \in 1 .. Len(q) /\ k \in 1 .. Len(q)
    BY <1>1, <1>2, <2>1
  <2>3. r[j] = q[j] /\ r[k] = q[k]
    BY <1>1, <2>2
  <2> QED
    BY <1>2, <2>2, <2>3
<1>3. InOrder(q, r)
  <2>1. \A j \in 1 .. Len(r) : \A k \in 1 .. Len(r) :
         k < j /\ r[j] \in ToSet(q) =>
           \E i \in 1 .. Len(q), h \in 1 .. Len(q) : h < i /\ q[i] = r[j] /\ q[h] = r[k]
    BY <1>2
  <2>2. q \in Seq(S) /\ r \in Seq(S)
    BY <1>1
  <2> QED
    BY <2>1, <2>2, OrderKept
<1> QED
  BY <1>3 DEF r

\* removeProcQ takes the head.
LEMMA OrderTail ==
    ASSUME NEW S, NEW q \in Seq(S), q # <<>>
    PROVE  InOrder(q, Tail(q))
<1> DEFINE r == Tail(q)
<1>1. /\ r \in Seq(S) /\ Len(r) = Len(q) - 1 /\ Len(q) \in Nat
      /\ \A i \in 1 .. Len(q) - 1 : r[i] = q[i + 1]
  OBVIOUS
<1> HIDE DEF r
<1>2. ASSUME NEW j \in 1 .. Len(r), NEW k \in 1 .. Len(r), k < j
      PROVE  \E i \in 1 .. Len(q), h \in 1 .. Len(q) : h < i /\ q[i] = r[j] /\ q[h] = r[k]
  <2>1. j + 1 \in 1 .. Len(q) /\ k + 1 \in 1 .. Len(q) /\ k + 1 < j + 1
    BY <1>1, <1>2
  <2>2. r[j] = q[j + 1] /\ r[k] = q[k + 1]
    BY <1>1
  <2> QED
    BY <2>1, <2>2
<1>3. InOrder(q, r)
  <2>1. \A j \in 1 .. Len(r) : \A k \in 1 .. Len(r) :
         k < j /\ r[j] \in ToSet(q) =>
           \E i \in 1 .. Len(q), h \in 1 .. Len(q) : h < i /\ q[i] = r[j] /\ q[h] = r[k]
    BY <1>2
  <2>2. q \in Seq(S) /\ r \in Seq(S)
    BY <1>1
  <2> QED
    BY <2>1, <2>2, OrderKept
<1> QED
  BY <1>3 DEF r

\* outProcQ takes one from anywhere.
LEMMA OrderOut ==
    ASSUME NEW q \in Seq(PCB), NEW p
    PROVE  InOrder(q, outProcQ(q, p))
<1>0. DOMAIN q = 1 .. Len(q)
  OBVIOUS
<1>1. CASE ~\E i \in DOMAIN q : q[i] = p
  BY <1>1, OrderSame DEF outProcQ
<1>2. CASE \E i \in DOMAIN q : q[i] = p
  <2> DEFINE n == CHOOSE i \in DOMAIN q : q[i] = p
             r == RemoveAt(q, n)
  <2>1. n \in 1 .. Len(q) /\ outProcQ(q, p) = r
    BY <1>0, <1>2 DEF outProcQ
  <2> HIDE DEF n
  <2>2. /\ r \in Seq(PCB) /\ Len(r) = Len(q) - 1 /\ Len(q) \in Nat
        /\ \A k \in 1 .. Len(q) - 1 : r[k] = IF k < n THEN q[k] ELSE q[k + 1]
    BY <2>1, RemoveAtQueue
  <2> HIDE DEF r
  <2>3. ASSUME NEW j \in 1 .. Len(r), NEW k \in 1 .. Len(r), k < j
        PROVE  \E i \in 1 .. Len(q), h \in 1 .. Len(q) : h < i /\ q[i] = r[j] /\ q[h] = r[k]
    <3> DEFINE place(m) == IF m < n THEN m ELSE m + 1
    <3>1. /\ place(j) \in 1 .. Len(q) /\ place(k) \in 1 .. Len(q)
          /\ place(k) < place(j)
      BY <2>1, <2>2, <2>3
    <3>2. r[j] = q[place(j)] /\ r[k] = q[place(k)]
      BY <2>2
    <3> HIDE DEF place
    <3> QED
      BY <3>1, <3>2
  <2>4. InOrder(q, r)
    <3>1. \A j \in 1 .. Len(r) : \A k \in 1 .. Len(r) :
           k < j /\ r[j] \in ToSet(q) =>
             \E i \in 1 .. Len(q), h \in 1 .. Len(q) : h < i /\ q[i] = r[j] /\ q[h] = r[k]
      BY <2>3
    <3>2. q \in Seq(PCB) /\ r \in Seq(PCB)
      BY <2>2
    <3> QED
      BY <3>1, <3>2, OrderKept
  <2> QED
    BY <2>1, <2>4
<1> QED
  BY <1>1, <1>2

\* The scheduler takes the head, or finds the queue empty.
LEMMA OrderSchedule ==
    ASSUME NEW q \in Seq(PCB), NEW rq \in Seq(PCB), InOrder(q, rq), ToSet(q) \subseteq ToSet(rq),
           scheduler(rq)
    PROVE  InOrder(q, readyQueue')
<1>1. CASE rq = <<>>
  BY <1>1 DEF scheduler
<1>2. CASE rq # <<>>
  <2>1. readyQueue' = Tail(rq) /\ InOrder(rq, Tail(rq))
    BY <1>2, OrderTail DEF scheduler
  <2> QED
    BY <2>1 DEF InOrder
<1> QED
  BY <1>1, <1>2

\* A process that blocks joins behind the others, and one that is woken leaves
\* from the head.
LEMMA OrderBlocked ==
    ASSUME Typed, NEW s \in Semaphore, NEW r \in Seq(PCB), InOrder(asl[s], r),
           asl' = [asl EXCEPT ![s] = r]
    PROVE  \A t \in Semaphore : InOrder(asl[t], asl'[t])
<1> SUFFICES ASSUME NEW t \in Semaphore
             PROVE  InOrder(asl[t], asl'[t])
  OBVIOUS
<1>1. asl \in [Semaphore -> Seq(PCB)]
  BY DEF Typed
<1>2. CASE t = s
  BY <1>1, <1>2
<1>3. CASE t # s
  BY <1>1, <1>3, OrderSame
<1> QED
  BY <1>2, <1>3

\* What a step may do to the queues.
Orderly == /\ InOrder(readyQueue, readyQueue')
           /\ \A s \in Semaphore : InOrder(asl[s], asl'[s])

\* No step lets a process overtake another.
LEMMA OrderStep ==
    ASSUME Typed, ModeSound, EveryProcessPlaced, StackSound, Next
    PROVE  Orderly
<1> USE Addresses
<1>a. /\ readyQueue \in Seq(PCB) /\ asl \in [Semaphore -> Seq(PCB)]
      /\ Live \subseteq PCB /\ ToSet(readyQueue) \subseteq Live
  BY DEF Typed, Live, EveryProcessPlaced, ReadyQueueSound
<1>b. /\ \A s \in Semaphore : ToSet(asl[s]) = {p \in Live : p_semAdd[p] = s}
      /\ \A p \in ToSet(readyQueue) : p_semAdd[p] = NULL /\ p # currentProcess
      /\ currentProcess # NULL => currentProcess \in Live /\ p_semAdd[currentProcess] = NULL
  BY DEF EveryProcessPlaced, ReadyQueueSound, AslSound, CurrentSound
<1>1. ASSUME UNCHANGED asl
      PROVE  \A s \in Semaphore : InOrder(asl[s], asl'[s])
  BY <1>1, OrderSame
<1>2. ASSUME UNCHANGED <<asl, readyQueue>>
      PROVE  Orderly
  BY <1>1, <1>2, OrderSame DEF Orderly
<1>3. ASSUME scheduler(readyQueue)
      PROVE  InOrder(readyQueue, readyQueue')
  BY <1>3, <1>a, OrderSame, OrderSchedule
<1>4. ASSUME NEW s \in Semaphore, blockCurrentProcessHelper(s), currentProcess # NULL
      PROVE  Orderly
  <2>1. /\ asl' = [asl EXCEPT ![s] = Append(asl[s], currentProcess)]
        /\ scheduler(readyQueue)
    BY <1>4 DEF blockCurrentProcessHelper, insertBlocked, insertProcQ
  <2>2. currentProcess \in PCB /\ currentProcess \notin ToSet(asl[s]) /\ asl[s] \in Seq(PCB)
    BY <1>4, <1>a, <1>b
  <2>3. InOrder(asl[s], Append(asl[s], currentProcess)) /\ Append(asl[s], currentProcess) \in Seq(PCB)
    BY <2>2, OrderAppend
  <2> QED
    BY <1>3, <2>1, <2>3, OrderBlocked DEF Orderly
<1>5. ASSUME NEW rq \in Seq(PCB), InOrder(readyQueue, rq), ToSet(readyQueue) \subseteq ToSet(rq),
             returnFromInterrupt(rq) \/ resume(rq)
      PROVE  InOrder(readyQueue, readyQueue')
  BY <1>5, <1>a, OrderSchedule DEF returnFromInterrupt, resume
<1>6. ASSUME NEW p \in PCB, p \notin ToSet(readyQueue)
      PROVE  LET rq == insertProcQ(readyQueue, p)
             IN rq \in Seq(PCB) /\ InOrder(readyQueue, rq) /\ ToSet(readyQueue) \subseteq ToSet(rq)
  <2>1. /\ Append(readyQueue, p) \in Seq(PCB)
        /\ ToSet(Append(readyQueue, p)) = ToSet(readyQueue) \cup {p}
    BY <1>6, <1>a, AppendQueue
  <2>2. InOrder(readyQueue, Append(readyQueue, p))
    BY <1>6, <1>a, OrderAppend
  <2> QED
    BY <2>1, <2>2 DEF insertProcQ
<1>7. ASSUME NEW s \in Semaphore, asl[s] # <<>>, removeBlocked(s),
             LET rq == insertProcQ(readyQueue, Head(asl[s])) IN returnFromInterrupt(rq) \/ resume(rq)
      PROVE  Orderly
  <2>1. asl' = [asl EXCEPT ![s] = Tail(asl[s])] /\ asl[s] \in Seq(PCB)
    BY <1>7, <1>a DEF removeBlocked
  <2>2. /\ Head(asl[s]) \in PCB /\ Head(asl[s]) \in ToSet(asl[s]) /\ Tail(asl[s]) \in Seq(PCB)
        /\ InOrder(asl[s], Tail(asl[s]))
    BY <1>7, <2>1, TailQueue, OrderTail
  <2>3. \A t \in Semaphore : InOrder(asl[t], asl'[t])
    BY <2>1, <2>2, OrderBlocked
  <2>4. Head(asl[s]) \notin ToSet(readyQueue)
    BY <1>b, <2>2
  <2>5. InOrder(readyQueue, readyQueue')
    BY <1>5, <1>6, <1>7, <2>2, <2>4
  <2> QED
    BY <2>3, <2>5 DEF Orderly
<1>8. ASSUME resume(readyQueue) \/ returnFromInterrupt(readyQueue), UNCHANGED asl
      PROVE  Orderly
  BY <1>1, <1>5, <1>8, <1>a, OrderSame DEF Orderly
<1>9. ASSUME terminateCurrent
      PROVE  Orderly
  BY <1>2, <1>9 DEF terminateCurrent, blocking, dispatch
<1>10. ASSUME passUpOrDie
       PROVE  Orderly
  BY <1>2, <1>9, <1>10 DEF passUpOrDie, blocking
<1>11. CASE systemTrapHandler
  <2>1. currentProcess # NULL
    BY <1>11 DEF systemTrapHandler, Executing, ModeSound
  <2>2. ASSUME NEW support \in BOOLEAN, createProcess(support)
        PROVE  Orderly
    <3>1. UNCHANGED asl
      BY <2>2 DEF createProcess
    <3>2. CASE resume(readyQueue)
      BY <1>8, <3>1, <3>2
    <3>3. ASSUME NEW p \in pcbFree, resume(insertProcQ(readyQueue, p))
          PROVE  Orderly
      <4>1. p \in PCB /\ p \notin ToSet(readyQueue)
        BY <1>a, <3>3 DEF Typed, Live
      <4> QED
        BY <1>1, <1>5, <1>6, <3>1, <3>3, <4>1 DEF Orderly
    <3> QED
      BY <2>2, <3>2, <3>3 DEF createProcess
  <2>3. ASSUME NEW s \in USERSEM, passeren(s) \/ verhogen(s)
        PROVE  Orderly
    BY <1>4, <1>7, <1>8, <2>1, <2>3 DEF passeren, verhogen, blocking
  <2>4. ASSUME NEW d \in DEVICE, waitForIO(d)
        PROVE  Orderly
    BY <1>4, <1>8, <2>1, <2>4 DEF waitForIO, blocking
  <2>5. CASE waitForClock
    BY <1>4, <1>8, <2>1, <2>5 DEF waitForClock, blocking
  <2>6. CASE returnToCaller
    BY <1>8, <2>6 DEF returnToCaller, blocking
  <2> QED
    BY <1>9, <1>10, <1>11, <2>2, <2>3, <2>4, <2>5, <2>6
    DEF systemTrapHandler, getCPUTime, getSupportData
<1>12. CASE programTrapHandler
  BY <1>10, <1>12 DEF programTrapHandler
<1>13. CASE terminateProcess
  <2>1. CASE terminateChild
    BY <1>2, <2>1 DEF terminateChild, blocking, dispatch
  <2>2. ASSUME terminating # <<>>, terminateSelf(terminating[Len(terminating)])
        PROVE  Orderly
    <3> DEFINE p == terminating[Len(terminating)]
    <3>1. terminating \in Seq(PCB) /\ Len(terminating) \in Nat /\ Len(terminating) > 0
      BY <2>2, EmptySeq DEF Typed
    <3>2. Len(terminating) \in DOMAIN terminating /\ terminating[1] = currentProcess
      BY <2>2, <3>1 DEF StackSound
    <3>3. p \in PCB /\ (p # currentProcess => Len(terminating) # 1)
      BY <3>1, <3>2
    <3>4. /\ \/ /\ p = currentProcess /\ asl' = asl
                /\ scheduler(readyQueue) \/ resume(readyQueue)
             \/ /\ p # currentProcess /\ p_semAdd[p] # NULL /\ outBlocked(p)
                /\ scheduler(readyQueue) \/ resume(readyQueue)
             \/ /\ p # currentProcess /\ p_semAdd[p] = NULL /\ asl' = asl
                /\ resume(outProcQ(readyQueue, p))
      BY <2>2, <3>3 DEF terminateSelf
    <3> HIDE DEF p
    <3>5. ASSUME scheduler(readyQueue) \/ resume(readyQueue)
          PROVE  InOrder(readyQueue, readyQueue')
      BY <1>3, <3>5, OrderSame DEF resume
    <3>6. CASE p = currentProcess
      BY <1>1, <3>4, <3>5, <3>6 DEF Orderly
    <3>7. CASE p # currentProcess /\ p_semAdd[p] # NULL
      <4> DEFINE s == p_semAdd[p]
      <4>1. s \in Semaphore /\ asl' = [asl EXCEPT ![s] = outProcQ(asl[s], p)]
        BY <3>3, <3>4, <3>7 DEF outBlocked, Typed
      <4>2. asl[s] \in Seq(PCB) /\ outProcQ(asl[s], p) \in Seq(PCB) /\ InOrder(asl[s], outProcQ(asl[s], p))
        BY <1>a, <4>1, OutProcQ, OrderOut
      <4> HIDE DEF s
      <4> QED
        BY <3>4, <3>5, <3>7, <4>1, <4>2, OrderBlocked DEF Orderly
    <3>8. CASE p # currentProcess /\ p_semAdd[p] = NULL
      BY <1>1, <1>a, <3>4, <3>8, OrderOut DEF Orderly, resume
    <3> QED
      BY <3>6, <3>7, <3>8
  <2> QED
    BY <1>13, <2>1, <2>2 DEF terminateProcess
<1>14. CASE PLTInterruptHandler
  <2>1. UNCHANGED asl
    BY <1>14 DEF PLTInterruptHandler, blocking
  <2>2. CASE currentProcess # NULL /\ scheduler(insertProcQ(readyQueue, currentProcess))
    <3>1. currentProcess \in PCB /\ currentProcess \notin ToSet(readyQueue)
      BY <1>a, <1>b, <2>2
    <3> QED
      BY <1>1, <1>6, <1>a, <2>1, <2>2, <3>1, OrderSchedule DEF Orderly
  <2> QED
    BY <1>2, <1>14, <2>1, <2>2 DEF PLTInterruptHandler
<1>15. CASE intervalTimerInterruptHandler
  <2> DEFINE woken == asl[CLOCK_INDEX]
  <2>1. asl' = [asl EXCEPT ![CLOCK_INDEX] = <<>>] /\ returnFromInterrupt(readyQueue \o woken)
    BY <1>15 DEF intervalTimerInterruptHandler
  <2>2. woken \in Seq(PCB) /\ ToSet(readyQueue) \cap ToSet(woken) = {}
    BY <1>a, <1>b
  <2>3. \A t \in Semaphore : InOrder(asl[t], asl'[t])
    BY <2>1, OrderSame, OrderBlocked
  <2> HIDE DEF woken
  <2>4. /\ readyQueue \o woken \in Seq(PCB) /\ InOrder(readyQueue, readyQueue \o woken)
        /\ ToSet(readyQueue) \subseteq ToSet(readyQueue \o woken)
    BY <1>a, <2>2, OrderConcat, ConcatQueue
  <2> QED
    BY <1>5, <2>1, <2>3, <2>4 DEF Orderly
<1>16. CASE nonTimerInterruptHandler
  BY <1>7, <1>8, <1>16 DEF nonTimerInterruptHandler, blocking
<1>17. CASE \/ PltExpires \/ IntervalTimerExpires \/ StayStopped
            \/ \E d \in DEVICE : StartDevice(d) \/ DeviceCompletes(d)
  BY <1>2, <1>17 DEF PltExpires, IntervalTimerExpires, StartDevice, DeviceCompletes,
     StayStopped, vars, nucleusState, blocking, dispatch
<1> QED
  BY <1>11, <1>12, <1>13, <1>14, <1>15, <1>16, <1>17 DEF Next

\* For any number of processes, semaphores and devices, the Ready Queue and the
\* queues of the semaphores are first come, first served through every call,
\* interrupt and termination ("in a fair, cyclic order", interrupts.c:366).
THEOREM FirstComeFirstServed == Spec => NobodyOvertakes
<1>1. Inv /\ [Next]_vars => [Orderly]_vars
  BY OrderStep DEF Inv, Family
<1> QED
  BY <1>1, Invariance, PTL DEF Spec, NobodyOvertakes, Orderly

-----------------------------------------------------------------------------
(* The recursion of terminateProcess ends                                  *)

\* Two steps for each process that is left, of which a call in progress has taken
\* the first.
StepsLeft == 2 * processCount - Len(terminating)

\* The calls in progress are for distinct live processes.
LEMMA DepthBounded ==
    Inv /\ CountInv
        => Len(terminating) \in Nat /\ processCount \in Nat /\ Len(terminating) <= processCount
<1> SUFFICES ASSUME Inv, CountInv
             PROVE  Len(terminating) \in Nat /\ processCount \in Nat /\ Len(terminating) <= processCount
  OBVIOUS
<1>1. terminating \in Seq(PCB) /\ IsInjective(terminating) /\ ToSet(terminating) \subseteq Live
  <2>1. terminating \in Seq(PCB) /\ IsInjective(terminating)
    BY DEF Inv, Typed, Family, StackSound
  <2>2. \A i \in DOMAIN terminating : terminating[i] \in Live
    BY DEF Inv, Family, StackSound
  <2> QED
    BY <2>1, <2>2, InQueue
<1>2. IsFiniteSet(Live)
  BY PcbAssumption, FS_Subset DEF Live
<1>3. terminating \in Seq(Live)
  BY <1>1, InQueue
<1>4. Len(terminating) <= Cardinality(Live) /\ Cardinality(Live) \in Nat
  BY <1>1, <1>2, <1>3, QueueFits
<1> QED
  BY <1>1, <1>4 DEF CountInv, CountsCover

\* The recursive termination comes to an end, and its calls are never more deeply
\* nested than there are processes: each step has one less to follow, and there are
\* never less than none (exceptions.c:365-408).
THEOREM TerminationEnds ==
    Spec => [][terminateProcess => StepsLeft' \in Nat /\ StepsLeft' < StepsLeft]_vars
<1> DEFINE A == terminateProcess => StepsLeft' \in Nat /\ StepsLeft' < StepsLeft
<1>1. ASSUME Inv, CountInv, Inv', CountInv', terminateProcess
      PROVE  StepsLeft' \in Nat /\ StepsLeft' < StepsLeft
  <2> DEFINE n == Len(terminating)
             m == processCount
  <2>1. n \in Nat /\ m \in Nat /\ n <= m /\ terminating \in Seq(PCB)
    BY <1>1, DepthBounded DEF Inv, Typed
  <2>2. (Inv /\ CountInv
            => Len(terminating) \in Nat /\ processCount \in Nat /\ Len(terminating) <= processCount)'
    BY DepthBounded, PTL
  <2>3. n' \in Nat /\ m' \in Nat /\ n' <= m'
    BY <1>1, <2>2
  <2>4. CASE terminateChild
    <3>1. m' = m /\ terminating' = Append(terminating, Head(p_child[terminating[n]]))
      BY <2>4 DEF terminateChild, counts
    <3>2. n' = n + 1
      BY <2>1, <3>1
    <3> QED
      BY <2>1, <2>3, <3>1, <3>2 DEF StepsLeft
  <2>5. CASE terminating # <<>> /\ terminateSelf(terminating[n])
    <3>1. processCount' = processCount - 1 /\ terminating' = SubSeq(terminating, 1, n - 1)
      BY <2>5 DEF terminateSelf
    <3>2. n > 0
      BY <2>1, <2>5, EmptySeq
    <3>3. n - 1 \in Int /\ \A i \in 1 .. n - 1 : terminating[i] \in PCB
      BY <2>1, <3>2
    <3>4. Len(SubSeq(terminating, 1, n - 1)) = n - 1
      <4> HIDE DEF n
      <4>1. Len(SubSeq(terminating, 1, n - 1)) = IF 1 <= n - 1 THEN (n - 1) - 1 + 1 ELSE 0
        BY <3>3, SubSeqProperties
      <4> QED
        BY <2>1, <3>2, <4>1
    <3>5. Len(terminating') = Len(terminating) - 1
      BY <3>1, <3>4
    <3>6. StepsLeft' = 2 * processCount' - Len(terminating')
      BY DEF StepsLeft
    <3>7. StepsLeft = 2 * processCount - Len(terminating)
      BY DEF StepsLeft
    <3>8. processCount' = processCount - 1
      BY <3>1
    <3> QED
      BY <2>1, <3>2, <3>5, <3>6, <3>7, <3>8
  <2> QED
    BY <1>1, <2>4, <2>5 DEF terminateProcess
<1>2. Inv /\ CountInv /\ Inv' /\ CountInv' /\ [Next]_vars => [A]_vars
  BY <1>1
<1> QED
  BY <1>2, CountInvariance, PTL DEF Spec
=============================================================================
