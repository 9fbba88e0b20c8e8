------------------------------ MODULE Nucleus ------------------------------
(***************************************************************************)
(* The Pandos nucleus (phase2/) over the queues of phase1/: the scheduler, *)
(* the services SYS1-SYS8, pass-up-or-die, and the three kinds of          *)
(* interrupt, with the devices and timers that raise them.                 *)
(*                                                                         *)
(* The nucleus runs with interrupts masked, so one entry into it is one    *)
(* step of the model.  The exception is the recursive terminateProcess,    *)
(* whose call stack is the variable terminating: while it is not empty     *)
(* only its steps, the interval timer and the devices move.                *)
(*                                                                         *)
(* A process is opaque: when it has the CPU and no interrupt is pending it *)
(* may make any system call, cause a trap or start a device.               *)
(***************************************************************************)
EXTENDS Integers, FiniteSets, SequencesExt

CONSTANTS
    PCB,      \* the entries of pcbFreeTable
    USERSEM,  \* addresses of semaphores in the memory of the processes
    DevCount, \* number of (sub)devices; MAX_DEVICE_COUNT - 1 in the code
    NULL,     \* the null pointer
    MaxSem,   \* bound: largest value a semaphore is raised to
    MaxDebt,  \* bound: SYS5 and SYS7 lower a semaphore to -MaxDebt at least
    MaxSoft   \* bound: softBlockedCount at which SYS5 no longer slips through

DEVICE      == 0 .. DevCount - 1
CLOCK_INDEX == DevCount
DeviceSem   == 0 .. CLOCK_INDEX
Semaphore   == USERSEM \cup DeviceSem

ASSUME PcbAssumption   == IsFiniteSet(PCB) /\ PCB # {} /\ NULL \notin PCB
ASSUME SemAssumption   == /\ USERSEM \cap Int = {}
                          /\ NULL \notin USERSEM /\ NULL \notin Int
ASSUME BoundAssumption == /\ DevCount \in Nat
                          /\ MaxSem \in Nat /\ MaxDebt \in Nat /\ MaxSoft \in Nat

VARIABLES
    pcbFree,             \* the free pcbs (the order of the list is abstracted)
    p_prnt, p_child,     \* process tree: parent, and the list of children
    p_semAdd,            \* semaphore a pcb is blocked on, or NULL
    p_supportStruct,     \* does the pcb have a support structure?
    readyQueue,          \* pcbs waiting for the CPU
    asl,                 \* active semaphore list: queue of pcbs per semaphore
    userSem,             \* values of the semaphores in process memory
    semaphoreDevices,    \* values of the nucleus's own semaphores
    processCount, softBlockedCount, currentProcess,
    savedExceptionState, \* has the pointer been set to the BIOS data page?
    terminating,         \* the call stack of terminateProcess
    cpu,                 \* what the processor is doing
    plt,                 \* processor local timer
    intervalTimer,
    device               \* state of each device

tree     == <<p_prnt, p_child>>
sems     == <<userSem, semaphoreDevices>>
blocking == <<asl, p_semAdd>>
dispatch == <<readyQueue, currentProcess, cpu, plt>>
counts   == <<processCount, softBlockedCount>>
hardware == <<intervalTimer, device>>
vars     == <<pcbFree, p_supportStruct, tree, blocking, sems, dispatch, counts,
              savedExceptionState, terminating, hardware>>

Live == PCB \ pcbFree

Typed ==
    /\ pcbFree \in SUBSET PCB
    /\ p_prnt \in [PCB -> PCB \cup {NULL}]
    /\ p_child \in [PCB -> Seq(PCB)]
    /\ p_semAdd \in [PCB -> Semaphore \cup {NULL}]
    /\ p_supportStruct \in [PCB -> BOOLEAN]
    /\ readyQueue \in Seq(PCB)
    /\ asl \in [Semaphore -> Seq(PCB)]
    /\ userSem \in [USERSEM -> Int]
    /\ semaphoreDevices \in [DeviceSem -> Int]
    /\ processCount \in Int
    /\ softBlockedCount \in Int
    /\ currentProcess \in PCB \cup {NULL}
    /\ savedExceptionState \in BOOLEAN
    /\ terminating \in Seq(PCB)
    /\ cpu \in {"process", "wait", "halt", "panic", "pltPanic", "wild"}
    /\ plt \in {"off", "ticking", "expired"}
    /\ intervalTimer \in {"ticking", "expired"}
    /\ device \in [DEVICE -> {"ready", "busy", "interrupting"}]

\* The type invariant: neither of the two counts the scheduler decides by ever
\* becomes negative (scheduler.c:143-147).
TypeOK == Typed /\ processCount \in Nat /\ softBlockedCount \in Nat

-----------------------------------------------------------------------------
(* Queues (pcb.c) and the active semaphore list (asl.c), as sequences.     *)

\* Take p out of q wherever it is; q itself if it is not there.
outProcQ(q, p) ==
    IF \E i \in DOMAIN q : q[i] = p
    THEN RemoveAt(q, CHOOSE i \in DOMAIN q : q[i] = p)
    ELSE q

insertProcQ_AtHead(q, p) == <<p>> \o q
insertProcQ(q, p) == Append(q, p)

insertBlocked(s, p) ==
    /\ asl' = [asl EXCEPT ![s] = insertProcQ(@, p)]
    /\ p_semAdd' = [p_semAdd EXCEPT ![p] = s]

\* Leaves p_semAdd as it was.
outBlocked(p) == asl' = [asl EXCEPT ![p_semAdd[p]] = outProcQ(@, p)]

\* removeBlocked's reset of p_semAdd, for the pcbs it is called for.
unblock_NoReset(ps) == UNCHANGED p_semAdd
unblock(ps) == p_semAdd' = [p \in PCB |-> IF p \in ps THEN NULL ELSE p_semAdd[p]]

\* Only called when some process is blocked on s; that process is Head(asl[s]).
removeBlocked(s) ==
    /\ asl' = [asl EXCEPT ![s] = Tail(@)]
    /\ unblock({Head(asl[s])})

outChild_StaysListed(p) == p_prnt' = [p_prnt EXCEPT ![p] = NULL] /\ UNCHANGED p_child
outChild(p) ==
    IF p_prnt[p] = NULL
    THEN UNCHANGED tree
    ELSE /\ p_child' = [p_child EXCEPT ![p_prnt[p]] = outProcQ(@, p)]
         /\ p_prnt' = [p_prnt EXCEPT ![p] = NULL]

-----------------------------------------------------------------------------
(* scheduler.c                                                             *)

\* Called with rq as the Ready Queue and no current process.  A wait begins by
\* unmasking interrupts, and reloads the PLT only after that: a time slice
\* that ran out inside the nucleus is then still a pending interrupt.
scheduler(rq) ==
    \/ /\ rq # <<>>
       /\ currentProcess' = Head(rq)
       /\ readyQueue' = Tail(rq)
       /\ plt' = "ticking"
       /\ cpu' = "process"
    \/ /\ rq = <<>>
       /\ currentProcess' = NULL
       /\ readyQueue' = rq
       /\ \/ processCount' = 0 /\ cpu' = "halt" /\ plt' = plt
          \/ /\ processCount' # 0 /\ softBlockedCount' > 0
             /\ cpu' = "wait"
             /\ plt' \in IF plt = "off" THEN {"off"} ELSE {"off", "expired"}
          \/ /\ processCount' # 0 /\ softBlockedCount' <= 0
             /\ cpu' = "panic" /\ plt' = plt

\* switchContext(currentProcess): back to the process that trapped.
resume(rq) == readyQueue' = rq /\ UNCHANGED <<currentProcess, cpu, plt>>

blockCurrentProcessHelper(s) ==
    insertBlocked(s, currentProcess) /\ scheduler(readyQueue)

-----------------------------------------------------------------------------
(* Interrupts pending, in the order of their priority.                     *)

PltPending      == plt = "expired"
IntervalPending == intervalTimer = "expired"
DevicePending   == \E d \in DEVICE : device[d] = "interrupting"

Unmasked == cpu \in {"process", "wait"} /\ terminating = <<>>

\* The current process executes its next instruction.
Executing ==
    /\ cpu = "process" /\ terminating = <<>>
    /\ ~PltPending /\ ~IntervalPending /\ ~DevicePending

\* Every trap but TLB exceptions and program traps records where the BIOS left
\* the processor state.
saveState_Forgotten == UNCHANGED savedExceptionState
saveState == savedExceptionState' = TRUE

-----------------------------------------------------------------------------
(* SYS1-SYS8 (exceptions.c)                                                *)

\* A P blocks its caller iff the value it lowered is now negative.
mustBlock_AtZero(value) == value <= 0
mustBlock_Late(value)   == value < -1
mustBlock(value) == value < 0

\* allocPcb gives any free pcb, with every field reset; with none, v0 is -1.
createProcess(support) ==
    /\ \/ \E p \in pcbFree :
            /\ pcbFree' = pcbFree \ {p}
            /\ p_supportStruct' = [p_supportStruct EXCEPT ![p] = support]
            /\ p_semAdd' = [p_semAdd EXCEPT ![p] = NULL]
            /\ p_prnt' = [p_prnt EXCEPT ![p] = currentProcess]
            /\ p_child' = [p_child EXCEPT ![p] = <<>>,
                                          ![currentProcess] = <<p>> \o @]
            /\ resume(insertProcQ(readyQueue, p))
            /\ processCount' = processCount + 1
       \/ /\ pcbFree = {}
          /\ resume(readyQueue)
          /\ UNCHANGED <<pcbFree, p_supportStruct, p_semAdd, tree, processCount>>
    /\ UNCHANGED <<asl, sems, softBlockedCount, terminating>>

\* SYS2, and the "die" of pass-up-or-die: enter terminateProcess.
terminateCurrent ==
    /\ terminating' = <<currentProcess>>
    /\ UNCHANGED <<pcbFree, p_supportStruct, tree, blocking, sems, dispatch, counts>>

passeren(s) ==
    /\ userSem' = [userSem EXCEPT ![s] = @ - 1]
    /\ UNCHANGED counts
    /\ \/ mustBlock(userSem'[s]) /\ blockCurrentProcessHelper(s)
       \/ ~mustBlock(userSem'[s]) /\ resume(readyQueue) /\ UNCHANGED blocking
    /\ UNCHANGED <<pcbFree, p_supportStruct, tree, semaphoreDevices, terminating>>

verhogen(s) ==
    /\ userSem[s] < MaxSem
    /\ userSem' = [userSem EXCEPT ![s] = @ + 1]
    /\ \/ /\ userSem'[s] <= 0 /\ asl[s] # <<>>
          /\ removeBlocked(s)
          /\ resume(insertProcQ(readyQueue, Head(asl[s])))
       \/ /\ userSem'[s] > 0 \/ asl[s] = <<>>
          /\ resume(readyQueue) /\ UNCHANGED blocking
    /\ UNCHANGED <<pcbFree, p_supportStruct, tree, semaphoreDevices, counts, terminating>>

\* The count is raised before it is known whether the process will block.
waitForIO(d) ==
    /\ semaphoreDevices[d] > -MaxDebt
    /\ softBlockedCount' = softBlockedCount + 1
    /\ semaphoreDevices' = [semaphoreDevices EXCEPT ![d] = @ - 1]
    /\ UNCHANGED processCount
    /\ \/ mustBlock(semaphoreDevices'[d]) /\ blockCurrentProcessHelper(d)
       \/ /\ ~mustBlock(semaphoreDevices'[d])
          /\ softBlockedCount < MaxSoft
          /\ resume(readyQueue) /\ UNCHANGED blocking
    /\ UNCHANGED <<pcbFree, p_supportStruct, tree, userSem, terminating>>

waitForClock ==
    /\ semaphoreDevices[CLOCK_INDEX] > -MaxDebt
    /\ semaphoreDevices' = [semaphoreDevices EXCEPT ![CLOCK_INDEX] = @ - 1]
    /\ UNCHANGED processCount
    /\ \/ /\ mustBlock(semaphoreDevices'[CLOCK_INDEX])
          /\ softBlockedCount' = softBlockedCount + 1
          /\ blockCurrentProcessHelper(CLOCK_INDEX)
       \/ /\ ~mustBlock(semaphoreDevices'[CLOCK_INDEX])
          /\ resume(readyQueue) /\ UNCHANGED <<blocking, softBlockedCount>>
    /\ UNCHANGED <<pcbFree, p_supportStruct, tree, userSem, terminating>>

\* SYS6 and SYS8 answer in v0 and return.
returnToCaller ==
    /\ resume(readyQueue)
    /\ UNCHANGED <<pcbFree, p_supportStruct, tree, blocking, sems, counts, terminating>>
getCPUTime     == returnToCaller
getSupportData == returnToCaller

\* Pass up copies the state savedExceptionState points to into the support
\* structure and loads the handler's context; the copy is wild if the pointer
\* has not been set.
passUpOrDie ==
    \/ /\ p_supportStruct[currentProcess]
       /\ cpu' = IF savedExceptionState' THEN cpu ELSE "wild"
       /\ UNCHANGED <<pcbFree, p_supportStruct, tree, blocking, sems, counts,
                      terminating, readyQueue, currentProcess, plt>>
    \/ ~p_supportStruct[currentProcess] /\ terminateCurrent

\* A call from user mode or out of SYS1-SYS8 is passed up or kills the caller.
systemTrapHandler ==
    /\ Executing
    /\ saveState
    /\ \/ \E support \in BOOLEAN : createProcess(support)
       \/ terminateCurrent
       \/ \E s \in USERSEM : passeren(s)
       \/ \E s \in USERSEM : verhogen(s)
       \/ \E d \in DEVICE : waitForIO(d)
       \/ getCPUTime
       \/ waitForClock
       \/ getSupportData
       \/ passUpOrDie
    /\ UNCHANGED hardware

\* TLB exceptions and program traps do not set savedExceptionState.
programTrapHandler ==
    /\ Executing
    /\ UNCHANGED savedExceptionState
    /\ passUpOrDie
    /\ UNCHANGED hardware

-----------------------------------------------------------------------------
(* terminateProcess(p) for the p on top of the call stack                  *)

\* Step 1 of the code: the next child, recursively.
terminateChild ==
    /\ terminating # <<>>
    /\ LET p == terminating[Len(terminating)]
       IN /\ p_child[p] # <<>>
          /\ p_child' = [p_child EXCEPT ![p] = Tail(@)]
          /\ p_prnt' = [p_prnt EXCEPT ![Head(p_child[p])] = NULL]
          /\ terminating' = Append(terminating, Head(p_child[p]))
    /\ UNCHANGED <<pcbFree, p_supportStruct, blocking, sems, dispatch, counts,
                   savedExceptionState, hardware>>

\* A waiter that is killed gives back its P on a user semaphore; on a device
\* or the clock it is only no longer counted.
giveBack_Uncounted(s) ==
    /\ softBlockedCount' = softBlockedCount - 1
    /\ userSem' = IF s \in USERSEM THEN [userSem EXCEPT ![s] = @ + 1] ELSE userSem
    /\ UNCHANGED semaphoreDevices
giveBack_Kept(s) ==
    /\ softBlockedCount' = IF s \in DeviceSem THEN softBlockedCount - 1 ELSE softBlockedCount
    /\ UNCHANGED sems
giveBack(s) ==
    \/ /\ s \notin DeviceSem
       /\ userSem' = [userSem EXCEPT ![s] = @ + 1]
       /\ UNCHANGED <<semaphoreDevices, softBlockedCount>>
    \/ /\ s \in DeviceSem
       /\ softBlockedCount' = softBlockedCount - 1
       /\ UNCHANGED sems

\* Steps 2 and 3: take p out of wherever it is, free it and return; the caller
\* of the outermost call clears currentProcess and calls the scheduler.
terminateSelf(p) ==
    LET returnWith(rq) ==
            IF Len(terminating) = 1
            THEN scheduler(rq)
            ELSE resume(rq)
    IN /\ pcbFree' = pcbFree \cup {p}
       /\ processCount' = processCount - 1
       /\ terminating' = SubSeq(terminating, 1, Len(terminating) - 1)
       /\ \/ /\ p = currentProcess
             /\ outChild(p)
             /\ UNCHANGED <<asl, sems, softBlockedCount>>
             /\ returnWith(readyQueue)
          \/ /\ p # currentProcess /\ p_semAdd[p] # NULL
             /\ outBlocked(p)
             /\ giveBack(p_semAdd[p])
             /\ UNCHANGED tree
             /\ returnWith(readyQueue)
          \/ /\ p # currentProcess /\ p_semAdd[p] = NULL
             /\ UNCHANGED <<tree, asl, sems, softBlockedCount>>
             /\ returnWith(outProcQ(readyQueue, p))
       /\ UNCHANGED <<p_supportStruct, p_semAdd, savedExceptionState, hardware>>

terminateProcess_NoRecursion ==
    terminating # <<>> /\ terminateSelf(terminating[Len(terminating)])
terminateProcess ==
    \/ terminateChild
    \/ /\ terminating # <<>>
       /\ p_child[terminating[Len(terminating)]] = <<>>
       /\ terminateSelf(terminating[Len(terminating)])

-----------------------------------------------------------------------------
(* interruptTrapHandler (interrupts.c): one interrupt is served per trap,  *)
(* the one of highest priority.                                            *)

PLTInterruptHandler ==
    /\ Unmasked /\ PltPending
    /\ saveState
    /\ UNCHANGED counts
    /\ \/ currentProcess # NULL /\ scheduler(insertProcQ(readyQueue, currentProcess))
       \/ /\ currentProcess = NULL /\ cpu' = "pltPanic"
          /\ UNCHANGED <<readyQueue, currentProcess, plt>>
    /\ UNCHANGED <<pcbFree, p_supportStruct, tree, blocking, sems, terminating, hardware>>

\* How both other handlers end.  The PLT is reloaded with what was left of the
\* slice when the handler was entered.
returnFromInterrupt_NoScheduler(rq) == resume(rq)
returnFromInterrupt(rq) ==
    \/ currentProcess # NULL /\ resume(rq)
    \/ currentProcess = NULL /\ scheduler(rq)

\* LDIT acknowledges the interrupt.
loadIntervalTimer_Forgotten == UNCHANGED intervalTimer
loadIntervalTimer == intervalTimer' = "ticking"

\* Not a V: whatever the value, it becomes zero.
resetClock_Raised == semaphoreDevices' = [semaphoreDevices EXCEPT ![CLOCK_INDEX] = @ + 1]
resetClock == semaphoreDevices' = [semaphoreDevices EXCEPT ![CLOCK_INDEX] = 0]

intervalTimerInterruptHandler ==
    /\ Unmasked /\ ~PltPending /\ IntervalPending
    /\ saveState
    /\ loadIntervalTimer
    /\ LET woken == asl[CLOCK_INDEX]
       IN /\ asl' = [asl EXCEPT ![CLOCK_INDEX] = <<>>]
          /\ unblock(ToSet(woken))
          /\ softBlockedCount' = softBlockedCount - Len(woken)
          /\ UNCHANGED processCount
          /\ resetClock
          /\ returnFromInterrupt(readyQueue \o woken)
    /\ UNCHANGED <<pcbFree, p_supportStruct, tree, userSem, terminating, device>>

\* The pending device of lowest index; acknowledging makes it ready again.
findInterruptDevice(d) ==
    /\ device[d] = "interrupting"
    /\ \A e \in DEVICE : device[e] = "interrupting" => d <= e

nonTimerInterruptHandler ==
    /\ Unmasked /\ ~PltPending /\ ~IntervalPending
    /\ saveState
    /\ \E d \in DEVICE :
         /\ findInterruptDevice(d)
         /\ device' = [device EXCEPT ![d] = "ready"]
         /\ semaphoreDevices' = [semaphoreDevices EXCEPT ![d] = @ + 1]
         /\ UNCHANGED processCount
         /\ \/ /\ asl[d] # <<>>
               /\ removeBlocked(d)
               /\ softBlockedCount' = softBlockedCount - 1
               /\ returnFromInterrupt(insertProcQ(readyQueue, Head(asl[d])))
            \/ /\ asl[d] = <<>>
               /\ UNCHANGED <<blocking, softBlockedCount>>
               /\ returnFromInterrupt(readyQueue)
    /\ UNCHANGED <<pcbFree, p_supportStruct, tree, userSem, terminating, intervalTimer>>

-----------------------------------------------------------------------------
(* The machine: timers run out, devices are started and complete, and HALT *)
(* and PANIC never return.                                                 *)

Stopped == cpu \in {"halt", "panic", "pltPanic", "wild"}

nucleusState == <<pcbFree, p_supportStruct, tree, blocking, sems, counts, readyQueue,
                  currentProcess, cpu, savedExceptionState, terminating>>

PltExpires ==
    /\ cpu = "process" /\ terminating = <<>> /\ plt = "ticking"
    /\ plt' = "expired"
    /\ UNCHANGED <<nucleusState, hardware>>

IntervalTimerExpires ==
    /\ ~Stopped /\ intervalTimer = "ticking"
    /\ intervalTimer' = "expired"
    /\ UNCHANGED <<nucleusState, plt, device>>

\* A process writes a command into a device register.
StartDevice(d) ==
    /\ Executing
    /\ device[d] = "ready" /\ semaphoreDevices[d] < MaxSem
    /\ device' = [device EXCEPT ![d] = "busy"]
    /\ UNCHANGED <<nucleusState, plt, intervalTimer>>

DeviceCompletes(d) ==
    /\ ~Stopped /\ device[d] = "busy"
    /\ device' = [device EXCEPT ![d] = "interrupting"]
    /\ UNCHANGED <<nucleusState, plt, intervalTimer>>

StayStopped == Stopped /\ UNCHANGED vars

-----------------------------------------------------------------------------

\* main(): the first process has been created and dispatched.
Init ==
    /\ \E p \in PCB : pcbFree = PCB \ {p} /\ currentProcess = p
    /\ p_prnt = [p \in PCB |-> NULL]
    /\ p_child = [p \in PCB |-> <<>>]
    /\ p_semAdd = [p \in PCB |-> NULL]
    /\ p_supportStruct = [p \in PCB |-> FALSE]
    /\ readyQueue = <<>>
    /\ asl = [s \in Semaphore |-> <<>>]
    /\ userSem \in [USERSEM -> 0 .. MaxSem]
    /\ semaphoreDevices = [s \in DeviceSem |-> 0]
    /\ processCount = 1
    /\ softBlockedCount = 0
    /\ savedExceptionState = FALSE
    /\ terminating = <<>>
    /\ cpu = "process"
    /\ plt = "ticking"
    /\ intervalTimer = "ticking"
    /\ device = [d \in DEVICE |-> "ready"]

Next ==
    \/ systemTrapHandler
    \/ programTrapHandler
    \/ terminateProcess
    \/ PLTInterruptHandler
    \/ intervalTimerInterruptHandler
    \/ nonTimerInterruptHandler
    \/ PltExpires
    \/ IntervalTimerExpires
    \/ \E d \in DEVICE : StartDevice(d)
    \/ \E d \in DEVICE : DeviceCompletes(d)
    \/ StayStopped

Spec == Init /\ [][Next]_vars

\* A running process cannot keep its timer, the interval timer or a device from
\* finishing.  A dispatched process has 5 ms: the interrupts pending when it is
\* loaded are taken at its first instruction, long before its slice is over, so
\* they are not put off by one PLT interrupt after another (strong fairness).
Fairness ==
    /\ WF_vars(terminateProcess)
    /\ WF_vars(PltExpires)
    /\ WF_vars(PLTInterruptHandler)
    /\ WF_vars(IntervalTimerExpires)
    /\ SF_vars(intervalTimerInterruptHandler)
    /\ SF_vars(nonTimerInterruptHandler)
    /\ \A d \in DEVICE : WF_vars(DeviceCompletes(d))

FairSpec == Spec /\ Fairness

-----------------------------------------------------------------------------
(* Safety                                                                  *)

SoftBlocked == {p \in Live : p_semAdd[p] \in DeviceSem}

\* The current process, if there is one, is live and not blocked.
CurrentSound ==
    currentProcess # NULL => currentProcess \in Live /\ p_semAdd[currentProcess] = NULL

\* The Ready Queue holds the live pcbs that neither run nor are blocked, each once.
ReadyQueueSound ==
    /\ ToSet(readyQueue) = {p \in Live \ {currentProcess} : p_semAdd[p] = NULL}
    /\ IsInjective(readyQueue)

\* The queue of a semaphore holds the live pcbs whose p_semAdd names it, each once.
AslSound ==
    \A s \in Semaphore :
        /\ ToSet(asl[s]) = {p \in Live : p_semAdd[p] = s}
        /\ IsInjective(asl[s])

\* Every live process is in exactly one place: it is the current process, it
\* is in the Ready Queue, or it is in the queue of the semaphore its p_semAdd
\* names; and no pcb that was freed is left in a queue.  Each service and
\* handler moves pcbs between these places with separate calls, and
\* terminateProcess finds a victim only through them (exceptions.c:373-402).
EveryProcessPlaced == CurrentSound /\ ReadyQueueSound /\ AslSound

\* A user semaphore's negative value is the number of processes blocked on it,
\* through any order of P, V and terminations of waiters (exceptions.c:391).
SemaphoreBalance ==
    \A s \in USERSEM :
        Len(asl[s]) = IF userSem[s] < 0 THEN -userSem[s] ELSE 0

\* No process sleeps on a device or on the clock whose semaphore does not say
\* so: when a completion or a tick raises a negative semaphore, whoever is
\* waiting is found.  Killing a waiter leaves the value alone (exceptions.c:396).
DeviceSemaphoreCovers ==
    \A s \in DeviceSem : asl[s] # <<>> => Len(asl[s]) <= -semaphoreDevices[s]

\* processCount is the number of pcbs in use, and softBlockedCount is never less
\* than the number of processes blocked on a device or on the clock.
CountsCover ==
    /\ processCount = Cardinality(Live)
    /\ softBlockedCount >= Cardinality(SoftBlocked)

\* HALT only when every pcb is free again, PANIC from the scheduler only when
\* all the live processes are blocked on user semaphores, which nobody is left
\* to V (scheduler.c:143-156).
StopJustified ==
    /\ cpu = "halt" => pcbFree = PCB
    /\ cpu = "panic" =>
         /\ Live # {}
         /\ \A p \in Live : p_semAdd[p] \in USERSEM

\* The processor never waits while a process is ready: an interrupt taken during
\* a wait must end in the scheduler (interrupts.c:354, 407).
NeverIdleWithWork == cpu = "wait" => readyQueue = <<>> /\ currentProcess = NULL

\* Child lists and p_prnt agree, and the links of a free pcb are clear.
TreeSound ==
    /\ \A p \in PCB :
         /\ ToSet(p_child[p]) = {c \in Live : p_prnt[c] = p}
         /\ IsInjective(p_child[p])
    /\ \A p \in pcbFree : p_child[p] = <<>> /\ p_prnt[p] = NULL

\* The calls of terminateProcess in progress are for distinct live pcbs: the
\* current process first, then pcbs already taken from their parents.
StackSound ==
    /\ terminating # <<>> => cpu = "process" /\ terminating[1] = currentProcess
    /\ \A i \in DOMAIN terminating :
         /\ terminating[i] \in Live
         /\ i > 1 => p_prnt[terminating[i]] = NULL /\ terminating[i] # currentProcess
    /\ IsInjective(terminating)

\* Ranks grow from parent to child and along the calls in progress, so neither
\* the tree nor the recursion can come back to a pcb.
Ranked(Rank) ==
    \E rank \in [PCB -> Rank] :
        /\ \A p \in PCB : p_prnt[p] # NULL => rank[p_prnt[p]] < rank[p]
        /\ \A i, j \in DOMAIN terminating :
             i < j => rank[terminating[i]] < rank[terminating[j]]

\* The process tree is a tree at every step of the recursive termination, and
\* the recursion never reaches a pcb that is freed, running or being killed
\* already (exceptions.c:368-370).
FamilySound == TreeSound /\ StackSound /\ Ranked(0 .. Cardinality(PCB))

\* Between two entries of the nucleus, the parent of every process is alive and
\* only one process has none: SYS2 and "die" leave no descendant of the process
\* they kill behind (exceptions.c:368-370).
NoOrphans ==
    terminating = <<>> =>
        /\ \A p \in Live : p_prnt[p] # NULL => p_prnt[p] \in Live
        /\ \A p, q \in Live : p_prnt[p] = NULL /\ p_prnt[q] = NULL => p = q

\* An exception is never passed up from a state nobody saved: a TLB or program
\* trap uses the pointer an earlier system call or interrupt set, and only
\* SYS1 hands out support structures (exceptions.c:723).
PassUpHasSavedState == cpu # "wild"

\* SYS7 always blocks its caller (exceptions.c:627-628): the pseudo-clock
\* semaphore is never above zero when the call is made.
ClockWaitBlocks ==
    [][semaphoreDevices'[CLOCK_INDEX] < semaphoreDevices[CLOCK_INDEX]
         => asl'[CLOCK_INDEX] = Append(asl[CLOCK_INDEX], currentProcess)]_vars

\* The pcbs that are before p in a queue, and: nobody who was not is before p now.
Ahead(q, p) == {q[i] : i \in {k \in DOMAIN q : \E j \in DOMAIN q : k < j /\ q[j] = p}}
InOrder(q, r) == \A p \in ToSet(q) : Ahead(r, p) \subseteq Ahead(q, p)

\* Queues are first come, first served: whatever the step does, nobody gets ahead
\* of a process that waits in the Ready Queue or in the queue of a semaphore, also
\* when one between two others is killed or several are woken at once ("in a fair,
\* cyclic order", interrupts.c:366; interrupts.c:388-393, exceptions.c:384, 401).
NobodyOvertakes ==
    [][/\ InOrder(readyQueue, readyQueue')
       /\ \A s \in Semaphore : InOrder(asl[s], asl'[s])]_vars

-----------------------------------------------------------------------------
(* Liveness, under Fairness                                                *)

\* Round robin: a process in the Ready Queue gets the CPU, unless it is killed
\* or the machine stops first.
ReadyProcessRuns ==
    \A p \in PCB :
        (\E i \in DOMAIN readyQueue : readyQueue[i] = p)
            ~> (currentProcess = p \/ p \in pcbFree \/ Stopped)

\* A process blocked on the pseudo-clock is woken by a tick.
ClockWaiterWakes ==
    \A p \in PCB :
        (p \in Live /\ p_semAdd[p] = CLOCK_INDEX)
            ~> (p_semAdd[p] # CLOCK_INDEX \/ p \in pcbFree \/ Stopped)

\* The first process in the queue of a device that has been started is woken by
\* its interrupt.
DeviceWaiterWakes ==
    \A p \in PCB, d \in DEVICE :
        (asl[d] # <<>> /\ Head(asl[d]) = p /\ device[d] # "ready")
            ~> (p_semAdd[p] # d \/ p \in pcbFree \/ Stopped)

-----------------------------------------------------------------------------
(* What the comments of the code say and the code does not do              *)

\* scheduler.c:108-109: the nucleus waits because "Some processes are waiting for
\* an event"; with nobody on a device or the clock it should detect a deadlock.
WaitHasWaiter == cpu = "wait" => SoftBlocked # {}

\* scheduler.c:148: the PLT is disabled "before waiting", so it never interrupts
\* a wait and the PANIC of the PLT handler is never reached.
NoPltPanic == cpu # "pltPanic"
=============================================================================
