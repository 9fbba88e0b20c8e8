# TLA+ specifications of the Pandos nucleus

Pandos is a small operating system for the uMPS3 machine (one MIPS-like
processor). The repository holds its two lower levels: the queue managers of
`phase1/` and the nucleus of `phase2/`. The specifications here model both,
check them with TLC on small instances, and prove with TLAPS, for any number of
processes, semaphores and devices, the safety properties of the nucleus, of its
devices and of its accounting of time, that the nucleus implements an abstract
kernel, and that the pointers of `phase1/` implement queues, trees and semaphores.

## 1. Inventory

| Part | State | Operations | Hard because |
|---|---|---|---|
| Process queues, pcb allocation (`phase1/pcb.c`) | `pcbFree_h`, `p_next`, `p_prev`, one tail pointer per queue | `allocPcb`, `freePcb`, `insertProcQ`, `removeProcQ`, `outProcQ`, `headProcQ` | all lists share the same link fields; head, tail, only and absent element are separate cases |
| Process trees (`phase1/pcb.c`) | `p_prnt`, `p_child`, `p_lSib`, `p_rSib` | `insertChild`, `removeChild`, `outChild` | removal from the front and from the middle leave different links |
| Active semaphore list (`phase1/asl.c`) | `semd_h`, `semdFree_h`, descriptors, `p_semAdd` | `insertBlocked`, `removeBlocked`, `outBlocked`, `headBlocked` | a sorted list searched with an early stop; a fixed pool of descriptors |
| Scheduler (`phase2/scheduler.c`) | `readyQueue`, `currentProcess`, `processCount`, `softBlockedCount` | dispatch; HALT, wait or PANIC | two counters, updated all over the nucleus, decide whether the machine stops |
| System calls (`phase2/exceptions.c`) | semaphores, the tree, the queues | SYS1-SYS8 | `terminateProcess` recurses over a family whose members may be ready, blocked or running |
| Pass-up-or-die (`phase2/exceptions.c`) | `savedExceptionState`, `p_supportStruct` | TLB, program and out-of-range traps | the saved state is a global pointer that only some handlers set |
| Interrupts (`phase2/interrupts.c`) | `semaphoreDevices`, timers, device registers | PLT, interval timer, device | they arrive between any two instructions of a process and during a wait |
| Devices (`exceptions.c` SYS5, `interrupts.c` lines 3-7) | status registers, bit maps, `semaphoreDevices` | SYS5, search for the device, acknowledgement, V | one index, two formulas; the two halves of a terminal share one interrupt |
| CPU time and slices (all of `phase2/`) | `start_TOD`, `interrupt_TOD`, `p_time`, the PLT | charged in every handler | an interval can be charged twice; the clock and the timer wrap |
| Phase 2 test (`phase2/p2test.c`) | 13 semaphores, `p1p2synch`, `p8inc` | p1 to p8, the handlers of p5 | up to nine processes that start, signal and kill each other |
| Phase 1 test, phase 3 testers | - | - | sequential |

The parts share state instead of exchanging messages: a handler calls the queue
managers, changes semaphores and counters, and ends by loading a process
(`switchContext`) or calling `scheduler`, neither of which returns. The nucleus
runs with interrupts masked. What is concurrent with it are the two timers and
the devices, and, between two of its entries, whatever process holds the CPU.

What makes each part correct:

* queues, trees, semaphore list: each implements the abstract lists its callers
  reason about, whatever sequence of calls they make;
* scheduler: it stops the machine only when no process can ever run again, does
  not wait while one is ready, and gives the CPU to every ready process;
* system calls: every live process is in exactly one place; semaphore values and
  counters agree with the queues; a termination takes the whole family;
* interrupts: no wake-up is lost, and the pseudo-clock always blocks and always
  wakes;
* pass-up-or-die: what is passed up was saved;
* devices: every operation is answered once, to the process that started it;
* CPU time: each instant is charged once; a slice ends;
* the phase 2 test: it runs to its end on this nucleus.

## 2. Modules

| Module | What it is |
|---|---|
| `Nucleus` | scheduler, SYS1-SYS8, pass-up-or-die, interrupts, timers, devices |
| `Kernel` | what the nucleus promises: processes, counting semaphores, events, atomic termination |
| `NucleusRefinement` | the mapping under which `Nucleus` implements `Kernel` |
| `MCNucleus` | the symmetry of its instances |
| `P2Test` | the phase 2 test program, running on `Nucleus` |
| `Devices` | lines, devices, the two halves of a terminal, their semaphores, and processes that are killed while they use one |
| `MCDevices` | the units in use together in its instances |
| `CpuTime` | time stamps, `p_time`, the PLT as a counter |
| `ProcQ` / `PcbLists` | pointers of the queues and free list / a stack and FIFO queues |
| `ProcTree` / `ProcForest` | pointers of the tree / ordered lists of children |
| `Asl` / `SemQueues` | sorted descriptor list / one FIFO queue per semaphore |
| `Pcbs`, `Pointers` | the pcbs that are linked; how a linked list is read from memory |
| `MCPhase1` | the three pointer structures, one explored at a time |
| `QueueLemmas` | facts about sequences without repetition, and pointers that lead through one |
| `NucleusProofs` | types; pass-up is safe; every process in its place; tree and recursion, which ends; semaphore values, counters, and what is decided from them; the order of the queues |
| `RefinementProofs` | `Nucleus` implements `Kernel` |
| `DevicesProofs` | every device operation is answered once, by its own interrupt, and SYS5 returns after its end |
| `CpuTimeProofs` | slices end; no time is forgotten, and none charged twice |
| `PcbProofs` | `ProcQ` implements `PcbLists`, `ProcTree` implements `ProcForest`; each pcb is in one list, a child in its parent's |
| `P2TestProofs` | the test program runs on `Nucleus`; one process prints at a time |
| `AslProofs` | `Asl` implements `SemQueues`; the list stays sorted, descriptors suffice |

The layers compose by refinement. `Nucleus` works with sequences; `ProcQ`,
`ProcTree` and `Asl` show that the pointers of `phase1/` implement sequences
(`PcbLists`, `ProcForest`, `SemQueues`), and their operations have the same
meaning as the operators `insertProcQ`, `outProcQ`, `insertBlocked`,
`removeBlocked`, `outBlocked`, `outChild` of `Nucleus`. `Asl` in turn takes the
process queue of a descriptor as a sequence. Upwards, `Nucleus` implements
`Kernel`, and `P2Test` composes `Nucleus` with programs. `Devices` and `CpuTime`
each open up one thing that `Nucleus` abstracts from: which device and semaphore
an interrupt is about, and time.

### Nucleus and the code

* One entry into the nucleus, from a trap to the next `LDST` or `WAIT`, is one
  action: `systemTrapHandler` (with one alternative per service),
  `programTrapHandler` (TLB exceptions and program traps),
  `PLTInterruptHandler`, `intervalTimerInterruptHandler`,
  `nonTimerInterruptHandler`. The order in which `interruptTrapHandler` tests the
  lines is the guard of the last three.
* `terminateProcess` is recursive. Its call stack is the variable `terminating`;
  one action takes the next child (`terminateChild`) or finishes the topmost call
  (`terminateSelf`), and the return of the outermost call runs the scheduler.
  Timers and devices go on meanwhile, but no interrupt is taken.
* `scheduler(rq)` is called with the Ready Queue as the handler leaves it and
  decides from the primed counters, as the code does, which calls it last.
* `cpu` says what the processor does: run a process, wait, stopped by HALT, by
  the scheduler's PANIC, by the PANIC of the PLT handler (`pltPanic`), or gone
  wild after copying a state through an unset pointer.
* `plt` is `off` (a wait reloads it with `INF_TIME`), `ticking` or `expired`. The
  request stays pending until the timer is reloaded. A slice may run out inside
  the nucleus; this matters only in `scheduler`, where interrupts are enabled
  before the reload, and there `plt'` may be `expired`.
* A device is `ready`, `busy` or `interrupting`. Device semaphores are the
  numbers `0 .. DevCount - 1`, the pseudo-clock is `CLOCK_INDEX = DevCount`.
* `pcbFree` is a set: which pcb `allocPcb` returns makes no difference here.

Assumptions on the processes: they run with interrupts and the PLT enabled, as
the first one does (`initial.c:295`); SYS3 and SYS4 are used on their own
semaphores and not on the nucleus's. Otherwise a process may do anything at any
time: call SYS5 without having started a device, start a device and never wait,
kill itself, trap.

### Pointer modules

`ProcQ` adds the set `held` of pcbs that a caller has taken out of a list and not
put into another; `freePcb` and `insertProcQ` are called only for those, which
`EveryProcessPlaced` shows of the nucleus. `outProcQ` may be asked for any pcb. In
`Asl` the addresses lie on both sides of `MAXINT`, as they may for a key of
0x0FFFFFFF; `outBlocked` leaves `p_semAdd` set, as the code does, and `allocPcb`
clears it.

### Kernel

In `Kernel` a process, with all its descendants, dies in one step, each victim
giving back the P it was blocked in; the nucleus needs one step per call of
`terminateProcess`. `NucleusRefinement` lets the abstract step happen when the
outermost call is entered: the `Doomed` pcbs (on the call stack, or below one
that is) are already dead, and the values of the semaphores they are still queued
on are counted as if raised. `Kernel` leaves open who is dispatched and who is
woken; the order is what `PcbLists` and `SemQueues` add.

### P2Test and the code

A program is a sequence of instructions: a system call, a trap, a store that
starts the transmitter, or an LDST. `Text` has them all; `pc` says where each
process is. An instruction is an action of `Nucleus` conjoined with the move of
`pc`. What is simplified: a message has `Chars` characters; `LOOPNUM`, `CLOCKLOOP`
and the array `s[]` are passed through once; the checks of times and CPU times
are left to `CpuTime`. The waits of p3 and p5b end or are repeated, as the clock
wants it. A failed check (`p1p2synch`, SYS1 without a pcb for p1's loop)
goes to line 0, which has no step. The call behind SYS9 in p5b is taken to be
reached although both `systemTrapHandler` and `p5sys` advance the saved pc: what
the second advance skips is inside the SYSCALL stub of libumps, which is external.

The programs in which a slice may run out are a parameter (`Preemptible`); slices
that run out inside the nucleus are left to `no_plt_panic`. The transmitter needs
longer for a character than its process from the store to SYS5, also if that
process is preempted in between. This is an assumption: without it SYS5 returns
without blocking and without a status (see below), and `print` may panic. Under it
SYS5 always comes back with the status of the character sent, so that the check of
that status in `print` (`p2test.c:131-132`) never fails and is left out. The second
p4 is created with 0 for a support structure (`p2test.c:431`), which is not NULL
(0xFFFFFFFF, `const.h:31`): in the model too it has one, and never uses it.

`TestFinishes` thus says nothing of three cases, and each has a run of its own
that shows what happens: a device that completes before SYS5 (`wait_has_waiter`), a
slice that runs out in the nucleus (`no_plt_panic`), and one that runs out in p4
(`p4_race`).

### Devices and CpuTime

In `Devices` a unit is a device or a half of a terminal, and each unit in use has
one process. A unit is READY, BUSY or DONE (which stands for every status of a
finished operation, and interrupts until it is acknowledged). The initial state
chooses the units in use. The index SYS5 computes and the one the handler
computes are both translated, and `semaphoreDevices` has all 49 entries.

The process of a unit may be killed at any point (`terminateProcess`; the family
and the counters are in `Nucleus`). Killed while it waits, it leaves the
semaphore at -1, which the interrupt still to come repays. Then another process
takes the unit over. That it gives no command before the unit is ready is an
assumption: a device ignores a command while it is busy, and a successor that
does not look would be woken by the end of its predecessor's operation. Killed
between its command and SYS5, a process leaves an interrupt nobody waits for;
the semaphore is one too high from then on, and whoever uses the unit next comes
back from SYS5 at once. `unclaimed` remembers those units, and the properties say
nothing of how their semaphores count.

In `CpuTime` a handler takes a number of ticks up to
the point where it reads the clock and a number of ticks after it; `Latency` is
the time from a device or interval-timer interrupt to `getTIMER`; `late` remembers
that the PLT has passed zero in between. Time of day and
PLT have a small range instead of 2^32, and the time of day starts where it
overflows in the middle of the run. The time scale is taken as 1.

## 3. Runs

| Run | Instance | Distinct states | Shows |
|---|---|---|---|
| `safety` | 3 pcbs, 2 user semaphores, 1 device | 4.2 million | places, semaphores, counters, stops, pass-up, SYS7 |
| `family` | 4 pcbs, 1 user semaphore, 1 device | 785 000 | `FamilySound`, `NoOrphans`; `ImplementsKernel`: every entry is atomic, a whole termination too; `NobodyOvertakes`: queues are first come, first served |
| `liveness` | 3 pcbs, 1 user semaphore, 1 device | 189 000 | `ReadyProcessRuns`, `ClockWaiterWakes`, `DeviceWaiterWakes` |
| `phase1` | 4 pcbs, 2 queues; 4 pcbs in trees; 3 of the pcbs blocked (`BLOCKING`), 3 addresses, one below `MAXINT` | 29 000 | the pointers implement FIFO queues and a stack, lists of children, and semaphore queues; a child's left sibling is the one whose right sibling it is (`LeftOfRight`); a descriptor is never missing |
| `p2test` | 9 pcbs, 13 semaphores, 5 slices run out, not in p4 | 216 000 | `TestFinishes`, `TerminalNotLost`, `OnePrints` |
| `cpu_time` | 2 processes, 8 ticks, latency 1 | 2.6 million | `NothingForgotten`, `ChargedOnce`, `SliceBounded` |
| `devices` | any 1 or 2 of the 6 units with number 0 or 7 on lines 3 and 7, and the halves of terminal 7 with a third | 146 000 | `CommandAnsweredOnce`, `WokenByOwnHalf`, `ReturnsAfterEnd`, `WaiterWakes` |

The runs that pass check deadlock: the only states without a step of the system
are those after HALT or PANIC, which repeat (`StayStopped`).

Bounds. Three pcbs give a queue with a head, a middle and a tail, and a parent, a
child and a grandchild or two siblings; four give both at once. `MaxSem = 1` is
enough for a semaphore that lets one P through. `MaxDebt` bounds how far SYS5 and
SYS7 lower a semaphore: killed waiters leave a debt behind that only completions
repay, so it is not bounded by the number of pcbs. `MaxSoft` bounds how often
SYS5 slips through and leaves `softBlockedCount` one higher. Each is a guard, and
in `safety` is at least the number of pcbs, so that killed waiters can leave as
much behind as a full queue; the other runs have room for one such event. The
theorems hold for every value of the bounds.

`p2test` needs nine pcbs (p1, and while p8's last tree is being killed, the new
one; or p1, p5 to p7 and both p4). Five slices are more than it takes to reorder
any two processes of a p8 tree; one is enough for `p4_race`. In `devices` the three
units are a terminal in both directions and a device that is served first; numbers
0 and 7 on lines 3 and 7 are the ends of the ranges of indices, and that no two
units anywhere share an index is proved (`IndexInjective`). `MaxSem = 2` lets two
interrupts nobody waits for add up. In `cpu_time`
eight ticks see two dispatches, each with calls and an interrupt, on either side
of the overflow.

Symmetry (pcbs and user semaphores) is used in `safety` and `family`, which have no
liveness property.

Fairness (`Fairness`, run `liveness`): the nucleus finishes
a termination; timers run out; a device that was started completes; a pending PLT
interrupt is taken. The handlers of the interval timer and of the devices have
strong fairness: a PLT interrupt taken first disables them for a moment, but the
process dispatched next has a slice of 5 ms and the pending interrupts are taken
at its first instruction. Processes have no fairness: they may loop for ever.
In `TestFairness` they have it, as test programs that do not loop: the current
process executes its next instruction, strongly, since interrupts put it off. A
wait for the clock is not found too short for ever: one that starts right after a
tick lasts a whole interval. In `Devices` a busy unit completes and a pending interrupt is taken; both
are weak, since a receiver's interrupt that is not acknowledged does not stop the
transmitter. The processes there need not do anything.

### Disagreements with the comments

Five runs check a statement made by a comment or a test, and TLC finds it
violated.

* `wait_has_waiter`: SYS5 "should always block the Current Process"
  (`exceptions.c:510`), and `softBlockedCount` is raised before the test that
  decides (`exceptions.c:539`). A device that completes between the command and
  the call has already raised the semaphore to 1; SYS5 then returns, and the count
  is never lowered. Later, with every process blocked on a user semaphore, the
  scheduler waits (for ever) where it means to detect a deadlock. SYS7 counts
  inside the test and has no such leak. In the same case v0 is not written; what
  `print` of the test program takes for the status is what the register held.
* `no_plt_panic`: the wait enables interrupts before it reloads the PLT
  (`scheduler.c:149-150`); a slice that ran out in the nucleus is taken there, and
  `PLTInterruptHandler` panics since no process is current.
* `real_time`: SYS6 adds the time since `start_TOD` twice (`exceptions.c:600`, `605`);
  a later SYS6 can report more CPU time than has passed, which is what p2 checks
  for ("more cpu time than real time", `p2test.c:340-341`).
* `p4_race`: "the new process will block at the P(blkp4)" (`p2test.c:425`). The
  second p4 signals `synp4` before it prints; preempted between the two, it is
  handed `term_mut` when the first p4 has printed, and killed by the first's SYS2
  before it has released it. Nobody prints any more.
* `independent_halves`: two semaphores "allow independent, concurrent control" of the
  halves of a terminal (`exceptions.c:519`). An interrupt of the receiver while the
  transmitter is busy is taken for the transmitter's (`interrupts.c:292`): the writer
  is woken with status BUSY, and the interrupt comes again until the transmission
  ends.

One comment disagrees with the code and with the other comments on it: the
protocol of `terminateProcess` (`exceptions.c:341-342`) has a victim on a device
semaphore increment it and one on another semaphore lower the soft-block count.
The code (`exceptions.c:388-397`), the comments in it and the note at 352-360 have
it the other way round, and so have the models. `ReturnsAfterEnd`,
`CommandAnsweredOnce` and `SemaphoreBalance` fail if it is done as 341-342 say.

What else the models take account of: the dummy tail's key 0x0FFFFFFF
(`asl.c:129`) is below every RAM address, so it is not the end of the list, and
searches end at NULL instead (`SortedAndWhole` holds all the same); `removeChild`
leaves `p_lSib` of the new first child pointing to the removed one (`pcb.c:372`),
which nothing reads, and which is overwritten before the child has a left sibling
again (`LeftOfRight`); the remaining slice (`interrupts.c:455`) may be read after the
PLT has passed zero, and reloading that value acknowledges the PLT's interrupt, so
that the process has the CPU for 2^32 ticks or until it blocks (`late` in
`SliceBounded`).

## 4. Proofs

The constants are arbitrary: a finite non-empty set of pcbs, any set of user
semaphores disjoint from the integers, any number of devices, any bounds
(`PcbAssumption`, `SemAssumption`, `BoundAssumption`).

1. `Types` (`NucleusProofs`): `Typed`, `ModeSound` and `SupportSaved` are inductive
   together. `SupportSaved` says that a process has a support structure only after
   a system call has set `savedExceptionState`; `PassUpSafe` follows: since only
   SYS1 hands out support structures, a trap that does not save the state itself
   never passes up an unset pointer.
2. `Invariance` (`NucleusProofs`): the inductive invariant `Inv`, the above with
   `EveryProcessPlaced`, `Family` and `OneRoot`. `EveryProcessPlaced` alone is not
   inductive: freeing the pcb on top of the stack of `terminateProcess` needs that
   it is live, on the stack once, and the current process only at the bottom
   (`StackSound`); taking its next child needs that the child is none of the pcbs
   on the stack, which is the acyclicity of the tree. Acyclicity is stated by a
   rank, a number for each pcb that grows from parent to child and along the
   stack (`Ranked`); a new process gets the rank of its parent plus one, and every
   other step keeps the ranks or removes edges. `Placement` and `NobodyOrphaned`
   follow.
3. `CountInvariance` (`NucleusProofs`): on top of `Inv`, the semaphore values, the
   exactness of `processCount`, the bound on `softBlockedCount` and `Idle`. With
   `Inv` a queue is an injective sequence of exactly the blocked pcbs, so its
   length is a cardinality; that relates the values, changed by one, to the set of
   blocked processes. `SemaphoresBalance`, `DevicesCover`, `CountsSound`,
   `TypeCorrect`, `NoIdleWithWork`, `StopsJustified` and the action property
   `ClockAlwaysBlocks` follow. The last needs only that the pseudo-clock semaphore
   is never above zero.
   `TerminationEnds`: each step of `terminateProcess` lessens the number
   `StepsLeft`, two for each process left, less the calls in progress, and since
   those are for distinct live processes, it is never below zero. The recursion
   therefore ends, whatever the shape of the tree, and its depth is at most
   `processCount`; that the steps are taken is the fairness of the runs.
   `FirstComeFirstServed`: every step appends to a queue, takes its head, takes one
   out of the middle, or leaves it (`OrderStep`); each of these keeps the order of
   those who stay, and `Inv` is what says that who is appended is not in the queue
   yet. It is the part of round robin that needs no fairness: the processes ahead of
   a ready one are never replaced by others.
4. `FamilyAlwaysSound` (`NucleusProofs`): `FamilySound` asks for ranks below
   `Cardinality(PCB)`, `Inv` has ranks in `Nat`. The bound comes from renumbering:
   give each pcb the number of ranks in use below its own; the order stays, and
   there are no more ranks than pcbs.
5. `Refinement` (`RefinementProofs`): `Spec => ImplementsKernel`. A family is
   characterised, without recursion, as the least set that has its root and is
   closed under taking children (`Least`). The heart is that `Doomed`, defined
   from the state in the middle of the recursion, is at the outermost call exactly
   the family that the step of `Kernel` removes (`KillStep`), that descending into
   a child does not change it (`DescendStep`), and that a call that returns takes
   the one pcb it has freed, and the one V it has done, out of both sides
   (`ReturnStep`). All other actions happen while nobody is doomed (`Settled`),
   where the mapping is plain, and there is one lemma for each kind of step.
6. `DevicesInvariance` (`DevicesProofs`): for any units in use (`Uses`). The
   invariant says, for each unit, how its semaphore, the state of its process and
   the state of the device agree (`Balance`): the value is what is still expected
   less what is outstanding. That alone is not enough, since a killed waiter leaves
   the value at -1 with nobody waiting; but then its operation is outstanding, and a
   successor, which comes when the unit is ready, finds it at zero or above. Since
   two units never have the same semaphore, which the arithmetic of both index
   formulas shows, a step on one leaves the others alone. `DevicesTyped`, `AnsweredOnce`,
   `WokenByOwn` and `OperationsAwaited` (`ReturnsAfterEnd`) follow.
7. `CpuInvariance` (`CpuTimeProofs`): for any slice, latency, first time of day and
   width of the counters. `SliceInv`: what is left in the timer and what has been
   used of the slice add up to the slice, up to the tick at which the interrupt is
   raised, unless `late`; `SlicesBounded` follows. `TimeInv`: the stamps are real
   times modulo the width, taken in order, so that their signed difference is the
   time in between. That is so as long as it fits, and `NoneForgotten` has that
   condition: the time since boot, and with it what SYS6 has counted again, is
   below half the range of `cpu_t`. `NoneChargedTwice`, under the same condition:
   what all processes have been charged, with the time since `start_TOD`, is at most
   the time that has passed and what SYS6 and passing up have counted again. The
   total is the fold `SumFunction` of the community modules. What it does when one
   value changes (`SumChange`) is proved from its defining equation: the equation has
   a solution on the subsets of at most n elements, for each n (`SumsSolved`), and
   solutions agree; instead of an induction over n there is a least n for which it
   fails.
8. `ListsInvariance` (`PcbProofs`), for any number of queues and of pcbs, at least
   one, with NULL not among them (`PcbAssumption` of `Pcbs`): there are a sequence for the free
   list and one for each queue such that the pointers lead through them, round and
   in both directions for a queue (`Circles`), and these and `held` partition the
   pcbs. The partition is what makes a step on one list leave the others alone
   although all share the fields `p_next` and `p_prev`. What the model reads from
   memory is then the sequence itself (`ChainIs`, `LeadsRead`), and each operation,
   with its cases for head, tail, only and absent element, is one move on sequences.
   `OneList`, `BackLinks` and `ListsRefine` follow.
9. `TreeInvariance` (`PcbProofs`): the same for the lists of children. `p_prnt`
   agrees with the lists, so that the search of `outChild` never reaches the end of
   the list, where the code would leave the child with a parent; and `p_lSib` undoes
   `p_rSib`. Of a first child's `p_lSib` nothing is said, since it may point to a pcb
   that was removed. `ChildOfParent`, `LeftSiblings` and `ForestRefine` follow.
10. `AslInvariance` (`AslProofs`), for any addresses and one descriptor per pcb
   besides the dummies; addresses are numbers and not null
   (`AddressAssumption`). A sorted sequence leads from the dummy
   head through the active descriptors, one through the free ones (`Filed`); those
   in the list other than the dummies are the ones with a queue, and no pcb is in
   two queues (`Queued`).
   Since the keys are strictly sorted, `getSemd` stops at the only place where a
   descriptor of that key can be (`Search`), so that a change of one descriptor is
   a change of one semaphore's queue (`ChangeWaits`). `StaysSorted` and `AslRefine`
   follow. `DescriptorsSuffice` counts: an active descriptor has a queue, the heads
   of the queues are different pcbs, so a pcb that is in none leaves a descriptor
   (`OneLeft`).
11. `TestRunsOnNucleus` (`P2TestProofs`): `TestSpec => Spec`, so that all that is
   proved of `Nucleus` holds while the test program runs. On top of it
   `MutualExclusion`: `OnePrints` holds for messages of any length, for any pcbs,
   wherever slices run out (p4 included) and whoever is killed. The invariant
   `Exclusive` adds that `term_mut` is never above 1 and that who is queued on it has
   just executed the P of a `print`; it rests on `CountInv`, by which the value of
   `term_mut` is minus the number of those queued whenever there are any, also while
   a termination is giving back their Ps. That the programs are well bracketed (a P
   of `term_mut` comes outside of one, a V inside, jumps lead outside, a process is
   created outside) is shown of each program in `Text`. Assumed are the names of
   the semaphores, all different (`SemsAssumption`), and that there is a terminal
   (`TestAssumption`).

`NucleusProofs` and the pointer modules have one lemma per kind of move (blocking,
waking, resuming, dispatching, killing; inserting, unlinking, filing), so that
each action's case cites one of them; `QueueLemmas` has what the moves do to
sequences and to pointers that lead through them.

Only model-checked: the liveness properties (fairness and ENABLED are beyond the
prover), and `TerminalNotLost`. The latter is false when a slice may run out in p4,
as `p4_race` shows, and true only of the instance in which none does: it says of
each point at which a process can be killed that it does not hold the terminal
there, which TLC finds out by running the program.

## 5. Not modelled

* In `Nucleus` itself, time, interrupt lines and the halves of a terminal; they are
  in modules of their own, which do not run on top of `Nucleus`.
* The decoding of Cause.ExcCode, and the rewrite of it for a system call from user
  mode (`exceptions.c:876`): two table look-ups without state. The rewrite is done
  for calls numbered 9 and above too, although the comment above passes them up
  unchanged (`exceptions.c:750-754`).
* Register contents, except the result of SYS5 and SYS6; the pass-up vector and
  the first process's registers, which `main` stores and only the BIOS reads.
* uMPS3 itself beyond what section 2 says: the TLB, kinds of device status, the
  time scale.
* `p1test.c`: one sequence of calls on the queue managers, of which `ProcQ`,
  `ProcTree` and `Asl` explore all. The phase 3 testers: programs for a support
  level that is not in the repository.

## 6. Plan

Done: 1. `Nucleus` with its runs; 2. the pointer modules and their refinements;
3. the invariants of `Nucleus` proved; 4. `Devices`; 5. `CpuTime`, with the PLT as a
counter; 6. `Kernel` and its refinement, model-checked; 7. `P2Test`; 8. the
refinement of `Kernel` and `FamilySound` proved; 9. `Devices` and `CpuTime` proved;
10. the pointer modules and their refinements proved; 11. the order of the queues,
the end of the recursion, the sum of the times charged, the left siblings, and
mutual exclusion in the test program proved.

Left to do: how long one process can keep another from running, as a bound in time
that joins `FirstComeFirstServed` with `SlicesBounded`; it needs `CpuTime` to run on
top of `Nucleus`.
