------------------------------ MODULE CpuTime ------------------------------
(***************************************************************************)
(* CPU time and time slices: the time stamps start_TOD, interrupt_TOD and  *)
(* curr_TOD, what every handler charges to p_time, and the processor local *)
(* timer as a counter of fixed width.                                      *)
(*                                                                         *)
(* Which process makes which call is Nucleus's business.  Here a call      *)
(* blocks its caller or returns to it, and takes some ticks of the clock   *)
(* before its first STCK and some more after that.                         *)
(***************************************************************************)
EXTENDS Integers, FiniteSetsExt, SequencesExt

CONSTANTS
    PROC,
    NULL,
    PLT_TIME_SLICE, \* 5000 in the code
    TimerRange,     \* the PLT counts modulo this; 2^32 on the machine
    TodRange,       \* so does the low word of the time of day
    Boot,           \* its value when the first process is dispatched
    Latency,        \* bound: ticks from an interrupt to interrupt_TOD and getTIMER
    MaxWork,        \* bound: ticks between two points of a handler
    MaxNow          \* bound: the time at which the run ends

ASSUME ProcAssumption == IsFiniteSet(PROC) /\ NULL \notin PROC

ASSUME RangeAssumption ==
    /\ TimerRange \in Nat /\ PLT_TIME_SLICE \in 1 .. TimerRange - 1
    /\ TodRange \in Nat /\ TodRange % 2 = 0 /\ TodRange > 0 /\ Boot \in Int
    /\ Latency \in Nat /\ MaxWork \in Nat /\ MaxNow \in Nat

VARIABLES
    now,            \* ticks since the first dispatch
    currentProcess, readyQueue,
    ioQueue,        \* processes blocked on a device
    clockQueue,     \* processes blocked on the pseudo-clock
    start_TOD,      \* when the current process was last loaded
    p_time,         \* time charged to each process
    timer,          \* the PLT
    pltPending,     \* its interrupt
    used,           \* history: ticks in which each process really had the CPU
    slice,          \* history: those since the current process was dispatched
    late,           \* history: since then, has getTIMER been called with the PLT past zero?
    recounted,      \* history: ticks that SYS6 and passing up charge once more
    sample          \* history: the last answers of SYS6

queues  == <<currentProcess, readyQueue, ioQueue, clockQueue>>
plt     == <<timer, pltPending>>
history == <<used, slice, late, recounted, sample>>
vars    == <<now, queues, start_TOD, p_time, plt, history>>

None == [before |-> 0, after |-> 0, cpu |-> -1]

TypeOK ==
    /\ now \in Nat /\ start_TOD \in Int
    /\ currentProcess \in PROC \cup {NULL}
    /\ readyQueue \in Seq(PROC) /\ ioQueue \in Seq(PROC) /\ clockQueue \in Seq(PROC)
    /\ p_time \in [PROC -> Int] /\ used \in [PROC -> Nat]
    /\ timer \in 0 .. TimerRange - 1 /\ pltPending \in BOOLEAN
    /\ slice \in Nat /\ late \in BOOLEAN /\ recounted \in Int

-----------------------------------------------------------------------------

\* A word of TodRange values read as cpu_t, which is signed.
Signed(x) == LET w == x % TodRange
             IN IF w < TodRange \div 2 THEN w ELSE w - TodRange

\* The time of day at time t, with the machine's time scale at 1.
STCK(t) == Signed(Boot + t)

\* p_time += (end - start), in the arithmetic of cpu_t.
updateProcessTimeHelper_Absolute(charged, start, end) ==
    charged + (IF end >= start THEN end - start ELSE 0)
updateProcessTimeHelper(charged, start, end) == Signed(charged + (end - start))

Charge(p, start, end) ==
    p_time' = [p_time EXCEPT ![p] = updateProcessTimeHelper(@, start, end)]

\* The PLT n ticks later; its interrupt is raised as it passes zero.
Count(n) ==
    /\ timer' = (timer - n) % TimerRange
    /\ pltPending' = (pltPending \/ n > timer)

\* A write to the PLT acknowledges its interrupt.
setTIMER(value) == timer' = value /\ pltPending' = FALSE

switchContext_KeepsStart(t) == UNCHANGED start_TOD
switchContext(t) == start_TOD' = STCK(t)

\* Called at time t with rq as the Ready Queue and no current process.
scheduler(rq, t) ==
    \/ /\ rq # <<>>
       /\ currentProcess' = Head(rq)
       /\ readyQueue' = Tail(rq)
       /\ setTIMER(PLT_TIME_SLICE)
       /\ switchContext(t)
       /\ slice' = 0 /\ late' = FALSE
    \/ /\ rq = <<>>
       /\ currentProcess' = NULL
       /\ readyQueue' = rq
       /\ setTIMER(TimerRange - 1)
       /\ UNCHANGED <<start_TOD, slice, late>>

Before == 0 .. MaxWork \* ticks from the trap to the first STCK
After  == 1 .. MaxWork \* ticks from there to the end of the handler

Running == currentProcess # NULL /\ ~pltPending

-----------------------------------------------------------------------------
(* A process runs, and calls                                               *)

Tick ==
    /\ Running /\ now < MaxNow
    /\ now' = now + 1
    /\ Count(1)
    /\ used' = [used EXCEPT ![currentProcess] = @ + 1]
    /\ slice' = slice + 1
    /\ UNCHANGED <<queues, start_TOD, p_time, late, recounted, sample>>

\* The processor waits; INF_TIME ticks do not pass in a wait.
Wait ==
    /\ currentProcess = NULL /\ now < MaxNow
    /\ now' = now + 1
    /\ UNCHANGED <<queues, start_TOD, p_time, plt, history>>

\* SYS1, SYS3-SYS5, SYS7 and SYS8 when they return to the caller.
callReturns ==
    /\ Running /\ now < MaxNow
    /\ \E a \in Before, b \in After :
         /\ now' = now + a + b
         /\ Charge(currentProcess, start_TOD, STCK(now + a))
         /\ switchContext(now')
         /\ Count(a + b)
    /\ UNCHANGED <<queues, history>>

\* SYS6 answers, and then charges what has passed since start_TOD once more.
getCPUTime ==
    /\ Running /\ now < MaxNow
    /\ \E a \in Before, b \in After :
         LET answer == updateProcessTimeHelper(p_time[currentProcess], start_TOD, STCK(now + a))
             again  == updateProcessTimeHelper(answer, start_TOD, STCK(now + a + b))
         IN /\ now' = now + a + b
            /\ p_time' = [p_time EXCEPT ![currentProcess] = again]
            /\ sample' = [sample EXCEPT ![currentProcess] =
                            [before |-> now, after |-> now', cpu |-> answer]]
            /\ recounted' = recounted + Signed(STCK(now + a) - start_TOD)
            /\ switchContext(now')
            /\ Count(a + b)
    /\ UNCHANGED <<queues, used, slice, late>>

\* Passing up charges the process and does not move start_TOD.
passUp ==
    /\ Running /\ now < MaxNow
    /\ \E a \in Before, b \in After :
         /\ now' = now + a + b
         /\ Charge(currentProcess, start_TOD, STCK(now + a))
         /\ recounted' = recounted + Signed(STCK(now + a) - start_TOD)
         /\ Count(a + b)
    /\ UNCHANGED <<queues, start_TOD, used, slice, late, sample>>

\* P blocks on a device (SYS5) or on the pseudo-clock (SYS7).
blockCurrentProcessHelper ==
    /\ Running /\ now < MaxNow
    /\ \/ ioQueue' = Append(ioQueue, currentProcess) /\ UNCHANGED clockQueue
       \/ clockQueue' = Append(clockQueue, currentProcess) /\ UNCHANGED ioQueue
    /\ \E a \in Before, b \in After :
         /\ now' = now + a + b
         /\ Charge(currentProcess, start_TOD, STCK(now + a))
         /\ scheduler(readyQueue, now')
    /\ UNCHANGED <<used, recounted, sample>>

-----------------------------------------------------------------------------
(* Interrupts                                                              *)

PLTInterruptHandler ==
    /\ currentProcess # NULL /\ pltPending /\ now < MaxNow
    /\ \E a \in Before, b \in After :
         /\ now' = now + a + b
         /\ Charge(currentProcess, start_TOD, STCK(now + a))
         /\ scheduler(Append(readyQueue, currentProcess), now')
    /\ UNCHANGED <<ioQueue, clockQueue, used, recounted, sample>>

\* What was left of the slice when getTIMER was called, a ticks into the trap.
timeLeft_Full(a) == PLT_TIME_SLICE
timeLeft_Negative(a) == timer - a
timeLeft(a) == (timer - a) % TimerRange

\* How the handlers below end: the interrupted process is charged up to the
\* interrupt, and gets the rest of its slice.
returnFromInterrupt(rq, charged, a) ==
    \/ /\ currentProcess # NULL
       /\ setTIMER(timeLeft(a))
       /\ p_time' = [charged EXCEPT ![currentProcess] =
                       updateProcessTimeHelper(@, start_TOD, STCK(now + a))]
       /\ switchContext(now')
       /\ readyQueue' = rq
       /\ late' = (late \/ a > timer)
       /\ UNCHANGED <<currentProcess, slice>>
    \/ /\ currentProcess = NULL
       /\ p_time' = charged
       /\ scheduler(rq, now')

\* The process it wakes is charged for the time from the interrupt to there.
nonTimerInterruptHandler ==
    /\ ~pltPending /\ now < MaxNow
    /\ \E a \in 0 .. Latency, c \in Before, b \in After :
         /\ now' = now + a + c + b
         /\ \/ /\ ioQueue # <<>>
               /\ ioQueue' = Tail(ioQueue)
               /\ returnFromInterrupt(
                    Append(readyQueue, Head(ioQueue)),
                    [p_time EXCEPT ![Head(ioQueue)] =
                       updateProcessTimeHelper(@, STCK(now + a), STCK(now + a + c))],
                    a)
            \/ /\ ioQueue = <<>>
               /\ returnFromInterrupt(readyQueue, p_time, a)
               /\ UNCHANGED ioQueue
    /\ UNCHANGED <<clockQueue, used, recounted, sample>>

intervalTimerInterruptHandler ==
    /\ ~pltPending /\ now < MaxNow
    /\ \E a \in 0 .. Latency, b \in After :
         /\ now' = now + a + b
         /\ clockQueue' = <<>>
         /\ returnFromInterrupt(readyQueue \o clockQueue, p_time, a)
    /\ UNCHANGED <<ioQueue, used, recounted, sample>>

-----------------------------------------------------------------------------

Init ==
    /\ now = 0
    /\ \E p \in PROC : currentProcess = p /\ readyQueue = SetToSeq(PROC \ {p})
    /\ ioQueue = <<>> /\ clockQueue = <<>>
    /\ start_TOD = STCK(0)
    /\ p_time = [p \in PROC |-> 0]
    /\ timer = PLT_TIME_SLICE /\ pltPending = FALSE
    /\ used = [p \in PROC |-> 0]
    /\ slice = 0 /\ late = FALSE /\ recounted = 0
    /\ sample = [p \in PROC |-> None]

TimeIsUp == now >= MaxNow /\ UNCHANGED vars

Next ==
    \/ Tick
    \/ Wait
    \/ callReturns
    \/ getCPUTime
    \/ passUp
    \/ blockCurrentProcessHelper
    \/ PLTInterruptHandler
    \/ nonTimerInterruptHandler
    \/ intervalTimerInterruptHandler
    \/ TimeIsUp

Spec == Init /\ [][Next]_vars

-----------------------------------------------------------------------------

\* The time the current process has not been charged for yet.
Uncharged(p) == IF p = currentProcess THEN Signed(STCK(now) - start_TOD) ELSE 0

\* Every tick in which a process had the CPU is charged to it by the time it
\* loses the CPU, through all handlers and across the overflow of the time of
\* day (initial.c:169-171, and types.h:142, "cpu time used by proc").
NothingForgotten == \A p \in PROC : p_time[p] + Uncharged(p) >= used[p]

\* No instant is charged twice, to one process or to two, but for what SYS6 and
\* passing up count again: the interrupted process is charged up to
\* interrupt_TOD, the one that is woken from there (interrupts.c:331, 350).
ChargedOnce ==
    SumFunction([p \in PROC |-> p_time[p] + Uncharged(p)]) <= now + recounted

\* However often interrupts and calls come in between, a process runs for the
\* time slice it was given at its dispatch and one tick to the interrupt, and
\* not longer (scheduler.c:134; interrupts.c:348, 400), unless the PLT has passed
\* zero between an interrupt and getTIMER (interrupts.c:455), which makes what is
\* left nearly TimerRange.
SliceBounded == slice <= PLT_TIME_SLICE + 1 \/ late

\* A process that asks SYS6 twice has not been given more CPU time than has
\* passed (p2test.c:338-346).
CpuWithinRealTime ==
    [][\A p \in PROC :
         sample'[p] # sample[p] /\ sample[p] # None
            => sample'[p].cpu - sample[p].cpu <= sample'[p].after - sample[p].before]_vars
=============================================================================
