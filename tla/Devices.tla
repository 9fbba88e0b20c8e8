------------------------------ MODULE Devices -------------------------------
(***************************************************************************)
(* The I/O devices and their semaphores.  A process gives a device a       *)
(* command and waits with SYS5 (exceptions.c) on the semaphore SYS5        *)
(* computes; nonTimerInterruptHandler (interrupts.c) finds out from the    *)
(* pending interrupts which device it is, acknowledges it and raises the   *)
(* semaphore it computes in its turn.  A terminal is two devices, receiver *)
(* and transmitter, with a semaphore each and one interrupt for both.      *)
(*                                                                         *)
(* A unit is a device, or a half of a terminal.  Each unit in use has one  *)
(* process, which may be killed at any point; then another takes the unit  *)
(* over, when it is ready.  A run starts with one of Uses in use.  What  *)
(* else processes and nucleus do is in Nucleus, where a device is a single *)
(* number.                                                                 *)
(***************************************************************************)
EXTENDS Integers, FiniteSets, FiniteSetsExt

CONSTANTS
    Line,        \* the interrupt lines with devices
    Device,      \* the device numbers on each line
    Uses,        \* the sets of units that may be in use together
    MaxSem       \* bound: how far interrupts nobody waits for raise a semaphore

ASSUME DevicesAssumption ==
    /\ Line \subseteq 3 .. 7 /\ Device \subseteq 0 .. 7
    /\ MaxSem \in Nat \ {0}

DEVPERINT   == 8
BASE_LINE   == 3
LINE7       == 7
CLOCK_INDEX == 48
SEM         == 0 .. CLOCK_INDEX

Unit == {u \in Line \X Device \X {"device", "recv", "tran"} :
            u[1] = LINE7 <=> u[3] # "device"}

ASSUME UsesAssumption == Uses \subseteq SUBSET Unit

VARIABLES
    used,             \* the units that have a process
    status,           \* of each unit: READY, BUSY, or DONE and interrupting
    semaphoreDevices, \* a value for each index
    proc,             \* what the process of a unit is doing
    blocked,          \* who is blocked: pairs of a unit and the index it waits on
    v0,               \* what SYS5 has returned to the process of a unit
    unclaimed         \* history: units with an operation whose process was killed
                      \* before it called SYS5

vars == <<used, status, semaphoreDevices, proc, blocked, v0, unclaimed>>

TypeOK ==
    /\ used \subseteq Unit
    /\ status \in [Unit -> {"READY", "BUSY", "DONE"}]
    /\ semaphoreDevices \in [SEM -> -1 .. MaxSem + 2]
    /\ proc \in [used -> {"idle", "started", "waiting", "killed"}]
    /\ blocked \subseteq used \X SEM
    /\ v0 \in [used -> {"none", "READY", "BUSY", "DONE"}]
    /\ unclaimed \subseteq used

-----------------------------------------------------------------------------
(* The devices and the processes that use them                             *)

Pending == {u \in Unit : status[u] = "DONE"}

\* A pending interrupt is taken before any process executes its next instruction.
Executing == Pending = {}

\* A command to a unit that is busy has no effect.  A process that takes over a
\* unit gives none before the operation of its predecessor has ended.
Command(u) ==
    /\ Executing
    /\ proc[u] = "idle" \/ (proc[u] = "killed" /\ status[u] = "READY")
    /\ proc' = [proc EXCEPT ![u] = "started"]
    /\ status' = [status EXCEPT ![u] = IF @ = "READY" THEN "BUSY" ELSE @]
    /\ v0' = [v0 EXCEPT ![u] = "none"]
    /\ UNCHANGED <<used, semaphoreDevices, blocked, unclaimed>>

Completes(u) ==
    /\ status[u] = "BUSY"
    /\ status' = [status EXCEPT ![u] = "DONE"]
    /\ UNCHANGED <<used, semaphoreDevices, proc, blocked, v0, unclaimed>>

semaphore_index_SameHalf(u) == (u[1] - BASE_LINE) * DEVPERINT + u[2]
semaphore_index(u) ==
    (u[1] - BASE_LINE) * DEVPERINT + u[2]
        + (IF u[1] = LINE7 /\ u[3] # "recv" THEN DEVPERINT ELSE 0)

\* SYS5; when it does not block it leaves v0 alone.
waitForIO(u) ==
    LET i == semaphore_index(u)
    IN /\ Executing /\ proc[u] = "started"
       /\ semaphoreDevices' = [semaphoreDevices EXCEPT ![i] = @ - 1]
       /\ \/ /\ semaphoreDevices'[i] < 0
             /\ proc' = [proc EXCEPT ![u] = "waiting"]
             /\ blocked' = blocked \cup {<<u, i>>}
          \/ /\ semaphoreDevices'[i] >= 0
             /\ proc' = [proc EXCEPT ![u] = "idle"]
             /\ UNCHANGED blocked
       /\ UNCHANGED <<used, status, v0, unclaimed>>

\* What the killing of a process leaves of a semaphore it waits on.
giveBack_Raised(u) ==
    semaphoreDevices' = [semaphoreDevices EXCEPT ![semaphore_index(u)] =
                            IF proc[u] = "waiting" THEN @ + 1 ELSE @]
giveBack(u) == UNCHANGED semaphoreDevices

\* Another process, or the one itself, executes a SYS2 that kills it.
terminateProcess(u) ==
    /\ Executing /\ proc[u] # "killed"
    /\ blocked' = {w \in blocked : w[1] # u}
    /\ giveBack(u)
    /\ proc' = [proc EXCEPT ![u] = "killed"]
    /\ v0' = [v0 EXCEPT ![u] = "none"]
    /\ \/ proc[u] # "started" /\ UNCHANGED unclaimed
       \/ /\ proc[u] = "started" /\ semaphoreDevices[semaphore_index(u)] < MaxSem
          /\ unclaimed' = unclaimed \cup {u}
    /\ UNCHANGED <<used, status>>

-----------------------------------------------------------------------------
(* The interrupt handler                                                   *)

\* The lowest line with an interrupt, and on it the lowest device.
interrupt_line_number == Min({u[1] : u \in Pending})
findInterruptDevice(line) == Min({u[2] : u \in {v \in Pending : v[1] = line}})

\* The half whose interrupt a terminal's is taken to be.
half_ReceiverFirst(d) == IF status[<<LINE7, d, "recv">>] # "READY" THEN "recv" ELSE "tran"
half_Transmitter(d) == "tran"
half(d) == IF status[<<LINE7, d, "tran">>] # "READY" THEN "tran" ELSE "recv"

\* ACK makes a unit that has completed ready again; a busy one ignores it.
acknowledge_Receiver(u) ==
    status' = [status EXCEPT ![<<u[1], u[2], IF u[1] = LINE7 THEN "recv" ELSE "device">>] =
                  IF @ = "DONE" THEN "READY" ELSE @]
acknowledge(u) == status' = [status EXCEPT ![u] = IF @ = "DONE" THEN "READY" ELSE @]

\* removeBlocked on the semaphore, V, and the status code for whom it unblocks.
unblock(i, status_code) ==
    /\ semaphoreDevices' = [semaphoreDevices EXCEPT ![i] = @ + 1]
    /\ LET queue == {w \in blocked : w[2] = i}
       IN \/ queue = {} /\ UNCHANGED <<proc, blocked, v0>>
          \/ \E w \in queue :
                /\ blocked' = blocked \ {w}
                /\ proc' = [proc EXCEPT ![w[1]] = "idle"]
                /\ v0' = [v0 EXCEPT ![w[1]] = status_code]

nonTimerInterruptHandler ==
    /\ Pending # {}
    /\ LET line         == interrupt_line_number
           device_num   == findInterruptDevice(line)
           device_index == (line - BASE_LINE) * DEVPERINT + device_num
           unit         == <<line, device_num, IF line = LINE7 THEN half(device_num) ELSE "device">>
           i            == IF unit[3] = "tran" THEN device_index + DEVPERINT ELSE device_index
       IN /\ status[unit] = "DONE" \/ semaphoreDevices[i] < MaxSem
          /\ acknowledge(unit)
          /\ unblock(i, status[unit])
    /\ UNCHANGED <<used, unclaimed>>

-----------------------------------------------------------------------------

Init ==
    /\ used \in Uses
    /\ status = [u \in Unit |-> "READY"]
    /\ semaphoreDevices = [i \in SEM |-> 0]
    /\ proc = [u \in used |-> "idle"]
    /\ blocked = {}
    /\ v0 = [u \in used |-> "none"]
    /\ unclaimed = {}

Next ==
    \/ \E u \in used : Command(u)
    \/ \E u \in used : Completes(u)
    \/ \E u \in used : waitForIO(u)
    \/ \E u \in used : terminateProcess(u)
    \/ nonTimerInterruptHandler

Spec == Init /\ [][Next]_vars

\* A unit that was given a command completes it, and a pending interrupt is taken.
Fairness ==
    /\ \A u \in Unit : WF_vars(u \in used /\ Completes(u))
    /\ WF_vars(nonTimerInterruptHandler)

FairSpec == Spec /\ Fairness

-----------------------------------------------------------------------------

\* The interrupts of unit u may be answered for another's: it is a transmitter
\* whose terminal is also read from.
Disturbed(u) == u[3] = "tran" /\ <<u[1], u[2], "recv">> \in used

\* SYS5 for unit u returns only with the status of a finished operation.
Answered(u) == v0[u] \in {"none", "DONE"}

\* A process that reads from a terminal is woken by the end of its read alone,
\* also while the same terminal transmits; so is one that writes, as long as
\* nobody reads from that terminal, and one that uses another device.  The
\* handler knows only the transmitter's status and that one of the two has
\* interrupted (interrupts.c:290-308).
WokenByOwnHalf == \A u \in used : Disturbed(u) \/ Answered(u)

\* Every command is answered exactly once, on its own semaphore, whatever other
\* units do, whether SYS5 comes before or after the interrupt, and whoever is
\* killed while it waits: SYS5 (exceptions.c:530-540) and the handler
\* (interrupts.c:256, 301-307) agree on the index for every line, device and half,
\* and nothing touches the clock's.  Only where a process was killed before it
\* waited for what it had started is there an answer too many, for ever.
CommandAnsweredOnce ==
    /\ \A u \in used \ unclaimed : Disturbed(u) \/
          semaphoreDevices[semaphore_index(u)] =
              (IF proc[u] = "started" THEN 1 ELSE 0) - (IF status[u] = "READY" THEN 0 ELSE 1)
    /\ \A i \in SEM : i \notin {semaphore_index(u) : u \in used} => semaphoreDevices[i] = 0

\* Whoever is blocked by SYS5 is woken, although a handler serves one interrupt
\* at a time, by priority, and does not acknowledge the receiver's as long as
\* the transmitter is busy (interrupts.c:241-249, 292).
WaiterWakes ==
    \A u \in Unit : (u \in used /\ proc[u] = "waiting") ~> (u \in used /\ proc[u] # "waiting")

\* A process that has come back from SYS5 finds its operation ended, also where
\* another was killed while it waited for the same unit, whose interrupt came
\* when nobody was waiting: "Incrementing the device semaphore" of a victim "might
\* disrupt the intended signaling" (exceptions.c:360, 384-397).
ReturnsAfterEnd ==
    \A u \in used \ unclaimed : Disturbed(u) \/ (proc[u] = "idle" => status[u] = "READY")

\* exceptions.c:519: the two semaphores of a terminal "allow independent,
\* concurrent control over its read and write operations": a completed read
\* does not wake the process that waits for the end of its write.
IndependentHalves == \A u \in used : Answered(u)
=============================================================================
