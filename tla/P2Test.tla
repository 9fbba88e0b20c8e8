------------------------------- MODULE P2Test -------------------------------
(***************************************************************************)
(* The test program of phase 2 (p2test.c) running on the nucleus.          *)
(*                                                                         *)
(* Nucleus lets a process do anything; here the processes are p1 .. p8 and *)
(* their children, each a sequence of instructions.  An instruction is one *)
(* system call, trap or start of the transmitter; what a program computes  *)
(* between two of them is joined to the one before.  Messages are not      *)
(* told apart: print writes Chars characters, whatever it is asked to say. *)
(***************************************************************************)
EXTENDS Nucleus

CONSTANTS
    term_mut, testsem, startp2, endp2, endp3, blkp4, synp4, endp4, endp5,
    endp8, endcreate, blkp8,
    s,            \* stands for each semaphore of the array s[]
    Incarnations, \* how often p1 creates the p8 tree; 4 in the code
    Chars,        \* bound: characters in a message
    MaxPreempt,   \* bound: how many time slices run out
    Preemptible   \* the programs in which one may

\* The semaphores of the test are different variables.
ASSUME SemsAssumption ==
    /\ USERSEM = {term_mut, testsem, startp2, endp2, endp3, blkp4, synp4, endp4,
                  endp5, endp8, endcreate, blkp8, s}
    /\ IsInjective(<<term_mut, testsem, startp2, endp2, endp3, blkp4, synp4, endp4,
                     endp5, endp8, endcreate, blkp8, s>>)

\* There is a transmitter, and a message has a length.
ASSUME TestAssumption == 0 \in DEVICE /\ Chars \in Nat

VARIABLES
    pc,        \* program and line of each process
    p1p2synch, \* set by p2 before it ends
    p8inc,     \* p8's incarnation number
    ran,       \* has the current process executed something in this slice?
    preempted  \* slices that have run out

memory  == <<p1p2synch, p8inc>>
testing == <<pc, memory, ran, preempted>>
allVars == <<vars, testing>>

-----------------------------------------------------------------------------
(* The programs                                                            *)

Ins(op, arg)  == [op |-> op, arg |-> arg]
P(sem)        == <<Ins("P", sem)>>
V(sem)        == <<Ins("V", sem)>>
Create(prog)  == <<Ins("create", prog)>>
Trap(cause)   == <<Ins("trap", cause)>>
Call(op)      == <<Ins(op, NULL)>>

print ==
    P(term_mut)
        \o [i \in 1 .. 2 * Chars |-> Ins(IF i % 2 = 1 THEN "start" ELSE "SYS5", NULL)]
        \o V(term_mut)

p1_setup ==
    V(testsem) \o print
        \o Create("p2") \o print \o V(startp2) \o P(endp2) \o Call("checkp1p2synch")
        \o Create("p3") \o print \o P(endp3)
        \o Create("p4") \o Create("p5") \o Create("p6") \o Create("p7")
        \o P(endp5) \o print \o P(blkp4)

test ==
    p1_setup
        \o Create("p8root") \o P(endp8) \o <<Ins("loop", Len(p1_setup) + 1)>>
        \o print \o Trap("BUSERROR")

p2 ==
    P(startp2) \o print \o V(s) \o P(s) \o print
        \o Call("SYS6") \o Call("SYS6") \o print
        \o Call("setp1p2synch") \o V(endp2) \o Call("SYS2")

p3 ==
    Call("SYS7") \o <<Ins("delayed", 1)>> \o print
        \o Call("SYS6") \o Call("SYS7") \o Call("SYS6") \o print
        \o V(endp3) \o Call("SYS2")

p4 ==
    print \o print \o V(synp4) \o print \o P(blkp4) \o print \o P(synp4)
        \o Create("p4") \o P(synp4) \o print \o V(endp4) \o Call("SYS2")

p5 == print \o Trap("BUSERROR")

\* The store to an address without a TLB entry: uTLB_RefillHandler puts an
\* invalid entry there and the store traps again.
p5a == Trap("TLB")

\* p5b lies outside of kuseg: in user mode its first fetch is an address error.
p5b_user == Trap("ADDRERROR")

p5b ==
    Call("SYS9") \o P(endp4)
        \o Call("SYS7") \o <<Ins("delayed", 3)>>
        \o V(blkp4) \o V(endp5) \o Call("SYS2")

\* p5gen for a bus and an address error; the LDST at its end goes on in p5a or p5b.
p5gen(next) == print \o <<Ins("LDST", next)>>

\* Behind SYS9: p5sys, too, skips the instruction.
p5sys == print \o <<Ins("LDST", <<"p5b", 2>>)>>

p5mm == print \o Call("SYS8") \o print \o <<Ins("LDST", <<"p5b_user", 1>>)>>

p6 == print \o Call("SYS9")
p7 == print \o Trap("BUSERROR")

p8root_Early ==
    print \o Create("child1") \o Create("child2")
        \o P(endcreate) \o P(endcreate) \o P(endcreate) \o V(endp8) \o Call("SYS2")
p8root ==
    print \o Create("child1") \o Create("child2")
        \o P(endcreate) \o P(endcreate) \o P(endcreate) \o P(endcreate)
        \o V(endp8) \o Call("SYS2")

\* child1 and child2 have the same text.
child1 == print \o Create("p8leaf") \o Create("p8leaf") \o P(blkp8)

p8leaf == print \o V(endcreate) \o P(blkp8)

Text ==
    [p1 |-> test, p2 |-> p2, p3 |-> p3, p4 |-> p4, p5 |-> p5, p5a |-> p5a,
     p5b_user |-> p5b_user, p5b |-> p5b, p5mm |-> p5mm,
     BUSERROR |-> p5gen(<<"p5a", 1>>), ADDRERROR |-> p5gen(<<"p5b", 1>>),
     SYSCALLEXCPT |-> p5sys,
     p6 |-> p6, p7 |-> p7, p8root |-> p8root, child1 |-> child1,
     child2 |-> child1, p8leaf |-> p8leaf]

\* The handler in pFiveSupport for a cause.
Handler(cause) == IF cause = "TLB" THEN "p5mm" ELSE cause

-----------------------------------------------------------------------------
(* One instruction of the current process                                  *)

At(prog, line) == [prog |-> prog, line |-> line]
Here == pc[currentProcess]
\* Line 0 reports an error, and past its last line a program has gone wrong:
\* neither has a step.
Runs(op) ==
    /\ Executing
    /\ Here.line \in DOMAIN Text[Here.prog]
    /\ Text[Here.prog][Here.line].op = op
Arg == Text[Here.prog][Here.line].arg

Goto(prog, line) == pc' = [pc EXCEPT ![currentProcess] = At(prog, line)]
Advance == Goto(Here.prog, Here.line + 1)

\* The interrupted slice of a process begins anew when it is dispatched.
SliceGoesOn == cpu' = "process" /\ currentProcess' = currentProcess

Trapped == saveState /\ UNCHANGED <<hardware, memory>>

\* p5 has its support structure; the second p4 is created with 0 in a2, which is
\* not NULL (0xFFFFFFFF), so that it counts as having one.
Supported == Arg = "p5" \/ Here.prog = "p4"

\* allocPcb takes the first pcb of its free list; the pcbs are interchangeable.
SYS1 ==
    /\ Runs("create") /\ Trapped
    /\ createProcess(Supported)
    /\ IF pcbFree # {}
       THEN /\ pcbFree' = pcbFree \ {Min(pcbFree)}
            /\ pc' = [pc EXCEPT ![currentProcess].line = @ + 1,
                                ![Min(pcbFree)] = At(Arg, 1)]
       \* creation == CREATENOGOOD, which only p1's loop looks at
       ELSE IF Arg = "p8root" THEN Goto("p1", 0) ELSE Advance

SYS2 ==
    /\ Runs("SYS2") /\ Trapped
    /\ terminateCurrent
    /\ UNCHANGED pc

SYS3 == Runs("P") /\ Trapped /\ passeren(Arg) /\ Advance
SYS4 == Runs("V") /\ Trapped /\ verhogen(Arg) /\ Advance
SYS5 == Runs("SYS5") /\ Trapped /\ waitForIO(0) /\ Advance
SYS6 == Runs("SYS6") /\ Trapped /\ getCPUTime /\ Advance
SYS7 == Runs("SYS7") /\ Trapped /\ waitForClock /\ Advance
SYS8 == Runs("SYS8") /\ Trapped /\ getSupportData /\ Advance


\* Where a process is after an exception that is passed up or kills it.
PassedUp(cause) ==
    IF p_supportStruct[currentProcess] THEN Goto(Handler(cause), 1) ELSE UNCHANGED pc

SYS9 ==
    /\ Runs("SYS9") /\ Trapped
    /\ passUpOrDie
    /\ PassedUp("SYSCALLEXCPT")

ProgramTrap ==
    /\ Runs("trap")
    /\ UNCHANGED <<savedExceptionState, hardware, memory>>
    /\ passUpOrDie
    /\ PassedUp(Arg)

StartTransmitter ==
    /\ Runs("start")
    /\ StartDevice(0)
    /\ Advance /\ UNCHANGED memory

\* Instructions that do not enter the nucleus.
LDST ==
    /\ Runs("LDST")
    /\ Goto(Arg[1], Arg[2])
    /\ UNCHANGED <<vars, memory>>

setSynch ==
    /\ Runs("setp1p2synch")
    /\ p1p2synch' = 1
    /\ Advance /\ UNCHANGED <<vars, p8inc>>

checkSynch ==
    /\ Runs("checkp1p2synch")
    /\ IF p1p2synch = 0 THEN Goto("p1", 0) ELSE Advance
    /\ UNCHANGED <<vars, memory>>

loop ==
    /\ Runs("loop")
    /\ p8inc' = p8inc + 1
    /\ IF p8inc' < Incarnations THEN Goto("p1", Arg) ELSE Advance
    /\ UNCHANGED <<vars, p1p2synch>>

\* The wait was shorter than half an interval: once more.  Or long enough.
TooShort ==
    /\ Runs("delayed")
    /\ Goto(Here.prog, Arg)
    /\ UNCHANGED <<vars, memory>>
LongEnough ==
    /\ Runs("delayed")
    /\ Advance
    /\ UNCHANGED <<vars, memory>>

\* No slice runs out inside the nucleus, where it can stop the machine
\* (NoPltPanic of Nucleus).
NotInNucleus == plt' = "expired" => plt = "expired"

Instruction(A) ==
    /\ A
    /\ ran' = SliceGoesOn
    /\ NotInNucleus
    /\ UNCHANGED preempted

Execute ==
    Instruction(\/ SYS1 \/ SYS2 \/ SYS3 \/ SYS4 \/ SYS5 \/ SYS6 \/ SYS7 \/ SYS8
                \/ SYS9 \/ ProgramTrap \/ StartTransmitter \/ LDST
                \/ setSynch \/ checkSynch \/ loop)

Decide == Instruction(TooShort \/ LongEnough)

-----------------------------------------------------------------------------
(* The nucleus and the machine go on as in Nucleus                         *)

Terminate ==
    /\ terminateProcess
    /\ ran' = SliceGoesOn /\ NotInNucleus
    /\ pc' = [p \in PCB |-> IF p \in pcbFree' THEN At("p1", 0) ELSE pc[p]]
    /\ UNCHANGED <<memory, preempted>>

\* A slice is 5 ms: the process executes something in it.
SliceEnds ==
    /\ PltExpires
    /\ ran /\ preempted < MaxPreempt /\ Here.prog \in Preemptible
    /\ preempted' = preempted + 1
    /\ UNCHANGED <<pc, memory, ran>>

Preempt ==
    /\ PLTInterruptHandler
    /\ ran' = FALSE /\ NotInNucleus
    /\ UNCHANGED <<pc, memory, preempted>>

ClockTick ==
    /\ intervalTimerInterruptHandler
    /\ ran' = (ran /\ SliceGoesOn) /\ NotInNucleus
    /\ UNCHANGED <<pc, memory, preempted>>

Transmitted ==
    /\ nonTimerInterruptHandler
    /\ ran' = (ran /\ SliceGoesOn) /\ NotInNucleus
    /\ UNCHANGED <<pc, memory, preempted>>

IntervalEnds == IntervalTimerExpires /\ UNCHANGED testing

\* A character takes longer than its process needs from the store to SYS5, a
\* preemption in between included.  (print would panic otherwise: a SYS5 that
\* does not block leaves v0 as it was, and print takes v0 for the status.)
Completes ==
    /\ asl[0] # <<>>
    /\ DeviceCompletes(0)
    /\ UNCHANGED testing

Halted == StayStopped /\ UNCHANGED testing

-----------------------------------------------------------------------------

\* main() has created p1.
TestInit ==
    /\ userSem = [sem \in USERSEM |-> IF sem \in {term_mut, blkp4} THEN 1 ELSE 0]
    /\ Init
    /\ currentProcess = Min(PCB)
    /\ pc = [p \in PCB |-> At("p1", IF p = currentProcess THEN 1 ELSE 0)]
    /\ p1p2synch = 0
    /\ p8inc = 0
    /\ ran = FALSE
    /\ preempted = 0

TestNext ==
    \/ Execute
    \/ Decide
    \/ Terminate
    \/ SliceEnds
    \/ Preempt
    \/ ClockTick
    \/ Transmitted
    \/ IntervalEnds
    \/ Completes
    \/ Halted

\* As in Nucleus, and the current process executes its next instruction unless
\* interrupts keep it from doing so for ever.  A wait for the clock that starts
\* right after a tick takes a whole interval: it is not too short each time.
TestFairness ==
    /\ SF_allVars(Execute)
    /\ SF_allVars(Instruction(LongEnough))
    /\ WF_allVars(Terminate)
    /\ WF_allVars(Preempt)
    /\ WF_allVars(ClockTick)
    /\ SF_allVars(Transmitted)
    /\ WF_allVars(IntervalEnds)
    /\ WF_allVars(Completes)

TestSpec == TestInit /\ [][TestNext]_allVars /\ TestFairness

-----------------------------------------------------------------------------
(* Properties                                                              *)

\* The whole test succeeds: p1 runs to its end and dies by its trap, every other
\* process has been killed, and the machine halts (p2test.c:291, "p1 finishes
\* OK").  On the way no process reports an error or gets past its last line: SYS2
\* does not return, nobody leaves blkp8, and SYS1 finds a pcb for each of the
\* 28 processes of p8 also while p1 goes on before the last tree is gone.
TestFinishes == <>[](cpu = "halt")

\* At this line, is the terminal taken: P(term_mut) has been executed, and
\* V(term_mut) not since?
Inside(code, line) ==
    \E i \in 1 .. line - 1 :
        /\ code[i] = Ins("P", term_mut)
        /\ \A j \in i + 1 .. line - 1 : code[j] # Ins("V", term_mut)

Holds(p) == Inside(Text[pc[p].prog], pc[p].line)
Owners   == {p \in Live : p_semAdd[p] # term_mut /\ Holds(p)}

\* Two processes never have the terminal at once, wherever a slice runs out and
\* whoever is killed while it waits or prints: term_mut is "for mutual exclusion
\* on terminal" (p2test.c:83, 127-135).
OnePrints ==
    /\ \A p, q \in Owners : p = q
    /\ userSem[term_mut] > 0 => Owners = {}

\* A termination never takes the process that is printing: while term_mut is
\* taken, a live process holds it (p2test.c:425-427).
TerminalNotLost == userSem[term_mut] <= 0 => Owners # {}
=============================================================================
