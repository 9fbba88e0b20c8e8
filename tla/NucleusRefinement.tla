------------------------- MODULE NucleusRefinement -------------------------
(***************************************************************************)
(* The nucleus implements Kernel.  terminateProcess takes one pcb at a     *)
(* time; seen from Kernel the whole family dies when the outermost call is *)
(* entered, and the later calls change nothing.  So the mapping leaves the *)
(* doomed pcbs, those on the call stack and their descendants, out of      *)
(* every queue, and counts back the Ps they have yet to return.            *)
(***************************************************************************)
EXTENDS Nucleus

Closed(S) == ToSet(terminating) \subseteq S /\ \A c \in PCB : p_prnt[c] \in S => c \in S

Doomed ==
    IF terminating = <<>> THEN {}
    ELSE CHOOSE S \in SUBSET PCB :
            Closed(S) /\ \A T \in SUBSET PCB : Closed(T) => S \subseteq T

alive   == Live \ Doomed
parent  == LET doomed == Doomed
           IN [p \in PCB |-> IF p \in doomed THEN NULL ELSE p_prnt[p]]
running == IF terminating = <<>> THEN currentProcess ELSE NULL
ready   == ToSet(readyQueue) \ Doomed
waiting == LET doomed == Doomed
           IN [s \in Semaphore |-> ToSet(asl[s]) \ doomed]
value   == LET doomed == Doomed
           IN [s \in USERSEM |-> userSem[s] + Cardinality(ToSet(asl[s]) \cap doomed)]

\* Kernel with the six variables as defined above.
Abstract == INSTANCE Kernel WITH PROC <- PCB, SEM <- USERSEM, EVENT <- DeviceSem

\* Every entry into the nucleus is one step of Kernel or none: the recursive
\* termination is atomic for the processes that survive it, although it frees
\* one pcb after the other and touches the Ready Queue, the semaphores and the
\* tree in between (exceptions.c:365-408).
ImplementsKernel == Abstract!Spec
=============================================================================
