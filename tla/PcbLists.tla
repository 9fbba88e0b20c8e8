----------------------------- MODULE PcbLists -----------------------------
(***************************************************************************)
(* What pcb.c promises of its lists: a LIFO free list and FIFO process     *)
(* queues from which any member can be taken.  A pcb that is in none of    *)
(* them is held by a caller, who may queue it or free it.                  *)
(***************************************************************************)
EXTENDS Naturals, FiniteSets, SequencesExt

CONSTANTS PCB, QUEUE

VARIABLES free, queue

Held == PCB \ (ToSet(free) \cup UNION {ToSet(queue[q]) : q \in QUEUE})

Init ==
    /\ free \in SetToSeqs(PCB)
    /\ queue = [q \in QUEUE |-> <<>>]

Alloc ==
    /\ free # <<>>
    /\ free' = Tail(free)
    /\ UNCHANGED queue

Free(p) ==
    /\ p \in Held
    /\ free' = <<p>> \o free
    /\ UNCHANGED queue

Enqueue(q, p) ==
    /\ p \in Held
    /\ queue' = [queue EXCEPT ![q] = Append(@, p)]
    /\ UNCHANGED free

Dequeue(q) ==
    /\ queue[q] # <<>>
    /\ queue' = [queue EXCEPT ![q] = Tail(@)]
    /\ UNCHANGED free

TakeOut(q, p) ==
    /\ queue' = [queue EXCEPT ![q] = RemoveFirst(@, p)]
    /\ UNCHANGED free

Next ==
    \/ \E q \in QUEUE, p \in PCB : TakeOut(q, p)
    \/ Alloc
    \/ \E p \in PCB : Free(p)
    \/ \E q \in QUEUE, p \in PCB : Enqueue(q, p)
    \/ \E q \in QUEUE : Dequeue(q)

Spec == Init /\ [][Next]_<<free, queue>>
=============================================================================
