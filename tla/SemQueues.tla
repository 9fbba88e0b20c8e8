----------------------------- MODULE SemQueues -----------------------------
(***************************************************************************)
(* What asl.c promises: one FIFO queue of blocked pcbs per semaphore,      *)
(* however many semaphores there are, and in each pcb the address of the   *)
(* semaphore it is blocked on.                                             *)
(***************************************************************************)
EXTENDS Naturals, SequencesExt

CONSTANTS PCB, ADDRESS, NULL

VARIABLES blocked, p_semAdd

IsBlocked(p) == \E s \in ADDRESS : Contains(blocked[s], p)

Init ==
    /\ blocked = [s \in ADDRESS |-> <<>>]
    /\ p_semAdd = [p \in PCB |-> NULL]

Block(s, p) ==
    /\ ~IsBlocked(p)
    /\ blocked' = [blocked EXCEPT ![s] = Append(@, p)]
    /\ p_semAdd' = [p_semAdd EXCEPT ![p] = s]

Wake(s) ==
    /\ blocked[s] # <<>>
    /\ blocked' = [blocked EXCEPT ![s] = Tail(@)]
    /\ p_semAdd' = [p_semAdd EXCEPT ![Head(blocked[s])] = NULL]

TakeOut(p) ==
    /\ p_semAdd[p] # NULL
    /\ blocked' = [blocked EXCEPT ![p_semAdd[p]] = RemoveFirst(@, p)]
    /\ UNCHANGED p_semAdd

Recycle(p) ==
    /\ ~IsBlocked(p)
    /\ p_semAdd' = [p_semAdd EXCEPT ![p] = NULL]
    /\ UNCHANGED blocked

Next ==
    \/ \E s \in ADDRESS, p \in PCB : Block(s, p)
    \/ \E s \in ADDRESS : Wake(s)
    \/ \E p \in PCB : TakeOut(p)
    \/ \E p \in PCB : Recycle(p)

Spec == Init /\ [][Next]_<<blocked, p_semAdd>>
=============================================================================
