----------------------------- MODULE ProcForest -----------------------------
(***************************************************************************)
(* What pcb.c promises of the process tree: every pcb has an ordered list  *)
(* of children; a child enters at the front, and leaves from the front or, *)
(* by name, from anywhere.                                                 *)
(***************************************************************************)
EXTENDS Naturals, SequencesExt

CONSTANT PCB

VARIABLE children

IsChild(p) == \E q \in PCB : Contains(children[q], p)

Init == children = [p \in PCB |-> <<>>]

\* The nucleus makes a child of a pcb that was just allocated.
Adopt(prnt, p) ==
    /\ p # prnt /\ ~IsChild(p) /\ children[p] = <<>>
    /\ children' = [children EXCEPT ![prnt] = <<p>> \o @]

DropFirst(prnt) ==
    /\ children[prnt] # <<>>
    /\ children' = [children EXCEPT ![prnt] = Tail(@)]

Leave(p) == children' = [q \in PCB |-> RemoveFirst(children[q], p)]

Next ==
    \/ \E p \in PCB : Leave(p)
    \/ \E prnt, p \in PCB : Adopt(prnt, p)
    \/ \E prnt \in PCB : DropFirst(prnt)

Spec == Init /\ [][Next]_children
=============================================================================
