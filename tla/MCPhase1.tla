------------------------------ MODULE MCPhase1 ------------------------------
(***************************************************************************)
(* The three data structures of phase 1.  They share no field of a pcb     *)
(* (p_next and p_prev; p_prnt, p_child and the siblings; p_semAdd), so     *)
(* each is explored by itself while the others stay as initialised.        *)
(***************************************************************************)
EXTENDS ProcQ, ProcTree, Asl

CONSTANT BLOCKING   \* the pcbs that are ever blocked on a semaphore

VARIABLE part   \* the structure that is explored

Phase1Init ==
    /\ ListsInit /\ TreeInit /\ Init
    /\ part \in {"queues", "tree", "semaphores"}

Phase1Next ==
    /\ \/ part = "queues" /\ ListsNext /\ UNCHANGED <<vars, treeVars>>
       \/ part = "tree" /\ TreeNext /\ UNCHANGED <<vars, listVars>>
       \/ /\ part = "semaphores" /\ Next /\ UNCHANGED <<listVars, treeVars>>
          /\ \A p \in PCB \ BLOCKING : p_semAdd'[p] = NULL
    /\ UNCHANGED part

Phase1Spec == Phase1Init /\ [][Phase1Next]_<<vars, listVars, treeVars, part>>
=============================================================================
