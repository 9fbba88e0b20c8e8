------------------------------ MODULE ProcTree ------------------------------
(***************************************************************************)
(* The process tree of pcb.c as it is in memory: a parent points to its    *)
(* first child, and siblings to each other through p_lSib and p_rSib.      *)
(***************************************************************************)
EXTENDS Naturals, FiniteSets, SequencesExt, Pointers, Pcbs

VARIABLES p_prnt, p_child, p_lSib, p_rSib

treeVars == <<p_prnt, p_child, p_lSib, p_rSib>>

Pointers == [PCB -> PCB \cup {NULL}]

TreeTypeOK ==
    p_prnt \in Pointers /\ p_child \in Pointers /\ p_lSib \in Pointers /\ p_rSib \in Pointers

emptyChild(p) == p_child[p] = NULL

-----------------------------------------------------------------------------

\* What insertChild makes the right sibling of prnt's new child.
rightOfNew_None(prnt) == NULL
rightOfNew(prnt) == p_child[prnt]

\* The left siblings after p became the first child of prnt.
leftLinks_NewOnly(prnt, p) == [p_lSib EXCEPT ![p] = NULL]
leftLinks(prnt, p) ==
    IF emptyChild(prnt) THEN [p_lSib EXCEPT ![p] = NULL]
                        ELSE [p_lSib EXCEPT ![p] = NULL, ![p_child[prnt]] = p]

\* The pcb made a child was just allocated: it has no parent and no children.
insertChild(prnt, p) ==
    /\ p # prnt /\ p_prnt[p] = NULL /\ emptyChild(p)
    /\ p_prnt' = [p_prnt EXCEPT ![p] = prnt]
    /\ p_rSib' = [p_rSib EXCEPT ![p] = rightOfNew(prnt)]
    /\ p_lSib' = leftLinks(prnt, p)
    /\ p_child' = [p_child EXCEPT ![prnt] = p]

\* p loses its links upwards and to the left.
Detach_KeepsParent(p) == p_lSib' = [p_lSib EXCEPT ![p] = NULL] /\ UNCHANGED p_prnt
Detach(p) ==
    /\ p_prnt' = [p_prnt EXCEPT ![p] = NULL]
    /\ p_lSib' = [p_lSib EXCEPT ![p] = NULL]

\* The new first child keeps its p_lSib.
removeChild(prnt) ==
    /\ ~emptyChild(prnt)
    /\ LET child == p_child[prnt]
       IN /\ p_child' = [p_child EXCEPT ![prnt] = p_rSib[child]]
          /\ p_rSib' = [p_rSib EXCEPT ![child] = NULL]
          /\ Detach(child)

\* The children of prnt, in the order the code meets them.
Children(prnt) == Chain(p_rSib, p_child[prnt], NULL, Cardinality(PCB))

\* The children of p's parent whose right sibling is p: what outChild looks for.
LeftOf(p) == {c \in ToSet(Children(p_prnt[p])) : p_rSib[c] = p}

outChild(p) ==
    LET prnt == p_prnt[p]
    IN \/ /\ \/ prnt = NULL
             \/ prnt # NULL /\ p_child[prnt] # p /\ LeftOf(p) = {}
          /\ UNCHANGED treeVars
       \/ prnt # NULL /\ p_child[prnt] = p /\ removeChild(prnt)
       \/ /\ prnt # NULL /\ p_child[prnt] # p
          /\ \E cur \in LeftOf(p) :
               /\ p_rSib' = [p_rSib EXCEPT ![cur] = p_rSib[p], ![p] = NULL]
               /\ p_lSib' = [c \in PCB |-> CASE c = p -> NULL
                                             [] c = p_rSib[p] -> cur
                                             [] OTHER -> p_lSib[c]]
               /\ p_prnt' = [p_prnt EXCEPT ![p] = NULL]
          /\ UNCHANGED p_child

-----------------------------------------------------------------------------

\* allocPcb has cleared the links of every pcb in use.
TreeInit ==
    LET none == [p \in PCB |-> NULL]
    IN p_prnt = none /\ p_child = none /\ p_lSib = none /\ p_rSib = none

TreeNext ==
    \/ \E prnt, p \in PCB : insertChild(prnt, p)
    \/ \E prnt \in PCB : removeChild(prnt)
    \/ \E p \in PCB : outChild(p)

TreeSpec == TreeInit /\ [][TreeNext]_treeVars

-----------------------------------------------------------------------------

\* A pcb is in the child list of its p_prnt and in no other, once: outChild
\* starts from p_prnt and gives up if the search fails (pcb.c:399-420).
ParentHasChild ==
    /\ TreeTypeOK
    /\ \A p, q \in PCB :
         Cardinality({i \in DOMAIN Children(q) : Children(q)[i] = p})
             = IF p_prnt[p] = q THEN 1 ELSE 0

\* Whoever has a right sibling is that sibling's left one.  removeChild leaves a
\* stale p_lSib in the new first child (pcb.c:372), and only in it: insertChild
\* overwrites it before the child has a left sibling again (pcb.c:349), and
\* outChild keeps the links on both sides of the gap (pcb.c:410-413).
LeftOfRight == \A p \in PCB : p_rSib[p] # NULL => p_lSib[p_rSib[p]] = p

Forest == INSTANCE ProcForest WITH children <- [p \in PCB |-> Children(p)]

\* The sibling pointers implement ordered lists of children.
ImplementsForest == Forest!Spec
=============================================================================
