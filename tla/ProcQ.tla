------------------------------- MODULE ProcQ -------------------------------
(***************************************************************************)
(* The lists of pcb.c as they are in memory.  A process queue is circular  *)
(* and doubly linked through p_next and p_prev, and known by a pointer to  *)
(* its tail; the free list is singly linked through the same p_next.       *)
(***************************************************************************)
EXTENDS Naturals, FiniteSets, SequencesExt, Pointers, Pcbs

CONSTANT QUEUE

VARIABLES
    pcbFree_h,       \* head of the free list
    p_next, p_prev,
    tp,              \* tail pointer of each queue
    held             \* the pcbs a caller owns, in no list

listVars == <<pcbFree_h, p_next, p_prev, tp, held>>

Pointer == PCB \cup {NULL}

ListsTypeOK ==
    /\ pcbFree_h \in Pointer
    /\ p_next \in [PCB -> Pointer]
    /\ p_prev \in [PCB -> Pointer]
    /\ tp \in [QUEUE -> Pointer]
    /\ held \subseteq PCB

-----------------------------------------------------------------------------
(* Walking the lists                                                       *)

MAXPROC == Cardinality(PCB)

\* The pcbs met from start along p_next, up to and with the first that is last.
Walk(start, last) ==
    Chain([p \in PCB |-> IF p = last THEN NULL ELSE p_next[p]], start, NULL, MAXPROC)

FreeList == Walk(pcbFree_h, NULL)

headProcQ(q) == IF tp[q] = NULL THEN NULL ELSE p_next[tp[q]]

ProcQueue(q) == Walk(headProcQ(q), tp[q])

-----------------------------------------------------------------------------

allocPcb ==
    /\ pcbFree_h # NULL
    /\ pcbFree_h' = p_next[pcbFree_h]
    /\ p_next' = [p_next EXCEPT ![pcbFree_h] = NULL]
    /\ p_prev' = [p_prev EXCEPT ![pcbFree_h] = NULL]
    /\ held' = held \cup {pcbFree_h}
    /\ UNCHANGED tp

freePcb(p) ==
    /\ p \in held
    /\ p_next' = [p_next EXCEPT ![p] = pcbFree_h]
    /\ p_prev' = IF pcbFree_h = NULL
                 THEN [p_prev EXCEPT ![p] = NULL]
                 ELSE [p_prev EXCEPT ![p] = NULL, ![pcbFree_h] = p]
    /\ pcbFree_h' = p
    /\ held' = held \ {p}
    /\ UNCHANGED tp

\* The back links of the new tail p and of the head.
linkBack_NotHead(q, p) == [p_prev EXCEPT ![p] = tp[q]]
linkBack(q, p) == [p_prev EXCEPT ![p] = tp[q], ![headProcQ(q)] = p]

tailAfterInsert_First(q, p) == IF tp[q] = NULL THEN p ELSE tp[q]
tailAfterInsert(q, p) == p

insertProcQ(q, p) ==
    /\ p \in held
    /\ IF tp[q] = NULL
       THEN /\ p_next' = [p_next EXCEPT ![p] = p]
            /\ p_prev' = [p_prev EXCEPT ![p] = p]
       ELSE /\ p_next' = [p_next EXCEPT ![tp[q]] = p, ![p] = headProcQ(q)]
            /\ p_prev' = linkBack(q, p)
    /\ tp' = [tp EXCEPT ![q] = tailAfterInsert(q, p)]
    /\ held' = held \ {p}
    /\ UNCHANGED pcbFree_h

removeProcQ(q) ==
    /\ tp[q] # NULL
    /\ LET head == headProcQ(q)
       IN /\ IF head = tp[q]
             THEN /\ tp' = [tp EXCEPT ![q] = NULL]
                  /\ p_next' = [p_next EXCEPT ![head] = NULL]
                  /\ p_prev' = [p_prev EXCEPT ![head] = NULL]
             ELSE /\ p_next' = [p_next EXCEPT ![tp[q]] = p_next[head], ![head] = NULL]
                  /\ p_prev' = [p_prev EXCEPT ![p_next[head]] = tp[q], ![head] = NULL]
                  /\ UNCHANGED tp
          /\ held' = held \cup {head}
    /\ UNCHANGED pcbFree_h

tailAfterOut_Dangling(q, p) == tp[q]
tailAfterOut(q, p) == IF tp[q] = p THEN p_prev[p] ELSE tp[q]

\* Any pcb may be asked for; nothing happens if it is not in this queue.
outProcQ(q, p) ==
    /\ IF ~Contains(ProcQueue(q), p)
       THEN UNCHANGED <<p_next, p_prev, tp, held>>
       ELSE /\ IF p_next[p] = p
               THEN /\ tp' = [tp EXCEPT ![q] = NULL]
                    /\ p_next' = [p_next EXCEPT ![p] = NULL]
                    /\ p_prev' = [p_prev EXCEPT ![p] = NULL]
               ELSE /\ p_next' = [p_next EXCEPT ![p_prev[p]] = p_next[p], ![p] = NULL]
                    /\ p_prev' = [p_prev EXCEPT ![p_next[p]] = p_prev[p], ![p] = NULL]
                    /\ tp' = [tp EXCEPT ![q] = tailAfterOut(q, p)]
            /\ held' = held \cup {p}
    /\ UNCHANGED pcbFree_h

-----------------------------------------------------------------------------

\* initPcbs pushes the entries of pcbFreeTable one by one.
ListsInit ==
    LET order == SetToSeq(PCB)
        place(p) == CHOOSE i \in DOMAIN order : order[i] = p
    IN /\ pcbFree_h = order[1]
       /\ p_next = [p \in PCB |-> IF place(p) = MAXPROC THEN NULL ELSE order[place(p) + 1]]
       /\ p_prev = [p \in PCB |-> IF place(p) = 1 THEN NULL ELSE order[place(p) - 1]]
       /\ tp = [q \in QUEUE |-> NULL]
       /\ held = {}

ListsNext ==
    \/ allocPcb
    \/ \E p \in PCB : freePcb(p)
    \/ \E q \in QUEUE, p \in PCB : insertProcQ(q, p)
    \/ \E q \in QUEUE : removeProcQ(q)
    \/ \E q \in QUEUE, p \in PCB : outProcQ(q, p)

ListsSpec == ListsInit /\ [][ListsNext]_listVars

-----------------------------------------------------------------------------

\* Every pcb is in one list and no more: the free list, one queue, or with a
\* caller.  The lists share p_next, so a pcb in two of them would splice them
\* together (pcb.c:127, 182-191).
OneListEach ==
    /\ ListsTypeOK
    /\ \A p \in PCB :
         LET queues == {q \in QUEUE : Contains(ProcQueue(q), p)}
         IN Cardinality(queues) = IF p \in held \/ Contains(FreeList, p) THEN 0 ELSE 1
    /\ ToSet(FreeList) \cap held = {}

\* Inside a queue p_prev is the inverse of p_next; outProcQ takes a pcb out of
\* the middle through its p_prev (pcb.c:265-266).
DoublyLinked ==
    \A q \in QUEUE : \A i \in DOMAIN ProcQueue(q) :
        LET p == ProcQueue(q)[i] IN p_prev[p_next[p]] = p

Abstract == INSTANCE PcbLists WITH
    free <- FreeList, queue <- [q \in QUEUE |-> ProcQueue(q)]

\* The pointer manipulations implement a LIFO free list and FIFO queues.
ImplementsPcbLists == Abstract!Spec
=============================================================================
