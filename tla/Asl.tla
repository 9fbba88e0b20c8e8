-------------------------------- MODULE Asl --------------------------------
(***************************************************************************)
(* The active semaphore list of asl.c as it is in memory: descriptors      *)
(* linked through s_next in the order of the semaphores' addresses,        *)
(* between two dummies, and a free list of descriptors linked the same     *)
(* way.  The process queues of the descriptors are sequences (ProcQ shows  *)
(* that pcb.c implements them).                                            *)
(***************************************************************************)
EXTENDS Naturals, FiniteSets, SequencesExt, Pointers, Pcbs

CONSTANTS
    ADDRESS,  \* addresses of semaphores
    MAXINT    \* key of the dummy tail

ASSUME AddressAssumption ==
    ADDRESS \subseteq Nat \ {0, MAXINT} /\ MAXINT \in Nat \ {0} /\ NULL \notin Nat \ {0}

MAXSEMDS_OneDummy == Cardinality(PCB) + 1
MAXSEMDS == Cardinality(PCB) + 2

SEMD == 1 .. MAXSEMDS   \* the entries of semdTable

VARIABLES
    semd_h, semdFree_h,          \* heads of the two lists
    s_next, s_semAdd, s_procQ,   \* fields of the descriptors
    p_semAdd                     \* field of the pcbs

vars == <<semd_h, semdFree_h, s_next, s_semAdd, s_procQ, p_semAdd>>

TypeOK ==
    /\ semd_h \in SEMD
    /\ semdFree_h \in SEMD \cup {NULL}
    /\ s_next \in [SEMD -> SEMD \cup {NULL}]
    /\ s_semAdd \in [SEMD -> ADDRESS \cup {0, MAXINT}]
    /\ s_procQ \in [SEMD -> Seq(PCB)]
    /\ p_semAdd \in [PCB -> ADDRESS \cup {NULL}]

\* The descriptors of the list that starts at start.
List(start) == Chain(s_next, start, NULL, MAXSEMDS)

-----------------------------------------------------------------------------

\* Where getSemd's search may stop.
NotLess_Strict(list, semAdd) == {i \in DOMAIN list : s_semAdd[list[i]] > semAdd}
NotLess(list, semAdd) == {i \in DOMAIN list : s_semAdd[list[i]] >= semAdd}

\* The first descriptor of the list whose key is not less than semAdd, and the
\* one before it; NULL where there is none.
getSemd(semAdd) ==
    LET list == List(semd_h)
        notLess == NotLess(list, semAdd)
        at(i) == IF i \in DOMAIN list THEN list[i] ELSE NULL
        i == IF notLess = {} THEN Len(list) + 1 ELSE Min(notLess)
    IN [curr |-> at(i), prev |-> at(i - 1)]

Found(semAdd) ==
    LET curr == getSemd(semAdd).curr
    IN curr # NULL /\ s_semAdd[curr] = semAdd

\* Descriptor d, which next no longer leads to, is put at the head of the free list.
freeSemd(next, d) ==
    /\ s_next' = [next EXCEPT ![d] = semdFree_h]
    /\ semdFree_h' = d

\* The head of the free list; NULL if it is empty.
allocSemd == semdFree_h

\* The queue of a descriptor becomes q; with an empty queue the descriptor
\* leaves the list.
Shrink(found, q) ==
    /\ s_procQ' = [s_procQ EXCEPT ![found.curr] = q]
    /\ IF q = <<>>
       THEN freeSemd([s_next EXCEPT ![found.prev] = s_next[found.curr]], found.curr)
       ELSE UNCHANGED <<s_next, semdFree_h>>
    /\ UNCHANGED <<semd_h, s_semAdd>>

\* insertProcQ, on a queue that is a sequence.
enqueue_AtHead(q, p) == <<p>> \o q
enqueue(q, p) == Append(q, p)

\* The caller gives a pcb that is in no queue.  With no descriptor left the
\* code returns TRUE and leaves everything as it was.
insertBlocked(semAdd, p) ==
    LET found == getSemd(semAdd)
        newSemd == allocSemd
    IN /\ \A d \in SEMD : ~Contains(s_procQ[d], p)
       /\ IF Found(semAdd)
          THEN /\ s_procQ' = [s_procQ EXCEPT ![found.curr] = enqueue(@, p)]
               /\ p_semAdd' = [p_semAdd EXCEPT ![p] = semAdd]
               /\ UNCHANGED <<semd_h, semdFree_h, s_next, s_semAdd>>
          ELSE IF newSemd = NULL
          THEN UNCHANGED vars
          ELSE /\ semdFree_h' = s_next[newSemd]
               /\ s_semAdd' = [s_semAdd EXCEPT ![newSemd] = semAdd]
               /\ s_procQ' = [s_procQ EXCEPT ![newSemd] = <<p>>]
               /\ s_next' = [s_next EXCEPT ![newSemd] = found.curr,
                                           ![found.prev] = newSemd]
               /\ p_semAdd' = [p_semAdd EXCEPT ![p] = semAdd]
               /\ UNCHANGED semd_h

removeBlocked(semAdd) ==
    LET found == getSemd(semAdd)
    IN /\ Found(semAdd)
       /\ p_semAdd' = [p_semAdd EXCEPT ![Head(s_procQ[found.curr])] = NULL]
       /\ Shrink(found, Tail(s_procQ[found.curr]))

\* p_semAdd stays as it is, and a second call finds nothing to take out.
outBlocked(p) ==
    /\ p_semAdd[p] # NULL
    /\ LET found == getSemd(p_semAdd[p])
       IN \/ /\ Found(p_semAdd[p]) /\ Contains(s_procQ[found.curr], p)
             /\ Shrink(found, RemoveFirst(s_procQ[found.curr], p))
             /\ UNCHANGED p_semAdd
          \/ /\ ~(Found(p_semAdd[p]) /\ Contains(s_procQ[found.curr], p))
             /\ UNCHANGED vars

\* A pcb that is not blocked is freed and allocated again: allocPcb clears p_semAdd.
clearSemAdd(p) ==
    /\ \A d \in SEMD : ~Contains(s_procQ[d], p)
    /\ p_semAdd' = [p_semAdd EXCEPT ![p] = NULL]
    /\ UNCHANGED <<semd_h, semdFree_h, s_next, s_semAdd, s_procQ>>

-----------------------------------------------------------------------------

\* freeSemd has pushed the entries one by one, allocSemd has given the last
\* two to the dummies.
initASL ==
    /\ semd_h = MAXSEMDS
    /\ semdFree_h = IF MAXSEMDS = 2 THEN NULL ELSE MAXSEMDS - 2
    /\ s_next = [d \in SEMD |->
                   CASE d = MAXSEMDS -> MAXSEMDS - 1
                     [] d = MAXSEMDS - 1 -> NULL
                     [] OTHER -> IF d = 1 THEN NULL ELSE d - 1]
    /\ s_semAdd = [d \in SEMD |-> IF d = MAXSEMDS - 1 THEN MAXINT ELSE 0]
    /\ s_procQ = [d \in SEMD |-> <<>>]

Init == initASL /\ p_semAdd = [p \in PCB |-> NULL]

Next ==
    \/ \E s \in ADDRESS, p \in PCB : insertBlocked(s, p)
    \/ \E s \in ADDRESS : removeBlocked(s)
    \/ \E p \in PCB : outBlocked(p)
    \/ \E p \in PCB : clearSemAdd(p)

Spec == Init /\ [][Next]_vars

-----------------------------------------------------------------------------

\* The list stays strictly sorted by key, which getSemd relies on to stop early
\* (asl.c:160), and every descriptor is in it or in the free list, not in both.
SortedAndWhole ==
    LET list == List(semd_h)
        free == List(semdFree_h)
    IN /\ TypeOK
       /\ \A i, j \in DOMAIN list : i < j => s_semAdd[list[i]] < s_semAdd[list[j]]
       /\ ToSet(list) \cup ToSet(free) = SEMD
       /\ ToSet(list) \cap ToSet(free) = {}

\* A descriptor in the list other than the dummies has someone waiting, and
\* getSemd finds it; so the MAXPROC descriptors cannot run out while a process
\* is left to block.  The nucleus ignores insertBlocked's result
\* (exceptions.c:187).
DescriptorForEveryone ==
    /\ \A d \in ToSet(List(semd_h)) : s_semAdd[d] \in ADDRESS => s_procQ[d] # <<>>
    /\ \A d \in SEMD : s_procQ[d] # <<>> => getSemd(s_semAdd[d]).curr = d
    /\ (\E p \in PCB : \A d \in SEMD : ~Contains(s_procQ[d], p)) => semdFree_h # NULL

\* The queue of the descriptor that has pcbs waiting for semAdd, if there is one.
Waiting(semAdd) ==
    LET ds == {d \in SEMD : s_semAdd[d] = semAdd /\ s_procQ[d] # <<>>}
    IN IF ds = {} THEN <<>> ELSE s_procQ[CHOOSE d \in ds : TRUE]

Queues == INSTANCE SemQueues WITH blocked <- [s \in ADDRESS |-> Waiting(s)]

\* The list implements one FIFO queue per semaphore.
ImplementsSemQueues == Queues!Spec
=============================================================================
