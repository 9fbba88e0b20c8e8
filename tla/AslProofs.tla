----------------------------- MODULE AslProofs -----------------------------
(***************************************************************************)
(* The descriptors of asl.c are on two lists: which ones, in which order,  *)
(* and what each operation does to them.                                   *)
(***************************************************************************)
EXTENDS Asl, QueueLemmas

\* There are finitely many pcbs; NULL is neither a descriptor nor the address of a
\* semaphore (asl.c:38, semdTable).
SemdsSound == IsFiniteSet(PCB) /\ NULL \notin SEMD /\ NULL \notin ADDRESS

\* That follows from what is assumed of the pcbs and the addresses (asl.c:38,
\* semdTable).
LEMMA Sound == SemdsSound
<1>1. Cardinality(PCB) \in Nat
  BY PcbAssumption, FS_CardinalityType
<1>2. SEMD \subseteq Nat \ {0}
  BY <1>1 DEF SEMD, MAXSEMDS
<1> QED
  BY <1>2, PcbAssumption, AddressAssumption DEF SemdsSound

\* The pointers lead through list, in ascending order of the keys from the dummy
\* head on, and through free; every descriptor is in one of the two.
Filed(list, free) ==
    /\ list \in Seq(SEMD) /\ IsInjective(list) /\ Leads(s_next, NULL, semd_h, list)
    /\ free \in Seq(SEMD) /\ IsInjective(free) /\ Leads(s_next, NULL, semdFree_h, free)
    /\ ToSet(list) \cup ToSet(free) = SEMD
    /\ ToSet(list) \cap ToSet(free) = {}
    /\ \A i, j \in 1 .. Len(list) : i < j => s_semAdd[list[i]] < s_semAdd[list[j]]
    /\ list # <<>> /\ s_semAdd[list[1]] = 0

\* The descriptors with a queue are those in the list other than the dummies, and
\* no pcb is in two queues.
Queued(list) ==
    /\ \A d \in SEMD : s_procQ[d] # <<>> <=> d \in ToSet(list) /\ s_semAdd[d] \in ADDRESS
    /\ \A d \in SEMD : IsInjective(s_procQ[d])
    /\ \A d, e \in SEMD : d # e => ToSet(s_procQ[d]) \cap ToSet(s_procQ[e]) = {}

Inv == SemdsSound /\ TypeOK /\ \E list, free : Filed(list, free) /\ Queued(list)
-----------------------------------------------------------------------------

\* Keys are natural numbers, and the dummies' are not addresses.
LEMMA Keys ==
    TypeOK => /\ \A d \in SEMD : s_semAdd[d] \in Nat
              /\ \A a \in ADDRESS : a \in Nat /\ a > 0 /\ a # MAXINT
              /\ MAXINT \in Nat /\ MAXINT > 0
<1>1. /\ \A a \in ADDRESS : a \in Nat /\ a > 0 /\ a # MAXINT
      /\ MAXINT \in Nat /\ MAXINT > 0
  BY AddressAssumption
<1>2. TypeOK => \A d \in SEMD : s_semAdd[d] \in Nat
  BY <1>1 DEF TypeOK
<1> QED
  BY <1>1, <1>2

\* The number of descriptors.
LEMMA Table ==
    ASSUME SemdsSound
    PROVE  /\ Cardinality(PCB) \in Nat /\ MAXSEMDS \in Nat /\ MAXSEMDS >= 2
           /\ IsFiniteSet(SEMD) /\ Cardinality(SEMD) = MAXSEMDS
<1>1. Cardinality(PCB) \in Nat
  BY FS_CardinalityType DEF SemdsSound
<1>2. MAXSEMDS \in Nat /\ MAXSEMDS >= 2
  BY <1>1 DEF MAXSEMDS
<1>3. IsFiniteSet(1 .. MAXSEMDS) /\ Cardinality(1 .. MAXSEMDS) = MAXSEMDS
  BY <1>2, FS_Interval
<1> QED
  BY <1>1, <1>2, <1>3 DEF SEMD

\* What the pointers lead through is what is read from memory.
LEMMA Read ==
    ASSUME SemdsSound, NEW list, NEW free, Filed(list, free)
    PROVE  List(semd_h) = list /\ List(semdFree_h) = free
<1>1. Len(list) <= MAXSEMDS /\ Len(free) <= MAXSEMDS /\ MAXSEMDS \in Nat
  BY Table, QueueFits DEF Filed
<1>2. NULL \notin SEMD
  BY DEF SemdsSound
<1> QED
  BY <1>1, <1>2, LeadsRead DEF Filed, List

\* Where getSemd stops: the keys before that place are less than the one it looks
\* for, and the others are not.
Stop(list, a, k) ==
    /\ getSemd(a) = [curr |-> IF k = Len(list) + 1 THEN NULL ELSE list[k], prev |-> list[k - 1]]
    /\ \A i \in 1 .. k - 1 : s_semAdd[list[i]] < a
    /\ \A i \in k .. Len(list) : s_semAdd[list[i]] >= a
    /\ Found(a) <=> k # Len(list) + 1 /\ s_semAdd[list[k]] = a

\* getSemd stops behind the dummy head.
LEMMA Search ==
    ASSUME SemdsSound, TypeOK, NEW list, NEW free, Filed(list, free), NEW a \in ADDRESS
    PROVE  \E k \in 2 .. Len(list) + 1 : Stop(list, a, k)
<1> DEFINE notLess == {i \in 1 .. Len(list) : s_semAdd[list[i]] >= a}
           k == IF notLess = {} THEN Len(list) + 1 ELSE Min(notLess)
<1>1. List(semd_h) = list /\ list \in Seq(SEMD) /\ DOMAIN list = 1 .. Len(list) /\ Len(list) \in Nat
  BY Read DEF Filed
<1>2. /\ a \in Nat /\ a > 0
      /\ \A i \in 1 .. Len(list) : list[i] \in SEMD /\ s_semAdd[list[i]] \in Nat
  BY <1>1, Keys
<1>3. 1 \in 1 .. Len(list) /\ s_semAdd[list[1]] = 0
  BY <1>1, NoMember DEF Filed
<1>4. NotLess(List(semd_h), a) = notLess
  BY <1>1 DEF NotLess
<1>5. /\ k \in 1 .. Len(list) + 1
      /\ \A i \in 1 .. Len(list) : i < k => i \notin notLess
      /\ k # Len(list) + 1 => k \in notLess
  <2>1. CASE notLess = {}
    BY <1>1, <2>1
  <2>2. CASE notLess # {}
    <3>1. notLess \in SUBSET Nat
      OBVIOUS
    <3>2. Min(notLess) \in notLess /\ \A y \in notLess : Min(notLess) <= y
      BY <2>2, <3>1, Smallest
    <3> HIDE DEF notLess
    <3>3. k = Min(notLess)
      BY <2>2
    <3>4. k \in notLess /\ k \in 1 .. Len(list)
      BY <3>2, <3>3 DEF notLess
    <3> QED
      BY <1>1, <3>1, <3>2, <3>3, <3>4
  <2> QED
    BY <2>1, <2>2
<1>6. getSemd(a) = [curr |-> IF k \in DOMAIN list THEN list[k] ELSE NULL,
                    prev |-> IF k - 1 \in DOMAIN list THEN list[k - 1] ELSE NULL]
  BY <1>1, <1>4 DEF getSemd
<1> HIDE DEF k
<1>7. k # 1
  BY <1>1, <1>2, <1>3, <1>5
<1>8. k \in 2 .. Len(list) + 1 /\ k - 1 \in 1 .. Len(list) /\ (k \in 1 .. Len(list) <=> k # Len(list) + 1)
  BY <1>1, <1>5, <1>7
<1>9. getSemd(a) = [curr |-> IF k = Len(list) + 1 THEN NULL ELSE list[k], prev |-> list[k - 1]]
  BY <1>1, <1>6, <1>8
<1>10. \A i \in 1 .. k - 1 : s_semAdd[list[i]] < a
  BY <1>1, <1>2, <1>5, <1>8
<1>11. \A i \in k .. Len(list) : s_semAdd[list[i]] >= a
  <2> SUFFICES ASSUME NEW i \in k .. Len(list)
               PROVE  s_semAdd[list[i]] >= a
    OBVIOUS
  <2>1. k \in 1 .. Len(list) /\ i \in 1 .. Len(list) /\ s_semAdd[list[k]] >= a
    BY <1>1, <1>5, <1>8
  <2>2. i = k \/ k < i
    BY <1>8
  <2>3. k < i => s_semAdd[list[k]] < s_semAdd[list[i]]
    BY <2>1 DEF Filed
  <2> QED
    BY <1>2, <2>1, <2>2, <2>3
<1>12. Found(a) <=> k # Len(list) + 1 /\ s_semAdd[list[k]] = a
  <2>1. getSemd(a).curr = IF k = Len(list) + 1 THEN NULL ELSE list[k]
    BY <1>9
  <2>2. k # Len(list) + 1 => list[k] # NULL
    BY <1>2, <1>8 DEF SemdsSound
  <2> QED
    BY <2>1, <2>2 DEF Found
<1> QED
  BY <1>8, <1>9, <1>10, <1>11, <1>12 DEF Stop

-----------------------------------------------------------------------------
(* The three ways a step changes the lists and the queues.                  *)

\* Descriptor d, which nobody else has the key of, stands for a and has the queue q.
Change(a, d, q) ==
    /\ s_procQ' = [s_procQ EXCEPT ![d] = q]
    /\ s_semAdd' = [s_semAdd EXCEPT ![d] = a]
    /\ s_procQ[d] = <<>> \/ s_semAdd[d] = a
    /\ \A e \in SEMD : e # d /\ s_procQ[e] # <<>> => s_semAdd[e] # a

\* Two descriptors in the list have different keys.
LEMMA KeysDiffer ==
    ASSUME TypeOK, NEW list, NEW free, Filed(list, free),
           NEW d \in ToSet(list), NEW e \in ToSet(list), s_semAdd[d] = s_semAdd[e]
    PROVE  d = e
<1>1. PICK i \in 1 .. Len(list) : list[i] = d
  BY InQueue DEF Filed
<1>2. PICK j \in 1 .. Len(list) : list[j] = e
  BY InQueue DEF Filed
<1>3. ~(i < j) /\ ~(j < i)
  <2>1. d \in SEMD /\ e \in SEMD
    BY MembersTyped DEF Filed
  <2>2. s_semAdd[d] \in Nat /\ s_semAdd[e] \in Nat
    BY <2>1, Keys
  <2> QED
    BY <1>1, <1>2, <2>2 DEF Filed
<1>4. i = j
  BY <1>3
<1> QED
  BY <1>1, <1>2, <1>4

\* insertBlocked, removeBlocked or outBlocked changes a queue that is and stays
\* somebody's.
LEMMA Requeue ==
    ASSUME TypeOK, NEW list, NEW free, Filed(list, free), Queued(list),
           NEW d \in ToSet(list), s_semAdd[d] \in ADDRESS,
           NEW q \in Seq(PCB), q # <<>>, IsInjective(q),
           \A e \in SEMD : e # d => ToSet(q) \cap ToSet(s_procQ[e]) = {},
           s_procQ' = [s_procQ EXCEPT ![d] = q],
           UNCHANGED <<semd_h, semdFree_h, s_next, s_semAdd>>
    PROVE  Filed(list, free)' /\ Queued(list)' /\ Change(s_semAdd[d], d, q)
<1>1. d \in SEMD
  BY MembersTyped DEF Filed
<1>2. s_procQ'[d] = q /\ \A e \in SEMD : e # d => s_procQ'[e] = s_procQ[e]
  BY <1>1 DEF TypeOK
<1>3. Filed(list, free)'
  BY DEF Filed
<1>4. Queued(list)'
  <2>1. \A e \in SEMD : s_procQ'[e] # <<>> <=> e \in ToSet(list) /\ s_semAdd'[e] \in ADDRESS
    BY <1>2 DEF Queued
  <2>2. \A e \in SEMD : IsInjective(s_procQ'[e])
    BY <1>2 DEF Queued
  <2>3. \A b, e \in SEMD : b # e => ToSet(s_procQ'[b]) \cap ToSet(s_procQ'[e]) = {}
    BY <1>2, Zenon DEF Queued
  <2> QED
    BY <2>1, <2>2, <2>3 DEF Queued
<1>5. Change(s_semAdd[d], d, q)
  <2>1. s_semAdd' = [s_semAdd EXCEPT ![d] = s_semAdd[d]]
    BY DEF TypeOK
  <2>2. \A e \in SEMD : e # d /\ s_procQ[e] # <<>> => s_semAdd[e] # s_semAdd[d]
    BY KeysDiffer DEF Queued
  <2> QED
    BY <2>1, <2>2 DEF Change
<1> QED
  BY <1>3, <1>4, <1>5

\* What insertBlocked does to the list with the free descriptor n.
Link(a, n, p) ==
    /\ semdFree_h' = s_next[n]
    /\ s_semAdd' = [s_semAdd EXCEPT ![n] = a]
    /\ s_procQ' = [s_procQ EXCEPT ![n] = <<p>>]
    /\ s_next' = [s_next EXCEPT ![n] = getSemd(a).curr, ![getSemd(a).prev] = n]
    /\ UNCHANGED semd_h

\* insertBlocked takes the first free descriptor and links it in where getSemd
\* stopped.
LEMMA FileNew ==
    ASSUME SemdsSound, TypeOK, NEW list, NEW free, Filed(list, free), Queued(list),
           NEW a \in ADDRESS, NEW k \in 2 .. Len(list) + 1, Stop(list, a, k), ~Found(a),
           NEW n, n = semdFree_h, n # NULL,
           NEW p \in PCB, \A d \in SEMD : p \notin ToSet(s_procQ[d]),
           Link(a, n, p)
    PROVE  /\ Filed(InsertAt(list, k, n), Tail(free))' /\ Queued(InsertAt(list, k, n))'
           /\ Change(a, n, <<p>>) /\ n \in SEMD
<1> DEFINE l == InsertAt(list, k, n)
           prev == list[k - 1]
<1>1. list \in Seq(SEMD) /\ IsInjective(list) /\ free \in Seq(SEMD) /\ IsInjective(free)
  BY DEF Filed
<1>2. Len(list) \in Nat /\ k \in Nat /\ k \in 1 .. Len(list) + 1 /\ k - 1 \in 1 .. Len(list) /\ k >= 2
  BY <1>1
<1>3. free # <<>> /\ n = Head(free) /\ Leads(s_next, NULL, s_next[n], Tail(free))
  BY LeadsTail DEF Filed, SemdsSound
<1>4. /\ n \in SEMD /\ n \in ToSet(free) /\ n \notin ToSet(list)
      /\ Tail(free) \in Seq(SEMD) /\ IsInjective(Tail(free)) /\ ToSet(Tail(free)) = ToSet(free) \ {n}
  BY <1>1, <1>3, TailQueue DEF Filed
<1>5. prev \in ToSet(list) /\ prev \in SEMD /\ prev # n
  BY <1>1, <1>2, <1>4, InQueue, MembersTyped
<1>6. getSemd(a).prev = prev /\ getSemd(a).curr = IF k = Len(list) + 1 THEN NULL ELSE list[k]
  BY DEF Stop
<1>7. s_next[prev] = getSemd(a).curr
  <2>1. \A i \in 1 .. Len(list) : s_next[list[i]] = IF i = Len(list) THEN NULL ELSE list[i + 1]
    BY DEF Filed, Leads
  <2>2. (k - 1) + 1 = k /\ (k - 1 = Len(list) <=> k = Len(list) + 1)
    BY <1>2
  <2> QED
    BY <1>2, <1>6, <2>1, <2>2
<1> HIDE DEF prev
<1>8. /\ s_next'[n] = s_next[prev] /\ s_next'[prev] = n
      /\ \A x \in SEMD : x # n /\ x # prev => s_next'[x] = s_next[x]
  BY <1>4, <1>5, <1>6, <1>7 DEF TypeOK, Link
<1>9. Leads(s_next', NULL, semd_h', l)
  <2>1. \A x \in ToSet(list) : s_next'[x] = IF x = list[k - 1] THEN n ELSE s_next[x]
    BY <1>1, <1>4, <1>8, MembersTyped DEF prev
  <2>2. s_next'[n] = s_next[list[k - 1]] /\ Leads(s_next, NULL, semd_h, list)
    BY <1>8 DEF prev, Filed
  <2>3. Leads(s_next', NULL, semd_h, InsertAt(list, k, n))
    BY <1>1, <1>4, <2>1, <2>2, LeadsInsert
  <2> QED
    BY <2>3 DEF Link
<1>10. Leads(s_next', NULL, semdFree_h', Tail(free))
  <2>1. \A x \in ToSet(Tail(free)) : s_next'[x] = s_next[x]
    BY <1>4, <1>5, <1>8, MembersTyped DEF Filed
  <2>2. Leads(s_next', NULL, s_next[n], Tail(free))
    BY <1>3, <1>4, <2>1, LeadsFrame
  <2> QED
    BY <2>2 DEF Link
<1>11. /\ l \in Seq(SEMD) /\ IsInjective(l) /\ ToSet(l) = ToSet(list) \cup {n}
       /\ Len(l) = Len(list) + 1
       /\ \A i \in 1 .. Len(list) + 1 : l[i] = IF i < k THEN list[i] ELSE IF i = k THEN n ELSE list[i - 1]
  <2>1. IsInjective(l) /\ ToSet(l) = ToSet(list) \cup {n}
    BY <1>1, <1>2, <1>4, InsertQueue
  <2>2. /\ l \in Seq(SEMD)
        /\ Len(l) = Len(list) + 1
        /\ \A i \in 1 .. Len(list) + 1 :
             l[i] = IF i < k THEN list[i] ELSE IF i = k THEN n ELSE list[i - 1]
    BY <1>1, <1>2, <1>4, InsertAtQueue, SMTT(30)
  <2> QED
    BY <2>1, <2>2
<1> HIDE DEF l
<1>12. s_semAdd'[n] = a /\ \A d \in SEMD : d # n => s_semAdd'[d] = s_semAdd[d]
  BY <1>4 DEF TypeOK, Link
<1>13. s_procQ'[n] = <<p>> /\ \A d \in SEMD : d # n => s_procQ'[d] = s_procQ[d]
  BY <1>4 DEF TypeOK, Link
<1>14. \A i \in 1 .. Len(list) : list[i] \in SEMD /\ list[i] # n /\ s_semAdd'[list[i]] = s_semAdd[list[i]]
                                 /\ s_semAdd[list[i]] \in Nat
  <2>1. \A i \in 1 .. Len(list) : list[i] \in SEMD /\ list[i] # n
    BY <1>1, <1>4, InQueue
  <2> QED
    BY <1>12, <2>1, Keys
<1>15. a \in Nat
  BY Keys
<1>16. /\ \A i \in 1 .. k - 1 : s_semAdd[list[i]] < a
       /\ \A i \in k .. Len(list) : s_semAdd[list[i]] > a
  <2>1. \A i \in 1 .. k - 1 : s_semAdd[list[i]] < a
    BY DEF Stop
  <2>2. ASSUME NEW i \in k .. Len(list)
        PROVE  s_semAdd[list[i]] > a
    <3>1. i \in 1 .. Len(list) /\ k \in 1 .. Len(list) /\ k # Len(list) + 1
      BY <1>2
    <3>2. s_semAdd[list[k]] >= a /\ s_semAdd[list[i]] >= a /\ s_semAdd[list[k]] # a
      BY <1>2, <3>1 DEF Stop
    <3>3. k < i => s_semAdd[list[k]] < s_semAdd[list[i]]
      BY <3>1 DEF Filed
    <3> QED
      BY <1>14, <1>15, <3>1, <3>2, <3>3
  <2> QED
    BY <2>1, <2>2
<1>17. \A i, j \in 1 .. Len(list) : i < j => s_semAdd[list[i]] < s_semAdd[list[j]]
  BY DEF Filed
<1>18. ASSUME NEW i \in 1 .. Len(l), NEW j \in 1 .. Len(l), i < j
       PROVE  s_semAdd'[l[i]] < s_semAdd'[l[j]]
  <2>1. CASE j < k
    <3>1. l[i] = list[i] /\ l[j] = list[j] /\ i \in 1 .. Len(list) /\ j \in 1 .. Len(list)
      BY <1>2, <1>11, <1>18, <2>1
    <3> QED
      BY <1>14, <1>17, <1>18, <3>1
  <2>2. CASE j = k
    <3>1. l[i] = list[i] /\ l[j] = n /\ i \in 1 .. Len(list) /\ i \in 1 .. k - 1
      BY <1>2, <1>11, <1>18, <2>2
    <3> QED
      BY <1>12, <1>14, <1>16, <3>1
  <2>3. CASE i = k
    <3>1. l[i] = n /\ l[j] = list[j - 1] /\ j - 1 \in 1 .. Len(list) /\ j - 1 \in k .. Len(list)
      BY <1>2, <1>11, <1>18, <2>3
    <3> QED
      BY <1>12, <1>14, <1>15, <1>16, <3>1
  <2>4. CASE i < k /\ k < j
    <3>1. /\ l[i] = list[i] /\ l[j] = list[j - 1] /\ i \in 1 .. Len(list) /\ j - 1 \in 1 .. Len(list)
          /\ i \in 1 .. k - 1 /\ j - 1 \in k .. Len(list)
      BY <1>2, <1>11, <1>18, <2>4
    <3>2. s_semAdd[list[i]] < a /\ s_semAdd[list[j - 1]] > a
      BY <1>16, <3>1
    <3>3. s_semAdd[list[i]] \in Nat /\ s_semAdd[list[j - 1]] \in Nat
      BY <1>14, <3>1
    <3>4. s_semAdd'[l[i]] = s_semAdd[list[i]] /\ s_semAdd'[l[j]] = s_semAdd[list[j - 1]]
      BY <1>14, <3>1
    <3> QED
      BY <1>15, <3>2, <3>3, <3>4
  <2>5. CASE k < i
    <3>1. /\ l[i] = list[i - 1] /\ l[j] = list[j - 1] /\ i - 1 < j - 1
          /\ i - 1 \in 1 .. Len(list) /\ j - 1 \in 1 .. Len(list)
      BY <1>2, <1>11, <1>18, <2>5
    <3> QED
      BY <1>14, <1>17, <3>1
  <2>6. i \in Int /\ j \in Int /\ k \in Int
    BY <1>2, <1>11
  <2>7. j < k \/ j = k \/ i = k \/ (i < k /\ k < j) \/ k < i
    BY <1>18, <2>6
  <2> QED
    BY <2>1, <2>2, <2>3, <2>4, <2>5, <2>7
<1>19. l # <<>> /\ s_semAdd'[l[1]] = 0
  <2>0. 1 \in 1 .. Len(list) /\ 1 \in 1 .. Len(list) + 1 /\ 1 < k
    BY <1>2
  <2>1. l[1] = list[1] /\ 1 \in 1 .. Len(list)
    BY <1>11, <2>0
  <2>2. l # <<>>
    BY <1>2, <1>11, NoMember
  <2> QED
    BY <1>14, <2>1, <2>2 DEF Filed
<1>20. ToSet(l) \cup ToSet(Tail(free)) = SEMD /\ ToSet(l) \cap ToSet(Tail(free)) = {}
  BY <1>4, <1>11 DEF Filed
<1>21. Filed(l, Tail(free))'
  BY <1>4, <1>9, <1>10, <1>11, <1>18, <1>19, <1>20 DEF Filed
<1>22. s_procQ[n] = <<>>
  BY <1>4 DEF Queued
<1>23. Queued(l)'
  <2>1. <<p>> # <<>> /\ IsInjective(<<p>>) /\ ToSet(<<p>>) = {p}
    BY DEF IsInjective, ToSet
  <2>2. \A e \in SEMD : s_procQ'[e] # <<>> <=> e \in ToSet(l) /\ s_semAdd'[e] \in ADDRESS
    BY <1>11, <1>12, <1>13, <2>1 DEF Queued
  <2>3. \A e \in SEMD : IsInjective(s_procQ'[e])
    BY <1>13, <2>1 DEF Queued
  <2>4. \A b, e \in SEMD : b # e => ToSet(s_procQ'[b]) \cap ToSet(s_procQ'[e]) = {}
    <3>1. \A e \in SEMD : e # n => ToSet(s_procQ'[n]) \cap ToSet(s_procQ'[e]) = {}
      BY <1>13, <2>1
    <3> QED
      BY <1>13, <3>1, Zenon DEF Queued
  <2> QED
    BY <2>2, <2>3, <2>4 DEF Queued
<1>24. Change(a, n, <<p>>)
  <2>1. ASSUME NEW e \in SEMD, s_procQ[e] # <<>>
        PROVE  s_semAdd[e] # a
    <3>1. e \in ToSet(list)
      BY <2>1 DEF Queued
    <3>2. PICK i \in 1 .. Len(list) : list[i] = e
      BY <1>1, <3>1, InQueue
    <3>3. i \in 1 .. k - 1 \/ i \in k .. Len(list)
      BY <1>2
    <3> QED
      BY <1>14, <1>15, <1>16, <3>2, <3>3
  <2> QED
    BY <1>22, <2>1 DEF Change, Link
<1> QED
  BY <1>4, <1>21, <1>23, <1>24 DEF l

\* What removeBlocked or outBlocked does when the queue of d, which follows prev,
\* has become empty.
Unlink(prev, d) ==
    /\ s_procQ' = [s_procQ EXCEPT ![d] = <<>>]
    /\ freeSemd([s_next EXCEPT ![prev] = s_next[d]], d)
    /\ UNCHANGED <<semd_h, s_semAdd>>

\* A descriptor whose queue has become empty leaves the list for the free list.
LEMMA Unfile ==
    ASSUME SemdsSound, TypeOK, NEW list, NEW free, Filed(list, free), Queued(list),
           NEW k \in 2 .. Len(list), s_semAdd[list[k]] \in ADDRESS, Unlink(list[k - 1], list[k])
    PROVE  /\ Filed(RemoveAt(list, k), <<list[k]>> \o free)' /\ Queued(RemoveAt(list, k))'
           /\ Change(s_semAdd[list[k]], list[k], <<>>)
<1> DEFINE l == RemoveAt(list, k)
           d == list[k]
           prev == list[k - 1]
           f == <<d>> \o free
<1>1. list \in Seq(SEMD) /\ IsInjective(list) /\ free \in Seq(SEMD) /\ IsInjective(free)
  BY DEF Filed
<1>2. Len(list) \in Nat /\ k \in Nat /\ k \in 1 .. Len(list) /\ k - 1 \in 1 .. Len(list) /\ k >= 2
  BY <1>1
<1>3. /\ d \in ToSet(list) /\ d \in SEMD /\ d \notin ToSet(free)
      /\ prev \in ToSet(list) /\ prev \in SEMD /\ prev # d
  <2>1. d \in ToSet(list) /\ prev \in ToSet(list)
    BY <1>1, <1>2, InQueue
  <2>2. prev # d
    <3>1. \A i, j \in 1 .. Len(list) : list[i] = list[j] => i = j
      BY <1>1 DEF IsInjective
    <3>2. k - 1 # k
      BY <1>2
    <3> QED
      BY <1>2, <3>1, <3>2
  <2> QED
    BY <1>1, <2>1, <2>2, MembersTyped DEF Filed
<1>4. /\ s_next'[d] = semdFree_h /\ s_next'[prev] = s_next[d]
      /\ \A x \in SEMD : x # d /\ x # prev => s_next'[x] = s_next[x]
      /\ semdFree_h' = d /\ semd_h' = semd_h /\ s_semAdd' = s_semAdd
  BY <1>3 DEF TypeOK, Unlink, freeSemd
<1>5. s_procQ'[d] = <<>> /\ \A x \in SEMD : x # d => s_procQ'[x] = s_procQ[x]
  BY <1>3 DEF TypeOK, Unlink
<1> HIDE DEF d, prev
<1>6. Leads(s_next', NULL, semd_h, l)
  <2>1. \A x \in ToSet(list) \ {list[k]} :
           s_next'[x] = IF x = list[k - 1] THEN s_next[list[k]] ELSE s_next[x]
    BY <1>1, <1>4, MembersTyped DEF d, prev
  <2>2. Leads(s_next, NULL, semd_h, list)
    BY DEF Filed
  <2> QED
    BY <1>1, <2>1, <2>2, LeadsOut
<1>7. Leads(s_next', NULL, d, f)
  <2>1. Leads(s_next, NULL, semdFree_h, free)
    BY DEF Filed
  <2>2. \A x \in ToSet(free) : s_next'[x] = s_next[x]
    BY <1>1, <1>3, <1>4, MembersTyped DEF Filed
  <2>3. Leads(s_next', NULL, semdFree_h, free)
    BY <1>1, <2>1, <2>2, LeadsFrame
  <2> QED
    BY <1>1, <1>3, <1>4, <2>3, LeadsCons
<1>8. f \in Seq(SEMD) /\ IsInjective(f) /\ ToSet(f) = ToSet(free) \cup {d}
  BY <1>1, <1>3, ConsQueue
<1>9. /\ l \in Seq(SEMD) /\ Len(l) = Len(list) - 1
      /\ \A i \in 1 .. Len(list) - 1 : l[i] = IF i < k THEN list[i] ELSE list[i + 1]
  BY <1>1, <1>2, RemoveAtQueue
<1>10. IsInjective(l) /\ ToSet(l) = ToSet(list) \ {d}
  BY <1>1, <1>2, OutQueue DEF d
<1> HIDE DEF l, f
<1>11. ASSUME NEW i \in 1 .. Len(l), NEW j \in 1 .. Len(l), i < j
       PROVE  s_semAdd[l[i]] < s_semAdd[l[j]]
  <2>0. ASSUME NEW x \in 1 .. Len(l)
        PROVE  \E m \in 1 .. Len(list) : l[x] = list[m] /\ ((x < k /\ m = x) \/ (~(x < k) /\ m = x + 1))
    <3>1. x \in 1 .. Len(list) - 1 /\ x \in 1 .. Len(list) /\ x + 1 \in 1 .. Len(list)
      BY <1>2, <1>9
    <3>2. (x < k => l[x] = list[x]) /\ (~(x < k) => l[x] = list[x + 1])
      BY <1>9, <3>1
    <3> QED
      BY <3>1, <3>2
  <2>1. PICK m \in 1 .. Len(list) : l[i] = list[m] /\ ((i < k /\ m = i) \/ (~(i < k) /\ m = i + 1))
    BY <2>0
  <2>2. PICK n \in 1 .. Len(list) : l[j] = list[n] /\ ((j < k /\ n = j) \/ (~(j < k) /\ n = j + 1))
    BY <2>0
  <2>3. m < n
    BY <1>2, <1>9, <1>11, <2>1, <2>2
  <2> QED
    BY <2>1, <2>2, <2>3 DEF Filed
<1>12. l # <<>> /\ s_semAdd[l[1]] = 0
  <2>1. Len(l) # 0 /\ 1 \in 1 .. Len(list) - 1 /\ 1 < k
    BY <1>2, <1>9
  <2>2. l # <<>> /\ l[1] = list[1]
    BY <1>9, <2>1, NoMember
  <2> QED
    BY <2>2 DEF Filed
<1>13. ToSet(l) \cup ToSet(f) = SEMD /\ ToSet(l) \cap ToSet(f) = {}
  BY <1>3, <1>8, <1>10 DEF Filed
<1>14. Filed(l, f)'
  BY <1>4, <1>6, <1>7, <1>8, <1>9, <1>10, <1>11, <1>12, <1>13 DEF Filed
<1>15. Queued(l)'
  <2>1. \A e \in SEMD : s_procQ'[e] # <<>> <=> e \in ToSet(l) /\ s_semAdd'[e] \in ADDRESS
    BY <1>4, <1>5, <1>10 DEF Queued
  <2>2. \A e \in SEMD : IsInjective(s_procQ'[e])
    BY <1>5, EmptyQueue DEF Queued
  <2>3. \A b, e \in SEMD : b # e => ToSet(s_procQ'[b]) \cap ToSet(s_procQ'[e]) = {}
    <3>1. ToSet(s_procQ'[d]) = {}
      BY <1>5, EmptyQueue
    <3> QED
      BY <1>5, <3>1, Zenon DEF Queued
  <2> QED
    BY <2>1, <2>2, <2>3 DEF Queued
<1>16. Change(s_semAdd[d], d, <<>>)
  <2>1. s_semAdd' = [s_semAdd EXCEPT ![d] = s_semAdd[d]]
    BY <1>4 DEF TypeOK
  <2>2. \A e \in SEMD : e # d /\ s_procQ[e] # <<>> => s_semAdd[e] # s_semAdd[d]
    BY <1>3, KeysDiffer DEF Queued
  <2>3. s_procQ' = [s_procQ EXCEPT ![d] = <<>>]
    BY DEF Unlink, d
  <2> QED
    BY <2>1, <2>2, <2>3 DEF Change
<1> QED
  BY <1>14, <1>15, <1>16 DEF l, f, d

-----------------------------------------------------------------------------

\* removeBlocked and outBlocked: a queue loses pcbs, and with the last one its
\* descriptor.
LEMMA ShrinkStep ==
    ASSUME SemdsSound, TypeOK, NEW list, NEW free, Filed(list, free), Queued(list),
           NEW a \in ADDRESS, Found(a), NEW d, d = getSemd(a).curr,
           NEW q \in Seq(PCB), IsInjective(q), ToSet(q) \subseteq ToSet(s_procQ[d]),
           Shrink(getSemd(a), q)
    PROVE  /\ d \in SEMD /\ s_semAdd[d] = a /\ s_procQ[d] # <<>>
           /\ \E l, f : Filed(l, f)' /\ Queued(l)' /\ Change(a, d, q)
<1>1. PICK k \in 2 .. Len(list) + 1 : Stop(list, a, k)
  BY Search
<1>2. /\ k # Len(list) + 1 /\ s_semAdd[list[k]] = a
      /\ getSemd(a).curr = list[k] /\ getSemd(a).prev = list[k - 1]
  BY <1>1 DEF Stop
<1>3. list \in Seq(SEMD) /\ k \in 2 .. Len(list) /\ k \in 1 .. Len(list)
  BY <1>2 DEF Filed
<1>4. d = list[k] /\ d \in ToSet(list) /\ d \in SEMD
  BY <1>2, <1>3, InQueue, MembersTyped
<1>5. s_procQ[d] # <<>>
  BY <1>2, <1>4 DEF Queued
<1>6. CASE q = <<>>
  <2>1. Unlink(list[k - 1], list[k])
    BY <1>2, <1>4, <1>6 DEF Shrink, Unlink
  <2> QED
    BY <1>2, <1>3, <1>4, <1>5, <1>6, <2>1, Unfile
<1>7. CASE q # <<>>
  <2>1. s_procQ' = [s_procQ EXCEPT ![d] = q] /\ UNCHANGED <<semd_h, semdFree_h, s_next, s_semAdd>>
    BY <1>7 DEF Shrink
  <2>2. \A e \in SEMD : e # d => ToSet(q) \cap ToSet(s_procQ[e]) = {}
    BY <1>4 DEF Queued
  <2>3. Filed(list, free)' /\ Queued(list)' /\ Change(s_semAdd[d], d, q)
    BY <1>2, <1>4, <1>7, <2>1, <2>2, Requeue
  <2> QED
    BY <1>2, <1>4, <1>5, <2>3
<1> QED
  BY <1>6, <1>7

-----------------------------------------------------------------------------
(* The queues as a function of the semaphore's address.                     *)

\* Waiting reads the queue of the only descriptor of a semaphore.
WaitingReads ==
    /\ \A d \in SEMD : s_procQ[d] # <<>> => Waiting(s_semAdd[d]) = s_procQ[d]
    /\ \A a \in ADDRESS : (\A d \in SEMD : s_semAdd[d] = a => s_procQ[d] = <<>>) => Waiting(a) = <<>>

\* Since no two descriptors in use have the same semaphore (asl.c:201), Waiting
\* is the queue of that one descriptor, or empty.
LEMMA WaitingIs == Inv => WaitingReads
<1> SUFFICES ASSUME Inv
             PROVE  WaitingReads
  OBVIOUS
<1>1. PICK list, free : Filed(list, free) /\ Queued(list)
  BY DEF Inv
<1>2. ASSUME NEW d \in SEMD, s_procQ[d] # <<>>
      PROVE  Waiting(s_semAdd[d]) = s_procQ[d]
  <2> DEFINE ds == {e \in SEMD : s_semAdd[e] = s_semAdd[d] /\ s_procQ[e] # <<>>}
  <2>1. \A e \in ds : e = d
    BY <1>1, <1>2, KeysDiffer DEF Inv, Queued
  <2>2. ds = {d}
    BY <1>2, <2>1
  <2>3. (CHOOSE e \in ds : TRUE) = d
    BY <2>2
  <2> HIDE DEF ds
  <2> QED
    BY <2>2, <2>3 DEF Waiting, ds
<1>3. ASSUME NEW a \in ADDRESS, \A d \in SEMD : s_semAdd[d] = a => s_procQ[d] = <<>>
      PROVE  Waiting(a) = <<>>
  BY <1>3 DEF Waiting
<1> QED
  BY <1>2, <1>3 DEF WaitingReads

\* It is so after a step, too.
LEMMA WaitingIsNext == Inv' => WaitingReads'
BY WaitingIs, PTL

\* A change of one descriptor is a change of one semaphore's queue.
LEMMA ChangeWaits ==
    ASSUME Inv, Inv', NEW a \in ADDRESS, NEW d \in SEMD, NEW q, Change(a, d, q), NEW b \in ADDRESS
    PROVE  Waiting(b)' = IF b = a THEN q ELSE Waiting(b)
<1>1. WaitingReads /\ WaitingReads'
  BY WaitingIs, WaitingIsNext
<1>2. /\ s_procQ'[d] = q /\ s_semAdd'[d] = a
      /\ \A e \in SEMD : e # d => s_procQ'[e] = s_procQ[e] /\ s_semAdd'[e] = s_semAdd[e]
  BY DEF Change, Inv, TypeOK
<1>3. /\ s_procQ[d] = <<>> \/ s_semAdd[d] = a
      /\ \A e \in SEMD : e # d /\ s_procQ[e] # <<>> => s_semAdd[e] # a
  BY DEF Change
<1>4. /\ \A e \in SEMD : s_procQ'[e] # <<>> => Waiting(s_semAdd[e])' = s_procQ'[e]
      /\ (\A e \in SEMD : s_semAdd'[e] = b => s_procQ'[e] = <<>>) => Waiting(b)' = <<>>
  BY <1>1 DEF WaitingReads
<1>5. /\ \A e \in SEMD : s_procQ[e] # <<>> => Waiting(s_semAdd[e]) = s_procQ[e]
      /\ (\A e \in SEMD : s_semAdd[e] = b => s_procQ[e] = <<>>) => Waiting(b) = <<>>
  BY <1>1 DEF WaitingReads
<1>6. \A e \in SEMD : s_semAdd'[e] = b /\ s_procQ'[e] # <<>> => Waiting(b)' = s_procQ'[e]
  <2> SUFFICES ASSUME NEW e \in SEMD, s_semAdd'[e] = b, s_procQ'[e] # <<>>
               PROVE  Waiting(b)' = s_procQ'[e]
    OBVIOUS
  <2>1. Waiting(s_semAdd[e])' = s_procQ'[e]
    BY <1>4
  <2>2. Waiting(s_semAdd[e])' = Waiting(b)'
    BY DEF Waiting
  <2> QED
    BY <2>1, <2>2
<1>7. CASE b = a
  BY <1>2, <1>3, <1>4, <1>6, <1>7
<1>8. CASE b # a
  <2>1. CASE \E e \in SEMD : s_semAdd[e] = b /\ s_procQ[e] # <<>>
    <3>1. PICK e \in SEMD : s_semAdd[e] = b /\ s_procQ[e] # <<>>
      BY <2>1
    <3>2. e # d
      BY <1>3, <1>8, <3>1
    <3>3. Waiting(b) = s_procQ[e]
      BY <1>5, <3>1
    <3>4. Waiting(b)' = s_procQ'[e]
      BY <1>2, <1>6, <3>1, <3>2
    <3> QED
      BY <1>2, <1>8, <3>2, <3>3, <3>4
  <2>2. CASE \A e \in SEMD : s_semAdd[e] = b => s_procQ[e] = <<>>
    <3>1. \A e \in SEMD : s_semAdd'[e] = b => s_procQ'[e] = <<>>
      BY <1>2, <1>8, <2>2
    <3> QED
      BY <1>4, <1>5, <1>8, <2>2, <3>1
  <2> QED
    BY <2>1, <2>2
<1> QED
  BY <1>7, <1>8

-----------------------------------------------------------------------------
(* The operations.                                                          *)

\* The queue of a becomes q, in whichever descriptor.
Requeued(a, q) == \E d \in SEMD : Change(a, d, q)

\* A pcb that no position of the queues holds.
LEMMA InNoQueue ==
    ASSUME TypeOK, NEW p, \A d \in SEMD : ~Contains(s_procQ[d], p)
    PROVE  \A d \in SEMD : p \notin ToSet(s_procQ[d])
<1> SUFFICES ASSUME NEW d \in SEMD
             PROVE  p \notin ToSet(s_procQ[d])
  OBVIOUS
<1>1. s_procQ[d] \in Seq(PCB)
  BY DEF TypeOK
<1> QED
  BY <1>1, InQueue DEF Contains

\* What getSemd finds is the descriptor whose queue Waiting reads.
LEMMA FoundWaits ==
    ASSUME Inv, NEW a \in ADDRESS
    PROVE  /\ Found(a) => /\ getSemd(a).curr \in SEMD /\ s_semAdd[getSemd(a).curr] = a
                          /\ s_procQ[getSemd(a).curr] # <<>>
                          /\ Waiting(a) = s_procQ[getSemd(a).curr]
           /\ ~Found(a) => Waiting(a) = <<>>
<1>1. PICK list, free : Filed(list, free) /\ Queued(list)
  BY DEF Inv
<1>2. PICK k \in 2 .. Len(list) + 1 : Stop(list, a, k)
  BY <1>1, Search DEF Inv
<1>3. list \in Seq(SEMD) /\ Len(list) \in Nat
  BY <1>1 DEF Filed
<1>4. WaitingReads
  BY WaitingIs
<1>5. ASSUME Found(a)
      PROVE  /\ getSemd(a).curr \in SEMD /\ s_semAdd[getSemd(a).curr] = a
             /\ s_procQ[getSemd(a).curr] # <<>>
             /\ Waiting(a) = s_procQ[getSemd(a).curr]
  <2>1. k # Len(list) + 1 /\ s_semAdd[list[k]] = a /\ getSemd(a).curr = list[k]
    BY <1>2, <1>5 DEF Stop
  <2>2. k \in 1 .. Len(list)
    BY <1>3, <2>1
  <2>3. list[k] \in SEMD /\ list[k] \in ToSet(list)
    BY <1>3, <2>2, InQueue
  <2>4. s_procQ[list[k]] # <<>>
    BY <1>1, <2>1, <2>3 DEF Queued
  <2> QED
    BY <1>4, <2>1, <2>3, <2>4 DEF WaitingReads
<1>6. ASSUME ~Found(a)
      PROVE  Waiting(a) = <<>>
  <2>1. ASSUME NEW d \in SEMD, s_semAdd[d] = a, s_procQ[d] # <<>>
        PROVE  FALSE
    <3>1. d \in ToSet(list)
      BY <1>1, <2>1 DEF Queued
    <3>2. PICK i \in 1 .. Len(list) : list[i] = d
      BY <1>3, <3>1, InQueue
    <3>3. ~(i \in 1 .. k - 1)
      BY <1>2, <2>1, <3>2, Keys DEF Stop, Inv
    <3>4. k \in 1 .. Len(list) /\ k <= i
      BY <1>3, <3>3
    <3>5. s_semAdd[list[k]] >= a /\ s_semAdd[list[k]] # a
      BY <1>2, <1>3, <1>6, <3>4 DEF Stop
    <3>6. k # i /\ k < i
      BY <1>3, <2>1, <3>2, <3>4, <3>5
    <3>7. s_semAdd[list[k]] < a
      BY <1>1, <2>1, <3>2, <3>4, <3>6 DEF Filed
    <3>8. s_semAdd[list[k]] \in Nat /\ a \in Nat
      BY <1>3, <3>4, Keys DEF Inv
    <3> QED
      BY <3>5, <3>7, <3>8
  <2> QED
    BY <1>4, <2>1 DEF WaitingReads
<1> QED
  BY <1>5, <1>6

\* insertBlocked puts p at the end of the queue of a, or finds no descriptor left.
LEMMA BlockStep ==
    ASSUME Inv, NEW a \in ADDRESS, NEW p \in PCB, insertBlocked(a, p)
    PROVE  \/ UNCHANGED vars
           \/ /\ Inv' /\ Requeued(a, Append(Waiting(a), p))
              /\ p_semAdd' = [p_semAdd EXCEPT ![p] = a]
              /\ \A d \in SEMD : ~Contains(s_procQ[d], p)
<1>1. PICK list, free : Filed(list, free) /\ Queued(list)
  BY DEF Inv
<1>2. SemdsSound /\ TypeOK /\ \A d \in SEMD : ~Contains(s_procQ[d], p)
  BY DEF Inv, insertBlocked
<1>3. \A d \in SEMD : p \notin ToSet(s_procQ[d])
  BY <1>2, InNoQueue
<1>4. PICK k \in 2 .. Len(list) + 1 : Stop(list, a, k)
  BY <1>1, <1>2, Search
<1>5. CASE Found(a)
  <2>1. PICK d \in SEMD : d = getSemd(a).curr
    BY <1>5, FoundWaits
  <2>2. s_semAdd[d] = a /\ s_procQ[d] # <<>> /\ Waiting(a) = s_procQ[d] /\ d \in ToSet(list)
    BY <1>1, <1>5, <2>1, FoundWaits DEF Queued
  <2>3. /\ s_procQ' = [s_procQ EXCEPT ![d] = Append(@, p)]
        /\ p_semAdd' = [p_semAdd EXCEPT ![p] = a]
        /\ UNCHANGED <<semd_h, semdFree_h, s_next, s_semAdd>>
    BY <1>5, <2>1 DEF insertBlocked, enqueue
  <2> DEFINE q == Append(s_procQ[d], p)
  <2>4. /\ q \in Seq(PCB) /\ q # <<>> /\ IsInjective(q) /\ ToSet(q) = ToSet(s_procQ[d]) \cup {p}
    <3>1. s_procQ[d] \in Seq(PCB) /\ IsInjective(s_procQ[d]) /\ p \notin ToSet(s_procQ[d])
      BY <1>1, <1>2, <1>3 DEF TypeOK, Queued
    <3>2. q \in Seq(PCB) /\ IsInjective(q) /\ ToSet(q) = ToSet(s_procQ[d]) \cup {p}
      BY <3>1, AppendQueue
    <3>3. q # <<>>
      BY <3>2, EmptyQueue
    <3> QED
      BY <3>2, <3>3
  <2>5. \A e \in SEMD : e # d => ToSet(q) \cap ToSet(s_procQ[e]) = {}
    <3>1. ToSet(q) = ToSet(s_procQ[d]) \cup {p}
      BY <2>4
    <3>2. \A e \in SEMD : e # d => ToSet(s_procQ[d]) \cap ToSet(s_procQ[e]) = {}
      BY <1>1 DEF Queued
    <3> HIDE DEF q
    <3> QED
      BY <1>3, <3>1, <3>2
  <2>6. s_procQ' = [s_procQ EXCEPT ![d] = q]
    BY <2>3
  <2> HIDE DEF q
  <2>7. Filed(list, free)' /\ Queued(list)' /\ Change(s_semAdd[d], d, q)
    BY <1>1, <1>2, <2>2, <2>3, <2>4, <2>5, <2>6, Requeue
  <2>8. TypeOK'
    BY <1>2, <2>3, <2>4, <2>6 DEF TypeOK
  <2>9. Inv'
    BY <1>2, <2>7, <2>8 DEF Inv, SemdsSound
  <2>10. Requeued(a, Append(Waiting(a), p))
    BY <2>2, <2>7 DEF Requeued, q
  <2> QED
    BY <1>2, <2>3, <2>9, <2>10
<1>6. CASE ~Found(a) /\ semdFree_h = NULL
  BY <1>6 DEF insertBlocked, allocSemd
<1>7. CASE ~Found(a) /\ semdFree_h # NULL
  <2>1. PICK n \in SEMD : n = semdFree_h
    BY <1>2, <1>7 DEF TypeOK
  <2>2. Link(a, n, p) /\ p_semAdd' = [p_semAdd EXCEPT ![p] = a]
    BY <1>7, <2>1 DEF insertBlocked, allocSemd, Link
  <2>3. n # NULL
    BY <1>7, <2>1
  <2>4. /\ Filed(InsertAt(list, k, n), Tail(free))' /\ Queued(InsertAt(list, k, n))'
        /\ Change(a, n, <<p>>)
    BY <1>1, <1>2, <1>3, <1>4, <1>7, <2>1, <2>2, <2>3, FileNew
  <2>5. TypeOK'
    <3>1. getSemd(a).curr \in SEMD \cup {NULL} /\ getSemd(a).prev \in SEMD
      <4>1. list \in Seq(SEMD) /\ k - 1 \in 1 .. Len(list) /\ (k # Len(list) + 1 => k \in 1 .. Len(list))
        BY <1>1 DEF Filed
      <4>2. list[k - 1] \in SEMD /\ (k # Len(list) + 1 => list[k] \in SEMD)
        BY <4>1
      <4> QED
        BY <1>4, <4>2 DEF Stop
    <3>2. s_next' \in [SEMD -> SEMD \cup {NULL}]
      BY <1>2, <2>1, <2>2, <3>1 DEF TypeOK, Link
    <3>3. semdFree_h' \in SEMD \cup {NULL} /\ semd_h' \in SEMD
      BY <1>2, <2>1, <2>2 DEF TypeOK, Link
    <3>4. s_semAdd' \in [SEMD -> ADDRESS \cup {0, MAXINT}]
      BY <1>2, <2>1, <2>2 DEF TypeOK, Link
    <3>5. s_procQ' \in [SEMD -> Seq(PCB)] /\ p_semAdd' \in [PCB -> ADDRESS \cup {NULL}]
      BY <1>2, <2>1, <2>2 DEF TypeOK, Link
    <3> QED
      BY <3>2, <3>3, <3>4, <3>5 DEF TypeOK
  <2>6. Inv'
    BY <1>2, <2>4, <2>5 DEF Inv, SemdsSound
  <2>7. Append(Waiting(a), p) = <<p>>
    <3>1. Waiting(a) = <<>>
      BY <1>7, FoundWaits
    <3>2. Append(<<>>, p) = <<p>>
      OBVIOUS
    <3> QED
      BY <3>1, <3>2
  <2>8. Requeued(a, Append(Waiting(a), p))
    BY <2>4, <2>7 DEF Requeued
  <2> QED
    BY <1>2, <2>2, <2>6, <2>8
<1> QED
  BY <1>5, <1>6, <1>7

\* A queue that loses pcbs, for removeBlocked and outBlocked.
LEMMA ShrinkInv ==
    ASSUME Inv, NEW a \in ADDRESS, Found(a), NEW q \in Seq(PCB), IsInjective(q),
           ToSet(q) \subseteq ToSet(Waiting(a)), Shrink(getSemd(a), q),
           p_semAdd' \in [PCB -> ADDRESS \cup {NULL}]
    PROVE  Inv' /\ Requeued(a, q)
<1>1. PICK list, free : Filed(list, free) /\ Queued(list)
  BY DEF Inv
<1>2. PICK d \in SEMD : d = getSemd(a).curr
  BY FoundWaits
<1>3. Waiting(a) = s_procQ[d]
  BY <1>2, FoundWaits
<1>4. \E l, f : Filed(l, f)' /\ Queued(l)' /\ Change(a, d, q)
  BY <1>1, <1>2, <1>3, ShrinkStep DEF Inv
<1>5. TypeOK'
  <2>1. TypeOK
    BY DEF Inv
  <2>2. getSemd(a).prev \in SEMD
    <3>1. PICK k \in 2 .. Len(list) + 1 : Stop(list, a, k)
      BY <1>1, Search DEF Inv
    <3>2. list \in Seq(SEMD) /\ k - 1 \in 1 .. Len(list)
      BY <1>1 DEF Filed
    <3>3. list[k - 1] \in SEMD
      BY <3>2
    <3> QED
      BY <3>1, <3>3 DEF Stop
  <2>3. s_procQ' \in [SEMD -> Seq(PCB)] /\ semd_h' \in SEMD /\ s_semAdd' \in [SEMD -> ADDRESS \cup {0, MAXINT}]
    BY <1>2, <2>1 DEF TypeOK, Shrink
  <2>4. semdFree_h' \in SEMD \cup {NULL}
    BY <1>2, <2>1 DEF TypeOK, Shrink, freeSemd
  <2>5. s_next' \in [SEMD -> SEMD \cup {NULL}]
    BY <1>2, <2>1, <2>2 DEF TypeOK, Shrink, freeSemd
  <2> QED
    BY <2>3, <2>4, <2>5 DEF TypeOK
<1> QED
  BY <1>4, <1>5 DEF Inv, SemdsSound, Requeued

\* removeBlocked takes the head of the queue of a.
LEMMA WakeStep ==
    ASSUME Inv, NEW a \in ADDRESS, removeBlocked(a)
    PROVE  /\ Inv' /\ Waiting(a) # <<>> /\ Requeued(a, Tail(Waiting(a)))
           /\ p_semAdd' = [p_semAdd EXCEPT ![Head(Waiting(a))] = NULL]
<1>1. Found(a) /\ TypeOK
  BY DEF removeBlocked, Inv
<1>2. PICK d \in SEMD : d = getSemd(a).curr
  BY <1>1, FoundWaits
<1>3. PICK q : q = s_procQ[d]
  OBVIOUS
<1>4. Waiting(a) = q /\ q # <<>> /\ q \in Seq(PCB) /\ IsInjective(q)
  <2>1. Waiting(a) = q /\ q # <<>>
    BY <1>1, <1>2, <1>3, FoundWaits
  <2> QED
    BY <1>1, <1>3, <2>1 DEF TypeOK, Inv, Queued
<1>5. p_semAdd' = [p_semAdd EXCEPT ![Head(q)] = NULL] /\ Shrink(getSemd(a), Tail(q))
  BY <1>2, <1>3 DEF removeBlocked
<1>6. /\ Head(q) \in PCB /\ Tail(q) \in Seq(PCB) /\ IsInjective(Tail(q))
      /\ ToSet(Tail(q)) \subseteq ToSet(q)
  BY <1>4, TailQueue
<1>7. p_semAdd' \in [PCB -> ADDRESS \cup {NULL}]
  BY <1>1, <1>5, <1>6 DEF TypeOK
<1>8. Inv' /\ Requeued(a, Tail(q))
  BY <1>1, <1>4, <1>5, <1>6, <1>7, ShrinkInv
<1> QED
  BY <1>4, <1>5, <1>8

\* outBlocked takes p out of the queue its p_semAdd names, if it is there.
LEMMA TakeOutStep ==
    ASSUME Inv, NEW p \in PCB, outBlocked(p)
    PROVE  \/ UNCHANGED vars
           \/ \E a \in ADDRESS : /\ p_semAdd[p] = a /\ Inv' /\ UNCHANGED p_semAdd
                                 /\ Requeued(a, RemoveFirst(Waiting(a), p))
<1>1. TypeOK /\ p_semAdd[p] # NULL
  BY DEF outBlocked, Inv
<1>2. PICK a \in ADDRESS : a = p_semAdd[p]
  BY <1>1 DEF TypeOK
<1>3. CASE Found(a) /\ Contains(s_procQ[getSemd(a).curr], p)
  <2>1. PICK d \in SEMD : d = getSemd(a).curr
    BY <1>3, FoundWaits
  <2>2. PICK q : q = s_procQ[d]
    OBVIOUS
  <2>3. Waiting(a) = q /\ q \in Seq(PCB) /\ IsInjective(q)
    <3>1. Waiting(a) = q
      BY <1>3, <2>1, <2>2, FoundWaits
    <3> QED
      BY <1>1, <2>2, <3>1 DEF TypeOK, Inv, Queued
  <2>4. PICK i \in 1 .. Len(q) : q[i] = p
    BY <1>3, <2>1, <2>2 DEF Contains
  <2>5. RemoveFirst(q, p) = RemoveAt(q, i)
    BY <2>3, <2>4, RemoveFirstIs
  <2> DEFINE r == RemoveFirst(q, p)
  <2>6. r \in Seq(PCB) /\ IsInjective(r) /\ ToSet(r) \subseteq ToSet(q)
    BY <2>3, <2>5, RemoveAtQueue, OutQueue
  <2>7. Shrink(getSemd(a), r) /\ UNCHANGED p_semAdd
    BY <1>2, <1>3, <2>1, <2>2 DEF outBlocked
  <2> HIDE DEF r
  <2>8. Inv' /\ Requeued(a, r)
    BY <1>1, <1>3, <2>3, <2>6, <2>7, ShrinkInv DEF TypeOK
  <2> QED
    BY <1>2, <2>3, <2>7, <2>8 DEF r
<1>4. CASE ~(Found(a) /\ Contains(s_procQ[getSemd(a).curr], p))
  BY <1>2, <1>4 DEF outBlocked
<1> QED
  BY <1>3, <1>4

\* initASL: two dummies in the list, the other descriptors free.
LEMMA FirstLists == SemdsSound /\ Init => Inv
<1> SUFFICES ASSUME SemdsSound, Init
             PROVE  Inv
  OBVIOUS
<1> DEFINE n == Cardinality(PCB)
           list == <<n + 2, n + 1>>
           free == [i \in 1 .. n |-> (n + 1) - i]
<1>1. n \in Nat /\ MAXSEMDS = n + 2 /\ SEMD = 1 .. n + 2
  BY Table DEF MAXSEMDS, SEMD
<1>2. MAXINT \in Nat /\ MAXINT > 0
  BY AddressAssumption
<1> HIDE DEF n
<1>3. \A d \in 1 .. n + 2 : s_next[d] = IF d = n + 2 THEN n + 1 ELSE IF d = n + 1 \/ d = 1 THEN NULL ELSE d - 1
  BY <1>1 DEF Init, initASL
<1>4. /\ semd_h = n + 2 /\ semdFree_h = IF n = 0 THEN NULL ELSE n
      /\ \A d \in 1 .. n + 2 : s_semAdd[d] = IF d = n + 1 THEN MAXINT ELSE 0
      /\ \A d \in 1 .. n + 2 : s_procQ[d] = <<>>
  <2>1. MAXSEMDS - 1 = n + 1 /\ MAXSEMDS - 2 = n /\ (MAXSEMDS = 2 <=> n = 0)
    BY <1>1
  <2>2. semd_h = n + 2 /\ semdFree_h = IF n = 0 THEN NULL ELSE n
    BY <1>1, <2>1 DEF Init, initASL
  <2>3. \A d \in 1 .. n + 2 : s_semAdd[d] = (IF d = n + 1 THEN MAXINT ELSE 0) /\ s_procQ[d] = <<>>
    BY <1>1, <2>1 DEF Init, initASL
  <2> QED
    BY <2>2, <2>3
<1>5. TypeOK
  <2>1. s_next \in [SEMD -> SEMD \cup {NULL}]
    <3>1. \A d \in 1 .. n + 2 : s_next[d] \in 1 .. n + 2 \cup {NULL}
      BY <1>1, <1>3
    <3>2. s_next = [d \in SEMD |-> s_next[d]]
      BY DEF Init, initASL
    <3> QED
      BY <1>1, <3>1, <3>2
  <2>2. semd_h \in SEMD /\ semdFree_h \in SEMD \cup {NULL}
    BY <1>1, <1>4
  <2>3. s_semAdd \in [SEMD -> ADDRESS \cup {0, MAXINT}] /\ s_procQ \in [SEMD -> Seq(PCB)]
        /\ p_semAdd \in [PCB -> ADDRESS \cup {NULL}]
    BY DEF Init, initASL
  <2> QED
    BY <2>1, <2>2, <2>3 DEF TypeOK
<1>6. list \in Seq(SEMD) /\ Len(list) = 2 /\ list[1] = n + 2 /\ list[2] = n + 1
  BY <1>1
<1>7. free \in Seq(SEMD) /\ Len(free) = n /\ \A i \in 1 .. n : free[i] = (n + 1) - i
  BY <1>1
<1> HIDE DEF list, free
<1>8. ToSet(list) = {n + 1, n + 2}
  BY <1>6, InQueue
<1>9. ToSet(free) = 1 .. n
  <2>1. \A d \in 1 .. n : (n + 1) - d \in 1 .. n /\ (n + 1) - ((n + 1) - d) = d
    BY <1>1
  <2>2. 1 .. n \subseteq ToSet(free)
    BY <1>7, <2>1, InQueue
  <2>3. ToSet(free) \subseteq 1 .. n
    BY <1>7, <2>1, InQueue
  <2> QED
    BY <2>2, <2>3
<1>10. IsInjective(list) /\ IsInjective(free)
  <2>1. IsInjective(list)
    BY <1>1, <1>6 DEF IsInjective
  <2>2. IsInjective(free)
    BY <1>1, <1>7 DEF IsInjective
  <2> QED
    BY <2>1, <2>2
<1>11. Leads(s_next, NULL, semd_h, list)
  <2>1. list # <<>>
    BY <1>6
  <2>2. s_next[n + 2] = n + 1 /\ s_next[n + 1] = NULL
    BY <1>1, <1>3
  <2>3. \A i \in 1 .. Len(list) : i = 1 \/ (i = 2 /\ i = Len(list))
    BY <1>6
  <2> QED
    BY <1>4, <1>6, <2>1, <2>2, <2>3 DEF Leads
<1>12. Leads(s_next, NULL, semdFree_h, free)
  <2>1. free = <<>> <=> n = 0
    BY <1>7, NoMember
  <2>2. semdFree_h = IF free = <<>> THEN NULL ELSE free[1]
    <3>1. n # 0 => free[1] = n
      BY <1>1, <1>7
    <3> QED
      BY <1>4, <2>1, <3>1
  <2>3. ASSUME NEW i \in 1 .. n
        PROVE  s_next[free[i]] = IF i = n THEN NULL ELSE free[i + 1]
    <3>1. free[i] = (n + 1) - i /\ (n + 1) - i \in 1 .. n + 2 /\ (n + 1) - i # n + 2 /\ (n + 1) - i # n + 1
      BY <1>1, <1>7
    <3>2. CASE i = n
      <4>1. (n + 1) - i = 1
        BY <1>1, <3>2
      <4> QED
        BY <1>3, <3>1, <3>2, <4>1
    <3>3. CASE i # n
      <4>1. (n + 1) - i # 1 /\ i + 1 \in 1 .. n /\ (n + 1) - (i + 1) = ((n + 1) - i) - 1
        BY <1>1, <3>3
      <4>2. s_next[free[i]] = ((n + 1) - i) - 1
        BY <1>3, <3>1, <4>1
      <4>3. free[i + 1] = (n + 1) - (i + 1)
        BY <1>7, <4>1
      <4> QED
        BY <3>3, <4>1, <4>2, <4>3
    <3> QED
      BY <3>2, <3>3
  <2> QED
    BY <1>7, <2>2, <2>3 DEF Leads
<1>13. ToSet(list) \cup ToSet(free) = SEMD /\ ToSet(list) \cap ToSet(free) = {}
  BY <1>1, <1>8, <1>9
<1>14. /\ \A i, j \in 1 .. Len(list) : i < j => s_semAdd[list[i]] < s_semAdd[list[j]]
       /\ list # <<>> /\ s_semAdd[list[1]] = 0
  <2>1. s_semAdd[n + 2] = 0 /\ s_semAdd[n + 1] = MAXINT
    BY <1>1, <1>4
  <2>2. \A i, j \in 1 .. Len(list) : i < j => i = 1 /\ j = 2
    BY <1>6
  <2>3. s_semAdd[list[1]] = 0 /\ s_semAdd[list[2]] = MAXINT /\ 0 < MAXINT
    BY <1>2, <1>6, <2>1
  <2>4. list # <<>>
    BY <1>6, NoMember
  <2> QED
    BY <2>2, <2>3, <2>4
<1>15. Filed(list, free)
  BY <1>6, <1>7, <1>10, <1>11, <1>12, <1>13, <1>14 DEF Filed
<1>16. Queued(list)
  <2>1. \A d \in SEMD : s_semAdd[d] \notin ADDRESS
    BY <1>1, <1>4, AddressAssumption
  <2> QED
    BY <1>1, <1>4, <2>1, EmptyQueue DEF Queued
<1> QED
  BY <1>5, <1>15, <1>16 DEF Inv

\* Every queue has a pcb of its own at its head, and only the dummies have none: a
\* pcb that is in no queue leaves a descriptor free.
LEMMA OneLeft ==
    ASSUME Inv, NEW p \in PCB, \A d \in SEMD : ~Contains(s_procQ[d], p)
    PROVE  semdFree_h # NULL
<1> SUFFICES ASSUME semdFree_h = NULL
             PROVE  FALSE
  OBVIOUS
<1>1. PICK list, free : Filed(list, free) /\ Queued(list)
  BY DEF Inv
<1>2. SemdsSound /\ TypeOK
  BY DEF Inv
<1>3. ToSet(list) = SEMD
  <2>1. free = <<>>
    BY <1>1, <1>2, LeadsTail DEF Filed, SemdsSound
  <2> QED
    BY <1>1, <2>1, EmptyQueue DEF Filed
<1> DEFINE D == {d \in SEMD : s_procQ[d] # <<>>}
           n == Cardinality(PCB)
<1>4. /\ n \in Nat /\ IsFiniteSet(PCB) /\ IsFiniteSet(SEMD) /\ Cardinality(SEMD) = n + 2
  BY <1>2, Table DEF MAXSEMDS, SemdsSound
<1>5. IsFiniteSet(D) /\ Cardinality(D) \in Nat
  <2>1. D \in SUBSET SEMD
    OBVIOUS
  <2> QED
    BY <1>4, <2>1, FS_Subset, FS_CardinalityType
<1>6. Cardinality(D) <= n - 1
  <2> DEFINE heads == [d \in D |-> Head(s_procQ[d])]
  <2>1. \A d \in D : s_procQ[d] \in Seq(PCB) /\ Head(s_procQ[d]) \in PCB /\ Head(s_procQ[d]) \in ToSet(s_procQ[d])
    BY <1>2, TailQueue DEF TypeOK
  <2>2. \A d \in D : Head(s_procQ[d]) # p
    BY <1>2, <2>1, InNoQueue
  <2>3. heads \in [D -> PCB \ {p}]
    BY <2>1, <2>2
  <2>4. \A d, e \in D : heads[d] = heads[e] => d = e
    BY <1>1, <2>1 DEF Queued
  <2> HIDE DEF heads, D
  <2>5. heads \in Injection(D, PCB \ {p})
    BY <2>3, <2>4 DEF Injection, IsInjective
  <2>6. IsFiniteSet(PCB \ {p}) /\ Cardinality(PCB \ {p}) = n - 1
    BY <1>4, FS_RemoveElement
  <2> HIDE DEF n
  <2>7. Cardinality(D) <= Cardinality(PCB \ {p})
    BY <2>5, <2>6, FS_Injection DEF ExistsInjection
  <2> QED
    BY <2>6, <2>7
<1>7. Cardinality(D) >= n
  <2>1. PICK x \in SEMD : x = list[1]
    BY <1>1, <1>3, NoMember, InQueue DEF Filed
  <2>2. PICK y \in SEMD : \A d \in SEMD : s_semAdd[d] = MAXINT => d = y
    <3>1. CASE \E d \in SEMD : s_semAdd[d] = MAXINT
      BY <1>1, <1>2, <1>3, <3>1, KeysDiffer
    <3>2. CASE ~ \E d \in SEMD : s_semAdd[d] = MAXINT
      BY <2>1, <3>2
    <3> QED
      BY <3>1, <3>2
  <2>3. \A d \in SEMD : s_semAdd[d] = 0 => d = x
    BY <1>1, <1>2, <1>3, <2>1, KeysDiffer DEF Filed
  <2>4. (SEMD \ {x}) \ {y} \subseteq D
    <3>1. \A d \in SEMD : d # x /\ d # y => s_semAdd[d] \in ADDRESS
      BY <1>2, <2>2, <2>3 DEF TypeOK
    <3> QED
      BY <1>1, <1>3, <3>1 DEF Queued
  <2> HIDE DEF D, n
  <2>5. IsFiniteSet(SEMD \ {x}) /\ Cardinality(SEMD \ {x}) = n + 1
    <3>1. IsFiniteSet(SEMD \ {x}) /\ Cardinality(SEMD \ {x}) = Cardinality(SEMD) - 1
      BY <1>4, <2>1, FS_RemoveElement
    <3> QED
      BY <1>4, <3>1
  <2>6. Cardinality((SEMD \ {x}) \ {y}) >= n
    <3>1. CASE y \in SEMD \ {x}
      <4>1. Cardinality((SEMD \ {x}) \ {y}) = Cardinality(SEMD \ {x}) - 1
        BY <2>5, <3>1, FS_RemoveElement
      <4> QED
        BY <1>4, <2>5, <4>1
    <3>2. CASE y \notin SEMD \ {x}
      <4>1. (SEMD \ {x}) \ {y} = SEMD \ {x}
        BY <3>2
      <4> QED
        BY <1>4, <2>5, <4>1
    <3> QED
      BY <3>1, <3>2
  <2>7. Cardinality((SEMD \ {x}) \ {y}) <= Cardinality(D) /\ Cardinality((SEMD \ {x}) \ {y}) \in Nat
    <3>1. (SEMD \ {x}) \ {y} \in SUBSET D
      BY <2>4
    <3> QED
      BY <1>5, <3>1, FS_Subset, FS_CardinalityType
  <2> QED
    BY <1>4, <1>5, <2>6, <2>7
<1> HIDE DEF D, n
<1> QED
  BY <1>4, <1>5, <1>6, <1>7

-----------------------------------------------------------------------------
(* Theorems                                                                *)

\* Under every sequence of calls of asl.c the pointers lead through two lists with
\* every descriptor in one of them, and the list of the active ones is sorted.
THEOREM AslInvariance == Spec => []Inv
<1>1. Inv /\ [Next]_vars => Inv'
  <2> SUFFICES ASSUME Inv, [Next]_vars
               PROVE  Inv'
    OBVIOUS
  <2>1. ASSUME UNCHANGED vars
        PROVE  Inv'
    <3>1. PICK list, free : Filed(list, free) /\ Queued(list)
      BY DEF Inv
    <3>2. Filed(list, free)' /\ Queued(list)' /\ TypeOK' /\ SemdsSound'
      BY <2>1, <3>1 DEF vars, Filed, Queued, TypeOK, SemdsSound, Inv
    <3> QED
      BY <3>2 DEF Inv
  <2>2. ASSUME NEW p \in PCB, clearSemAdd(p)
        PROVE  Inv'
    <3>1. PICK list, free : Filed(list, free) /\ Queued(list)
      BY DEF Inv
    <3>2. Filed(list, free)' /\ Queued(list)' /\ SemdsSound'
      BY <2>2, <3>1 DEF clearSemAdd, Filed, Queued, SemdsSound, Inv
    <3>3. TypeOK'
      BY <2>2 DEF clearSemAdd, TypeOK, Inv
    <3> QED
      BY <3>2, <3>3 DEF Inv
  <2>3. ASSUME NEW a \in ADDRESS, NEW p \in PCB, insertBlocked(a, p)
        PROVE  Inv'
    BY <2>1, <2>3, BlockStep
  <2>4. ASSUME NEW a \in ADDRESS, removeBlocked(a)
        PROVE  Inv'
    BY <2>4, WakeStep
  <2>5. ASSUME NEW p \in PCB, outBlocked(p)
        PROVE  Inv'
    BY <2>1, <2>5, TakeOutStep
  <2> QED
    BY <2>1, <2>2, <2>3, <2>4, <2>5 DEF Next
<1>2. Init => Inv
  BY Sound, FirstLists
<1> QED
  BY <1>1, <1>2, PTL DEF Spec

\* For any number of pcbs and semaphores the list stays sorted, and every descriptor
\* is in it or in the free list (asl.c:156-170, getSemd).
THEOREM StaysSorted == Spec => []SortedAndWhole
<1>1. Inv => SortedAndWhole
  <2> SUFFICES ASSUME Inv
               PROVE  SortedAndWhole
    OBVIOUS
  <2>1. PICK list, free : Filed(list, free)
    BY DEF Inv
  <2>2. List(semd_h) = list /\ List(semdFree_h) = free /\ DOMAIN list = 1 .. Len(list)
    BY <2>1, Read DEF Inv, Filed
  <2> QED
    BY <2>1, <2>2 DEF SortedAndWhole, Inv, Filed
<1> QED
  BY <1>1, AslInvariance, PTL

\* For any number of pcbs and semaphores, getSemd finds the descriptor of everyone
\* who waits, and insertBlocked finds a free one for everyone who does not
\* (asl.c:206-245).
THEOREM DescriptorsSuffice == Spec => []DescriptorForEveryone
<1>1. Inv => DescriptorForEveryone
  <2> SUFFICES ASSUME Inv
               PROVE  DescriptorForEveryone
    OBVIOUS
  <2>1. PICK list, free : Filed(list, free) /\ Queued(list)
    BY DEF Inv
  <2>2. List(semd_h) = list /\ ToSet(list) \subseteq SEMD
    BY <2>1, Read, MembersTyped DEF Inv, Filed
  <2>3. \A d \in ToSet(List(semd_h)) : s_semAdd[d] \in ADDRESS => s_procQ[d] # <<>>
    BY <2>1, <2>2 DEF Queued
  <2>4. ASSUME NEW d \in SEMD, s_procQ[d] # <<>>
        PROVE  getSemd(s_semAdd[d]).curr = d
    <3>1. d \in ToSet(list) /\ s_semAdd[d] \in ADDRESS
      BY <2>1, <2>4 DEF Queued
    <3>2. PICK a \in ADDRESS : a = s_semAdd[d]
      BY <3>1
    <3>3. Found(a)
      <4>1. Waiting(a) # <<>>
        BY <2>4, <3>2, WaitingIs DEF WaitingReads
      <4> QED
        BY <4>1, FoundWaits
    <3>4. PICK e \in SEMD : e = getSemd(a).curr
      BY <3>3, FoundWaits
    <3>5. s_semAdd[e] = a /\ e \in ToSet(list)
      BY <2>1, <3>3, <3>4, FoundWaits DEF Queued
    <3>6. e = d
      BY <2>1, <3>1, <3>2, <3>5, KeysDiffer DEF Inv
    <3> QED
      BY <3>2, <3>4, <3>6
  <2>5. (\E p \in PCB : \A d \in SEMD : ~Contains(s_procQ[d], p)) => semdFree_h # NULL
    BY OneLeft
  <2> QED
    BY <2>3, <2>4, <2>5 DEF DescriptorForEveryone
<1> QED
  BY <1>1, AslInvariance, PTL

\* For any number of pcbs and semaphores, the sorted list of descriptors implements
\* one FIFO queue per semaphore (asl.c:190-310).
THEOREM AslRefine == Spec => ImplementsSemQueues
<1> DEFINE W == [s \in ADDRESS |-> Waiting(s)]
<1>1. Init => Queues!Init
  <2> SUFFICES ASSUME Init
               PROVE  Queues!Init
    OBVIOUS
  <2>1. WaitingReads
    BY Sound, FirstLists, WaitingIs
  <2>2. \A d \in SEMD : s_procQ[d] = <<>>
    BY DEF Init, initASL
  <2>3. \A a \in ADDRESS : Waiting(a) = <<>>
    BY <2>1, <2>2 DEF WaitingReads
  <2> QED
    BY <2>3 DEF Queues!Init, Init
<1>2. ASSUME Inv, Inv', NEW a \in ADDRESS, NEW q, Requeued(a, q)
      PROVE  W' = [W EXCEPT ![a] = q]
  <2>1. PICK d \in SEMD : Change(a, d, q)
    BY <1>2 DEF Requeued
  <2>2. \A b \in ADDRESS : Waiting(b)' = IF b = a THEN q ELSE Waiting(b)
    BY <1>2, <2>1, ChangeWaits
  <2> QED
    BY <2>2
<1>3. ASSUME Inv, NEW p, \A d \in SEMD : ~Contains(s_procQ[d], p)
      PROVE  ~Queues!IsBlocked(p)
  <2>1. ASSUME NEW a \in ADDRESS, Queues!Contains(W[a], p)
        PROVE  FALSE
    <3>1. \A s : Queues!Contains(s, p) <=> Contains(s, p)
      BY DEF Queues!Contains, Contains
    <3>2. Contains(Waiting(a), p)
      BY <2>1, <3>1
    <3>3. Found(a)
      <4>1. Waiting(a) # <<>>
        <5>1. ~Contains(<<>>, p)
          BY DEF Contains
        <5> QED
          BY <3>2, <5>1
      <4> QED
        BY <1>3, <4>1, FoundWaits
    <3> QED
      BY <1>3, <3>2, <3>3, FoundWaits
  <2> QED
    BY <2>1 DEF Queues!IsBlocked
<1>4. ASSUME Inv, Inv', [Next]_vars
      PROVE  Queues!Next \/ UNCHANGED <<W, p_semAdd>>
  <2>1. ASSUME UNCHANGED vars
        PROVE  UNCHANGED <<W, p_semAdd>>
    BY <2>1 DEF vars, Waiting
  <2>2. ASSUME NEW a \in ADDRESS, NEW p \in PCB, insertBlocked(a, p)
        PROVE  Queues!Next \/ UNCHANGED vars
    <3>1. CASE UNCHANGED vars
      BY <3>1
    <3>2. CASE /\ Requeued(a, Append(Waiting(a), p))
               /\ p_semAdd' = [p_semAdd EXCEPT ![p] = a]
               /\ \A d \in SEMD : ~Contains(s_procQ[d], p)
      <4>1. W' = [W EXCEPT ![a] = Append(Waiting(a), p)]
        BY <1>2, <1>4, <3>2
      <4>2. ~Queues!IsBlocked(p)
        BY <1>3, <1>4, <3>2
      <4>3. W' = [W EXCEPT ![a] = Append(W[a], p)]
        BY <4>1
      <4>4. Queues!Block(a, p)
        BY <3>2, <4>2, <4>3 DEF Queues!Block
      <4> QED
        BY <4>4 DEF Queues!Next
    <3> QED
      BY <1>4, <2>2, <3>1, <3>2, BlockStep
  <2>3. ASSUME NEW a \in ADDRESS, removeBlocked(a)
        PROVE  Queues!Next
    <3>1. /\ Waiting(a) # <<>> /\ Requeued(a, Tail(Waiting(a)))
          /\ p_semAdd' = [p_semAdd EXCEPT ![Head(Waiting(a))] = NULL]
      BY <1>4, <2>3, WakeStep
    <3>2. W' = [W EXCEPT ![a] = Tail(Waiting(a))]
      BY <1>2, <1>4, <3>1
    <3>3. W[a] = Waiting(a)
      OBVIOUS
    <3>4. Queues!Wake(a)
      BY <3>1, <3>2, <3>3 DEF Queues!Wake
    <3> QED
      BY <3>4 DEF Queues!Next
  <2>4. ASSUME NEW p \in PCB, outBlocked(p)
        PROVE  Queues!Next \/ UNCHANGED vars
    <3>1. ASSUME NEW a \in ADDRESS, p_semAdd[p] = a, UNCHANGED p_semAdd,
                 Requeued(a, RemoveFirst(Waiting(a), p))
          PROVE  Queues!Next
      <4>1. \A s, x : Queues!RemoveFirst(s, x) = RemoveFirst(s, x)
        BY DEF Queues!RemoveFirst, RemoveFirst, Queues!RemoveAt, RemoveAt,
           Queues!SelectInSeq, SelectInSeq, Queues!Min, Min
      <4>2. W' = [W EXCEPT ![a] = RemoveFirst(Waiting(a), p)]
        BY <1>2, <1>4, <3>1
      <4>3. W' = [W EXCEPT ![p_semAdd[p]] = Queues!RemoveFirst(W[p_semAdd[p]], p)]
        BY <3>1, <4>1, <4>2
      <4>4. p_semAdd[p] # NULL
        BY <2>4 DEF outBlocked
      <4>5. Queues!TakeOut(p)
        BY <3>1, <4>3, <4>4 DEF Queues!TakeOut
      <4> QED
        BY <4>5 DEF Queues!Next
    <3> QED
      BY <1>4, <2>4, <3>1, TakeOutStep
  <2>5. ASSUME NEW p \in PCB, clearSemAdd(p)
        PROVE  Queues!Next
    <3>1. W' = W /\ p_semAdd' = [p_semAdd EXCEPT ![p] = NULL]
      BY <2>5 DEF clearSemAdd, Waiting
    <3>2. ~Queues!IsBlocked(p)
      BY <1>3, <1>4, <2>5 DEF clearSemAdd
    <3>3. Queues!Recycle(p)
      BY <3>1, <3>2 DEF Queues!Recycle
    <3> QED
      BY <3>3 DEF Queues!Next
  <2> HIDE DEF W
  <2> QED
    BY <1>4, <2>1, <2>2, <2>3, <2>4, <2>5 DEF Next
<1>5. Inv /\ Inv' /\ [Next]_vars => [Queues!Next]_<<W, p_semAdd>>
  BY <1>4
<1> QED
  BY <1>1, <1>5, AslInvariance, PTL DEF Spec, ImplementsSemQueues, Queues!Spec, W
=============================================================================
