----------------------------- MODULE PcbProofs -----------------------------
(***************************************************************************)
(* The pointers of pcb.c lead through sequences: around the queues, along  *)
(* the free list, and from a parent through its children.  Which ones, and *)
(* what each operation does to them.                                       *)
(***************************************************************************)
EXTENDS ProcQ, ProcTree, QueueLemmas

\* There are finitely many pcbs, at least one, and NULL is not one of them
\* (pcb.c:25, pcbFreeTable).
PcbsSound == IsFiniteSet(PCB) /\ PCB # {} /\ NULL \notin PCB

\* That is what is assumed of them (pcb.c:25, pcbFreeTable).
LEMMA Sound == PcbsSound
BY PcbAssumption DEF PcbsSound

-----------------------------------------------------------------------------
(* A circular queue                                                        *)

\* next and prev lead around the queue s in either direction, and t is its tail.
Circles(next, prev, t, s) ==
    /\ t = IF s = <<>> THEN NULL ELSE s[Len(s)]
    /\ \A i \in 1 .. Len(s) :
         /\ next[s[i]] = IF i = Len(s) THEN s[1] ELSE s[i + 1]
         /\ prev[s[i]] = IF i = 1 THEN s[Len(s)] ELSE s[i - 1]

\* A queue is left alone by stores to pcbs that are not in it.
LEMMA CirclesFrame ==
    ASSUME NEW next, NEW prev, NEW next2, NEW prev2, NEW t, NEW s \in Seq(PCB),
           Circles(next, prev, t, s),
           \A x \in ToSet(s) : next2[x] = next[x] /\ prev2[x] = prev[x]
    PROVE  Circles(next2, prev2, t, s)
<1>1. \A i \in 1 .. Len(s) : next2[s[i]] = next[s[i]] /\ prev2[s[i]] = prev[s[i]]
  BY InQueue
<1> QED
  BY <1>1 DEF Circles

\* mkEmptyProcQ.
LEMMA CirclesEmpty ==
    ASSUME NEW next, NEW prev
    PROVE  Circles(next, prev, NULL, <<>>)
BY DEF Circles

\* The only pcb of a queue points to itself.
LEMMA CirclesOne ==
    ASSUME NEW next, NEW prev, NEW p \in PCB, next[p] = p, prev[p] = p
    PROVE  Circles(next, prev, p, <<p>>)
<1>1. Len(<<p>>) = 1 /\ <<p>>[1] = p /\ <<p>> # <<>>
  OBVIOUS
<1> QED
  BY <1>1 DEF Circles

\* Every pcb of a queue has its two neighbours in it, the tail and the head are
\* neighbours, and only the pcb of a queue of one is its own.
LEMMA Neighbours ==
    ASSUME PcbsSound, NEW next, NEW prev, NEW t, NEW s \in Seq(PCB), IsInjective(s),
           Circles(next, prev, t, s)
    PROVE  /\ t = NULL <=> s = <<>>
           /\ s # <<>> => /\ t \in ToSet(s) /\ next[t] = s[1] /\ next[t] \in ToSet(s)
                          /\ prev[s[1]] = t
           /\ \A p \in ToSet(s) :
                /\ next[p] \in ToSet(s) /\ prev[p] \in ToSet(s)
                /\ prev[next[p]] = p /\ next[prev[p]] = p
                /\ next[p] = p <=> Len(s) = 1
                /\ prev[p] = p <=> Len(s) = 1
<1>1. Len(s) \in Nat /\ (s = <<>> <=> Len(s) = 0)
  BY NoMember
<1>2. \A i \in 1 .. Len(s) : s[i] \in ToSet(s) /\ s[i] \in PCB
  BY InQueue
<1>3. \A i, j \in 1 .. Len(s) : s[i] = s[j] => i = j
  BY <1>1 DEF IsInjective
<1>4. t = NULL <=> s = <<>>
  <2>1. s # <<>> => Len(s) \in 1 .. Len(s)
    BY <1>1
  <2> QED
    BY <1>2, <2>1 DEF Circles, PcbsSound
<1>5. ASSUME s # <<>>
      PROVE  /\ t \in ToSet(s) /\ next[t] = s[1] /\ next[t] \in ToSet(s)
             /\ prev[s[1]] = t
  <2>1. Len(s) \in 1 .. Len(s) /\ 1 \in 1 .. Len(s)
    BY <1>1, <1>5
  <2> QED
    BY <1>2, <1>5, <2>1 DEF Circles
<1>6. ASSUME NEW p \in ToSet(s)
      PROVE  /\ next[p] \in ToSet(s) /\ prev[p] \in ToSet(s)
             /\ prev[next[p]] = p /\ next[prev[p]] = p
             /\ next[p] = p <=> Len(s) = 1
             /\ prev[p] = p <=> Len(s) = 1
  <2>1. PICK i \in 1 .. Len(s) : s[i] = p
    BY InQueue
  <2>2. PICK n \in 1 .. Len(s) : (i = Len(s) /\ n = 1) \/ (i # Len(s) /\ n = i + 1)
    BY <1>1
  <2>3. PICK b \in 1 .. Len(s) : (i = 1 /\ b = Len(s)) \/ (i # 1 /\ b = i - 1)
    BY <1>1
  <2>4. (n = i <=> Len(s) = 1) /\ ((n = 1 /\ Len(s) = i) \/ (n # 1 /\ n - 1 = i))
    <3>1. \A L \in Nat : \A x, y \in 1 .. L :
             (x = L /\ y = 1) \/ (x # L /\ y = x + 1)
             => (y = x <=> L = 1) /\ ((y = 1 /\ L = x) \/ (y # 1 /\ y - 1 = x))
      OBVIOUS
    <3> QED
      BY <1>1, <2>2, <3>1, ZenonT(30)
  <2>5. (b = i <=> Len(s) = 1) /\ ((b = Len(s) /\ 1 = i) \/ (b # Len(s) /\ b + 1 = i))
    <3>1. \A L \in Nat : \A x, y \in 1 .. L :
             (x = 1 /\ y = L) \/ (x # 1 /\ y = x - 1)
             => (y = x <=> L = 1) /\ ((y = L /\ 1 = x) \/ (y # L /\ y + 1 = x))
      OBVIOUS
    <3> QED
      BY <1>1, <2>3, <3>1, ZenonT(30)
  <2>6. next[p] = s[n] /\ prev[p] = s[b]
    BY <2>1, <2>2, <2>3 DEF Circles
  <2>7. prev[s[n]] = p
    BY <2>1, <2>4 DEF Circles
  <2>8. next[s[b]] = p
    BY <2>1, <2>5 DEF Circles
  <2> QED
    BY <1>2, <1>3, <2>1, <2>4, <2>5, <2>6, <2>7, <2>8
<1> QED
  BY <1>4, <1>5, <1>6

\* insertProcQ on a queue that is not empty.
LEMMA CirclesAppend ==
    ASSUME NEW next, NEW prev, NEW next2, NEW prev2, NEW t, NEW s \in Seq(PCB), IsInjective(s),
           Circles(next, prev, t, s), s # <<>>, NEW p \in PCB, p \notin ToSet(s),
           \A x \in ToSet(s) : /\ next2[x] = IF x = t THEN p ELSE next[x]
                               /\ prev2[x] = IF x = s[1] THEN p ELSE prev[x],
           next2[p] = s[1], prev2[p] = t
    PROVE  Circles(next2, prev2, p, Append(s, p))
<1> DEFINE a == Append(s, p)
<1>1. Len(s) \in Nat /\ Len(s) > 0
  BY NoMember
<1>2. /\ Len(a) = Len(s) + 1 /\ a[Len(s) + 1] = p
      /\ \A i \in 1 .. Len(s) : a[i] = s[i]
      /\ a # <<>>
  OBVIOUS
<1>3. \A i, j \in 1 .. Len(s) : s[i] = s[j] => i = j
  BY <1>1 DEF IsInjective
<1>4. t = s[Len(s)] /\ 1 \in 1 .. Len(s) /\ Len(s) \in 1 .. Len(s)
  BY <1>1 DEF Circles
<1> HIDE DEF a
<1>5. ASSUME NEW i \in 1 .. Len(a)
      PROVE  /\ next2[a[i]] = IF i = Len(a) THEN a[1] ELSE a[i + 1]
             /\ prev2[a[i]] = IF i = 1 THEN a[Len(a)] ELSE a[i - 1]
  <2>1. CASE i = Len(a)
    <3>1. a[i] = p /\ a[1] = s[1] /\ i # 1 /\ i - 1 = Len(s)
      BY <1>1, <1>2, <1>4, <2>1
    <3> QED
      BY <1>2, <1>4, <2>1, <3>1
  <2>2. CASE i # Len(a)
    <3>1. i \in 1 .. Len(s) /\ a[i] = s[i] /\ s[i] \in ToSet(s)
      BY <1>1, <1>2, <2>2, InQueue
    <3>2. s[i] = t <=> i = Len(s)
      BY <1>3, <1>4, <3>1
    <3>3. s[i] = s[1] <=> i = 1
      BY <1>3, <1>4, <3>1
    <3>4. i # Len(s) => i + 1 \in 1 .. Len(s)
      BY <1>1, <3>1
    <3>5. i # 1 => i - 1 \in 1 .. Len(s)
      BY <1>1, <3>1
    <3>6. next2[a[i]] = IF i = Len(s) THEN p ELSE s[i + 1]
      BY <3>1, <3>2 DEF Circles
    <3>7. prev2[a[i]] = IF i = 1 THEN p ELSE s[i - 1]
      BY <3>1, <3>3 DEF Circles
    <3> QED
      BY <1>2, <2>2, <3>4, <3>5, <3>6, <3>7
  <2> QED
    BY <2>1, <2>2
<1> QED
  BY <1>1, <1>2, <1>5 DEF Circles, a

\* outProcQ, and removeProcQ for the first: pcb number k leaves a queue of more.
LEMMA CirclesOut ==
    ASSUME PcbsSound, NEW next, NEW prev, NEW next2, NEW prev2, NEW t,
           NEW s \in Seq(PCB), IsInjective(s),
           Circles(next, prev, t, s), Len(s) > 1, NEW k \in 1 .. Len(s),
           \A x \in ToSet(s) \ {s[k]} :
              /\ next2[x] = IF x = prev[s[k]] THEN next[s[k]] ELSE next[x]
              /\ prev2[x] = IF x = next[s[k]] THEN prev[s[k]] ELSE prev[x]
    PROVE  Circles(next2, prev2, IF t = s[k] THEN prev[s[k]] ELSE t, RemoveAt(s, k))
<1> DEFINE r == RemoveAt(s, k)
           p == s[k]
<1>1. Len(s) \in Nat /\ Len(s) > 1
  OBVIOUS
<1>2. /\ r \in Seq(PCB) /\ Len(r) = Len(s) - 1
      /\ \A i \in 1 .. Len(s) - 1 : r[i] = IF i < k THEN s[i] ELSE s[i + 1]
  BY RemoveAtQueue
<1>3. \A i, j \in 1 .. Len(s) : s[i] = s[j] => i = j
  BY <1>1 DEF IsInjective
<1>4. \A i \in 1 .. Len(s) : s[i] \in ToSet(s)
  BY InQueue
<1>5. r # <<>>
  <2>1. r = <<>> <=> Len(r) = 0
    BY <1>2, NoMember
  <2> QED
    BY <1>1, <1>2, <2>1
<1> HIDE DEF r, p
<1>6. next[p] = s[IF k = Len(s) THEN 1 ELSE k + 1] /\ prev[p] = s[IF k = 1 THEN Len(s) ELSE k - 1]
  BY DEF Circles, p
<1>7. (IF t = p THEN prev[p] ELSE t) = r[Len(r)]
  <2>1. t = s[Len(s)] /\ Len(s) \in 1 .. Len(s) /\ Len(r) \in 1 .. Len(s) - 1
    BY <1>1, <1>2, NoMember DEF Circles
  <2>2. CASE k = Len(s)
    <3>1. t = p /\ k # 1 /\ Len(r) < k /\ Len(r) = k - 1
      BY <1>1, <1>2, <2>1, <2>2 DEF p
    <3>2. r[Len(r)] = s[k - 1]
      BY <1>2, <2>1, <3>1
    <3> QED
      BY <1>6, <3>1, <3>2
  <2>3. CASE k # Len(s)
    <3>1. t # p /\ ~(Len(r) < k) /\ Len(r) + 1 = Len(s)
      BY <1>1, <1>2, <1>3, <2>1, <2>3 DEF p
    <3>2. r[Len(r)] = s[Len(s)]
      BY <1>2, <2>1, <3>1
    <3> QED
      BY <2>1, <3>1, <3>2
  <2> QED
    BY <2>2, <2>3
<1>8. ASSUME NEW i \in 1 .. Len(r)
      PROVE  /\ next2[r[i]] = IF i = Len(r) THEN r[1] ELSE r[i + 1]
             /\ prev2[r[i]] = IF i = 1 THEN r[Len(r)] ELSE r[i - 1]
  \* j is the place in s of the pcb at place i of r.
  <2>1. PICK j \in 1 .. Len(s) : (i < k /\ j = i) \/ (~(i < k) /\ j = i + 1)
    BY <1>1, <1>2
  <2>2. r[i] = s[j] /\ j # k /\ s[j] # p /\ s[j] \in ToSet(s) \ {p}
    BY <1>1, <1>2, <1>3, <1>4, <2>1 DEF p
  <2>3. next[s[j]] = (IF j = Len(s) THEN s[1] ELSE s[j + 1])
    BY DEF Circles
  <2>4. prev[s[j]] = (IF j = 1 THEN s[Len(s)] ELSE s[j - 1])
    BY DEF Circles
  <2>5. \A m \in 1 .. Len(s) - 1 : (m < k => r[m] = s[m]) /\ (~(m < k) => r[m] = s[m + 1])
    BY <1>2
  <2>6. next2[s[j]] = IF i = Len(r) THEN r[1] ELSE r[i + 1]
    <3>1. next2[s[j]] = IF s[j] = prev[p] THEN next[p] ELSE next[s[j]]
      BY <2>2 DEF p
    \* The place in s before k.
    <3>2. PICK b \in 1 .. Len(s) : /\ (k = 1 /\ b = Len(s)) \/ (k # 1 /\ b = k - 1)
                                   /\ prev[p] = s[b]
      BY <1>1, <1>6
    <3>3. s[j] = prev[p] <=> j = b
      BY <1>3, <3>2
    <3>4. CASE j = b
      <4>1. CASE k = Len(s)
        <5>1. i = Len(r) /\ next[p] = s[1] /\ 1 < k /\ 1 \in 1 .. Len(s) - 1
          BY <1>1, <1>2, <1>6, <2>1, <3>2, <3>4, <4>1
        <5> QED
          BY <2>5, <3>1, <3>3, <3>4, <5>1
      <4>2. CASE k # Len(s) /\ k = 1
        <5>1. i = Len(r) /\ ~(1 < k) /\ 1 \in 1 .. Len(s) - 1
          BY <1>1, <1>2, <2>1, <3>2, <3>4, <4>2
        <5>2. r[1] = s[k + 1]
          BY <2>5, <4>2, <5>1
        <5> QED
          BY <1>6, <3>1, <3>3, <3>4, <4>2, <5>1, <5>2
      <4>3. CASE k # Len(s) /\ k # 1
        <5>1. /\ i # Len(r) /\ ~(i + 1 < k) /\ i + 1 \in 1 .. Len(s) - 1
              /\ k + 1 = (i + 1) + 1
          BY <1>1, <1>2, <2>1, <3>2, <3>4, <4>3
        <5>2. r[i + 1] = s[k + 1]
          BY <2>5, <5>1
        <5> QED
          BY <1>6, <3>1, <3>3, <3>4, <4>3, <5>1, <5>2
      <4> QED
        BY <4>1, <4>2, <4>3
    <3>5. CASE j # b
      <4>1. CASE j = Len(s)
        <5>1. i = Len(r) /\ 1 < k /\ 1 \in 1 .. Len(s) - 1
          BY <1>1, <1>2, <2>1, <2>2, <3>2, <3>5, <4>1
        <5> QED
          BY <2>3, <2>5, <3>1, <3>3, <3>5, <4>1, <5>1
      <4>2. CASE j # Len(s)
        <5>1. /\ i # Len(r) /\ i + 1 \in 1 .. Len(s) - 1
              /\ (i + 1 < k /\ j + 1 = i + 1) \/ (~(i + 1 < k) /\ j + 1 = (i + 1) + 1)
          BY <1>1, <1>2, <2>1, <2>2, <3>2, <3>5, <4>2
        <5>2. r[i + 1] = s[j + 1]
          BY <2>5, <5>1
        <5> QED
          BY <2>3, <3>1, <3>3, <3>5, <4>2, <5>1, <5>2
      <4> QED
        BY <4>1, <4>2
    <3> QED
      BY <3>4, <3>5
  <2>7. prev2[s[j]] = IF i = 1 THEN r[Len(r)] ELSE r[i - 1]
    <3>1. prev2[s[j]] = IF s[j] = next[p] THEN prev[p] ELSE prev[s[j]]
      BY <2>2 DEF p
    \* The place in s after k.
    <3>2. PICK n \in 1 .. Len(s) : /\ (k = Len(s) /\ n = 1) \/ (k # Len(s) /\ n = k + 1)
                                   /\ next[p] = s[n]
      BY <1>1, <1>6
    <3>3. s[j] = next[p] <=> j = n
      BY <1>3, <3>2
    <3>4. CASE j = n
      <4>1. CASE k = Len(s)
        <5>1. /\ i = 1 /\ prev[p] = s[Len(s) - 1] /\ Len(r) < k
              /\ Len(r) \in 1 .. Len(s) - 1 /\ Len(r) = Len(s) - 1
          BY <1>1, <1>2, <1>6, <2>1, <3>2, <3>4, <4>1
        <5> QED
          BY <2>5, <3>1, <3>3, <3>4, <5>1
      <4>2. CASE k # Len(s) /\ k = 1
        <5>1. /\ i = 1 /\ prev[p] = s[Len(s)] /\ ~(Len(r) < k)
              /\ Len(r) \in 1 .. Len(s) - 1 /\ Len(r) + 1 = Len(s)
          BY <1>1, <1>2, <1>6, <2>1, <3>2, <3>4, <4>2
        <5> QED
          BY <2>5, <3>1, <3>3, <3>4, <5>1
      <4>3. CASE k # Len(s) /\ k # 1
        <5>1. i # 1 /\ prev[p] = s[i - 1] /\ i - 1 < k /\ i - 1 \in 1 .. Len(s) - 1
          BY <1>1, <1>2, <1>6, <2>1, <3>2, <3>4, <4>3
        <5> QED
          BY <2>5, <3>1, <3>3, <3>4, <5>1
      <4> QED
        BY <4>1, <4>2, <4>3
    <3>5. CASE j # n
      <4>1. CASE j = 1
        <5>1. /\ i = 1 /\ ~(Len(r) < k) /\ Len(r) \in 1 .. Len(s) - 1 /\ Len(r) + 1 = Len(s)
          BY <1>1, <1>2, <2>1, <2>2, <3>2, <3>5, <4>1
        <5> QED
          BY <2>4, <2>5, <3>1, <3>3, <3>5, <4>1, <5>1
      <4>2. CASE j # 1
        <5>1. /\ i # 1 /\ i - 1 \in 1 .. Len(s) - 1
              /\ (i - 1 < k /\ j - 1 = i - 1) \/ (~(i - 1 < k) /\ j - 1 = (i - 1) + 1)
          BY <1>1, <1>2, <2>1, <2>2, <3>2, <3>5, <4>2
        <5>2. r[i - 1] = s[j - 1]
          BY <2>5, <5>1
        <5> QED
          BY <2>4, <3>1, <3>3, <3>5, <4>2, <5>1, <5>2
      <4> QED
        BY <4>1, <4>2
    <3> QED
      BY <3>4, <3>5
  <2> QED
    BY <2>2, <2>6, <2>7
<1> QED
  BY <1>5, <1>7, <1>8 DEF Circles, r, p

-----------------------------------------------------------------------------
(* What is in memory                                                       *)

\* fr and qs and the held pcbs share no pcb and have them all.
Apart(fr, qs) ==
    /\ fr \in Seq(PCB) /\ IsInjective(fr)
    /\ qs \in [QUEUE -> Seq(PCB)]
    /\ \A q \in QUEUE : IsInjective(qs[q])
    /\ held \subseteq PCB
    /\ \A p \in PCB : p \in held \/ p \in ToSet(fr) \/ \E q \in QUEUE : p \in ToSet(qs[q])
    /\ \A p \in held : p \notin ToSet(fr) /\ \A q \in QUEUE : p \notin ToSet(qs[q])
    /\ \A q \in QUEUE : ToSet(fr) \cap ToSet(qs[q]) = {}
    /\ \A q, r \in QUEUE : q # r => ToSet(qs[q]) \cap ToSet(qs[r]) = {}

\* The pointers lead through fr from the head of the free list, and around qs[q]
\* from the tail of each queue q.
Lead(fr, qs) ==
    /\ Leads(p_next, NULL, pcbFree_h, fr)
    /\ \A q \in QUEUE : Circles(p_next, p_prev, tp[q], qs[q])

ListsInv == PcbsSound /\ ListsTypeOK /\ \E fr, qs : Apart(fr, qs) /\ Lead(fr, qs)

\* What the pointers lead through is what is read from memory.
LEMMA Read ==
    \A fr, qs : PcbsSound /\ ListsTypeOK /\ Apart(fr, qs) /\ Lead(fr, qs)
                => FreeList = fr /\ qs = [q \in QUEUE |-> ProcQueue(q)]
<1> SUFFICES ASSUME NEW fr, NEW qs, PcbsSound, ListsTypeOK, Apart(fr, qs), Lead(fr, qs)
             PROVE  FreeList = fr /\ \A q \in QUEUE : ProcQueue(q) = qs[q]
  BY DEF Apart
<1>1. ASSUME NEW s \in Seq(PCB), IsInjective(s)
      PROVE  Len(s) <= MAXPROC
  BY <1>1, QueueFits DEF PcbsSound, MAXPROC
<1>2. MAXPROC \in Nat
  BY FS_CardinalityType DEF PcbsSound, MAXPROC
<1>3. NULL \notin PCB
  BY DEF PcbsSound
<1>4. FreeList = fr
  <2> DEFINE f == [p \in PCB |-> IF p = NULL THEN NULL ELSE p_next[p]]
  <2>1. fr \in Seq(PCB) /\ Len(fr) <= MAXPROC
    BY <1>1 DEF Apart
  <2>2. \A i \in 1 .. Len(fr) : f[fr[i]] = IF i = Len(fr) THEN NULL ELSE fr[i + 1]
    BY <1>3, <2>1 DEF Lead, Leads
  <2>3. pcbFree_h = IF fr = <<>> THEN NULL ELSE fr[1]
    BY DEF Lead, Leads
  <2> HIDE DEF f
  <2>4. Chain(f, pcbFree_h, NULL, MAXPROC) = fr
    BY <1>2, <1>3, <2>1, <2>2, <2>3, ChainIs
  <2> QED
    BY <2>4 DEF FreeList, Walk, f
<1>5. ASSUME NEW q \in QUEUE
      PROVE  ProcQueue(q) = qs[q]
  <2> DEFINE s == qs[q]
             f == [p \in PCB |-> IF p = tp[q] THEN NULL ELSE p_next[p]]
  <2>1. s \in Seq(PCB) /\ IsInjective(s) /\ Len(s) <= MAXPROC /\ Len(s) \in Nat
    BY <1>1 DEF Apart
  <2>2. Circles(p_next, p_prev, tp[q], s)
    BY DEF Lead
  <2> HIDE DEF s
  <2>3. headProcQ(q) = IF s = <<>> THEN NULL ELSE s[1]
    BY <2>1, <2>2, Neighbours DEF headProcQ
  <2>4. ASSUME NEW i \in 1 .. Len(s)
        PROVE  f[s[i]] = IF i = Len(s) THEN NULL ELSE s[i + 1]
    <3>1. s # <<>> /\ Len(s) \in 1 .. Len(s)
      BY <2>1
    <3>2. s[i] \in PCB /\ s[Len(s)] \in PCB /\ tp[q] = s[Len(s)]
      BY <2>1, <2>2, <3>1 DEF Circles
    <3>3. s[i] = s[Len(s)] <=> i = Len(s)
      BY <2>1, <3>1 DEF IsInjective
    <3>4. i # Len(s) => p_next[s[i]] = s[i + 1]
      BY <2>2 DEF Circles
    <3> QED
      BY <3>2, <3>3, <3>4
  <2> HIDE DEF f
  <2>5. Chain(f, headProcQ(q), NULL, MAXPROC) = s
    BY <1>2, <1>3, <2>1, <2>3, <2>4, ChainIs
  <2> QED
    BY <2>5 DEF ProcQueue, Walk, f, s
<1> QED
  BY <1>4, <1>5

\* It is so after a step, too.
LEMMA ReadNext ==
    \A fr, qs : PcbsSound /\ ListsTypeOK' /\ Apart(fr, qs)' /\ Lead(fr, qs)'
                => FreeList' = fr /\ qs = [q \in QUEUE |-> ProcQueue(q)]'
<1>1. (\A fr, qs : PcbsSound /\ ListsTypeOK /\ Apart(fr, qs) /\ Lead(fr, qs)
                   => FreeList = fr /\ qs = [q \in QUEUE |-> ProcQueue(q)])'
  BY Read, PTL
<1> QED
  BY <1>1

-----------------------------------------------------------------------------
(* The operations                                                          *)

\* allocPcb takes the head of the free list.
LEMMA AllocStep ==
    ASSUME PcbsSound, ListsTypeOK, NEW fr, NEW qs, Apart(fr, qs), Lead(fr, qs), allocPcb
    PROVE  fr # <<>> /\ ListsTypeOK' /\ Apart(Tail(fr), qs)' /\ Lead(Tail(fr), qs)'
<1> DEFINE h == pcbFree_h
<1>1. fr \in Seq(PCB) /\ IsInjective(fr) /\ NULL \notin PCB
  BY DEF Apart, PcbsSound
<1>2. Leads(p_next, NULL, h, fr) /\ h # NULL
  BY DEF Lead, allocPcb
<1>3. fr # <<>> /\ h = Head(fr) /\ Leads(p_next, NULL, p_next[h], Tail(fr))
  BY <1>1, <1>2, LeadsTail
<1>4. /\ h \in PCB /\ h \in ToSet(fr) /\ Tail(fr) \in Seq(PCB)
      /\ ToSet(Tail(fr)) = ToSet(fr) \ {h} /\ IsInjective(Tail(fr))
  BY <1>1, <1>3, TailQueue
<1>5. /\ p_next' = [p_next EXCEPT ![h] = NULL] /\ p_prev' = [p_prev EXCEPT ![h] = NULL]
      /\ held' = held \cup {h} /\ tp' = tp /\ pcbFree_h' = p_next[h]
  BY DEF allocPcb
<1>6. \A x \in PCB : x # h => p_next'[x] = p_next[x] /\ p_prev'[x] = p_prev[x]
  BY <1>5 DEF ListsTypeOK
<1>7. ListsTypeOK'
  BY <1>4, <1>5 DEF ListsTypeOK, Pointer
<1> HIDE DEF h
<1>8. Leads(p_next', NULL, pcbFree_h', Tail(fr))
  <2>1. \A x \in ToSet(Tail(fr)) : p_next'[x] = p_next[x]
    BY <1>1, <1>4, <1>6, MembersTyped
  <2> QED
    BY <1>3, <1>4, <1>5, <2>1, LeadsFrame
<1>9. ASSUME NEW q \in QUEUE
      PROVE  Circles(p_next', p_prev', tp'[q], qs[q])
  <2>1. qs[q] \in Seq(PCB) /\ Circles(p_next, p_prev, tp[q], qs[q]) /\ h \notin ToSet(qs[q])
    BY <1>4 DEF Apart, Lead
  <2>2. \A x \in ToSet(qs[q]) : p_next'[x] = p_next[x] /\ p_prev'[x] = p_prev[x]
    BY <1>6, <2>1, MembersTyped
  <2>3. Circles(p_next', p_prev', tp[q], qs[q])
    BY <2>1, <2>2, CirclesFrame
  <2> QED
    BY <1>5, <2>3
<1>10. Apart(Tail(fr), qs)'
  BY <1>4, <1>5 DEF Apart
<1> QED
  BY <1>3, <1>7, <1>8, <1>9, <1>10 DEF Lead

\* freePcb puts a pcb in front of the free list.
LEMMA FreeStep ==
    ASSUME PcbsSound, ListsTypeOK, NEW fr, NEW qs, Apart(fr, qs), Lead(fr, qs),
           NEW p \in PCB, freePcb(p)
    PROVE  ListsTypeOK' /\ Apart(<<p>> \o fr, qs)' /\ Lead(<<p>> \o fr, qs)'
<1> DEFINE c == <<p>> \o fr
<1>1. fr \in Seq(PCB) /\ IsInjective(fr) /\ NULL \notin PCB
  BY DEF Apart, PcbsSound
<1>2. p \in held /\ p \notin ToSet(fr) /\ \A q \in QUEUE : p \notin ToSet(qs[q])
  BY DEF freePcb, Apart
<1>3. c \in Seq(PCB) /\ ToSet(c) = ToSet(fr) \cup {p} /\ IsInjective(c)
  BY <1>1, <1>2, ConsQueue
<1>4. Leads(p_next, NULL, pcbFree_h, fr)
  BY DEF Lead
<1>5. pcbFree_h = NULL \/ pcbFree_h \in ToSet(fr)
  BY <1>1, <1>4, LeadsTail, TailQueue
<1>6. /\ p_next' = [p_next EXCEPT ![p] = pcbFree_h]
      /\ held' = held \ {p} /\ tp' = tp /\ pcbFree_h' = p
  BY DEF freePcb
<1>7. /\ \A x \in PCB : x # p => p_next'[x] = p_next[x]
      /\ p_next'[p] = pcbFree_h
  BY <1>6 DEF ListsTypeOK
<1>8. p_prev' \in [PCB -> Pointer] /\ \A x \in PCB : x # p /\ x # pcbFree_h => p_prev'[x] = p_prev[x]
  BY DEF freePcb, ListsTypeOK, Pointer
<1>9. ListsTypeOK'
  BY <1>6, <1>8 DEF ListsTypeOK, Pointer
<1>10. Leads(p_next', NULL, p, c)
  <2>1. \A x \in ToSet(fr) : p_next'[x] = p_next[x]
    BY <1>1, <1>2, <1>7, MembersTyped
  <2>2. Leads(p_next', NULL, pcbFree_h, fr)
    BY <1>1, <1>4, <2>1, LeadsFrame
  <2> QED
    BY <1>1, <1>7, <2>2, LeadsCons
<1>11. ASSUME NEW q \in QUEUE
       PROVE  Circles(p_next', p_prev', tp'[q], qs[q])
  <2>1. qs[q] \in Seq(PCB) /\ Circles(p_next, p_prev, tp[q], qs[q])
    BY DEF Apart, Lead
  <2>2. \A x \in ToSet(qs[q]) : x \in PCB /\ x # p /\ x # pcbFree_h
    BY <1>1, <1>2, <1>5, <2>1, MembersTyped DEF Apart
  <2>3. \A x \in ToSet(qs[q]) : p_next'[x] = p_next[x] /\ p_prev'[x] = p_prev[x]
    BY <1>7, <1>8, <2>2
  <2>4. Circles(p_next', p_prev', tp[q], qs[q])
    BY <2>1, <2>3, CirclesFrame
  <2> QED
    BY <1>6, <2>4
<1> HIDE DEF c
<1>12. Apart(c, qs)'
  BY <1>2, <1>3, <1>6 DEF Apart
<1> QED
  BY <1>6, <1>9, <1>10, <1>11, <1>12 DEF Lead, c

\* The queue of q is replaced by s, with the pcbs gained from those held, or lost
\* to them; the other lists stay as they are.
LEMMA QueueStep ==
    ASSUME PcbsSound, ListsTypeOK, NEW fr, NEW qs, Apart(fr, qs), Lead(fr, qs),
           NEW q \in QUEUE, NEW s \in Seq(PCB), IsInjective(s),
           ListsTypeOK', pcbFree_h' = pcbFree_h,
           ToSet(s) \cup held' = ToSet(qs[q]) \cup held, ToSet(s) \cap held' = {},
           \A r \in QUEUE : r # q => tp'[r] = tp[r],
           \A x \in PCB : x \notin ToSet(qs[q]) \cup held
                          => p_next'[x] = p_next[x] /\ p_prev'[x] = p_prev[x],
           Circles(p_next', p_prev', tp'[q], s)
    PROVE  Apart(fr, [qs EXCEPT ![q] = s])' /\ Lead(fr, [qs EXCEPT ![q] = s])'
<1> DEFINE qt == [qs EXCEPT ![q] = s]
<1>1. qt \in [QUEUE -> Seq(PCB)] /\ qt[q] = s /\ \A r \in QUEUE : r # q => qt[r] = qs[r]
  BY DEF Apart
<1> HIDE DEF qt
<1>2. \A x : x \in ToSet(s) \/ x \in held' <=> x \in ToSet(qs[q]) \/ x \in held
  OBVIOUS
<1>3. \A x \in ToSet(fr) : x \in PCB /\ x \notin ToSet(qs[q]) /\ x \notin held
  BY MembersTyped DEF Apart
<1>4. \A r \in QUEUE : r # q => \A x \in ToSet(qs[r]) : x \in PCB /\ x \notin ToSet(qs[q]) /\ x \notin held
  BY MembersTyped DEF Apart
<1>5. Apart(fr, qt)'
  <2>1. fr \in Seq(PCB) /\ IsInjective(fr) /\ \A r \in QUEUE : IsInjective(qt[r])
    BY <1>1 DEF Apart
  <2>2. held' \subseteq PCB
    BY DEF ListsTypeOK
  <2>3. ASSUME NEW p \in PCB
        PROVE  p \in held' \/ p \in ToSet(fr) \/ \E r \in QUEUE : p \in ToSet(qt[r])
    <3>1. CASE p \in held \/ p \in ToSet(qs[q])
      BY <1>1, <1>2, <3>1
    <3>2. CASE p \in ToSet(fr)
      BY <3>2
    <3>3. CASE \E r \in QUEUE : r # q /\ p \in ToSet(qs[r])
      BY <1>1, <3>3
    <3> QED
      BY <3>1, <3>2, <3>3 DEF Apart
  <2>4. \A p \in held' : p \notin ToSet(fr) /\ \A r \in QUEUE : p \notin ToSet(qt[r])
    BY <1>1, <1>2, <1>3, <1>4
  <2>5. \A r \in QUEUE : ToSet(fr) \cap ToSet(qt[r]) = {}
    BY <1>1, <1>2, <1>3 DEF Apart
  <2>6. ASSUME NEW r \in QUEUE, NEW v \in QUEUE, r # v
        PROVE  ToSet(qt[r]) \cap ToSet(qt[v]) = {}
    <3>1. CASE r = q
      BY <1>1, <1>2, <1>4, <2>6, <3>1
    <3>2. CASE v = q
      BY <1>1, <1>2, <1>4, <2>6, <3>2
    <3>3. CASE r # q /\ v # q
      BY <1>1, <2>6, <3>3 DEF Apart
    <3> QED
      BY <3>1, <3>2, <3>3
  <2> QED
    BY <1>1, <2>1, <2>2, <2>3, <2>4, <2>5, <2>6 DEF Apart
<1>6. Leads(p_next', NULL, pcbFree_h', fr)
  <2>1. \A x \in ToSet(fr) : p_next'[x] = p_next[x]
    BY <1>3
  <2>2. Leads(p_next, NULL, pcbFree_h, fr) /\ fr \in Seq(PCB)
    BY DEF Lead, Apart
  <2> QED
    BY <2>1, <2>2, LeadsFrame
<1>7. ASSUME NEW r \in QUEUE
      PROVE  Circles(p_next', p_prev', tp'[r], qt[r])
  <2>1. CASE r = q
    BY <1>1, <2>1
  <2>2. CASE r # q
    <3>1. \A x \in ToSet(qs[r]) : p_next'[x] = p_next[x] /\ p_prev'[x] = p_prev[x]
      BY <1>4, <2>2
    <3>2. qs[r] \in Seq(PCB) /\ Circles(p_next, p_prev, tp[r], qs[r])
      BY DEF Apart, Lead
    <3> QED
      BY <1>1, <2>2, <3>1, <3>2, CirclesFrame
  <2> QED
    BY <2>1, <2>2
<1> QED
  BY <1>5, <1>6, <1>7 DEF Lead, qt

\* insertProcQ appends to the queue.
LEMMA InsertStep ==
    ASSUME PcbsSound, ListsTypeOK, NEW fr, NEW qs, Apart(fr, qs), Lead(fr, qs),
           NEW q \in QUEUE, NEW p \in PCB, insertProcQ(q, p)
    PROVE  /\ ListsTypeOK'
           /\ Apart(fr, [qs EXCEPT ![q] = Append(@, p)])'
           /\ Lead(fr, [qs EXCEPT ![q] = Append(@, p)])'
<1> DEFINE s == qs[q]
<1>1. s \in Seq(PCB) /\ IsInjective(s) /\ Circles(p_next, p_prev, tp[q], s)
  BY DEF Apart, Lead
<1>2. p \in held /\ p \notin ToSet(s) /\ ToSet(s) \cap held = {} /\ ToSet(s) \subseteq PCB
  BY <1>1, MembersTyped DEF insertProcQ, Apart
<1>3. /\ Append(s, p) \in Seq(PCB) /\ IsInjective(Append(s, p))
      /\ ToSet(Append(s, p)) = ToSet(s) \cup {p}
  BY <1>1, <1>2, AppendQueue
<1>4. /\ tp[q] = NULL <=> s = <<>>
      /\ s # <<>> => tp[q] \in ToSet(s) /\ p_next[tp[q]] = s[1] /\ s[1] \in ToSet(s)
  BY <1>1, Neighbours
<1>5. tp' = [tp EXCEPT ![q] = p] /\ held' = held \ {p} /\ pcbFree_h' = pcbFree_h
  BY DEF insertProcQ, tailAfterInsert
<1> HIDE DEF s
<1>6. /\ p_next' \in [PCB -> Pointer] /\ p_prev' \in [PCB -> Pointer]
      /\ \A x \in PCB : x \notin ToSet(s) \cup held
                        => p_next'[x] = p_next[x] /\ p_prev'[x] = p_prev[x]
      /\ Circles(p_next', p_prev', p, Append(s, p))
  <2>1. CASE s = <<>>
    <3>1. p_next' = [p_next EXCEPT ![p] = p] /\ p_prev' = [p_prev EXCEPT ![p] = p]
      BY <1>4, <2>1 DEF insertProcQ
    <3>2. /\ p_next' \in [PCB -> Pointer] /\ p_prev' \in [PCB -> Pointer]
          /\ p_next'[p] = p /\ p_prev'[p] = p
          /\ \A x \in PCB : x # p => p_next'[x] = p_next[x] /\ p_prev'[x] = p_prev[x]
      BY <3>1 DEF ListsTypeOK, Pointer
    <3>3. Append(s, p) = <<p>>
      BY <2>1
    <3>4. Circles(p_next', p_prev', p, <<p>>)
      BY <3>2, CirclesOne
    <3> QED
      BY <1>2, <3>2, <3>3, <3>4
  <2>2. CASE s # <<>>
    <3>1. /\ p_next' = [p_next EXCEPT ![tp[q]] = p, ![p] = s[1]]
          /\ p_prev' = [p_prev EXCEPT ![p] = tp[q], ![s[1]] = p]
      BY <1>4, <2>2 DEF insertProcQ, linkBack, headProcQ
    <3>2. tp[q] \in PCB /\ s[1] \in PCB /\ tp[q] # p /\ s[1] # p
      BY <1>2, <1>4, <2>2
    <3>3. p_next' \in [PCB -> Pointer] /\ p_prev' \in [PCB -> Pointer]
      BY <3>1, <3>2 DEF ListsTypeOK, Pointer
    <3>4. /\ p_next'[p] = s[1] /\ p_prev'[p] = tp[q]
          /\ \A x \in PCB : x # p => /\ p_next'[x] = IF x = tp[q] THEN p ELSE p_next[x]
                                     /\ p_prev'[x] = IF x = s[1] THEN p ELSE p_prev[x]
      BY <3>1, <3>2 DEF ListsTypeOK
    <3>5. Circles(p_next', p_prev', p, Append(s, p))
      <4>1. \A x \in ToSet(s) : /\ p_next'[x] = IF x = tp[q] THEN p ELSE p_next[x]
                                /\ p_prev'[x] = IF x = s[1] THEN p ELSE p_prev[x]
        BY <1>2, <3>4
      <4> QED
        BY <1>1, <1>2, <2>2, <3>4, <4>1, CirclesAppend
    <3>6. \A x \in PCB : x \notin ToSet(s) \cup held
                         => p_next'[x] = p_next[x] /\ p_prev'[x] = p_prev[x]
      BY <1>2, <1>4, <2>2, <3>4
    <3> QED
      BY <3>3, <3>5, <3>6
  <2> QED
    BY <2>1, <2>2
<1>7. ListsTypeOK'
  BY <1>5, <1>6 DEF ListsTypeOK, Pointer
<1>8. /\ \A r \in QUEUE : r # q => tp'[r] = tp[r]
      /\ Circles(p_next', p_prev', tp'[q], Append(s, p))
  BY <1>5, <1>6 DEF ListsTypeOK
<1>9. ToSet(Append(s, p)) \cup held' = ToSet(s) \cup held /\ ToSet(Append(s, p)) \cap held' = {}
  BY <1>2, <1>3, <1>5
<1>10. /\ Apart(fr, [qs EXCEPT ![q] = Append(s, p)])'
       /\ Lead(fr, [qs EXCEPT ![q] = Append(s, p)])'
  <2> DEFINE a == Append(s, p)
  <2>1. /\ a \in Seq(PCB) /\ IsInjective(a)
        /\ ToSet(a) \cup held' = ToSet(qs[q]) \cup held /\ ToSet(a) \cap held' = {}
        /\ Circles(p_next', p_prev', tp'[q], a)
        /\ \A x \in PCB : x \notin ToSet(qs[q]) \cup held
                          => p_next'[x] = p_next[x] /\ p_prev'[x] = p_prev[x]
    BY <1>3, <1>6, <1>8, <1>9 DEF s
  <2> HIDE DEF a
  <2> QED
    BY <1>5, <1>7, <1>8, <2>1, QueueStep DEF a
<1> QED
  BY <1>7, <1>10 DEF s

\* What outProcQ and removeProcQ do when p is taken out of the queue.
Unlink(q, p) ==
    /\ IF p_next[p] = p
       THEN /\ tp' = [tp EXCEPT ![q] = NULL]
            /\ p_next' = [p_next EXCEPT ![p] = NULL]
            /\ p_prev' = [p_prev EXCEPT ![p] = NULL]
       ELSE /\ p_next' = [p_next EXCEPT ![p_prev[p]] = p_next[p], ![p] = NULL]
            /\ p_prev' = [p_prev EXCEPT ![p_next[p]] = p_prev[p], ![p] = NULL]
            /\ tp' = [tp EXCEPT ![q] = tailAfterOut(q, p)]
    /\ held' = held \cup {p}
    /\ UNCHANGED pcbFree_h

\* Pcb number k leaves the queue.
LEMMA UnlinkStep ==
    ASSUME PcbsSound, ListsTypeOK, NEW fr, NEW qs, Apart(fr, qs), Lead(fr, qs),
           NEW q \in QUEUE, NEW k \in 1 .. Len(qs[q]), Unlink(q, qs[q][k])
    PROVE  /\ ListsTypeOK'
           /\ Apart(fr, [qs EXCEPT ![q] = RemoveAt(@, k)])'
           /\ Lead(fr, [qs EXCEPT ![q] = RemoveAt(@, k)])'
<1> DEFINE s == qs[q]
           p == s[k]
           r == RemoveAt(s, k)
<1>1. s \in Seq(PCB) /\ IsInjective(s) /\ Circles(p_next, p_prev, tp[q], s)
  BY DEF Apart, Lead
<1>2. Len(s) \in Nat /\ k \in 1 .. Len(s) /\ p \in ToSet(s)
  BY <1>1, InQueue
<1>3. ToSet(s) \subseteq PCB /\ ToSet(s) \cap held = {}
  BY <1>1, MembersTyped DEF Apart
<1>4. r \in Seq(PCB) /\ Len(r) = Len(s) - 1 /\ ToSet(r) = ToSet(s) \ {p} /\ IsInjective(r)
  BY <1>1, RemoveAtQueue, OutQueue
<1>5. /\ p_next[p] \in ToSet(s) /\ p_prev[p] \in ToSet(s)
      /\ p_next[p] = p <=> Len(s) = 1
      /\ p_prev[p] = p <=> Len(s) = 1
  BY <1>1, <1>2, Neighbours
<1>6. held' = held \cup {p} /\ pcbFree_h' = pcbFree_h
  BY DEF Unlink
<1> SUFFICES /\ p_next' \in [PCB -> Pointer] /\ p_prev' \in [PCB -> Pointer] /\ tp' \in [QUEUE -> Pointer]
             /\ \A v \in QUEUE : v # q => tp'[v] = tp[v]
             /\ \A x \in PCB : x \notin ToSet(s)
                               => p_next'[x] = p_next[x] /\ p_prev'[x] = p_prev[x]
             /\ Circles(p_next', p_prev', tp'[q], r)
  <2>1. ListsTypeOK'
    BY <1>2, <1>3, <1>6 DEF ListsTypeOK
  <2>2. ToSet(r) \cup held' = ToSet(qs[q]) \cup held /\ ToSet(r) \cap held' = {}
    BY <1>2, <1>3, <1>4, <1>6
  <2> HIDE DEF r
  <2>3. Apart(fr, [qs EXCEPT ![q] = r])' /\ Lead(fr, [qs EXCEPT ![q] = r])'
    BY <1>4, <1>6, <2>1, <2>2, QueueStep
  <2> QED
    BY <2>1, <2>3 DEF r
<1>7. Unlink(q, p)
  OBVIOUS
<1> HIDE DEF s, p, r
<1>8. CASE Len(s) = 1
  <2>1. /\ tp' = [tp EXCEPT ![q] = NULL]
        /\ p_next' = [p_next EXCEPT ![p] = NULL] /\ p_prev' = [p_prev EXCEPT ![p] = NULL]
    BY <1>5, <1>7, <1>8 DEF Unlink
  <2>2. r = <<>>
    <3>1. Len(r) = 0
      BY <1>4, <1>8
    <3> QED
      BY <1>4, <3>1, NoMember
  <2>3. /\ p_next' \in [PCB -> Pointer] /\ p_prev' \in [PCB -> Pointer] /\ tp' \in [QUEUE -> Pointer]
        /\ \A v \in QUEUE : v # q => tp'[v] = tp[v]
        /\ tp'[q] = NULL
        /\ \A x \in PCB : x # p => p_next'[x] = p_next[x] /\ p_prev'[x] = p_prev[x]
    BY <2>1 DEF ListsTypeOK, Pointer
  <2> QED
    BY <1>2, <2>2, <2>3, CirclesEmpty
<1>9. CASE Len(s) # 1
  <2> DEFINE n == p_next[p]
             b == p_prev[p]
  <2>1. n # p /\ b # p /\ n \in PCB /\ b \in PCB /\ p \in PCB
    BY <1>2, <1>3, <1>5, <1>9
  <2>2. /\ p_next' = [p_next EXCEPT ![b] = n, ![p] = NULL]
        /\ p_prev' = [p_prev EXCEPT ![n] = b, ![p] = NULL]
        /\ tp' = [tp EXCEPT ![q] = IF tp[q] = p THEN b ELSE tp[q]]
    BY <1>7, <2>1 DEF Unlink, tailAfterOut
  <2> HIDE DEF n, b
  <2>3. p_next' \in [PCB -> Pointer] /\ p_prev' \in [PCB -> Pointer] /\ tp' \in [QUEUE -> Pointer]
    BY <2>1, <2>2 DEF ListsTypeOK, Pointer
  <2>4. /\ \A v \in QUEUE : v # q => tp'[v] = tp[v]
        /\ tp'[q] = IF tp[q] = p THEN b ELSE tp[q]
    BY <2>2 DEF ListsTypeOK
  <2>5. \A x \in PCB : x # p => /\ p_next'[x] = IF x = b THEN n ELSE p_next[x]
                                /\ p_prev'[x] = IF x = n THEN b ELSE p_prev[x]
    BY <2>1, <2>2 DEF ListsTypeOK
  <2>6. \A x \in ToSet(s) \ {p} : /\ p_next'[x] = IF x = b THEN n ELSE p_next[x]
                                  /\ p_prev'[x] = IF x = n THEN b ELSE p_prev[x]
    BY <1>3, <2>5
  <2>7. Len(s) > 1
    <3>1. \A L \in Nat : k \in 1 .. L /\ L # 1 => L > 1
      OBVIOUS
    <3> QED
      BY <1>2, <1>9, <3>1
  <2>8. Circles(p_next', p_prev', IF tp[q] = p THEN b ELSE tp[q], r)
    BY <1>1, <1>2, <2>6, <2>7, CirclesOut DEF p, n, b, r
  <2>9. \A x \in PCB : x \notin ToSet(s) => p_next'[x] = p_next[x] /\ p_prev'[x] = p_prev[x]
    BY <1>2, <1>5, <2>5 DEF n, b
  <2> QED
    BY <2>3, <2>4, <2>8, <2>9
<1> QED
  BY <1>8, <1>9

\* removeProcQ takes out the first.
LEMMA RemoveUnlinks ==
    ASSUME PcbsSound, ListsTypeOK, NEW fr, NEW qs, Apart(fr, qs), Lead(fr, qs),
           NEW q \in QUEUE, removeProcQ(q)
    PROVE  /\ qs[q] # <<>> /\ 1 \in 1 .. Len(qs[q]) /\ Unlink(q, qs[q][1])
           /\ RemoveAt(qs[q], 1) = Tail(qs[q])
<1> DEFINE s == qs[q]
<1>1. s \in Seq(PCB) /\ IsInjective(s) /\ Circles(p_next, p_prev, tp[q], s) /\ tp[q] # NULL
  BY DEF Apart, Lead, removeProcQ
<1>2. /\ s # <<>> /\ p_next[tp[q]] = s[1] /\ s[1] \in ToSet(s) /\ tp[q] \in ToSet(s)
      /\ p_prev[s[1]] = tp[q]
      /\ p_prev[s[1]] = s[1] <=> p_next[s[1]] = s[1]
  BY <1>1, Neighbours
<1>3. headProcQ(q) = s[1]
  BY <1>1, <1>2 DEF headProcQ
<1> HIDE DEF s
<1>4. Unlink(q, s[1])
  <2>1. CASE s[1] = tp[q]
    BY <1>2, <1>3, <2>1 DEF removeProcQ, Unlink
  <2>2. CASE s[1] # tp[q]
    <3>1. tp = [tp EXCEPT ![q] = tailAfterOut(q, s[1])]
      BY <2>2 DEF ListsTypeOK, tailAfterOut
    <3> QED
      BY <1>2, <1>3, <2>2, <3>1 DEF removeProcQ, Unlink
  <2> QED
    BY <2>1, <2>2
<1>6. Len(s) \in Nat /\ 1 \in 1 .. Len(s)
  BY <1>1, <1>2
<1>7. RemoveAt(s, 1) = Tail(s)
  <2> DEFINE r == RemoveAt(s, 1)
             u == Tail(s)
  <2>1. r \in Seq(PCB) /\ Len(r) = Len(s) - 1 /\ \A i \in 1 .. Len(s) - 1 : r[i] = s[i + 1]
    <3>1. \A i \in 1 .. Len(s) - 1 : r[i] = IF i < 1 THEN s[i] ELSE s[i + 1]
      BY <1>1, <1>6, RemoveAtQueue
    <3>2. \A i \in 1 .. Len(s) - 1 : ~(i < 1)
      BY <1>6
    <3>3. r \in Seq(PCB) /\ Len(r) = Len(s) - 1
      BY <1>1, <1>6, RemoveAtQueue
    <3> QED
      BY <3>1, <3>2, <3>3
  <2>2. u \in Seq(PCB) /\ Len(u) = Len(s) - 1 /\ \A i \in 1 .. Len(s) - 1 : u[i] = s[i + 1]
    BY <1>1, <1>2
  <2> HIDE DEF r, u
  <2>3. r = u
    BY <2>1, <2>2, SeqEqual
  <2> QED
    BY <2>3 DEF r, u
<1> QED
  BY <1>2, <1>4, <1>6, <1>7 DEF s

\* A step of PcbLists, from fr and qs to fr2 and qs2.
Move(fr, qs, fr2, qs2) ==
    \/ fr # <<>> /\ fr2 = Tail(fr) /\ qs2 = qs
    \/ \E p \in held : fr2 = <<p>> \o fr /\ qs2 = qs
    \/ \E q \in QUEUE, p \in held : qs2 = [qs EXCEPT ![q] = Append(@, p)] /\ fr2 = fr
    \/ \E q \in QUEUE : /\ qs[q] # <<>> /\ qs2 = [qs EXCEPT ![q] = Tail(@)] /\ fr2 = fr
    \/ \E q \in QUEUE, p \in PCB : qs2 = [qs EXCEPT ![q] = RemoveFirst(@, p)] /\ fr2 = fr

\* Every operation of pcb.c moves the sequences as PcbLists says.
LEMMA MoveStep ==
    ASSUME PcbsSound, ListsTypeOK, NEW fr, NEW qs, Apart(fr, qs), Lead(fr, qs), ListsNext
    PROVE  \E fr2, qs2 : /\ ListsTypeOK' /\ Apart(fr2, qs2)' /\ Lead(fr2, qs2)'
                         /\ Move(fr, qs, fr2, qs2)
<1>0. qs \in [QUEUE -> Seq(PCB)] /\ held \subseteq PCB
  BY DEF Apart
<1>1. CASE allocPcb
  <2>1. fr # <<>> /\ ListsTypeOK' /\ Apart(Tail(fr), qs)' /\ Lead(Tail(fr), qs)'
    BY <1>1, AllocStep
  <2>2. Move(fr, qs, Tail(fr), qs)
    BY <2>1 DEF Move
  <2> QED
    BY <2>1, <2>2
<1>2. ASSUME NEW p \in PCB, freePcb(p)
      PROVE  \E fr2, qs2 : /\ ListsTypeOK' /\ Apart(fr2, qs2)' /\ Lead(fr2, qs2)'
                           /\ Move(fr, qs, fr2, qs2)
  <2>1. ListsTypeOK' /\ Apart(<<p>> \o fr, qs)' /\ Lead(<<p>> \o fr, qs)'
    BY <1>2, FreeStep
  <2>2. Move(fr, qs, <<p>> \o fr, qs)
    BY <1>2 DEF Move, freePcb
  <2> QED
    BY <2>1, <2>2
<1>3. ASSUME NEW q \in QUEUE, NEW p \in PCB, insertProcQ(q, p)
      PROVE  \E fr2, qs2 : /\ ListsTypeOK' /\ Apart(fr2, qs2)' /\ Lead(fr2, qs2)'
                           /\ Move(fr, qs, fr2, qs2)
  <2> DEFINE qt == [qs EXCEPT ![q] = Append(@, p)]
  <2>1. ListsTypeOK' /\ Apart(fr, qt)' /\ Lead(fr, qt)'
    BY <1>3, InsertStep
  <2>2. Move(fr, qs, fr, qt)
    BY <1>3 DEF Move, insertProcQ
  <2> HIDE DEF qt
  <2> QED
    BY <2>1, <2>2
<1>4. ASSUME NEW q \in QUEUE, removeProcQ(q)
      PROVE  \E fr2, qs2 : /\ ListsTypeOK' /\ Apart(fr2, qs2)' /\ Lead(fr2, qs2)'
                           /\ Move(fr, qs, fr2, qs2)
  <2> DEFINE qt == [qs EXCEPT ![q] = RemoveAt(@, 1)]
  <2>1. /\ qs[q] # <<>> /\ 1 \in 1 .. Len(qs[q]) /\ Unlink(q, qs[q][1])
        /\ RemoveAt(qs[q], 1) = Tail(qs[q])
    BY <1>4, RemoveUnlinks
  <2>2. ListsTypeOK' /\ Apart(fr, qt)' /\ Lead(fr, qt)'
    BY <2>1, UnlinkStep
  <2>3. Move(fr, qs, fr, qt)
    BY <2>1 DEF Move
  <2> HIDE DEF qt
  <2> QED
    BY <2>2, <2>3
<1>5. ASSUME NEW q \in QUEUE, NEW p \in PCB, outProcQ(q, p)
      PROVE  \E fr2, qs2 : /\ ListsTypeOK' /\ Apart(fr2, qs2)' /\ Lead(fr2, qs2)'
                           /\ Move(fr, qs, fr2, qs2)
  <2>1. ProcQueue(q) = qs[q]
    BY Read
  <2>2. CASE ~Contains(qs[q], p)
    <3>1. UNCHANGED <<pcbFree_h, p_next, p_prev, tp, held>>
      BY <1>5, <2>1, <2>2 DEF outProcQ
    <3>2. ListsTypeOK' /\ Apart(fr, qs)' /\ Lead(fr, qs)'
      BY <3>1 DEF ListsTypeOK, Apart, Lead
    <3>3. qs = [qs EXCEPT ![q] = RemoveFirst(@, p)]
      BY <1>0, <2>2 DEF RemoveFirst, Contains
    <3>4. Move(fr, qs, fr, qs)
      BY <3>3 DEF Move
    <3> QED
      BY <3>2, <3>4
  <2>3. CASE Contains(qs[q], p)
    <3>1. PICK k \in 1 .. Len(qs[q]) : qs[q][k] = p
      BY <2>3 DEF Contains
    <3>2. Unlink(q, qs[q][k])
      BY <1>5, <2>1, <2>3, <3>1 DEF outProcQ, Unlink
    <3> DEFINE qt == [qs EXCEPT ![q] = RemoveAt(@, k)]
    <3>3. ListsTypeOK' /\ Apart(fr, qt)' /\ Lead(fr, qt)'
      BY <3>2, UnlinkStep
    <3>4. qt = [qs EXCEPT ![q] = RemoveFirst(@, p)]
      BY <1>0, <3>1, RemoveFirstIs DEF Apart
    <3> HIDE DEF qt
    <3>5. Move(fr, qs, fr, qt)
      BY <3>4 DEF Move
    <3> QED
      BY <3>3, <3>5
  <2> QED
    BY <2>2, <2>3
<1> QED
  BY <1>1, <1>2, <1>3, <1>4, <1>5 DEF ListsNext

\* initPcbs puts every pcb into the free list.
LEMMA FirstLists ==
    ASSUME PcbsSound, ListsInit
    PROVE  /\ ListsTypeOK /\ Apart(SetToSeq(PCB), [q \in QUEUE |-> <<>>])
           /\ Lead(SetToSeq(PCB), [q \in QUEUE |-> <<>>])
<1> DEFINE order == SetToSeq(PCB)
           n == MAXPROC
           none == [q \in QUEUE |-> <<>>]
<1>1. n \in Nat /\ n # 0 /\ n = Cardinality(PCB)
  BY FS_CardinalityType, FS_EmptySet DEF PcbsSound, MAXPROC
<1>2. \E f \in [1 .. n -> PCB] : IsInjective(f)
  <2>1. ExistsBijection(1 .. n, PCB)
    BY FS_CardinalityType DEF PcbsSound, MAXPROC
  <2>2. PICK f \in Bijection(1 .. n, PCB) : TRUE
    BY <2>1 DEF ExistsBijection
  <2>3. f \in [1 .. n -> PCB] /\ IsInjective(f)
    BY <2>2 DEF Bijection, Injection, IsInjective
  <2> QED
    BY <2>3
<1>3. order \in [1 .. n -> PCB] /\ IsInjective(order)
  BY <1>2 DEF SetToSeq, MAXPROC
<1> HIDE DEF order, n
<1>4. order \in Seq(PCB) /\ Len(order) = n /\ DOMAIN order = 1 .. n
  BY <1>1, <1>3, SeqDef
<1>5. ToSet(order) = PCB
  <2>1. ToSet(order) \in SUBSET PCB
    BY <1>4, MembersTyped
  <2>2. Cardinality(ToSet(order)) = Cardinality(PCB)
    BY <1>1, <1>3, <1>4, QueueLength
  <2> QED
    BY <2>1, <2>2, FS_Subset DEF PcbsSound
<1> DEFINE place(p) == CHOOSE i \in DOMAIN order : order[i] = p
<1>6. /\ pcbFree_h = order[1]
      /\ p_next = [p \in PCB |-> IF place(p) = n THEN NULL ELSE order[place(p) + 1]]
      /\ p_prev = [p \in PCB |-> IF place(p) = 1 THEN NULL ELSE order[place(p) - 1]]
      /\ tp = [q \in QUEUE |-> NULL] /\ held = {}
  BY DEF ListsInit, order, n
<1>7. ASSUME NEW i \in 1 .. n
      PROVE  place(order[i]) = i
  <2>1. \A j \in DOMAIN order : order[j] = order[i] <=> j = i
    BY <1>3, <1>4 DEF IsInjective
  <2> QED
    BY <1>4, <2>1
<1>8. \A p \in PCB : place(p) \in 1 .. n
  <2> SUFFICES ASSUME NEW p \in PCB
               PROVE  place(p) \in 1 .. n
    OBVIOUS
  <2>1. PICK i \in 1 .. n : order[i] = p
    BY <1>4, <1>5, InQueue
  <2> QED
    BY <1>7, <2>1
<1> HIDE DEF place
<1>9. ListsTypeOK
  <2>1. ASSUME NEW p \in PCB
        PROVE  /\ (IF place(p) = n THEN NULL ELSE order[place(p) + 1]) \in Pointer
               /\ (IF place(p) = 1 THEN NULL ELSE order[place(p) - 1]) \in Pointer
    <3>1. place(p) # n => place(p) + 1 \in 1 .. n
      BY <1>1, <1>8
    <3>2. place(p) # 1 => place(p) - 1 \in 1 .. n
      BY <1>1, <1>8
    <3> QED
      BY <1>3, <3>1, <3>2 DEF Pointer
  <2>2. order[1] \in PCB
    BY <1>1, <1>3
  <2> QED
    BY <1>6, <2>1, <2>2 DEF ListsTypeOK, Pointer
<1>10. Apart(order, none)
  <2>1. none \in [QUEUE -> Seq(PCB)] /\ \A q \in QUEUE : none[q] = <<>>
    OBVIOUS
  <2> HIDE DEF none
  <2> QED
    BY <1>3, <1>4, <1>5, <1>6, <2>1, EmptyQueue DEF Apart
<1>11. Leads(p_next, NULL, pcbFree_h, order)
  <2>1. order # <<>>
    BY <1>1, <1>4, NoMember
  <2>2. ASSUME NEW i \in 1 .. Len(order)
        PROVE  p_next[order[i]] = IF i = Len(order) THEN NULL ELSE order[i + 1]
    BY <1>3, <1>4, <1>6, <1>7
  <2> QED
    BY <1>6, <2>1, <2>2 DEF Leads
<1>12. \A q \in QUEUE : Circles(p_next, p_prev, tp[q], none[q])
  BY <1>6, CirclesEmpty
<1> HIDE DEF none
<1> QED
  BY <1>9, <1>10, <1>11, <1>12 DEF Lead, order, none

-----------------------------------------------------------------------------
(* Theorems about the lists                                                *)

\* Under every sequence of calls of pcb.c the pointers lead through lists that
\* share no pcb and have them all.
THEOREM ListsInvariance == ListsSpec => []ListsInv
<1>1. ListsInit => ListsInv
  BY Sound, FirstLists DEF ListsInv
<1>2. ListsInv /\ [ListsNext]_listVars => ListsInv'
  <2> SUFFICES ASSUME ListsInv, [ListsNext]_listVars
               PROVE  ListsInv'
    OBVIOUS
  <2>1. PICK fr, qs : Apart(fr, qs) /\ Lead(fr, qs)
    BY DEF ListsInv
  <2>2. CASE ListsNext
    BY <2>1, <2>2, MoveStep DEF ListsInv, PcbsSound
  <2>3. CASE UNCHANGED listVars
    BY <2>1, <2>3 DEF listVars, ListsInv, PcbsSound, ListsTypeOK, Apart, Lead
  <2> QED
    BY <2>2, <2>3
<1> QED
  BY <1>1, <1>2, PTL DEF ListsSpec

\* For any number of pcbs and queues, no pcb is ever in two lists, or in none
\* and with nobody (pcb.c:127, 182-191).
THEOREM OneList == ListsSpec => []OneListEach
<1>1. ListsInv => OneListEach
  <2> SUFFICES ASSUME ListsInv
               PROVE  OneListEach
    OBVIOUS
  <2>1. PICK fr, qs : Apart(fr, qs) /\ Lead(fr, qs)
    BY DEF ListsInv
  <2>2. FreeList = fr /\ \A q \in QUEUE : ProcQueue(q) = qs[q]
    BY <2>1, Read DEF ListsInv
  <2>3. \A p : Contains(fr, p) <=> p \in ToSet(fr)
    BY <2>1, InQueue DEF Contains, Apart
  <2>4. ASSUME NEW q \in QUEUE, NEW p
        PROVE  Contains(qs[q], p) <=> p \in ToSet(qs[q])
    BY <2>1, InQueue DEF Contains, Apart
  <2>5. ASSUME NEW p \in PCB
        PROVE  LET queues == {q \in QUEUE : Contains(ProcQueue(q), p)}
               IN Cardinality(queues) = IF p \in held \/ Contains(FreeList, p) THEN 0 ELSE 1
    <3> DEFINE queues == {q \in QUEUE : Contains(ProcQueue(q), p)}
    <3>1. queues = {q \in QUEUE : p \in ToSet(qs[q])}
      BY <2>2, <2>4
    <3> HIDE DEF queues
    <3>2. CASE p \in held \/ p \in ToSet(fr)
      <4>1. queues = {}
        BY <2>1, <3>1, <3>2 DEF Apart
      <4>2. Cardinality(queues) = 0
        BY <4>1, FS_EmptySet
      <4> QED
        BY <2>2, <2>3, <3>2, <4>2 DEF queues
    <3>3. CASE ~(p \in held \/ p \in ToSet(fr))
      <4>1. PICK q \in QUEUE : p \in ToSet(qs[q])
        BY <2>1, <3>3 DEF Apart
      <4>2. queues = {q}
        BY <2>1, <3>1, <4>1 DEF Apart
      <4>3. Cardinality(queues) = 1
        BY <4>2, FS_Singleton
      <4> QED
        BY <2>2, <2>3, <3>3, <4>3 DEF queues
    <3> QED
      BY <3>2, <3>3
  <2>6. ToSet(FreeList) \cap held = {}
    BY <2>1, <2>2 DEF Apart
  <2>7. ListsTypeOK
    BY DEF ListsInv
  <2> QED
    BY <2>5, <2>6, <2>7 DEF OneListEach
<1> QED
  BY <1>1, ListsInvariance, PTL

\* In every queue p_prev goes back to where p_next comes from, at the seam between
\* tail and head too, so that outProcQ can unlink a pcb anywhere (pcb.c:265-266).
THEOREM BackLinks == ListsSpec => []DoublyLinked
<1>1. ListsInv => DoublyLinked
  <2> SUFFICES ASSUME ListsInv, NEW q \in QUEUE, NEW i \in DOMAIN ProcQueue(q)
               PROVE  p_prev[p_next[ProcQueue(q)[i]]] = ProcQueue(q)[i]
    BY DEF DoublyLinked
  <2>1. PICK fr, qs : Apart(fr, qs) /\ Lead(fr, qs)
    BY DEF ListsInv
  <2>2. ProcQueue(q) = qs[q]
    BY <2>1, Read DEF ListsInv
  <2>3. qs[q] \in Seq(PCB) /\ IsInjective(qs[q]) /\ Circles(p_next, p_prev, tp[q], qs[q])
    BY <2>1 DEF Apart, Lead
  <2>4. qs[q][i] \in ToSet(qs[q])
    BY <2>2, <2>3 DEF ToSet
  <2> QED
    BY <2>2, <2>3, <2>4, Neighbours DEF ListsInv
<1> QED
  BY <1>1, ListsInvariance, PTL

\* For any number of pcbs and queues, the pointers of pcb.c implement a stack of
\* free pcbs and FIFO queues from which any member can be taken (pcb.c:65-297).
THEOREM ListsRefine == ListsSpec => ImplementsPcbLists
<1> DEFINE Q == [q \in QUEUE |-> ProcQueue(q)]
<1>1. ASSUME PcbsSound, ListsInit
      PROVE  Abstract!Init
  <2> DEFINE order == SetToSeq(PCB)
  <2>1. FreeList = order /\ Q = [q \in QUEUE |-> <<>>]
    BY <1>1, FirstLists, Read
  <2>2. order \in Seq(PCB) /\ IsInjective(order) /\ held = {}
    BY <1>1, FirstLists DEF Apart, ListsInit
  <2>3. Len(order) = Cardinality(PCB)
    <3>1. ToSet(order) = PCB
      BY <1>1, <2>2, FirstLists, MembersTyped, EmptyQueue DEF Apart
    <3> QED
      BY <2>2, <3>1, QueueLength
  <2> HIDE DEF order
  <2>4. /\ order \in [1 .. Cardinality(PCB) -> PCB]
        /\ \A i, j \in 1 .. Cardinality(PCB) : i # j => order[i] # order[j]
    BY <2>2, <2>3 DEF IsInjective
  <2>5. Abstract!Cardinality(PCB) = Cardinality(PCB)
    BY Zenon DEF Abstract!Cardinality, Cardinality
  <2>6. order \in Abstract!SetToSeqs(PCB)
    BY <2>4, <2>5 DEF Abstract!SetToSeqs
  <2> QED
    BY <2>1, <2>6 DEF Abstract!Init
<1>2. ASSUME ListsInv, ListsInv', [ListsNext]_listVars
      PROVE  Abstract!Next \/ UNCHANGED <<FreeList, Q>>
  <2>1. PICK fr, qs : Apart(fr, qs) /\ Lead(fr, qs)
    BY <1>2 DEF ListsInv
  <2>2. FreeList = fr /\ Q = qs /\ PcbsSound /\ ListsTypeOK
    BY <1>2, <2>1, Read DEF ListsInv
  <2>3. CASE ListsNext
    <3>1. PICK fr2, qs2 : /\ ListsTypeOK' /\ Apart(fr2, qs2)' /\ Lead(fr2, qs2)'
                          /\ Move(fr, qs, fr2, qs2)
      BY <2>1, <2>2, <2>3, MoveStep
    <3>2. FreeList' = fr2 /\ Q' = qs2
      BY <2>2, <3>1, ReadNext
    <3> HIDE DEF Q
    <3>3. Move(FreeList, Q, FreeList', Q')
      BY <2>2, <3>1, <3>2
    <3>4. \A p \in held : p \in Abstract!Held
      <4>1. \A s : Abstract!ToSet(s) = ToSet(s)
        BY DEF Abstract!ToSet, ToSet
      <4>2. \A p \in held : p \in PCB /\ p \notin ToSet(FreeList) /\ \A q \in QUEUE : p \notin ToSet(Q[q])
        BY <2>1, <2>2 DEF Apart
      <4> QED
        BY <4>1, <4>2 DEF Abstract!Held, Q
    <3>5. held \subseteq PCB
      BY <2>2 DEF ListsTypeOK
    <3>6. CASE FreeList # <<>> /\ FreeList' = Tail(FreeList) /\ Q' = Q
      BY <3>6 DEF Abstract!Next, Abstract!Alloc, Q
    <3>7. CASE \E p \in held : FreeList' = <<p>> \o FreeList /\ Q' = Q
      BY <3>4, <3>5, <3>7 DEF Abstract!Next, Abstract!Free, Q
    <3>8. CASE \E q \in QUEUE, p \in held : Q' = [Q EXCEPT ![q] = Append(@, p)] /\ FreeList' = FreeList
      BY <3>4, <3>5, <3>8 DEF Abstract!Next, Abstract!Enqueue, Q
    <3>9. CASE \E q \in QUEUE : Q[q] # <<>> /\ Q' = [Q EXCEPT ![q] = Tail(@)] /\ FreeList' = FreeList
      BY <3>9 DEF Abstract!Next, Abstract!Dequeue, Q
    <3>10. CASE \E q \in QUEUE, p \in PCB : Q' = [Q EXCEPT ![q] = RemoveFirst(@, p)] /\ FreeList' = FreeList
      <4>1. \A s, p : Abstract!RemoveFirst(s, p) = RemoveFirst(s, p)
        BY DEF Abstract!RemoveFirst, RemoveFirst, Abstract!RemoveAt, RemoveAt,
           Abstract!SelectInSeq, SelectInSeq, Abstract!Min, Min
      <4> QED
        BY <3>10, <4>1 DEF Abstract!Next, Abstract!TakeOut, Q
    <3> QED
      BY <3>3, <3>6, <3>7, <3>8, <3>9, <3>10 DEF Move
  <2>4. CASE UNCHANGED listVars
    <3>1. ListsTypeOK' /\ Apart(fr, qs)' /\ Lead(fr, qs)'
      BY <2>1, <2>2, <2>4 DEF listVars, ListsTypeOK, Apart, Lead
    <3>2. FreeList' = fr /\ Q' = qs
      BY <2>2, <3>1, ReadNext
    <3> QED
      BY <2>2, <3>2
  <2> QED
    BY <1>2, <2>3, <2>4
<1>3. ListsInv /\ ListsInv' /\ [ListsNext]_listVars => [Abstract!Next]_<<FreeList, Q>>
  BY <1>2
<1>4. ListsInit => Abstract!Init
  BY <1>1, Sound
<1> QED
  BY <1>3, <1>4, ListsInvariance, PTL DEF ListsSpec, ImplementsPcbLists, Abstract!Spec, Q

-----------------------------------------------------------------------------
(* The process tree                                                        *)

\* The pointers lead through cs[q] from q, and p_prnt says in which list a pcb is.
Listed(cs) ==
    /\ cs \in [PCB -> Seq(PCB)]
    /\ \A q \in PCB : IsInjective(cs[q]) /\ Leads(p_rSib, NULL, p_child[q], cs[q])
    /\ \A p, q \in PCB : p \in ToSet(cs[q]) <=> p_prnt[p] = q

TreeInv == PcbsSound /\ TreeTypeOK /\ \E cs : Listed(cs)

\* What the pointers lead through is what is read from memory.
LEMMA ReadChildren ==
    \A cs : PcbsSound /\ Listed(cs) => cs = [q \in PCB |-> Children(q)]
<1> SUFFICES ASSUME NEW cs, PcbsSound, Listed(cs), NEW q \in PCB
             PROVE  Children(q) = cs[q]
  BY DEF Listed
<1>1. cs[q] \in Seq(PCB) /\ IsInjective(cs[q]) /\ Leads(p_rSib, NULL, p_child[q], cs[q])
  BY DEF Listed
<1>2. Len(cs[q]) <= Cardinality(PCB) /\ Cardinality(PCB) \in Nat
  BY <1>1, QueueFits DEF PcbsSound
<1> QED
  BY <1>1, <1>2, LeadsRead DEF Children, PcbsSound

\* It is so after a step, too.
LEMMA ReadChildrenNext ==
    \A cs : PcbsSound /\ Listed(cs)' => cs = [q \in PCB |-> Children(q)]'
<1>1. (\A cs : PcbsSound /\ Listed(cs) => cs = [q \in PCB |-> Children(q)])'
  BY ReadChildren, PTL
<1> QED
  BY <1>1

\* The list of prnt is replaced by s, which has gained or lost p; the pointers of
\* the other children are left alone.
LEMMA ListStep ==
    ASSUME PcbsSound, TreeTypeOK, NEW cs, Listed(cs), NEW prnt \in PCB, NEW p \in PCB,
           NEW s \in Seq(PCB), IsInjective(s),
           \A q \in PCB : q # prnt => p \notin ToSet(cs[q]),
           \A x \in PCB : x # p => (x \in ToSet(s) <=> x \in ToSet(cs[prnt])),
           p_prnt'[p] = IF p \in ToSet(s) THEN prnt ELSE NULL,
           \A x \in PCB : x # p => p_prnt'[x] = p_prnt[x],
           \A q \in PCB : q # prnt => p_child'[q] = p_child[q],
           \A x \in PCB : x # p /\ x \notin ToSet(cs[prnt]) => p_rSib'[x] = p_rSib[x],
           Leads(p_rSib', NULL, p_child'[prnt], s)
    PROVE  Listed([cs EXCEPT ![prnt] = s])'
<1> DEFINE ct == [cs EXCEPT ![prnt] = s]
<1>1. ct \in [PCB -> Seq(PCB)] /\ ct[prnt] = s /\ \A q \in PCB : q # prnt => ct[q] = cs[q]
  BY DEF Listed
<1> HIDE DEF ct
<1>a. \A x, q \in PCB : x \in ToSet(cs[q]) <=> p_prnt[x] = q
  BY DEF Listed
<1>2. ASSUME NEW q \in PCB
      PROVE  IsInjective(ct[q]) /\ Leads(p_rSib', NULL, p_child'[q], ct[q])
  <2>1. CASE q = prnt
    BY <1>1, <2>1
  <2>2. CASE q # prnt
    <3>1. cs[q] \in Seq(PCB) /\ IsInjective(cs[q]) /\ Leads(p_rSib, NULL, p_child[q], cs[q])
      BY DEF Listed
    <3>2. \A x \in ToSet(cs[q]) : x \in PCB /\ x # p /\ x \notin ToSet(cs[prnt])
      <4>1. ToSet(cs[q]) \subseteq PCB
        BY <3>1, MembersTyped
      <4> QED
        BY <1>a, <2>2, <4>1
    <3>3. \A x \in ToSet(cs[q]) : p_rSib'[x] = p_rSib[x]
      BY <3>2
    <3>4. Leads(p_rSib', NULL, p_child[q], cs[q])
      BY <3>1, <3>3, LeadsFrame
    <3> QED
      BY <1>1, <2>2, <3>1, <3>4
  <2> QED
    BY <2>1, <2>2
<1>3. ASSUME NEW x \in PCB, NEW q \in PCB
      PROVE  x \in ToSet(ct[q]) <=> p_prnt'[x] = q
  <2>1. CASE x = p
    BY <1>1, <2>1 DEF PcbsSound
  <2>2. CASE x # p
    <3>1. p_prnt'[x] = p_prnt[x]
      BY <2>2
    <3>2. CASE q = prnt
      BY <1>1, <1>a, <2>2, <3>1, <3>2
    <3>3. CASE q # prnt
      <4>1. ct[q] = cs[q]
        BY <1>1, <3>3
      <4>2. x \in ToSet(cs[q]) <=> p_prnt[x] = q
        BY <1>a
      <4> QED
        BY <3>1, <4>1, <4>2
    <3> QED
      BY <3>2, <3>3
  <2> QED
    BY <2>1, <2>2
<1> QED
  BY <1>1, <1>2, <1>3 DEF Listed, ct

\* insertChild puts a pcb in front of the children.
LEMMA InsertChildStep ==
    ASSUME PcbsSound, TreeTypeOK, NEW cs, Listed(cs), NEW prnt \in PCB, NEW p \in PCB,
           insertChild(prnt, p)
    PROVE  /\ TreeTypeOK' /\ Listed([cs EXCEPT ![prnt] = <<p>> \o @])'
           /\ p # prnt /\ cs[p] = <<>> /\ \A q \in PCB : p \notin ToSet(cs[q])
<1> DEFINE s == cs[prnt]
           c == <<p>> \o s
<1>1. s \in Seq(PCB) /\ IsInjective(s) /\ Leads(p_rSib, NULL, p_child[prnt], s)
  BY DEF Listed
<1>2. p # prnt /\ p_prnt[p] = NULL /\ p_child[p] = NULL
  BY DEF insertChild, emptyChild
<1>3. \A q \in PCB : p \notin ToSet(cs[q])
  BY <1>2 DEF Listed, PcbsSound
<1>4. c \in Seq(PCB) /\ ToSet(c) = ToSet(s) \cup {p} /\ IsInjective(c)
  BY <1>1, <1>3, ConsQueue
<1>5. /\ p_prnt' = [p_prnt EXCEPT ![p] = prnt]
      /\ p_rSib' = [p_rSib EXCEPT ![p] = p_child[prnt]]
      /\ p_child' = [p_child EXCEPT ![prnt] = p]
  BY DEF insertChild, rightOfNew
<1>6. p_lSib' \in Pointers
  BY DEF insertChild, leftLinks, emptyChild, TreeTypeOK, Pointers
<1>7. TreeTypeOK'
  BY <1>5, <1>6 DEF TreeTypeOK, Pointers
<1>8. /\ \A x \in PCB : x # p => p_prnt'[x] = p_prnt[x] /\ p_rSib'[x] = p_rSib[x]
      /\ p_prnt'[p] = prnt /\ p_rSib'[p] = p_child[prnt] /\ p_child'[prnt] = p
      /\ \A q \in PCB : q # prnt => p_child'[q] = p_child[q]
  BY <1>5 DEF TreeTypeOK, Pointers
<1>9. Leads(p_rSib', NULL, p, c)
  <2>1. \A x \in ToSet(s) : p_rSib'[x] = p_rSib[x]
    BY <1>1, <1>3, <1>8, MembersTyped
  <2>2. Leads(p_rSib', NULL, p_child[prnt], s)
    BY <1>1, <2>1, LeadsFrame
  <2> QED
    BY <1>1, <1>8, <2>2, LeadsCons
<1>10. Listed([cs EXCEPT ![prnt] = c])'
  <2> HIDE DEF c
  <2> QED
    BY <1>3, <1>4, <1>8, <1>9, ListStep
<1>11. cs[p] = <<>>
  <2>1. cs[p] \in Seq(PCB) /\ Leads(p_rSib, NULL, NULL, cs[p])
    BY <1>2 DEF Listed
  <2> QED
    BY <2>1, LeadsTail DEF PcbsSound
<1> QED
  BY <1>2, <1>3, <1>7, <1>10, <1>11

\* removeChild takes the first child away.
LEMMA RemoveStep ==
    ASSUME PcbsSound, TreeTypeOK, NEW cs, Listed(cs), NEW prnt \in PCB, removeChild(prnt)
    PROVE  cs[prnt] # <<>> /\ TreeTypeOK' /\ Listed([cs EXCEPT ![prnt] = Tail(@)])'
<1> DEFINE s == cs[prnt]
           p == p_child[prnt]
<1>1. s \in Seq(PCB) /\ IsInjective(s) /\ Leads(p_rSib, NULL, p, s) /\ p # NULL
  BY DEF Listed, removeChild, emptyChild
<1>2. s # <<>> /\ p = Head(s) /\ Leads(p_rSib, NULL, p_rSib[p], Tail(s))
  BY <1>1, LeadsTail DEF PcbsSound
<1>3. /\ p \in PCB /\ p \in ToSet(s) /\ Tail(s) \in Seq(PCB)
      /\ ToSet(Tail(s)) = ToSet(s) \ {p} /\ IsInjective(Tail(s))
  BY <1>1, <1>2, TailQueue
<1>4. /\ p_child' = [p_child EXCEPT ![prnt] = p_rSib[p]]
      /\ p_rSib' = [p_rSib EXCEPT ![p] = NULL]
      /\ p_prnt' = [p_prnt EXCEPT ![p] = NULL] /\ p_lSib' = [p_lSib EXCEPT ![p] = NULL]
  BY DEF removeChild, Detach
<1>5. TreeTypeOK'
  BY <1>3, <1>4 DEF TreeTypeOK, Pointers
<1>6. /\ \A x \in PCB : x # p => p_prnt'[x] = p_prnt[x] /\ p_rSib'[x] = p_rSib[x]
      /\ p_prnt'[p] = NULL /\ p_child'[prnt] = p_rSib[p]
      /\ \A q \in PCB : q # prnt => p_child'[q] = p_child[q]
  BY <1>3, <1>4 DEF TreeTypeOK, Pointers
<1> HIDE DEF p
<1>7. Leads(p_rSib', NULL, p_rSib[p], Tail(s))
  <2>1. \A x \in ToSet(Tail(s)) : p_rSib'[x] = p_rSib[x]
    BY <1>1, <1>3, <1>6, MembersTyped
  <2> QED
    BY <1>2, <1>3, <2>1, LeadsFrame
<1>8. \A q \in PCB : q # prnt => p \notin ToSet(cs[q])
  <2>1. \A q \in PCB : p \in ToSet(cs[q]) <=> p_prnt[p] = q
    BY <1>3 DEF Listed
  <2> QED
    BY <1>3, <2>1
<1>9. Listed([cs EXCEPT ![prnt] = Tail(s)])'
  <2> DEFINE u == Tail(s)
  <2>1. /\ u \in Seq(PCB) /\ IsInjective(u) /\ ToSet(u) = ToSet(s) \ {p}
        /\ Leads(p_rSib', NULL, p_child'[prnt], u)
    BY <1>3, <1>6, <1>7
  <2> HIDE DEF u
  <2>2. Listed([cs EXCEPT ![prnt] = u])'
    BY <1>3, <1>6, <1>8, <2>1, ListStep
  <2> QED
    BY <2>2 DEF u
<1> QED
  BY <1>2, <1>5, <1>9

\* What outChild does to p when cur is its left sibling.
Bypass(p, cur) ==
    /\ p_rSib' = [p_rSib EXCEPT ![cur] = p_rSib[p], ![p] = NULL]
    /\ p_lSib' = [c \in PCB |-> CASE c = p -> NULL
                                  [] c = p_rSib[p] -> cur
                                  [] OTHER -> p_lSib[c]]
    /\ p_prnt' = [p_prnt EXCEPT ![p] = NULL]
    /\ UNCHANGED p_child

\* outChild takes a child that is not the first out of its list.
LEMMA OutStep ==
    ASSUME PcbsSound, TreeTypeOK, NEW cs, Listed(cs), NEW p \in PCB, NEW cur \in LeftOf(p),
           NEW prnt \in PCB, p_prnt[p] = prnt, Bypass(p, cur)
    PROVE  \E k \in 1 .. Len(cs[prnt]) :
              /\ cs[prnt][k] = p
              /\ TreeTypeOK' /\ Listed([cs EXCEPT ![prnt] = RemoveAt(@, k)])'
<1> DEFINE s == cs[prnt]
<1>1. prnt \in PCB
  OBVIOUS
<1>2. s \in Seq(PCB) /\ IsInjective(s) /\ Leads(p_rSib, NULL, p_child[prnt], s)
  BY <1>1 DEF Listed
<1>3. cur \in ToSet(s) /\ p_rSib[cur] = p /\ cur \in PCB /\ Len(s) \in Nat
  <2>1. Children(prnt) = s
    BY <1>1, ReadChildren
  <2> QED
    BY <1>2, <2>1, MembersTyped DEF LeftOf
<1>4. PICK j \in 1 .. Len(s) : s[j] = cur
  BY <1>2, <1>3, InQueue
<1>5. j # Len(s) /\ s[j + 1] = p
  BY <1>2, <1>3, <1>4 DEF Leads, PcbsSound
<1> DEFINE k == j + 1
           r == RemoveAt(s, k)
<1>6. k \in 2 .. Len(s) /\ k \in 1 .. Len(s) /\ k - 1 = j /\ s[k] = p
  BY <1>3, <1>5
<1> HIDE DEF k
<1>7. r \in Seq(PCB) /\ ToSet(r) = ToSet(s) \ {p} /\ IsInjective(r) /\ p \in ToSet(s)
  <2> HIDE DEF s
  <2>1. r \in Seq(PCB)
    BY <1>2, <1>6, RemoveAtQueue
  <2>2. ToSet(r) = ToSet(s) \ {s[k]} /\ IsInjective(r)
    BY <1>2, <1>6, OutQueue
  <2>3. s[k] \in ToSet(s)
    BY <1>2, <1>6, InQueue
  <2> QED
    BY <1>6, <2>1, <2>2, <2>3
<1>8. cur # p
  BY <1>2, <1>3, <1>4, <1>6 DEF IsInjective
<1>9. p_rSib[p] \in PCB \cup {NULL}
  BY DEF TreeTypeOK, Pointers
<1>10. TreeTypeOK'
  <2>1. p_lSib' \in Pointers
    BY <1>3 DEF TreeTypeOK, Pointers, Bypass
  <2> QED
    BY <1>3, <1>9, <2>1 DEF TreeTypeOK, Pointers, Bypass
<1>11. /\ \A x \in PCB : x # p => /\ p_prnt'[x] = p_prnt[x]
                                  /\ p_rSib'[x] = IF x = cur THEN p_rSib[p] ELSE p_rSib[x]
       /\ p_prnt'[p] = NULL /\ p_child' = p_child
  BY <1>3, <1>8 DEF TreeTypeOK, Pointers, Bypass
<1> HIDE DEF s
<1>12. Leads(p_rSib', NULL, p_child[prnt], r)
  <2>1. \A x \in ToSet(s) \ {s[k]} : p_rSib'[x] = IF x = s[k - 1] THEN p_rSib[s[k]] ELSE p_rSib[x]
    <3>1. ToSet(s) \subseteq PCB
      BY <1>2, MembersTyped
    <3> QED
      BY <1>4, <1>6, <1>11, <3>1
  <2> QED
    BY <1>2, <1>6, <2>1, LeadsOut
<1>13. \A q \in PCB : q # prnt => p \notin ToSet(cs[q])
  BY DEF Listed
<1>14. \A x \in PCB : x # p /\ x \notin ToSet(s) => p_rSib'[x] = p_rSib[x]
  BY <1>3, <1>11
<1>15. Listed([cs EXCEPT ![prnt] = r])'
  <2> HIDE DEF r
  <2>1. /\ \A x \in PCB : x # p => (x \in ToSet(r) <=> x \in ToSet(cs[prnt]))
        /\ p_prnt'[p] = IF p \in ToSet(r) THEN prnt ELSE NULL
    BY <1>7, <1>11 DEF s
  <2>2. /\ \A x \in PCB : x # p => p_prnt'[x] = p_prnt[x]
        /\ \A q \in PCB : q # prnt => p_child'[q] = p_child[q]
        /\ \A x \in PCB : x # p /\ x \notin ToSet(cs[prnt]) => p_rSib'[x] = p_rSib[x]
        /\ Leads(p_rSib', NULL, p_child'[prnt], r)
    BY <1>11, <1>12, <1>14 DEF s
  <2>3. r \in Seq(PCB) /\ IsInjective(r)
    BY <1>7
  <2> QED
    BY <1>1, <1>13, <2>1, <2>2, <2>3, ListStep
<1> QED
  BY <1>6, <1>10, <1>15 DEF s

\* A step of ProcForest, from the lists cs to ct.
ForestMove(cs, ct) ==
    \/ \E prnt, p \in PCB : /\ p # prnt /\ cs[p] = <<>> /\ \A q \in PCB : p \notin ToSet(cs[q])
                            /\ ct = [cs EXCEPT ![prnt] = <<p>> \o @]
    \/ \E prnt \in PCB : cs[prnt] # <<>> /\ ct = [cs EXCEPT ![prnt] = Tail(@)]
    \/ \E p \in PCB : ct = [q \in PCB |-> RemoveFirst(cs[q], p)]

\* Every operation of pcb.c on the tree moves the lists as ProcForest says.
LEMMA ForestStep ==
    ASSUME PcbsSound, TreeTypeOK, NEW cs, Listed(cs), TreeNext
    PROVE  \E ct : TreeTypeOK' /\ Listed(ct)' /\ ForestMove(cs, ct)
<1>0. cs \in [PCB -> Seq(PCB)] /\ \A q \in PCB : IsInjective(cs[q])
  BY DEF Listed
<1>1. ASSUME NEW prnt \in PCB, NEW p \in PCB, insertChild(prnt, p)
      PROVE  \E ct : TreeTypeOK' /\ Listed(ct)' /\ ForestMove(cs, ct)
  <2> DEFINE ct == [cs EXCEPT ![prnt] = <<p>> \o @]
  <2>1. /\ TreeTypeOK' /\ Listed(ct)'
        /\ p # prnt /\ cs[p] = <<>> /\ \A q \in PCB : p \notin ToSet(cs[q])
    BY <1>1, InsertChildStep
  <2>2. ForestMove(cs, ct)
    BY <2>1 DEF ForestMove
  <2> HIDE DEF ct
  <2> QED
    BY <2>1, <2>2
<1>2. ASSUME NEW prnt \in PCB, removeChild(prnt)
      PROVE  \E ct : TreeTypeOK' /\ Listed(ct)' /\ ForestMove(cs, ct)
  <2> DEFINE ct == [cs EXCEPT ![prnt] = Tail(@)]
  <2>1. cs[prnt] # <<>> /\ TreeTypeOK' /\ Listed(ct)'
    BY <1>2, RemoveStep
  <2>2. ForestMove(cs, ct)
    BY <2>1 DEF ForestMove
  <2> HIDE DEF ct
  <2> QED
    BY <2>1, <2>2
<1>3. ASSUME NEW p \in PCB, outChild(p)
      PROVE  \E ct : TreeTypeOK' /\ Listed(ct)' /\ ForestMove(cs, ct)
  <2> DEFINE prnt == p_prnt[p]
  <2>1. prnt # NULL => prnt \in PCB
    BY DEF TreeTypeOK, Pointers
  <2>2. \A q \in PCB : p \in ToSet(cs[q]) <=> prnt = q
    BY DEF Listed
  <2>3. CASE prnt = NULL /\ UNCHANGED treeVars
    <3>1. TreeTypeOK' /\ Listed(cs)'
      BY <2>3 DEF TreeTypeOK, Listed, treeVars
    <3>2. \A q \in PCB : p \notin ToSet(cs[q])
      BY <2>2, <2>3 DEF PcbsSound
    <3>3. cs = [q \in PCB |-> RemoveFirst(cs[q], p)]
      BY <1>0, <3>2, RemoveFirstIs
    <3>4. ForestMove(cs, cs)
      BY <3>3 DEF ForestMove
    <3> QED
      BY <3>1, <3>4
  <2>4. CASE prnt # NULL /\ p_child[prnt] # p /\ LeftOf(p) = {}
    <3> DEFINE s == cs[prnt]
    <3>1. /\ s \in Seq(PCB) /\ IsInjective(s) /\ Leads(p_rSib, NULL, p_child[prnt], s)
          /\ Children(prnt) = s /\ p \in ToSet(s)
      <4>1. cs = [x \in PCB |-> Children(x)]
        BY ReadChildren
      <4>2. Children(prnt) = s
        BY <2>1, <2>4, <4>1
      <4>3. s \in Seq(PCB) /\ IsInjective(s) /\ Leads(p_rSib, NULL, p_child[prnt], s)
        BY <2>1, <2>4 DEF Listed
      <4> QED
        BY <2>1, <2>2, <2>4, <4>2, <4>3
    <3> HIDE DEF s
    <3>2. PICK k \in 1 .. Len(s) : s[k] = p
      BY <3>1, InQueue
    <3>3. k # 1
      <4>1. s # <<>>
        BY <3>1, <3>2
      <4> QED
        BY <2>4, <3>1, <3>2, <4>1 DEF Leads
    <3>4. k - 1 \in 1 .. Len(s) /\ k - 1 # Len(s) /\ (k - 1) + 1 = k
      BY <3>1, <3>3
    <3>5. p_rSib[s[k - 1]] = p
      BY <3>1, <3>2, <3>4 DEF Leads
    <3>6. s[k - 1] \in ToSet(s)
      BY <3>1, <3>4, InQueue
    <3>7. s[k - 1] \in LeftOf(p)
      BY <3>1, <3>5, <3>6 DEF LeftOf
    <3> QED
      BY <2>4, <3>7
  <2>5. CASE prnt # NULL /\ p_child[prnt] = p /\ removeChild(prnt)
    BY <1>2, <2>1, <2>5
  <2>6. ASSUME p_prnt[p] # NULL, NEW cur \in LeftOf(p), Bypass(p, cur)
        PROVE  \E ct : TreeTypeOK' /\ Listed(ct)' /\ ForestMove(cs, ct)
    <3>0. PICK pr \in PCB : pr = prnt
      BY <2>1, <2>6
    <3>1. PICK k \in 1 .. Len(cs[pr]) :
             /\ cs[pr][k] = p
             /\ TreeTypeOK' /\ Listed([cs EXCEPT ![pr] = RemoveAt(@, k)])'
      BY <2>6, <3>0, OutStep
    <3> DEFINE ct == [cs EXCEPT ![pr] = RemoveAt(@, k)]
    <3>2. ASSUME NEW q \in PCB
          PROVE  ct[q] = RemoveFirst(cs[q], p)
      <4>1. CASE q = pr
        BY <1>0, <3>1, <4>1, RemoveFirstIs
      <4>2. CASE q # pr
        <5>1. p \notin ToSet(cs[q])
          BY <2>2, <3>0, <4>2
        <5> QED
          BY <1>0, <4>2, <5>1, RemoveFirstIs
      <4> QED
        BY <4>1, <4>2
    <3>3. ct = [q \in PCB |-> RemoveFirst(cs[q], p)]
      BY <1>0, <3>2
    <3>4. TreeTypeOK' /\ Listed(ct)'
      BY <3>1
    <3> HIDE DEF ct
    <3>5. ForestMove(cs, ct)
      BY <3>3 DEF ForestMove
    <3> QED
      BY <3>4, <3>5
  <2>7. \/ prnt = NULL /\ UNCHANGED treeVars
        \/ prnt # NULL /\ p_child[prnt] # p /\ LeftOf(p) = {}
        \/ prnt # NULL /\ p_child[prnt] = p /\ removeChild(prnt)
        \/ prnt # NULL /\ \E cur \in LeftOf(p) : Bypass(p, cur)
    BY <1>3 DEF outChild, Bypass
  <2> QED
    BY <2>3, <2>4, <2>5, <2>6, <2>7
<1> QED
  BY <1>1, <1>2, <1>3 DEF TreeNext

\* allocPcb has left every pcb without children.
LEMMA FirstChildren ==
    ASSUME PcbsSound, TreeInit
    PROVE  TreeTypeOK /\ Listed([q \in PCB |-> <<>>])
<1> DEFINE none == [q \in PCB |-> <<>>]
<1>1. TreeTypeOK
  BY DEF TreeInit, TreeTypeOK, Pointers
<1>2. none \in [PCB -> Seq(PCB)] /\ \A q \in PCB : none[q] = <<>>
  OBVIOUS
<1>3. \A q \in PCB : p_child[q] = NULL /\ p_prnt[q] = NULL
  BY DEF TreeInit
<1> HIDE DEF none
<1>4. Leads(p_rSib, NULL, NULL, <<>>)
  BY DEF Leads
<1>5. Listed(none)
  BY <1>2, <1>3, <1>4, EmptyQueue DEF Listed, PcbsSound
<1> QED
  BY <1>1, <1>5 DEF none

-----------------------------------------------------------------------------
(* The left siblings                                                       *)

\* Who is nobody's child has no right sibling.
Unlinked == \A p \in PCB : p_prnt[p] = NULL => p_rSib[p] = NULL

Links == LeftOfRight /\ Unlinked

\* A right sibling comes next in the list of a parent; nobody's right sibling is
\* the first child of a parent, or nobody's child (pcb.c:343-350).
LEMMA RightSibling ==
    ASSUME PcbsSound, TreeTypeOK, NEW cs, Listed(cs), Unlinked,
           NEW x \in PCB, p_rSib[x] # NULL
    PROVE  /\ p_rSib[x] \in PCB /\ p_rSib[x] # x /\ p_prnt[p_rSib[x]] # NULL
           /\ \A q \in PCB : p_child[q] # p_rSib[x]
<1> DEFINE y == p_rSib[x]
           q == p_prnt[x]
           s == cs[q]
<1>1. q \in PCB /\ y \in PCB
  BY DEF Unlinked, TreeTypeOK, Pointers
<1>2. /\ s \in Seq(PCB) /\ IsInjective(s) /\ Leads(p_rSib, NULL, p_child[q], s)
      /\ x \in ToSet(s) /\ Len(s) \in Nat
  BY <1>1 DEF Listed
<1> HIDE DEF s
<1>3. PICK i \in 1 .. Len(s) : s[i] = x
  BY <1>2, InQueue
<1>4. i # Len(s) /\ s[i + 1] = y
  BY <1>2, <1>3 DEF Leads
<1>5. i + 1 \in 1 .. Len(s) /\ i + 1 # i /\ i + 1 # 1
  BY <1>2, <1>3, <1>4
<1>6. y \in ToSet(s) /\ y # x
  <2>1. y \in ToSet(s)
    BY <1>2, <1>4, <1>5, InQueue
  <2>2. y # x
    BY <1>2, <1>3, <1>4, <1>5 DEF IsInjective
  <2> QED
    BY <2>1, <2>2
<1>7. p_prnt[y] = q
  BY <1>1, <1>6 DEF Listed, s
<1>8. ASSUME NEW r \in PCB, p_child[r] = y
      PROVE  FALSE
  <2>1. cs[r] \in Seq(PCB) /\ Leads(p_rSib, NULL, y, cs[r])
    BY <1>8 DEF Listed
  <2>2. cs[r] # <<>> /\ y = Head(cs[r])
    BY <1>1, <2>1, LeadsTail DEF PcbsSound
  <2>3. y \in ToSet(cs[r]) /\ Len(cs[r]) \in Nat /\ Head(cs[r]) = cs[r][1] /\ 1 \in 1 .. Len(cs[r])
    BY <2>1, <2>2, TailQueue, EmptySeq
  <2>4. r = q
    BY <1>1, <1>7, <2>3 DEF Listed
  <2>5. s[1] = y /\ 1 \in 1 .. Len(s)
    BY <2>2, <2>3, <2>4 DEF s
  <2> QED
    BY <1>2, <1>4, <1>5, <2>5 DEF IsInjective
<1> QED
  BY <1>1, <1>6, <1>7, <1>8 DEF PcbsSound

\* insertChild links the old first child back to the new one (pcb.c:349).
LEMMA InsertLinks ==
    ASSUME PcbsSound, TreeTypeOK, NEW cs, Listed(cs), Links, NEW prnt \in PCB, NEW p \in PCB,
           insertChild(prnt, p)
    PROVE  Links'
<1> DEFINE f == p_child[prnt]
<1>1. p # prnt /\ p_prnt[p] = NULL /\ f \in PCB \cup {NULL}
  BY DEF insertChild, TreeTypeOK, Pointers
<1>2. f # NULL => p_prnt[f] = prnt
  <2>1. cs[prnt] \in Seq(PCB) /\ Leads(p_rSib, NULL, f, cs[prnt])
    BY DEF Listed
  <2>2. f # NULL => cs[prnt] # <<>> /\ f = Head(cs[prnt])
    BY <2>1, LeadsTail DEF PcbsSound
  <2>3. f # NULL => f \in ToSet(cs[prnt])
    BY <2>1, <2>2, TailQueue
  <2> QED
    BY <1>1, <2>3 DEF Listed
<1>3. f # p
  BY <1>1, <1>2 DEF PcbsSound
<1>4. /\ p_rSib'[p] = f /\ \A x \in PCB : x # p => p_rSib'[x] = p_rSib[x]
      /\ p_prnt'[p] = prnt /\ \A x \in PCB : x # p => p_prnt'[x] = p_prnt[x]
  BY DEF insertChild, rightOfNew, TreeTypeOK, Pointers
<1>5. /\ f # NULL => p_lSib'[f] = p
      /\ \A x \in PCB : x # p /\ x # f => p_lSib'[x] = p_lSib[x]
  <2>1. CASE f = NULL
    BY <1>1, <2>1 DEF insertChild, leftLinks, emptyChild, TreeTypeOK, Pointers
  <2>2. CASE f # NULL
    BY <1>1, <1>3, <2>2 DEF insertChild, leftLinks, emptyChild, TreeTypeOK, Pointers
  <2> QED
    BY <2>1, <2>2
<1>6. Unlinked'
  BY <1>4 DEF Links, Unlinked, PcbsSound
<1>7. ASSUME NEW x \in PCB, p_rSib'[x] # NULL
      PROVE  p_lSib'[p_rSib'[x]] = x
  <2>1. CASE x = p
    BY <1>4, <1>5, <1>7, <2>1
  <2>2. CASE x # p
    <3>1. p_rSib'[x] = p_rSib[x] /\ p_rSib[x] # NULL
      BY <1>4, <1>7, <2>2
    <3>2. p_rSib[x] \in PCB /\ p_rSib[x] # f /\ p_rSib[x] # p
      BY <1>1, <3>1, RightSibling DEF Links
    <3> QED
      BY <1>5, <3>1, <3>2 DEF Links, LeftOfRight
  <2> QED
    BY <2>1, <2>2
<1> QED
  BY <1>6, <1>7 DEF Links, LeftOfRight

\* removeChild takes away a child that is nobody's right sibling (pcb.c:369-376).
LEMMA RemoveLinks ==
    ASSUME PcbsSound, TreeTypeOK, NEW cs, Listed(cs), Links, NEW prnt \in PCB,
           removeChild(prnt)
    PROVE  Links'
<1> DEFINE f == p_child[prnt]
<1>1. f \in PCB
  BY DEF removeChild, emptyChild, TreeTypeOK, Pointers
<1>2. /\ p_rSib'[f] = NULL /\ \A x \in PCB : x # f => p_rSib'[x] = p_rSib[x]
      /\ \A x \in PCB : x # f => p_prnt'[x] = p_prnt[x]
      /\ \A x \in PCB : x # f => p_lSib'[x] = p_lSib[x]
  BY <1>1 DEF removeChild, Detach, TreeTypeOK, Pointers
<1>3. Unlinked'
  BY <1>2 DEF Links, Unlinked
<1>4. ASSUME NEW x \in PCB, p_rSib'[x] # NULL
      PROVE  p_lSib'[p_rSib'[x]] = x
  <2>1. p_rSib'[x] = p_rSib[x] /\ p_rSib[x] # NULL
    BY <1>2, <1>4
  <2>2. p_rSib[x] \in PCB /\ p_rSib[x] # f
    BY <2>1, RightSibling DEF Links
  <2> QED
    BY <1>2, <2>1, <2>2 DEF Links, LeftOfRight
<1> QED
  BY <1>3, <1>4 DEF Links, LeftOfRight

\* outChild links the neighbours of the child it takes out (pcb.c:408-413).
LEMMA OutLinks ==
    ASSUME PcbsSound, TreeTypeOK, NEW cs, Listed(cs), Links, NEW p \in PCB, NEW cur \in PCB,
           p_rSib[cur] = p, Bypass(p, cur)
    PROVE  Links'
<1> DEFINE r == p_rSib[p]
<1>1. cur # p /\ p_lSib[p] = cur /\ r \in PCB \cup {NULL}
  <2>1. p # NULL
    BY DEF PcbsSound
  <2> QED
    BY <2>1, RightSibling DEF Links, LeftOfRight, TreeTypeOK, Pointers
<1>2. r # NULL => r # p /\ p_lSib[r] = p
  BY RightSibling DEF Links, LeftOfRight
<1>3. /\ p_rSib'[p] = NULL /\ p_rSib'[cur] = r
      /\ \A x \in PCB : x # p /\ x # cur => p_rSib'[x] = p_rSib[x]
      /\ \A x \in PCB : x # p => p_prnt'[x] = p_prnt[x]
  BY <1>1 DEF Bypass, TreeTypeOK, Pointers
<1>4. /\ r # NULL => p_lSib'[r] = cur
      /\ \A x \in PCB : x # p /\ x # r => p_lSib'[x] = p_lSib[x]
  BY <1>1, <1>2 DEF Bypass
<1>5. Unlinked'
  <2>1. p_prnt[cur] # NULL
    BY DEF Links, Unlinked, PcbsSound
  <2> QED
    BY <1>3, <2>1 DEF Links, Unlinked
<1>6. ASSUME NEW x \in PCB, p_rSib'[x] # NULL
      PROVE  p_lSib'[p_rSib'[x]] = x
  <2>1. x # p
    BY <1>3, <1>6
  <2>2. CASE x = cur
    BY <1>3, <1>4, <1>6, <2>2
  <2>3. CASE x # cur
    <3>1. p_rSib'[x] = p_rSib[x] /\ p_rSib[x] # NULL
      BY <1>3, <1>6, <2>1, <2>3
    <3>2. p_rSib[x] \in PCB /\ p_lSib[p_rSib[x]] = x
      BY <3>1, RightSibling DEF Links, LeftOfRight
    <3>3. p_rSib[x] # p /\ p_rSib[x] # r
      BY <1>1, <1>2, <2>1, <2>3, <3>1, <3>2
    <3> QED
      BY <1>4, <3>1, <3>2, <3>3
  <2> QED
    BY <2>2, <2>3
<1> QED
  BY <1>5, <1>6 DEF Links, LeftOfRight

-----------------------------------------------------------------------------
(* Theorems about the tree                                                 *)

\* Under every sequence of calls of pcb.c the sibling pointers lead through lists
\* of children, and p_prnt agrees with them.
THEOREM TreeInvariance == TreeSpec => []TreeInv
<1>1. TreeInit => TreeInv
  BY Sound, FirstChildren DEF TreeInv
<1>2. TreeInv /\ [TreeNext]_treeVars => TreeInv'
  <2> SUFFICES ASSUME TreeInv, [TreeNext]_treeVars
               PROVE  TreeInv'
    OBVIOUS
  <2>1. PICK cs : Listed(cs)
    BY DEF TreeInv
  <2>2. CASE TreeNext
    BY <2>1, <2>2, ForestStep DEF TreeInv, PcbsSound
  <2>3. CASE UNCHANGED treeVars
    <3>1. TreeTypeOK' /\ Listed(cs)'
      BY <2>1, <2>3 DEF treeVars, TreeInv, TreeTypeOK, Listed
    <3> QED
      BY <3>1 DEF TreeInv, PcbsSound
  <2> QED
    BY <2>2, <2>3
<1> QED
  BY <1>1, <1>2, PTL DEF TreeSpec

\* For any number of pcbs, a pcb is once in the list of the parent p_prnt names,
\* and in no other (pcb.c:399-420).
THEOREM ChildOfParent == TreeSpec => []ParentHasChild
<1>1. TreeInv => ParentHasChild
  <2> SUFFICES ASSUME TreeInv, NEW p \in PCB, NEW q \in PCB
               PROVE  Cardinality({i \in DOMAIN Children(q) : Children(q)[i] = p})
                         = IF p_prnt[p] = q THEN 1 ELSE 0
    BY DEF ParentHasChild, TreeInv
  <2>1. PICK cs : Listed(cs)
    BY DEF TreeInv
  <2> DEFINE s == cs[q]
             places == {i \in DOMAIN Children(q) : Children(q)[i] = p}
  <2>2. /\ s \in Seq(PCB) /\ IsInjective(s) /\ Children(q) = s
        /\ p \in ToSet(s) <=> p_prnt[p] = q
    <3>1. cs = [x \in PCB |-> Children(x)]
      BY <2>1, ReadChildren DEF TreeInv
    <3>2. Children(q) = s
      BY <3>1
    <3> QED
      BY <2>1, <3>2 DEF Listed
  <2> HIDE DEF s
  <2>3. places = {i \in 1 .. Len(s) : s[i] = p}
    BY <2>2
  <2> HIDE DEF places
  <2>4. CASE p_prnt[p] = q
    <3>1. PICK k \in 1 .. Len(s) : s[k] = p
      BY <2>2, <2>4, InQueue
    <3>2. places = {k}
      BY <2>2, <2>3, <3>1 DEF IsInjective
    <3>3. Cardinality(places) = 1
      BY <3>2, FS_Singleton
    <3> QED
      BY <2>4, <3>3 DEF places
  <2>5. CASE p_prnt[p] # q
    <3>1. places = {}
      BY <2>2, <2>3, <2>5, InQueue
    <3>2. Cardinality(places) = 0
      BY <3>1, FS_EmptySet
    <3> QED
      BY <2>5, <3>2 DEF places
  <2> QED
    BY <2>4, <2>5
<1> QED
  BY <1>1, TreeInvariance, PTL

\* For any number of pcbs and any sequence of calls, whoever has a right sibling is
\* that sibling's left one: the p_lSib that removeChild leaves stale is never that
\* of a child with a left sibling (pcb.c:349, 372, 411).
THEOREM LeftSiblings == TreeSpec => []LeftOfRight
<1>1. TreeInit => Links
  BY DEF TreeInit, Links, LeftOfRight, Unlinked
<1>2. TreeInv /\ Links /\ [TreeNext]_treeVars => Links'
  <2> SUFFICES ASSUME TreeInv, Links, [TreeNext]_treeVars
               PROVE  Links'
    OBVIOUS
  <2>0. PcbsSound /\ TreeTypeOK
    BY DEF TreeInv
  <2>1. PICK cs : Listed(cs)
    BY DEF TreeInv
  <2>2. ASSUME NEW prnt \in PCB, NEW p \in PCB, insertChild(prnt, p)
        PROVE  Links'
    BY <2>0, <2>1, <2>2, InsertLinks
  <2>3. ASSUME NEW prnt \in PCB, removeChild(prnt)
        PROVE  Links'
    BY <2>0, <2>1, <2>3, RemoveLinks
  <2>4. CASE UNCHANGED treeVars
    BY <2>4 DEF treeVars, Links, LeftOfRight, Unlinked
  <2>5. ASSUME NEW p \in PCB, outChild(p)
        PROVE  Links'
    <3> DEFINE prnt == p_prnt[p]
    <3>1. prnt # NULL => prnt \in PCB
      BY <2>0 DEF TreeTypeOK, Pointers
    <3>2. CASE prnt # NULL /\ p_child[prnt] = p /\ removeChild(prnt)
      BY <2>3, <3>1, <3>2
    <3>3. ASSUME prnt # NULL, NEW cur \in LeftOf(p), Bypass(p, cur)
          PROVE  Links'
      <4>1. cs = [q \in PCB |-> Children(q)]
        BY <2>0, <2>1, ReadChildren
      <4>2. Children(prnt) \in Seq(PCB)
        BY <2>1, <3>1, <3>3, <4>1 DEF Listed
      <4>3. cur \in PCB /\ p_rSib[cur] = p
        BY <3>3, <4>2, MembersTyped DEF LeftOf
      <4> QED
        BY <2>0, <2>1, <3>3, <4>3, OutLinks
    <3>4. \/ UNCHANGED treeVars
          \/ prnt # NULL /\ p_child[prnt] = p /\ removeChild(prnt)
          \/ prnt # NULL /\ \E cur \in LeftOf(p) : Bypass(p, cur)
      BY <2>5 DEF outChild, Bypass
    <3> QED
      BY <2>4, <3>2, <3>3, <3>4
  <2> QED
    BY <2>2, <2>3, <2>4, <2>5 DEF TreeNext
<1>3. Links => LeftOfRight
  BY DEF Links
<1> QED
  BY <1>1, <1>2, <1>3, TreeInvariance, PTL DEF TreeSpec

\* For any number of pcbs, the sibling pointers implement ordered lists of
\* children (pcb.c:330-425); the search of outChild always finds a child that its
\* p_prnt names.
THEOREM ForestRefine == TreeSpec => ImplementsForest
<1> DEFINE C == [p \in PCB |-> Children(p)]
<1>1. ASSUME PcbsSound, TreeInit
      PROVE  Forest!Init
  BY <1>1, FirstChildren, ReadChildren DEF Forest!Init
<1>2. ASSUME TreeInv, TreeInv', [TreeNext]_treeVars
      PROVE  Forest!Next \/ UNCHANGED C
  <2>1. PICK cs : Listed(cs)
    BY <1>2 DEF TreeInv
  <2>2. C = cs /\ PcbsSound /\ TreeTypeOK
    BY <1>2, <2>1, ReadChildren DEF TreeInv
  <2>3. CASE TreeNext
    <3>1. PICK ct : TreeTypeOK' /\ Listed(ct)' /\ ForestMove(cs, ct)
      BY <2>1, <2>2, <2>3, ForestStep
    <3>2. C' = ct
      BY <2>2, <3>1, ReadChildrenNext
    <3> HIDE DEF C
    <3>3. ForestMove(C, C') /\ C \in [PCB -> Seq(PCB)]
      BY <2>1, <2>2, <3>1, <3>2 DEF Listed
    <3>4. CASE \E prnt, p \in PCB : /\ p # prnt /\ C[p] = <<>> /\ \A q \in PCB : p \notin ToSet(C[q])
                                    /\ C' = [C EXCEPT ![prnt] = <<p>> \o @]
      <4>1. PICK prnt \in PCB, p \in PCB : /\ p # prnt /\ C[p] = <<>> /\ \A q \in PCB : p \notin ToSet(C[q])
                                           /\ C' = [C EXCEPT ![prnt] = <<p>> \o @]
        BY <3>4
      <4>2. \A q \in PCB : ~Forest!Contains(C[q], p)
        BY <3>3, <4>1, InQueue DEF Forest!Contains
      <4>3. ~Forest!IsChild(p)
        BY <4>2 DEF Forest!IsChild, C
      <4> QED
        BY <4>1, <4>3 DEF Forest!Next, Forest!Adopt, C
    <3>5. CASE \E prnt \in PCB : C[prnt] # <<>> /\ C' = [C EXCEPT ![prnt] = Tail(@)]
      BY <3>5 DEF Forest!Next, Forest!DropFirst, C
    <3>6. CASE \E p \in PCB : C' = [q \in PCB |-> RemoveFirst(C[q], p)]
      <4>1. \A s, p : Forest!RemoveFirst(s, p) = RemoveFirst(s, p)
        BY DEF Forest!RemoveFirst, RemoveFirst, Forest!RemoveAt, RemoveAt,
           Forest!SelectInSeq, SelectInSeq, Forest!Min, Min
      <4> QED
        BY <3>6, <4>1 DEF Forest!Next, Forest!Leave, C
    <3> QED
      BY <3>3, <3>4, <3>5, <3>6 DEF ForestMove
  <2>4. CASE UNCHANGED treeVars
    <3>1. Listed(cs)'
      BY <2>1, <2>4 DEF treeVars, Listed
    <3>2. C' = cs
      BY <2>2, <3>1, ReadChildrenNext
    <3> QED
      BY <2>2, <3>2
  <2> QED
    BY <1>2, <2>3, <2>4
<1>3. TreeInv /\ TreeInv' /\ [TreeNext]_treeVars => [Forest!Next]_C
  BY <1>2
<1>4. TreeInit => Forest!Init
  BY <1>1, Sound
<1> QED
  BY <1>3, <1>4, TreeInvariance, PTL DEF TreeSpec, ImplementsForest, Forest!Spec, C
=============================================================================
