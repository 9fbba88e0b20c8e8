---------------------------- MODULE QueueLemmas ----------------------------
(***************************************************************************)
(* Queues as injective sequences: what the operations of pcb.c, written as *)
(* operations on sequences, do to the set of the members and to the        *)
(* length.                                                                 *)
(***************************************************************************)
EXTENDS Integers, FiniteSets, SequencesExt, Pointers,
        FiniteSetTheorems, SequenceTheorems, WellFoundedInduction, TLAPS

\* A member of a queue is at one of its positions.
LEMMA InQueue ==
    ASSUME NEW S, NEW q \in Seq(S), NEW x
    PROVE  x \in ToSet(q) <=> \E i \in 1 .. Len(q) : q[i] = x
BY DEF ToSet

\* The members of a queue over S are in S.
LEMMA MembersTyped ==
    ASSUME NEW S, NEW q \in Seq(S)
    PROVE  ToSet(q) \subseteq S
BY DEF ToSet

\* A queue has no member iff it is the empty sequence.
LEMMA NoMember ==
    ASSUME NEW S, NEW q \in Seq(S)
    PROVE  /\ q = <<>> <=> Len(q) = 0
           /\ q = <<>> <=> ToSet(q) = {}
           /\ ToSet(<<>>) = {} /\ IsInjective(<<>>)
BY EmptySeq DEF ToSet, IsInjective

\* The empty queue.
LEMMA EmptyQueue == DOMAIN <<>> = {} /\ ToSet(<<>>) = {} /\ IsInjective(<<>>)
<1>1. DOMAIN <<>> = {}
  OBVIOUS
<1> QED
  BY <1>1 DEF ToSet, IsInjective

\* insertProcQ: a new pcb at the end of a queue.
LEMMA AppendQueue ==
    ASSUME NEW S, NEW q \in Seq(S), NEW x \in S
    PROVE  /\ Append(q, x) \in Seq(S)
           /\ Len(Append(q, x)) = Len(q) + 1
           /\ ToSet(Append(q, x)) = ToSet(q) \cup {x}
           /\ IsInjective(q) /\ x \notin ToSet(q) => IsInjective(Append(q, x))
<1>1. Append(q, x) \in Seq(S) /\ Len(Append(q, x)) = Len(q) + 1
  OBVIOUS
<1>2. \A i \in 1 .. Len(q) : Append(q, x)[i] = q[i]
  OBVIOUS
<1>3. Append(q, x)[Len(q) + 1] = x
  OBVIOUS
<1>4. ToSet(Append(q, x)) = ToSet(q) \cup {x}
  BY <1>1, <1>2, <1>3 DEF ToSet
<1>5. ASSUME IsInjective(q), x \notin ToSet(q)
      PROVE  IsInjective(Append(q, x))
  BY <1>1, <1>2, <1>3, <1>5 DEF IsInjective, ToSet
<1> QED
  BY <1>1, <1>4, <1>5

\* A pcb in front of a queue.
LEMMA ConsQueue ==
    ASSUME NEW S, NEW q \in Seq(S), NEW x \in S
    PROVE  /\ <<x>> \o q \in Seq(S)
           /\ ToSet(<<x>> \o q) = ToSet(q) \cup {x}
           /\ IsInjective(q) /\ x \notin ToSet(q) => IsInjective(<<x>> \o q)
<1> DEFINE r == <<x>> \o q
<1>1. r \in Seq(S) /\ Len(r) = Len(q) + 1
  BY ConcatProperties
<1>2. r[1] = x
  BY ConcatProperties
<1>3. \A i \in 1 .. Len(q) : r[i + 1] = q[i]
  BY ConcatProperties
<1>4. \A i \in 2 .. Len(r) : r[i] = q[i - 1]
  BY <1>1, <1>3
<1> HIDE DEF r
<1>5. ToSet(r) = ToSet(q) \cup {x}
  <2>1. ASSUME NEW y \in ToSet(r) PROVE y \in ToSet(q) \cup {x}
    <3>1. PICK i \in 1 .. Len(r) : r[i] = y
      BY <1>1, <2>1, InQueue
    <3>2. CASE i = 1
      BY <1>2, <3>1, <3>2
    <3>3. CASE i # 1
      <4>1. i - 1 \in 1 .. Len(q) /\ q[i - 1] = y
        BY <1>1, <1>4, <3>1, <3>3
      <4> QED
        BY <4>1, InQueue
    <3> QED
      BY <3>2, <3>3
  <2>2. ASSUME NEW y \in ToSet(q) PROVE y \in ToSet(r)
    <3>1. PICK i \in 1 .. Len(q) : q[i] = y
      BY <2>2, InQueue
    <3>2. i + 1 \in 1 .. Len(r) /\ r[i + 1] = y
      BY <1>1, <1>3, <3>1
    <3> QED
      BY <1>1, <3>2, InQueue
  <2>3. x \in ToSet(r)
    <3>1. 1 \in 1 .. Len(r)
      BY <1>1
    <3> QED
      BY <1>1, <1>2, <3>1, InQueue
  <2> QED
    BY <2>1, <2>2, <2>3
<1>6. ASSUME IsInjective(q), x \notin ToSet(q)
      PROVE  IsInjective(r)
  BY <1>1, <1>2, <1>4, <1>6, SMTT(30) DEF IsInjective, ToSet
<1> QED
  BY <1>1, <1>5, <1>6 DEF r

\* removeProcQ: the head leaves the queue.
LEMMA TailQueue ==
    ASSUME NEW S, NEW q \in Seq(S), q # <<>>
    PROVE  /\ Head(q) \in S /\ Head(q) \in ToSet(q)
           /\ Tail(q) \in Seq(S)
           /\ Len(Tail(q)) = Len(q) - 1
           /\ IsInjective(q) => /\ ToSet(Tail(q)) = ToSet(q) \ {Head(q)}
                                /\ IsInjective(Tail(q))
<1>1. Len(q) \in Nat /\ Len(q) > 0
  BY EmptySeq
<1>2. Head(q) = q[1] /\ Head(q) \in S /\ Tail(q) \in Seq(S) /\ Len(Tail(q)) = Len(q) - 1
  BY <1>1
<1>3. \A i \in 1 .. Len(q) - 1 : Tail(q)[i] = q[i + 1]
  BY <1>1
<1>4. \A i \in 2 .. Len(q) : Tail(q)[i - 1] = q[i]
  BY <1>1, <1>3
<1>5. Head(q) \in ToSet(q)
  BY <1>1, <1>2 DEF ToSet
<1>6. ASSUME IsInjective(q)
      PROVE  ToSet(Tail(q)) = ToSet(q) \ {Head(q)} /\ IsInjective(Tail(q))
  <2> DEFINE t == Tail(q)
  <2>1. t \in Seq(S) /\ Len(t) = Len(q) - 1 /\ \A i \in 1 .. Len(t) : t[i] = q[i + 1]
    BY <1>2, <1>3
  <2>2. \A i \in 2 .. Len(q) : i - 1 \in 1 .. Len(t) /\ t[i - 1] = q[i]
    BY <1>1, <1>2, <1>4
  <2> HIDE DEF t
  <2>3. ASSUME NEW y \in ToSet(t) PROVE y \in ToSet(q) /\ y # q[1]
    <3>1. PICK i \in 1 .. Len(t) : t[i] = y
      BY <2>1, <2>3, InQueue
    <3>2. i + 1 \in 1 .. Len(q) /\ 1 \in 1 .. Len(q) /\ i + 1 # 1 /\ q[i + 1] = y
      BY <1>1, <2>1, <3>1
    <3>3. q[i + 1] # q[1]
      BY <1>6, <3>2 DEF IsInjective
    <3> QED
      BY <3>2, <3>3, InQueue
  <2>4. ASSUME NEW y \in ToSet(q), y # q[1] PROVE y \in ToSet(t)
    <3>1. PICK i \in 1 .. Len(q) : q[i] = y
      BY <2>4, InQueue
    <3>2. i - 1 \in 1 .. Len(t) /\ t[i - 1] = y
      BY <2>2, <2>4, <3>1
    <3> QED
      BY <2>1, <3>2, InQueue
  <2>5. IsInjective(t)
    BY <1>1, <1>6, <2>1 DEF IsInjective
  <2> QED
    BY <1>2, <2>3, <2>4, <2>5 DEF t
<1> QED
  BY <1>2, <1>5, <1>6

\* Position i leaves the queue.
LEMMA RemoveAtQueue ==
    ASSUME NEW S, NEW q \in Seq(S), NEW i \in 1 .. Len(q)
    PROVE  /\ RemoveAt(q, i) \in Seq(S)
           /\ Len(RemoveAt(q, i)) = Len(q) - 1
           /\ \A k \in 1 .. Len(q) - 1 :
                RemoveAt(q, i)[k] = IF k < i THEN q[k] ELSE q[k + 1]
<1> DEFINE a == SubSeq(q, 1, i - 1)
           b == SubSeq(q, i + 1, Len(q))
<1>1. a \in Seq(S) /\ Len(a) = i - 1 /\ \A k \in 1 .. i - 1 : a[k] = q[k]
  BY SubSeqProperties
<1>2. b \in Seq(S) /\ Len(b) = Len(q) - i /\ \A k \in 1 .. Len(q) - i : b[k] = q[i + k]
  BY SubSeqProperties
<1> HIDE DEF a, b
<1>3. /\ a \o b \in Seq(S) /\ Len(a \o b) = Len(q) - 1
      /\ \A k \in 1 .. Len(a) + Len(b) : (a \o b)[k] = IF k <= Len(a) THEN a[k] ELSE b[k - Len(a)]
  <2>1. a \o b \in Seq(S) /\ Len(a \o b) = Len(a) + Len(b)
    BY <1>1, <1>2, ConcatProperties
  <2>2. Len(a \o b) = Len(q) - 1
    BY <1>1, <1>2, <2>1
  <2>3. \A k \in 1 .. Len(a) + Len(b) : (a \o b)[k] = IF k <= Len(a) THEN a[k] ELSE b[k - Len(a)]
    BY <1>1, <1>2, ConcatProperties
  <2> QED
    BY <2>1, <2>2, <2>3
<1>4. \A k \in 1 .. Len(q) - 1 : (a \o b)[k] = IF k < i THEN q[k] ELSE q[k + 1]
  <2> SUFFICES ASSUME NEW k \in 1 .. Len(q) - 1
               PROVE  (a \o b)[k] = IF k < i THEN q[k] ELSE q[k + 1]
    OBVIOUS
  <2>1. CASE k < i
    BY <1>1, <1>2, <1>3, <2>1
  <2>2. CASE ~(k < i)
    <3>1. (a \o b)[k] = b[k - (i - 1)]
      BY <1>1, <1>2, <1>3, <2>2
    <3>2. b[k - (i - 1)] = q[i + (k - (i - 1))]
      BY <1>2, <2>2
    <3> QED
      BY <3>1, <3>2, <2>2
  <2> QED
    BY <2>1, <2>2
<1> QED
  BY <1>3, <1>4 DEF RemoveAt, a, b

\* outProcQ: a pcb leaves the queue from wherever it is.
LEMMA OutQueue ==
    ASSUME NEW S, NEW q \in Seq(S), IsInjective(q), NEW i \in 1 .. Len(q)
    PROVE  /\ ToSet(RemoveAt(q, i)) = ToSet(q) \ {q[i]}
           /\ IsInjective(RemoveAt(q, i))
<1> DEFINE r == RemoveAt(q, i)
<1>1. r \in Seq(S) /\ Len(r) = Len(q) - 1
  BY RemoveAtQueue
<1>2. \A k \in 1 .. Len(q) - 1 : r[k] = IF k < i THEN q[k] ELSE q[k + 1]
  BY RemoveAtQueue
<1> HIDE DEF r
<1>3. \A k \in 1 .. Len(q) : k # i => \E j \in 1 .. Len(r) : r[j] = q[k]
  <2> SUFFICES ASSUME NEW k \in 1 .. Len(q), k # i
               PROVE  \E j \in 1 .. Len(r) : r[j] = q[k]
    OBVIOUS
  <2>1. CASE k < i
    BY <1>1, <1>2, <2>1
  <2>2. CASE k > i
    <3>1. k - 1 \in 1 .. Len(r) /\ r[k - 1] = q[k]
      BY <1>1, <1>2, <2>2
    <3> QED
      BY <3>1
  <2> QED
    BY <2>1, <2>2
<1>4. ToSet(r) = ToSet(q) \ {q[i]}
  <2>1. ToSet(r) \subseteq ToSet(q) \ {q[i]}
    BY <1>1, <1>2 DEF ToSet, IsInjective
  <2>2. ToSet(q) \ {q[i]} \subseteq ToSet(r)
    BY <1>1, <1>3 DEF ToSet
  <2> QED
    BY <2>1, <2>2
<1>5. IsInjective(r)
  BY <1>1, <1>2, SMTT(30) DEF IsInjective
<1> QED
  BY <1>4, <1>5 DEF r

\* The pcbs of one queue behind those of another.
LEMMA ConcatQueue ==
    ASSUME NEW S, NEW q \in Seq(S), NEW r \in Seq(S)
    PROVE  /\ q \o r \in Seq(S)
           /\ ToSet(q \o r) = ToSet(q) \cup ToSet(r)
           /\ IsInjective(q) /\ IsInjective(r) /\ ToSet(q) \cap ToSet(r) = {}
                => IsInjective(q \o r)
<1> DEFINE c == q \o r
<1>1. /\ c \in Seq(S) /\ Len(c) = Len(q) + Len(r)
      /\ \A k \in 1 .. Len(q) + Len(r) : c[k] = IF k <= Len(q) THEN q[k] ELSE r[k - Len(q)]
  BY ConcatProperties
<1> HIDE DEF c
<1>2. \A k \in 1 .. Len(q) : k \in 1 .. Len(c) /\ c[k] = q[k]
  BY <1>1
<1>3. \A k \in 1 .. Len(r) : k + Len(q) \in 1 .. Len(c) /\ c[k + Len(q)] = r[k]
  BY <1>1
<1>4. \A k \in 1 .. Len(c) : \/ k \in 1 .. Len(q) /\ c[k] = q[k]
                             \/ k - Len(q) \in 1 .. Len(r) /\ c[k] = r[k - Len(q)]
  BY <1>1
<1>5. ToSet(c) = ToSet(q) \cup ToSet(r)
  <2>1. ToSet(c) \subseteq ToSet(q) \cup ToSet(r)
    BY <1>1, <1>4 DEF ToSet
  <2>2. ToSet(q) \subseteq ToSet(c)
    BY <1>1, <1>2 DEF ToSet
  <2>3. ASSUME NEW y \in ToSet(r) PROVE y \in ToSet(c)
    <3>1. PICK k \in 1 .. Len(r) : r[k] = y
      BY <2>3, InQueue
    <3>2. k + Len(q) \in 1 .. Len(c) /\ c[k + Len(q)] = y
      BY <1>3, <3>1
    <3> QED
      BY <1>1, <3>2, InQueue
  <2> QED
    BY <2>1, <2>2, <2>3
<1>6. ASSUME IsInjective(q), IsInjective(r), ToSet(q) \cap ToSet(r) = {}
      PROVE  IsInjective(c)
  <2> SUFFICES ASSUME NEW i \in 1 .. Len(c), NEW j \in 1 .. Len(c), c[i] = c[j]
               PROVE  i = j
    BY <1>1 DEF IsInjective
  <2>1. \A m \in 1 .. Len(q), n \in 1 .. Len(r) : q[m] # r[n]
    BY <1>6 DEF ToSet
  <2> QED
    BY <1>4, <1>6, <2>1, SMTT(30) DEF IsInjective
<1> QED
  BY <1>1, <1>5, <1>6 DEF c

\* A queue has as many members as it is long.
LEMMA QueueLength ==
    ASSUME NEW S, NEW q \in Seq(S), IsInjective(q)
    PROVE  IsFiniteSet(ToSet(q)) /\ Cardinality(ToSet(q)) = Len(q)
<1>1. q \in Bijection(1 .. Len(q), ToSet(q))
  BY DEF Bijection, Injection, Surjection, IsInjective, ToSet
<1>2. IsFiniteSet(1 .. Len(q)) /\ Cardinality(1 .. Len(q)) = Len(q)
  <2>1. Len(q) \in Nat /\ 1 \in Int /\ Len(q) \in Int
    OBVIOUS
  <2>2. IsFiniteSet(1 .. Len(q)) /\ Cardinality(1 .. Len(q)) = IF 1 > Len(q) THEN 0 ELSE Len(q) - 1 + 1
    BY <2>1, FS_Interval, Zenon
  <2> QED
    BY <2>1, <2>2
<1> QED
  BY <1>1, <1>2, FS_Bijection DEF ExistsBijection

\* A list in memory whose pointers lead through the members of a queue in order,
\* and then to null, is read as that queue.
LEMMA ChainIs ==
    ASSUME NEW S, NEW null, NEW next, NEW start, NEW max \in Nat, NEW s \in Seq(S),
           null \notin S, Len(s) <= max,
           start = IF s = <<>> THEN null ELSE s[1],
           \A i \in 1 .. Len(s) : next[s[i]] = IF i = Len(s) THEN null ELSE s[i + 1]
    PROVE  Chain(next, start, null, max) = s
<1> DEFINE f == [n \in 1 .. max |-> IF n <= Len(s) THEN s[n] ELSE null]
           E(g) == [n \in 1 .. max |-> IF n = 1 THEN start
                                       ELSE IF g[n - 1] = null THEN null
                                       ELSE next[g[n - 1]]]
           at == CHOOSE g : g = E(g)
<1>1. Chain(next, start, null, max)
        = [n \in 1 .. Cardinality({i \in 1 .. max : at[i] # null}) |-> at[n]]
  BY DEF Chain
<1>2. f = E(f)
  <2> SUFFICES ASSUME NEW n \in 1 .. max
               PROVE  f[n] = IF n = 1 THEN start
                             ELSE IF f[n - 1] = null THEN null
                             ELSE next[f[n - 1]]
    OBVIOUS
  <2>1. s = <<>> <=> Len(s) = 0
    BY EmptySeq
  <2>2. CASE n = 1
    BY <2>1, <2>2
  <2>3. CASE n # 1
    <3>1. n - 1 \in 1 .. max /\ n - 1 \in Nat /\ n \in Nat
      BY <2>3
    <3>2. CASE n <= Len(s)
      <4>1. n - 1 \in 1 .. Len(s) /\ n - 1 # Len(s) /\ n - 1 + 1 = n
        BY <3>1, <3>2
      <4>2. f[n] = s[n] /\ f[n - 1] = s[n - 1] /\ s[n - 1] \in S
        BY <3>1, <3>2, <4>1
      <4>3. next[s[n - 1]] = s[n]
        BY <4>1
      <4> QED
        BY <2>3, <4>2, <4>3
    <3>3. CASE n - 1 = Len(s)
      <4>1. f[n] = null /\ f[n - 1] = s[n - 1] /\ s[n - 1] \in S /\ n - 1 \in 1 .. Len(s)
        BY <3>1, <3>3
      <4> QED
        BY <2>3, <3>3, <4>1
    <3>4. CASE n - 1 > Len(s)
      <4>1. f[n] = null /\ f[n - 1] = null
        BY <3>1, <3>4
      <4> QED
        BY <2>3, <4>1
    <3> QED
      BY <3>1, <3>2, <3>3, <3>4
  <2> QED
    BY <2>2, <2>3
<1>3. at = E(at)
  BY <1>2
<1> HIDE DEF at
<1>4. \A n \in 1 .. max : at[n] = f[n]
  <2> DEFINE Wrong == {n \in 1 .. max : at[n] # f[n]}
  <2> SUFFICES ASSUME Wrong # {}
               PROVE  FALSE
    OBVIOUS
  <2>1. PICK n \in Wrong : \A m \in Wrong : ~(m < n)
    <3>1. IsWellFoundedOn(OpToRel(<, Nat), Nat)
      BY NatLessThanWellFounded
    <3>2. Wrong \subseteq Nat
      OBVIOUS
    <3>3. PICK n \in Wrong : \A m \in Wrong : ~(<<m, n>> \in OpToRel(<, Nat))
      BY <3>1, <3>2, WFMin
    <3> QED
      BY <3>2, <3>3 DEF OpToRel
  <2>2. n \in 1 .. max /\ at[n] # f[n]
    OBVIOUS
  <2>3. n # 1
    BY <1>2, <1>3, <2>2
  <2>4. n - 1 \in 1 .. max /\ n - 1 < n
    BY <2>2, <2>3
  <2>5. at[n - 1] = f[n - 1]
    BY <2>1, <2>4
  <2>6. /\ at[n] = IF at[n - 1] = null THEN null ELSE next[at[n - 1]]
        /\ f[n] = IF f[n - 1] = null THEN null ELSE next[f[n - 1]]
    BY <1>2, <1>3, <2>2, <2>3
  <2> QED
    BY <2>2, <2>5, <2>6
<1>5. {i \in 1 .. max : at[i] # null} = 1 .. Len(s)
  BY <1>4
<1>6. Cardinality(1 .. Len(s)) = Len(s)
  <2>1. Len(s) \in Nat /\ 1 \in Int /\ Len(s) \in Int
    OBVIOUS
  <2>2. Cardinality(1 .. Len(s)) = IF 1 > Len(s) THEN 0 ELSE Len(s) - 1 + 1
    BY <2>1, FS_Interval, Zenon
  <2> QED
    BY <2>1, <2>2
<1>7. Chain(next, start, null, max) = [n \in 1 .. Len(s) |-> at[n]]
  BY <1>1, <1>5, <1>6
<1>8. \A n \in 1 .. Len(s) : at[n] = s[n]
  BY <1>4
<1> QED
  BY <1>7, <1>8

\* The pointers next lead from start through the queue s, in order, to null.
Leads(next, null, start, s) ==
    /\ start = IF s = <<>> THEN null ELSE s[1]
    /\ \A i \in 1 .. Len(s) : next[s[i]] = IF i = Len(s) THEN null ELSE s[i + 1]

\* A list is left alone by stores to elements that are not in it.
LEMMA LeadsFrame ==
    ASSUME NEW S, NEW null, NEW next, NEW other, NEW start, NEW s \in Seq(S),
           Leads(next, null, start, s), \A x \in ToSet(s) : other[x] = next[x]
    PROVE  Leads(other, null, start, s)
<1>1. \A i \in 1 .. Len(s) : other[s[i]] = next[s[i]]
  BY InQueue
<1> QED
  BY <1>1 DEF Leads

\* The head of a list, and what is behind it.
LEMMA LeadsTail ==
    ASSUME NEW S, NEW null, null \notin S, NEW next, NEW start, NEW s \in Seq(S),
           Leads(next, null, start, s)
    PROVE  /\ s # <<>> <=> start # null
           /\ s # <<>> => start = Head(s) /\ Leads(next, null, next[start], Tail(s))
<1>1. CASE s = <<>>
  BY <1>1 DEF Leads
<1>2. CASE s # <<>>
  <2>1. Len(s) \in Nat /\ Len(s) > 0 /\ Head(s) = s[1] /\ s[1] \in S
    BY <1>2
  <2>2. start = s[1] /\ start # null
    BY <1>2, <2>1 DEF Leads
  <2> DEFINE t == Tail(s)
  <2>3. /\ t \in Seq(S) /\ Len(t) = Len(s) - 1
        /\ \A i \in 1 .. Len(s) - 1 : t[i] = s[i + 1]
    BY <1>2, <2>1
  <2> HIDE DEF t
  <2>4. t = <<>> <=> Len(s) = 1
    <3>1. t = <<>> <=> Len(t) = 0
      BY <2>3, NoMember
    <3> QED
      BY <2>1, <2>3, <3>1
  <2>5. next[start] = IF t = <<>> THEN null ELSE t[1]
    <3>1. next[s[1]] = IF 1 = Len(s) THEN null ELSE s[2]
      <4>1. 1 + 1 = 2 /\ 1 \in 1 .. Len(s)
        BY <2>1
      <4> QED
        BY <4>1 DEF Leads
    <3>2. Len(s) # 1 => t[1] = s[2]
      BY <2>1, <2>3
    <3> QED
      BY <2>2, <2>4, <3>1, <3>2
  <2>6. ASSUME NEW i \in 1 .. Len(t)
        PROVE  next[t[i]] = IF i = Len(t) THEN null ELSE t[i + 1]
    <3>1. i \in 1 .. Len(s) - 1 /\ i + 1 \in 1 .. Len(s)
      BY <2>1, <2>3
    <3>2. next[s[i + 1]] = IF i + 1 = Len(s) THEN null ELSE s[i + 2]
      <4>1. (i + 1) + 1 = i + 2
        BY <3>1
      <4> QED
        BY <3>1, <4>1 DEF Leads
    <3>3. i + 1 # Len(s) => t[i + 1] = s[i + 2]
      BY <2>1, <2>3, <3>1
    <3> QED
      BY <2>1, <2>3, <3>1, <3>2, <3>3
  <2> QED
    BY <1>2, <2>1, <2>2, <2>5, <2>6 DEF Leads, t
<1> QED
  BY <1>1, <1>2

\* A new element that points to the first one becomes the head.
LEMMA LeadsCons ==
    ASSUME NEW S, NEW null, NEW next, NEW start, NEW s \in Seq(S), NEW x \in S,
           Leads(next, null, start, s), next[x] = start
    PROVE  Leads(next, null, x, <<x>> \o s)
<1> DEFINE t == <<x>> \o s
<1>1. /\ t \in Seq(S) /\ Len(t) = Len(s) + 1 /\ t[1] = x /\ Len(s) \in Nat
      /\ \A i \in 2 .. Len(t) : t[i] = s[i - 1]
  OBVIOUS
<1>2. t # <<>>
  BY <1>1, NoMember
<1>3. ASSUME NEW i \in 1 .. Len(t)
      PROVE  next[t[i]] = IF i = Len(t) THEN null ELSE t[i + 1]
  <2> HIDE DEF t
  <2>1. CASE i = 1
    <3>1. s = <<>> <=> Len(t) = 1
      BY <1>1, NoMember
    <3>2. Len(t) # 1 => t[1 + 1] = s[1]
      BY <1>1
    <3> QED
      BY <1>1, <2>1, <3>1, <3>2 DEF Leads
  <2>2. CASE i # 1
    <3>1. i \in 2 .. Len(t) /\ i - 1 \in 1 .. Len(s)
      BY <1>1, <2>2
    <3>2. next[s[i - 1]] = IF i - 1 = Len(s) THEN null ELSE s[i]
      <4>1. (i - 1) + 1 = i
        BY <3>1
      <4> QED
        BY <3>1, <4>1 DEF Leads
    <3>3. i # Len(t) => t[i + 1] = s[i]
      <4>1. (i + 1) - 1 = i /\ (i # Len(t) => i + 1 \in 2 .. Len(t))
        BY <1>1, <3>1
      <4> QED
        BY <1>1, <4>1
    <3>4. i = Len(t) <=> i - 1 = Len(s)
      BY <1>1, <3>1
    <3> QED
      BY <1>1, <3>1, <3>2, <3>3, <3>4
  <2> QED
    BY <2>1, <2>2
<1> QED
  BY <1>1, <1>2, <1>3 DEF Leads

\* An element that is not the first is bypassed from the one before it.
LEMMA LeadsOut ==
    ASSUME NEW S, NEW null, NEW next, NEW other, NEW start, NEW s \in Seq(S), IsInjective(s),
           Leads(next, null, start, s), NEW k \in 2 .. Len(s),
           \A x \in ToSet(s) \ {s[k]} :
              other[x] = IF x = s[k - 1] THEN next[s[k]] ELSE next[x]
    PROVE  Leads(other, null, start, RemoveAt(s, k))
<1> DEFINE r == RemoveAt(s, k)
<1>1. Len(s) \in Nat /\ k \in 1 .. Len(s) /\ k - 1 \in 1 .. Len(s) /\ Len(s) > 1
  OBVIOUS
<1>2. r \in Seq(S) /\ Len(r) = Len(s) - 1
  BY <1>1, RemoveAtQueue
<1>a. \A i \in 1 .. Len(s) - 1 : r[i] = IF i < k THEN s[i] ELSE s[i + 1]
  BY <1>1, RemoveAtQueue
<1>3. \A i, j \in 1 .. Len(s) : s[i] = s[j] => i = j
  BY <1>1 DEF IsInjective
<1>4. r # <<>>
  <2>1. r = <<>> <=> Len(r) = 0
    BY <1>2, NoMember
  <2> QED
    BY <1>1, <1>2, <2>1
<1> HIDE DEF r
<1>5. start = r[1]
  <2>1. s # <<>>
    BY <1>1, NoMember
  <2>2. 1 < k /\ 1 \in 1 .. Len(s) - 1
    BY <1>1
  <2> QED
    BY <1>a, <2>1, <2>2 DEF Leads
<1>6. ASSUME NEW i \in 1 .. Len(r)
      PROVE  other[r[i]] = IF i = Len(r) THEN null ELSE r[i + 1]
  \* j is the place in s of the element at place i of r.
  <2>1. PICK j \in 1 .. Len(s) : (i < k /\ j = i) \/ (~(i < k) /\ j = i + 1)
    BY <1>1, <1>2
  <2>2. r[i] = s[j] /\ j # k /\ s[j] # s[k] /\ s[j] \in ToSet(s) \ {s[k]}
    BY <1>1, <1>2, <1>3, <1>a, <2>1, InQueue
  <2>3. \A m \in 1 .. Len(s) - 1 : (m < k => r[m] = s[m]) /\ (~(m < k) => r[m] = s[m + 1])
    BY <1>a
  <2>4. other[s[j]] = IF s[j] = s[k - 1] THEN next[s[k]] ELSE next[s[j]]
    BY <2>2
  <2>5. s[j] = s[k - 1] <=> j = k - 1
    BY <1>1, <1>3
  <2>6. CASE j = k - 1
    <3>1. next[s[k]] = IF k = Len(s) THEN null ELSE s[k + 1]
      BY <1>1 DEF Leads
    <3>2. CASE k = Len(s)
      <4>1. i = Len(r)
        BY <1>1, <1>2, <2>1, <2>6, <3>2
      <4> QED
        BY <2>2, <2>4, <2>5, <2>6, <3>1, <3>2, <4>1
    <3>3. CASE k # Len(s)
      <4>1. i # Len(r) /\ i + 1 \in 1 .. Len(s) - 1 /\ ~(i + 1 < k) /\ (i + 1) + 1 = k + 1
        BY <1>1, <1>2, <2>1, <2>6, <3>3
      <4>2. r[i + 1] = s[k + 1]
        BY <2>3, <4>1
      <4> QED
        BY <2>2, <2>4, <2>5, <2>6, <3>1, <3>3, <4>1, <4>2
    <3> QED
      BY <3>2, <3>3
  <2>7. CASE j # k - 1
    <3>1. next[s[j]] = IF j = Len(s) THEN null ELSE s[j + 1]
      BY DEF Leads
    <3>2. CASE j = Len(s)
      <4>1. i = Len(r)
        BY <1>1, <1>2, <2>1, <2>2, <2>7, <3>2
      <4> QED
        BY <2>2, <2>4, <2>5, <2>7, <3>1, <3>2, <4>1
    <3>3. CASE j # Len(s)
      <4>1. /\ i # Len(r) /\ i + 1 \in 1 .. Len(s) - 1
            /\ (i + 1 < k /\ j + 1 = i + 1) \/ (~(i + 1 < k) /\ j + 1 = (i + 1) + 1)
        <5>1. j # k
          BY <2>2
        <5> QED
          BY <1>1, <1>2, <2>1, <2>7, <3>3, <5>1
      <4>2. r[i + 1] = s[j + 1]
        BY <2>3, <4>1
      <4> QED
        BY <2>2, <2>4, <2>5, <2>7, <3>1, <3>3, <4>1, <4>2
    <3> QED
      BY <3>2, <3>3
  <2> QED
    BY <2>6, <2>7
<1> QED
  BY <1>4, <1>5, <1>6 DEF Leads, r

\* RemoveFirst takes an element out of the place where it is, if there is one.
LEMMA RemoveFirstIs ==
    ASSUME NEW S, NEW s \in Seq(S), IsInjective(s)
    PROVE  /\ \A k \in 1 .. Len(s) : RemoveFirst(s, s[k]) = RemoveAt(s, k)
           /\ \A x : x \notin ToSet(s) => RemoveFirst(s, x) = s
<1>1. ASSUME NEW k \in 1 .. Len(s)
      PROVE  RemoveFirst(s, s[k]) = RemoveAt(s, k)
  <2>1. {i \in 1 .. Len(s) : s[i] = s[k]} = {k}
    BY DEF IsInjective
  <2>2. Min({k}) = k
    BY DEF Min
  <2>3. SelectInSeq(s, LAMBDA v : v = s[k]) = k
    BY <2>1, <2>2 DEF SelectInSeq
  <2> QED
    BY <2>3 DEF RemoveFirst
<1>2. ASSUME NEW x, x \notin ToSet(s)
      PROVE  RemoveFirst(s, x) = s
  BY <1>2, InQueue DEF RemoveFirst
<1> QED
  BY <1>1, <1>2

\* A queue over a finite set is not longer than the set is large.
LEMMA QueueFits ==
    ASSUME NEW S, IsFiniteSet(S), NEW s \in Seq(S), IsInjective(s)
    PROVE  Len(s) <= Cardinality(S) /\ Cardinality(S) \in Nat
<1>1. ToSet(s) \in SUBSET S
  BY MembersTyped
<1>2. Cardinality(ToSet(s)) = Len(s)
  BY QueueLength
<1> QED
  BY <1>1, <1>2, FS_Subset, FS_CardinalityType

\* A list in memory is read as what its pointers lead through.
LEMMA LeadsRead ==
    ASSUME NEW S, NEW null, null \notin S, NEW next, NEW start, NEW max \in Nat,
           NEW s \in Seq(S), Len(s) <= max, Leads(next, null, start, s)
    PROVE  Chain(next, start, null, max) = s
BY ChainIs DEF Leads

\* A new element at position i.
LEMMA InsertAtQueue ==
    ASSUME NEW S, NEW q \in Seq(S), NEW i \in 1 .. Len(q) + 1, NEW e \in S
    PROVE  /\ InsertAt(q, i, e) \in Seq(S)
           /\ Len(InsertAt(q, i, e)) = Len(q) + 1
           /\ \A k \in 1 .. Len(q) + 1 :
                InsertAt(q, i, e)[k] = IF k < i THEN q[k] ELSE IF k = i THEN e ELSE q[k - 1]
<1> DEFINE a == SubSeq(q, 1, i - 1)
           b == SubSeq(q, i, Len(q))
           c == a \o <<e>>
           r == c \o b
<1>0. Len(q) \in Nat /\ i \in Nat
  OBVIOUS
<1>1. a \in Seq(S) /\ Len(a) = i - 1 /\ \A k \in 1 .. i - 1 : a[k] = q[k]
  BY SubSeqProperties
<1>2. b \in Seq(S) /\ Len(b) = Len(q) - (i - 1) /\ \A k \in 1 .. Len(q) - (i - 1) : b[k] = q[(i - 1) + k]
  BY SubSeqProperties
<1> HIDE DEF a, b
<1>3. c \in Seq(S) /\ Len(c) = i /\ c[i] = e /\ \A k \in 1 .. i - 1 : c[k] = q[k]
  BY <1>0, <1>1
<1> HIDE DEF c
<1>4. /\ r \in Seq(S) /\ Len(r) = Len(q) + 1
      /\ \A k \in 1 .. Len(q) + 1 : r[k] = IF k <= i THEN c[k] ELSE b[k - i]
  <2>1. r \in Seq(S) /\ Len(r) = Len(c) + Len(b)
    BY <1>2, <1>3, ConcatProperties
  <2>2. Len(c) + Len(b) = Len(q) + 1
    BY <1>0, <1>2, <1>3
  <2>3. \A k \in 1 .. Len(c) + Len(b) : r[k] = IF k <= Len(c) THEN c[k] ELSE b[k - Len(c)]
    BY <1>2, <1>3, ConcatProperties
  <2> QED
    BY <1>3, <2>1, <2>2, <2>3
<1> HIDE DEF r
<1>5. ASSUME NEW k \in 1 .. Len(q) + 1
      PROVE  r[k] = IF k < i THEN q[k] ELSE IF k = i THEN e ELSE q[k - 1]
  <2>1. CASE k <= i
    BY <1>0, <1>3, <1>4, <2>1
  <2>2. CASE ~(k <= i)
    <3>1. k - i \in 1 .. Len(q) - (i - 1) /\ (i - 1) + (k - i) = k - 1
      BY <1>0, <2>2
    <3>2. b[k - i] = q[k - 1]
      BY <1>2, <3>1
    <3> QED
      BY <1>0, <1>4, <2>2, <3>2
  <2> QED
    BY <2>1, <2>2
<1> QED
  BY <1>4, <1>5 DEF InsertAt, r, c, a, b

\* The members of a queue with a new element in it.
LEMMA InsertQueue ==
    ASSUME NEW S, NEW q \in Seq(S), IsInjective(q), NEW i \in 1 .. Len(q) + 1,
           NEW e \in S, e \notin ToSet(q)
    PROVE  /\ ToSet(InsertAt(q, i, e)) = ToSet(q) \cup {e}
           /\ IsInjective(InsertAt(q, i, e))
<1> DEFINE r == InsertAt(q, i, e)
<1>0. /\ r \in Seq(S)
      /\ Len(r) = Len(q) + 1
      /\ \A k \in 1 .. Len(q) + 1 :
           r[k] = IF k < i THEN q[k] ELSE IF k = i THEN e ELSE q[k - 1]
  BY InsertAtQueue, SMTT(30)
<1> HIDE DEF r
<1>1. r \in Seq(S) /\ Len(r) = Len(q) + 1 /\ Len(q) \in Nat
  BY <1>0
<1>2. \A k \in 1 .. Len(q) + 1 : r[k] = IF k < i THEN q[k] ELSE IF k = i THEN e ELSE q[k - 1]
  BY <1>0
<1>3. \A k \in 1 .. Len(q) : q[k] # e
  BY InQueue
<1>4. ToSet(r) = ToSet(q) \cup {e}
  <2>1. ASSUME NEW k \in 1 .. Len(q)
        PROVE  \E j \in 1 .. Len(r) : r[j] = q[k]
    <3>1. CASE k < i
      BY <1>1, <1>2, <3>1
    <3>2. CASE ~(k < i)
      <4>1. k + 1 \in 1 .. Len(q) + 1 /\ ~(k + 1 < i) /\ k + 1 # i /\ (k + 1) - 1 = k
        BY <1>1, <3>2
      <4>2. r[k + 1] = q[k]
        BY <1>2, <4>1
      <4> QED
        BY <1>1, <4>1, <4>2
    <3> QED
      BY <3>1, <3>2
  <2>2. r[i] = e
    BY <1>2
  <2>3. ASSUME NEW k \in 1 .. Len(r)
        PROVE  r[k] \in ToSet(q) \cup {e}
    <3>1. k < i => k \in 1 .. Len(q)
      BY <1>1
    <3>2. ~(k < i) /\ k # i => k - 1 \in 1 .. Len(q)
      BY <1>1
    <3> QED
      BY <1>1, <1>2, <3>1, <3>2, InQueue
  <2>4. ToSet(q) \cup {e} \subseteq ToSet(r)
    BY <1>1, <2>1, <2>2, InQueue
  <2>5. ToSet(r) \subseteq ToSet(q) \cup {e}
    BY <1>1, <2>3, InQueue
  <2> QED
    BY <2>4, <2>5
<1>5. IsInjective(r)
  <2> SUFFICES ASSUME NEW j \in 1 .. Len(r), NEW k \in 1 .. Len(r), j < k, r[j] = r[k]
               PROVE  FALSE
    <3>1. DOMAIN r = 1 .. Len(r) /\ \A j, k \in 1 .. Len(r) : j # k => j < k \/ k < j
      BY <1>1
    <3> QED
      BY <3>1 DEF IsInjective
  <2>1. CASE k < i
    <3>1. j \in 1 .. Len(q) /\ k \in 1 .. Len(q) /\ j < i /\ j # k
      BY <1>1, <2>1
    <3>2. r[j] = q[j] /\ r[k] = q[k]
      BY <1>1, <1>2, <2>1, <3>1
    <3>3. \A a, b \in 1 .. Len(q) : q[a] = q[b] => a = b
      BY DEF IsInjective
    <3>4. q[j] = q[k]
      BY <3>2
    <3> QED
      BY <3>1, <3>3, <3>4
  <2>2. CASE k = i
    <3>1. j \in 1 .. Len(q) /\ j < i
      BY <1>1, <2>2
    <3> QED
      BY <1>1, <1>2, <1>3, <2>2, <3>1
  <2>3. CASE k > i
    <3>1. k - 1 \in 1 .. Len(q) /\ r[k] = q[k - 1]
      BY <1>1, <1>2, <2>3
    <3>a. \A a, b \in 1 .. Len(q) : q[a] = q[b] => a = b
      BY DEF IsInjective
    <3>2. CASE j < i
      <4>1. j \in 1 .. Len(q) /\ j # k - 1 /\ r[j] = q[j]
        BY <1>1, <1>2, <2>3, <3>2
      <4> QED
        BY <3>1, <3>a, <4>1
    <3>3. CASE j = i
      BY <1>1, <1>2, <1>3, <3>1, <3>3
    <3>4. CASE j > i
      <4>1. j - 1 \in 1 .. Len(q) /\ j - 1 # k - 1 /\ r[j] = q[j - 1]
        BY <1>1, <1>2, <2>3, <3>4
      <4> QED
        BY <3>1, <3>a, <4>1
    <3> QED
      BY <1>1, <3>2, <3>3, <3>4
  <2> QED
    BY <1>1, <2>1, <2>2, <2>3
<1> QED
  BY <1>4, <1>5 DEF r

\* A new element is linked in behind another one.
LEMMA LeadsInsert ==
    ASSUME NEW S, NEW null, NEW next, NEW other, NEW start, NEW s \in Seq(S), IsInjective(s),
           Leads(next, null, start, s), NEW k \in 2 .. Len(s) + 1,
           NEW e \in S, e \notin ToSet(s),
           other[e] = next[s[k - 1]],
           \A x \in ToSet(s) : other[x] = IF x = s[k - 1] THEN e ELSE next[x]
    PROVE  Leads(other, null, start, InsertAt(s, k, e))
<1> DEFINE r == InsertAt(s, k, e)
<1>1. Len(s) \in Nat /\ k \in Nat /\ k >= 2 /\ k <= Len(s) + 1 /\ k - 1 \in 1 .. Len(s)
  OBVIOUS
<1>0. k \in 1 .. Len(s) + 1
  BY <1>1
<1>2. r \in Seq(S) /\ Len(r) = Len(s) + 1
  BY <1>0, InsertAtQueue
<1>a. \A i \in 1 .. Len(s) + 1 : r[i] = IF i < k THEN s[i] ELSE IF i = k THEN e ELSE s[i - 1]
  BY <1>0, InsertAtQueue
<1> HIDE DEF r
<1>3. \A i \in 1 .. Len(s) + 1 :
         /\ i < k => r[i] = s[i]
         /\ i = k => r[i] = e
         /\ i > k => r[i] = s[i - 1]
  BY <1>1, <1>a
<1>4. \A i, j \in 1 .. Len(s) : s[i] = s[j] => i = j
  BY DEF IsInjective
<1>5. \A i \in 1 .. Len(s) : s[i] \in ToSet(s)
  BY InQueue
<1>6. \A i \in 1 .. Len(s) : next[s[i]] = IF i = Len(s) THEN null ELSE s[i + 1]
  BY DEF Leads
<1>7. \A i \in 1 .. Len(s) : other[s[i]] = IF i = k - 1 THEN e ELSE next[s[i]]
  BY <1>1, <1>4, <1>5
<1>8. start = r[1] /\ r # <<>>
  <2>1. s # <<>> /\ r # <<>>
    BY <1>1, <1>2, NoMember
  <2>2. 1 < k /\ 1 \in 1 .. Len(s) + 1
    BY <1>1
  <2> QED
    BY <1>3, <2>1, <2>2 DEF Leads
<1>9. ASSUME NEW i \in 1 .. Len(r)
      PROVE  other[r[i]] = IF i = Len(r) THEN null ELSE r[i + 1]
  <2>1. CASE i < k - 1
    <3>1. i \in 1 .. Len(s) /\ i # Len(s) /\ i # Len(r) /\ i # k - 1 /\ i < k
          /\ i + 1 \in 1 .. Len(s) + 1 /\ i + 1 < k /\ i \in 1 .. Len(s) + 1
      BY <1>1, <1>2, <2>1
    <3> QED
      BY <1>3, <1>6, <1>7, <3>1
  <2>2. CASE i = k - 1
    <3>1. i \in 1 .. Len(s) /\ i # Len(r) /\ i < k /\ i + 1 = k
          /\ i + 1 \in 1 .. Len(s) + 1 /\ i \in 1 .. Len(s) + 1
      BY <1>1, <1>2, <2>2
    <3> QED
      BY <1>3, <1>7, <2>2, <3>1
  <2>3. CASE i = k
    <3>1. r[i] = e /\ other[e] = IF k - 1 = Len(s) THEN null ELSE s[(k - 1) + 1]
      BY <1>1, <1>2, <1>3, <1>6, <2>3
    <3>2. k - 1 = Len(s) <=> i = Len(r)
      BY <1>1, <1>2, <2>3
    <3>3. i # Len(r) => i + 1 \in 1 .. Len(s) + 1 /\ i + 1 > k /\ (i + 1) - 1 = (k - 1) + 1
      BY <1>1, <1>2, <2>3
    <3>4. i # Len(r) => r[i + 1] = s[(k - 1) + 1]
      BY <1>3, <3>3
    <3> QED
      BY <3>1, <3>2, <3>4
  <2>4. CASE i > k
    <3>1. i - 1 \in 1 .. Len(s) /\ i - 1 # k - 1 /\ i \in 1 .. Len(s) + 1
      BY <1>1, <1>2, <2>4
    <3>2. r[i] = s[i - 1] /\ other[s[i - 1]] = IF i - 1 = Len(s) THEN null ELSE s[(i - 1) + 1]
      BY <1>3, <1>6, <1>7, <2>4, <3>1
    <3>3. i - 1 = Len(s) <=> i = Len(r)
      BY <1>1, <1>2, <2>4
    <3>4. i # Len(r) => i + 1 \in 1 .. Len(s) + 1 /\ i + 1 > k /\ (i + 1) - 1 = (i - 1) + 1
      BY <1>1, <1>2, <2>4
    <3>5. i # Len(r) => r[i + 1] = s[(i - 1) + 1]
      BY <1>3, <3>4
    <3> QED
      BY <3>2, <3>3, <3>5
  <2> QED
    BY <1>1, <1>2, <2>1, <2>2, <2>3, <2>4
<1> QED
  BY <1>8, <1>9 DEF Leads, r

\* The smallest of some natural numbers is one of them, and no larger than any.
LEMMA Smallest ==
    ASSUME NEW S \in SUBSET Nat, S # {}
    PROVE  Min(S) \in S /\ \A y \in S : Min(S) <= y
<1>1. PICK x \in S : \A y \in S : ~(<<y, x>> \in OpToRel(<, Nat))
  BY NatLessThanWellFounded, WFMin
<1>2. ASSUME NEW y \in S PROVE x <= y
  <2>1. x \in Nat /\ y \in Nat
    OBVIOUS
  <2>2. <<y, x>> \in Nat \X Nat /\ <<y, x>>[1] = y /\ <<y, x>>[2] = x
    BY <2>1
  <2>3. ~(y < x)
    BY <1>1, <2>2 DEF OpToRel
  <2> QED
    BY <2>1, <2>3
<1> QED
  BY <1>1, <1>2 DEF Min
=============================================================================
