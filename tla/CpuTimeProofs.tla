--------------------------- MODULE CpuTimeProofs ---------------------------
(***************************************************************************)
(* Time slices are bounded and each tick of CPU time is charged, once: the *)
(* theorems about CpuTime, for every width of the counters and latency.    *)
(***************************************************************************)
EXTENDS CpuTime, QueueLemmas

\* As long as the PLT has not been read past zero, what the process has used of
\* its slice and what the PLT still has to count make up the slice.
SliceInv ==
    \/ late
    \/ /\ slice <= PLT_TIME_SLICE + 1
       /\ currentProcess # NULL /\ ~pltPending => slice + timer <= PLT_TIME_SLICE

HalfRange == TodRange \div 2

\* While cpu_t can hold all the time there has been, the current process was
\* loaded at some time t, and with the time since then every process has been
\* charged for what it used, and for no more than has passed or been recounted;
\* nor have they been charged for more all together.
Open(p, t) == IF p = currentProcess THEN now - t ELSE 0
OpenTime(t) == IF currentProcess # NULL THEN now - t ELSE 0

ChargedEach(t) ==
    \A p \in PROC : /\ 0 <= p_time[p]
                    /\ used[p] <= p_time[p] + Open(p, t)
                    /\ p_time[p] + Open(p, t) <= now + recounted
ChargedTotal(t) == SumFunction(p_time) + OpenTime(t) <= now + recounted
ChargedFrom(t) == ChargedEach(t) /\ ChargedTotal(t)

TimeInv ==
    now < HalfRange =>
        /\ recounted \in Nat
        /\ \E t \in 0 .. now :
             /\ start_TOD = STCK(t)
             /\ now + recounted < HalfRange => ChargedFrom(t)

Inv == TypeOK /\ SliceInv /\ TimeInv

-----------------------------------------------------------------------------
(* Words of fixed width                                                    *)

\* A counter of r values, n steps on.
LEMMA Modulo ==
    ASSUME NEW r \in Nat \ {0}, NEW x \in Int
    PROVE  x % r \in 0 .. r - 1 /\ (x \in 0 .. r - 1 => x % r = x)
OBVIOUS

\* A word read as cpu_t differs from the number by whole turns of the clock.
LEMMA SignedTurns ==
    ASSUME NEW n \in Int
    PROVE  Signed(n) \in Int /\ \E k \in Int : Signed(n) = n + TodRange * k
<1> DEFINE w == n % TodRange
<1>1. TodRange \in Nat \ {0}
  BY RangeAssumption
<1>2. n = TodRange * (n \div TodRange) + w /\ n \div TodRange \in Int /\ w \in Int
  BY <1>1
<1> DEFINE d == n \div TodRange
<1> HIDE DEF w, d
<1>3. Signed(n) = w \/ Signed(n) = w - TodRange
  BY DEF Signed, w
<1>4. w = n + TodRange * (-d) /\ w - TodRange = n + TodRange * (-d - 1)
  BY <1>1, <1>2 DEF d
<1>5. -d \in Int /\ -d - 1 \in Int
  BY <1>2 DEF d
<1>6. CASE Signed(n) = w
  <2>1. \E k \in Int : Signed(n) = n + TodRange * k
    <3> -d \in Int
      BY <1>5
    <3> WITNESS -d \in Int
    <3> QED
      BY <1>4, <1>6
  <2> QED
    BY <1>2, <1>6, <2>1
<1>7. CASE Signed(n) = w - TodRange
  <2>1. \E k \in Int : Signed(n) = n + TodRange * k
    <3> -d - 1 \in Int
      BY <1>5
    <3> WITNESS -d - 1 \in Int
    <3> QED
      BY <1>4, <1>7
  <2> QED
    BY <1>1, <1>2, <1>7, <2>1
<1> QED
  BY <1>3, <1>6, <1>7

\* It is the number itself when that is small enough for cpu_t.
LEMMA SignedExact ==
    ASSUME NEW n \in Int, NEW m \in 0 .. HalfRange - 1, NEW k \in Int,
           n = m + TodRange * k
    PROVE  Signed(n) = m
<1> DEFINE w == n % TodRange
           d == n \div TodRange
<1>1. /\ TodRange \in Nat \ {0} /\ HalfRange \in Nat /\ HalfRange < TodRange
      /\ m \in Int /\ 0 <= m /\ m < HalfRange
  BY RangeAssumption DEF HalfRange
<1>2. n = TodRange * d + w /\ d \in Int /\ w \in Int /\ 0 <= w /\ w < TodRange
  BY <1>1
<1> HIDE DEF w, d
<1>3. TodRange * (k - d) = w - m
  BY <1>1, <1>2
<1>4. k - d = 0
  <2>1. /\ k - d \in Int
        /\ TodRange * (k - d) < TodRange
        /\ -TodRange < TodRange * (k - d)
    BY <1>1, <1>2, <1>3
  <2>2. \A r \in Nat \ {0}, q \in Int : r * q < r /\ -r < r * q => q = 0
    OBVIOUS
  <2> QED
    BY <1>1, <2>1, <2>2
<1>5. w = m
  BY <1>1, <1>2, <1>3, <1>4
<1> QED
  BY <1>1, <1>5 DEF Signed, w, HalfRange

\* The difference of two times of day is the time between them, also when the
\* low word has overflowed in between, and updateProcessTimeHelper adds it.
LEMMA Elapsed ==
    ASSUME NEW x \in Nat, NEW y \in Nat, y <= x, NEW charged \in Nat,
           charged + (x - y) < HalfRange
    PROVE  /\ STCK(x) \in Int /\ STCK(y) \in Int
           /\ Signed(STCK(x) - STCK(y)) = x - y
           /\ updateProcessTimeHelper(charged, STCK(y), STCK(x)) = charged + (x - y)
<1>1. Boot \in Int /\ TodRange \in Nat /\ HalfRange \in Nat
  BY RangeAssumption DEF HalfRange
<1>2. ASSUME NEW z \in Nat
      PROVE  STCK(z) \in Int /\ \E k \in Int : STCK(z) = (Boot + z) + TodRange * k
  <2>1. Boot + z \in Int
    BY <1>1
  <2>2. Signed(Boot + z) \in Int /\ \E k \in Int : Signed(Boot + z) = (Boot + z) + TodRange * k
    BY ONLY <2>1, SignedTurns
  <2> QED
    BY <2>2 DEF STCK
<1>3. PICK i \in Int : STCK(x) = (Boot + x) + TodRange * i
  BY <1>2
<1>4. PICK j \in Int : STCK(y) = (Boot + y) + TodRange * j
  BY <1>2
<1>5. STCK(x) \in Int /\ STCK(y) \in Int
  BY <1>2
<1>6. STCK(x) - STCK(y) = (x - y) + TodRange * (i - j) /\ i - j \in Int
  BY <1>1, <1>3, <1>4
<1>7. charged + (STCK(x) - STCK(y)) = (charged + (x - y)) + TodRange * (i - j)
  BY <1>1, <1>5, <1>6
<1>8. x - y \in 0 .. HalfRange - 1 /\ charged + (x - y) \in 0 .. HalfRange - 1
  BY <1>1
<1>9. Signed(STCK(x) - STCK(y)) = x - y
  BY <1>5, <1>6, <1>8, SignedExact
<1>10. Signed(charged + (STCK(x) - STCK(y))) = charged + (x - y)
  BY <1>5, <1>6, <1>7, <1>8, SignedExact
<1> QED
  BY <1>5, <1>9, <1>10 DEF updateProcessTimeHelper

\* What is stored is a number in any case.
LEMMA WordsTyped ==
    /\ \A x \in Nat : STCK(x) \in Int
    /\ \A c, s, e \in Int : updateProcessTimeHelper(c, s, e) \in Int
    /\ \A s, e \in Int : Signed(e - s) \in Int
BY RangeAssumption, SignedTurns DEF STCK, updateProcessTimeHelper

-----------------------------------------------------------------------------
(* The sum of the times charged                                            *)

\* An element of a set, and what the sum over each subset of S is, given that over
\* the smaller ones: the equation in the definition of SumFunction.
Pick(s) == CHOOSE x \in s : TRUE

Sums(S, f, g) ==
    [s \in SUBSET S |-> IF s = {} THEN 0 ELSE f[Pick(s)] + g[s \ {Pick(s)}]]

\* Taking the picked element from a subset leaves one that is smaller by one.
LEMMA PickOne ==
    ASSUME NEW S, IsFiniteSet(S), NEW s \in SUBSET S, s # {}
    PROVE  /\ Pick(s) \in s /\ Pick(s) \in S /\ s \ {Pick(s)} \in SUBSET S
           /\ Cardinality(s) \in Nat /\ Cardinality(s \ {Pick(s)}) \in Nat
           /\ Cardinality(s \ {Pick(s)}) = Cardinality(s) - 1
<1>1. Pick(s) \in s
  BY DEF Pick
<1>2. IsFiniteSet(s) /\ IsFiniteSet(s \ {Pick(s)})
  BY FS_Subset
<1>3. Cardinality(s) \in Nat /\ Cardinality(s \ {Pick(s)}) \in Nat
  BY <1>2, FS_CardinalityType
<1>4. Cardinality(s \ {Pick(s)}) = Cardinality(s) - 1
  BY <1>1, <1>2, FS_RemoveElement
<1> QED
  BY <1>1, <1>3, <1>4

\* The equation has a solution: it exists on the subsets of at most n elements, for
\* each n, since one on the smaller subsets can be continued.
LEMMA SumsSolved ==
    ASSUME NEW S, IsFiniteSet(S), NEW f \in [S -> Int]
    PROVE  \E g \in [SUBSET S -> Int] : g = Sums(S, f, g)
<1> DEFINE Small(n) == {s \in SUBSET S : Cardinality(s) <= n}
           Solves(n, g) == /\ g \in [Small(n) -> Int]
                           /\ \A s \in Small(n) :
                                g[s] = IF s = {} THEN 0 ELSE f[Pick(s)] + g[s \ {Pick(s)}]
           Wrong == {n \in Nat : ~\E g : Solves(n, g)}
<1>1. \A s \in SUBSET S : IsFiniteSet(s) /\ Cardinality(s) \in Nat
  BY FS_Subset, FS_CardinalityType
<1>2. Wrong = {}
  <2> SUFFICES ASSUME Wrong # {}
               PROVE  FALSE
    OBVIOUS
  <2>1. PICK n \in Wrong : \A m \in Wrong : n <= m
    <3>1. Wrong \in SUBSET Nat
      OBVIOUS
    <3> HIDE DEF Wrong
    <3> QED
      BY <3>1, Smallest
  <2>2. n \in Nat /\ ~\E g : Solves(n, g)
    OBVIOUS
  <2>3. CASE n = 0
    <3> DEFINE g == [s \in Small(0) |-> 0]
    <3>1. \A s \in Small(0) : s = {}
      BY <1>1, FS_EmptySet
    <3>2. Solves(0, g)
      BY <3>1
    <3> QED
      BY <2>2, <2>3, <3>2
  <2>4. CASE n # 0
    <3>1. n - 1 \in Nat /\ n - 1 < n
      BY <2>2, <2>4
    <3>2. n - 1 \notin Wrong
      <4> HIDE DEF Wrong
      <4> QED
        BY <2>1, <2>2, <3>1
    <3>3. PICK g : Solves(n - 1, g)
      BY <3>1, <3>2
    <3> DEFINE h == [s \in Small(n) |-> IF s \in Small(n - 1) THEN g[s]
                                        ELSE f[Pick(s)] + g[s \ {Pick(s)}]]
    <3>4. ASSUME NEW s \in Small(n), s # {}
          PROVE  /\ s \ {Pick(s)} \in Small(n - 1) /\ s \ {Pick(s)} \in Small(n)
                 /\ f[Pick(s)] \in Int /\ g[s \ {Pick(s)}] \in Int
      <4>1. /\ Pick(s) \in S /\ s \ {Pick(s)} \in SUBSET S
            /\ Cardinality(s) \in Nat /\ Cardinality(s \ {Pick(s)}) = Cardinality(s) - 1
        BY <3>4, PickOne
      <4>2. s \ {Pick(s)} \in Small(n - 1) /\ s \ {Pick(s)} \in Small(n)
        BY <2>2, <4>1
      <4> QED
        BY <3>3, <4>1, <4>2
    <3>5. {} \in Small(n - 1)
      BY <3>1, FS_EmptySet
    <3>6. h \in [Small(n) -> Int]
      <4> SUFFICES ASSUME NEW s \in Small(n)
                   PROVE  h[s] \in Int
        BY DEF h
      <4>1. CASE s \in Small(n - 1)
        BY <3>3, <4>1
      <4>2. CASE s \notin Small(n - 1)
        <5>1. f[Pick(s)] \in Int /\ g[s \ {Pick(s)}] \in Int
          <6>1. s # {}
            BY <3>5, <4>2
          <6> HIDE DEF Small, Solves
          <6> QED
            BY <3>4, <6>1
        <5>2. h[s] = f[Pick(s)] + g[s \ {Pick(s)}]
          BY <4>2
        <5> HIDE DEF Small, Solves, h
        <5> QED
          BY <5>1, <5>2
      <4> QED
        BY <4>1, <4>2
    <3>7. ASSUME NEW s \in Small(n)
          PROVE  h[s] = IF s = {} THEN 0 ELSE f[Pick(s)] + h[s \ {Pick(s)}]
      <4>1. CASE s = {}
        BY <3>3, <3>5, <4>1
      <4>2. CASE s # {}
        <5>1. s \ {Pick(s)} \in Small(n - 1) /\ s \ {Pick(s)} \in Small(n)
          BY <3>4, <4>2
        <5>2. h[s \ {Pick(s)}] = g[s \ {Pick(s)}]
          BY <5>1
        <5>3. h[s] = f[Pick(s)] + g[s \ {Pick(s)}]
          BY <3>3, <4>2
        <5> QED
          BY <4>2, <5>2, <5>3
      <4> QED
        BY <4>1, <4>2
    <3>8. Solves(n, h)
      BY <3>6, <3>7
    <3> QED
      BY <2>2, <3>8
  <2> QED
    BY <2>3, <2>4
<1>3. Cardinality(S) \in Nat /\ Small(Cardinality(S)) = SUBSET S
  <2>1. \A s \in SUBSET S : Cardinality(s) <= Cardinality(S)
    BY FS_Subset
  <2> QED
    BY <1>1, <2>1
<1>4. PICK g : Solves(Cardinality(S), g)
  BY <1>2, <1>3
<1>5. g \in [SUBSET S -> Int]
  BY <1>3, <1>4
<1>6. g = Sums(S, f, g)
  BY <1>3, <1>4, <1>5 DEF Sums
<1> QED
  BY <1>5, <1>6

\* Induction on the subsets of a finite set, for the set of the wrong ones.
LEMMA NoneWrong ==
    ASSUME NEW S, IsFiniteSet(S), NEW wrong \in SUBSET (SUBSET S), {} \notin wrong,
           \A s \in SUBSET S : s # {} /\ s \ {Pick(s)} \notin wrong => s \notin wrong
    PROVE  wrong = {}
<1> SUFFICES ASSUME wrong # {}
             PROVE  FALSE
  OBVIOUS
<1> DEFINE sizes == {Cardinality(s) : s \in wrong}
<1>1. sizes \in SUBSET Nat /\ sizes # {}
  BY FS_Subset, FS_CardinalityType
<1>2. PICK n \in sizes : \A m \in sizes : n <= m
  <2> HIDE DEF sizes
  <2> QED
    BY <1>1, Smallest
<1>3. PICK s \in wrong : n = Cardinality(s)
  OBVIOUS
<1>4. s # {} /\ s \in SUBSET S
  OBVIOUS
<1>5. s \ {Pick(s)} \in wrong
  BY <1>4
<1>6. /\ Cardinality(s) \in Nat
      /\ Cardinality(s \ {Pick(s)}) = Cardinality(s) - 1
  BY <1>4, PickOne
<1>7. n <= Cardinality(s \ {Pick(s)})
  BY <1>2, <1>5
<1> QED
  BY <1>3, <1>6, <1>7

\* Every solution consists of numbers.
LEMMA SumsTyped ==
    ASSUME NEW S, IsFiniteSet(S), NEW f \in [S -> Int], NEW g, g = Sums(S, f, g)
    PROVE  g \in [SUBSET S -> Int]
<1> DEFINE wrong == {s \in SUBSET S : g[s] \notin Int}
<1>1. \A s \in SUBSET S : g[s] = IF s = {} THEN 0 ELSE f[Pick(s)] + g[s \ {Pick(s)}]
  BY DEF Sums
<1>2. {} \notin wrong
  <2>1. {} \in SUBSET S
    OBVIOUS
  <2>2. g[{}] = 0
    BY <1>1, <2>1
  <2> QED
    BY <2>2
<1>3. ASSUME NEW s \in SUBSET S, s # {}, s \ {Pick(s)} \notin wrong
      PROVE  s \notin wrong
  <2>1. Pick(s) \in S /\ s \ {Pick(s)} \in SUBSET S
    BY <1>3, PickOne
  <2>2. g[s \ {Pick(s)}] \in Int /\ f[Pick(s)] \in Int
    BY <1>3, <2>1
  <2>3. g[s] = f[Pick(s)] + g[s \ {Pick(s)}]
    BY <1>1, <1>3
  <2> QED
    BY <2>2, <2>3
<1>4. wrong = {}
  <2>1. wrong \in SUBSET (SUBSET S)
    OBVIOUS
  <2> HIDE DEF wrong
  <2> QED
    BY <1>2, <1>3, <2>1, NoneWrong
<1>5. g = [s \in SUBSET S |-> g[s]]
  BY DEF Sums
<1> QED
  BY <1>4, <1>5

\* SumFunction is the value of a solution for the whole domain.
LEMMA SumSolved ==
    ASSUME NEW S, IsFiniteSet(S), NEW f \in [S -> Int]
    PROVE  \E g \in [SUBSET S -> Int] : g = Sums(S, f, g) /\ SumFunction(f) = g[S]
<1> DEFINE g == CHOOSE h : h = Sums(S, f, h)
<1>1. DOMAIN f = S
  OBVIOUS
<1>2. SumFunction(f) = g[S]
  BY <1>1 DEF SumFunction, SumFunctionOnSet, FoldFunctionOnSet, MapThenFoldSet, Sums, Pick
<1>3. g = Sums(S, f, g)
  <2>1. \E h : h = Sums(S, f, h)
    BY SumsSolved
  <2> QED
    BY <2>1
<1>4. g \in [SUBSET S -> Int]
  <2> HIDE DEF g
  <2> QED
    BY <1>3, SumsTyped
<1> QED
  BY <1>2, <1>3, <1>4

\* What is added to one value is added to the sum.
LEMMA SumChange ==
    ASSUME NEW S, IsFiniteSet(S), NEW f \in [S -> Int], NEW p \in S, NEW v \in Int,
           NEW h, h = [f EXCEPT ![p] = v]
    PROVE  /\ SumFunction(f) \in Int /\ SumFunction(h) \in Int
           /\ SumFunction(h) = SumFunction(f) + (v - f[p])
<1> DEFINE d == v - f[p]
<1>1. h \in [S -> Int] /\ d \in Int /\ v = f[p] + d
  OBVIOUS
<1> HIDE DEF d
<1>2. PICK g \in [SUBSET S -> Int] : g = Sums(S, f, g) /\ SumFunction(f) = g[S]
  BY SumSolved
<1>3. PICK k \in [SUBSET S -> Int] : k = Sums(S, h, k) /\ SumFunction(h) = k[S]
  BY ONLY <1>1, IsFiniteSet(S), SumSolved
<1> DEFINE added(s) == IF p \in s THEN d ELSE 0
           wrong == {s \in SUBSET S : k[s] # g[s] + added(s)}
<1>4. \A s \in SUBSET S :
        /\ g[s] = IF s = {} THEN 0 ELSE f[Pick(s)] + g[s \ {Pick(s)}]
        /\ k[s] = IF s = {} THEN 0 ELSE h[Pick(s)] + k[s \ {Pick(s)}]
  BY <1>2, <1>3 DEF Sums
<1>5. {} \notin wrong
  <2>1. {} \in SUBSET S
    OBVIOUS
  <2>2. g[{}] = 0 /\ k[{}] = 0
    BY <1>4, <2>1
  <2> QED
    BY <2>2
<1>6. ASSUME NEW s \in SUBSET S, s # {}, s \ {Pick(s)} \notin wrong
      PROVE  s \notin wrong
  <2> DEFINE x == Pick(s)
  <2>1. x \in s /\ x \in S /\ s \ {x} \in SUBSET S
    BY <1>6, PickOne
  <2>2. k[s \ {x}] = g[s \ {x}] + added(s \ {x})
    BY <1>6, <2>1
  <2>3. g[s] = f[x] + g[s \ {x}] /\ k[s] = h[x] + k[s \ {x}]
    BY <1>4, <1>6
  <2>4. f[x] \in Int /\ g[s \ {x}] \in Int /\ g[s] \in Int
    BY <1>2, <2>1
  <2> HIDE DEF x
  <2>5. CASE x = p
    <3>1. h[x] = f[x] + d /\ added(s \ {x}) = 0 /\ added(s) = d
      BY <1>1, <2>1, <2>5
    <3> HIDE DEF added
    <3>2. k[s] = g[s] + added(s)
      BY <1>1, <2>2, <2>3, <2>4, <3>1
    <3> QED
      BY <3>2
  <2>6. CASE x # p
    <3>1. h[x] = f[x] /\ added(s \ {x}) = added(s) /\ added(s) \in Int
      BY <1>1, <2>1, <2>6
    <3> HIDE DEF added
    <3>2. k[s] = g[s] + added(s)
      BY <2>2, <2>3, <2>4, <3>1
    <3> QED
      BY <3>2
  <2> QED
    BY <2>5, <2>6
<1>7. wrong = {}
  <2>1. wrong \in SUBSET (SUBSET S)
    OBVIOUS
  <2> HIDE DEF wrong
  <2> QED
    BY <1>5, <1>6, <2>1, NoneWrong
<1>8. k[S] = g[S] + d /\ k[S] \in Int /\ g[S] \in Int
  <2>1. S \in SUBSET S /\ added(S) = d
    OBVIOUS
  <2> QED
    BY <1>2, <1>3, <1>7, <2>1
<1> QED
  BY <1>2, <1>3, <1>8 DEF d

\* The sum of zeros.
LEMMA SumZero ==
    ASSUME NEW S, IsFiniteSet(S)
    PROVE  SumFunction([x \in S |-> 0]) = 0
<1> DEFINE f == [x \in S |-> 0]
<1>1. f \in [S -> Int]
  OBVIOUS
<1>2. PICK g \in [SUBSET S -> Int] : g = Sums(S, f, g) /\ SumFunction(f) = g[S]
  BY <1>1, SumSolved
<1> DEFINE wrong == {s \in SUBSET S : g[s] # 0}
<1>3. \A s \in SUBSET S : g[s] = IF s = {} THEN 0 ELSE f[Pick(s)] + g[s \ {Pick(s)}]
  BY <1>2 DEF Sums
<1>4. {} \notin wrong
  BY <1>3
<1>5. ASSUME NEW s \in SUBSET S, s # {}, s \ {Pick(s)} \notin wrong
      PROVE  s \notin wrong
  <2>1. Pick(s) \in S /\ s \ {Pick(s)} \in SUBSET S
    BY <1>5, PickOne
  <2>2. g[s \ {Pick(s)}] = 0 /\ f[Pick(s)] = 0
    BY <1>5, <2>1
  <2> QED
    BY <1>3, <1>5, <2>2
<1>6. wrong = {}
  <2>1. wrong \in SUBSET (SUBSET S)
    OBVIOUS
  <2> HIDE DEF wrong
  <2> QED
    BY <1>4, <1>5, <2>1, NoneWrong
<1> QED
  BY <1>2, <1>6

\* The total of the charged times is a number.
LEMMA TotalTyped ==
    ASSUME NEW f \in [PROC -> Int]
    PROVE  SumFunction(f) \in Int
<1>1. PICK g \in [SUBSET PROC -> Int] : SumFunction(f) = g[PROC]
  BY ProcAssumption, SumSolved
<1> QED
  BY <1>1

\* Charging one process adds the charge to what all have been charged.
LEMMA TotalCharge ==
    ASSUME NEW f \in [PROC -> Int], NEW p \in PROC, NEW v \in Int,
           NEW h, h = [f EXCEPT ![p] = v]
    PROVE  /\ SumFunction(f) \in Int /\ SumFunction(h) \in Int
           /\ SumFunction(h) = SumFunction(f) + (v - f[p])
BY ProcAssumption, SumChange

-----------------------------------------------------------------------------
(* Types                                                                   *)

\* The PLT counts within its range.
LEMMA TimerTyped ==
    ASSUME TypeOK, NEW n \in Nat
    PROVE  /\ (timer - n) % TimerRange \in 0 .. TimerRange - 1
           /\ n <= timer => (timer - n) % TimerRange = timer - n
<1>1. TimerRange \in Nat \ {0} /\ timer - n \in Int /\ timer \in 0 .. TimerRange - 1
  BY RangeAssumption DEF TypeOK
<1>2. n <= timer => timer - n \in 0 .. TimerRange - 1
  BY <1>1
<1> QED
  BY <1>1, <1>2, Modulo

\* The scheduler gives the CPU to the head of the Ready Queue.
LEMMA SchedulerTyped ==
    ASSUME TypeOK, NEW rq \in Seq(PROC), NEW t \in Nat, scheduler(rq, t)
    PROVE  /\ currentProcess' \in PROC \cup {NULL} /\ readyQueue' \in Seq(PROC)
           /\ start_TOD' \in Int /\ timer' \in 0 .. TimerRange - 1
           /\ pltPending' \in BOOLEAN /\ slice' \in Nat /\ late' \in BOOLEAN
<1>1. PLT_TIME_SLICE \in 0 .. TimerRange - 1 /\ TimerRange - 1 \in 0 .. TimerRange - 1
  BY RangeAssumption
<1>2. STCK(t) \in Int
  BY WordsTyped
<1>3. rq # <<>> => Head(rq) \in PROC /\ Tail(rq) \in Seq(PROC)
  BY TailQueue
<1>4. pltPending' \in BOOLEAN /\ late' \in BOOLEAN
  BY DEF TypeOK, scheduler, setTIMER
<1>5. CASE rq # <<>>
  <2>1. /\ currentProcess' = Head(rq) /\ readyQueue' = Tail(rq)
        /\ timer' = PLT_TIME_SLICE /\ start_TOD' = STCK(t) /\ slice' = 0
    BY <1>5 DEF scheduler, setTIMER, switchContext
  <2> QED
    BY <1>1, <1>2, <1>3, <1>4, <1>5, <2>1
<1>6. CASE rq = <<>>
  <2>1. /\ currentProcess' = NULL /\ readyQueue' = rq
        /\ timer' = TimerRange - 1 /\ start_TOD' = start_TOD /\ slice' = slice
    BY <1>6 DEF scheduler, setTIMER
  <2>2. start_TOD \in Int /\ slice \in Nat
    BY DEF TypeOK
  <2> QED
    BY <1>1, <1>4, <2>1, <2>2
<1> QED
  BY <1>5, <1>6

\* So does the end of an interrupt when there is no current process.
LEMMA ReturnTyped ==
    ASSUME TypeOK, NEW rq \in Seq(PROC), NEW charged \in [PROC -> Int], NEW a \in Nat,
           now' \in Nat, returnFromInterrupt(rq, charged, a)
    PROVE  /\ currentProcess' \in PROC \cup {NULL} /\ readyQueue' \in Seq(PROC)
           /\ start_TOD' \in Int /\ timer' \in 0 .. TimerRange - 1
           /\ pltPending' \in BOOLEAN /\ slice' \in Nat /\ late' \in BOOLEAN
           /\ p_time' \in [PROC -> Int]
<1>1. CASE currentProcess = NULL
  BY <1>1, SchedulerTyped DEF returnFromInterrupt
<1>2. CASE currentProcess # NULL
  <2>1. STCK(now + a) \in Int /\ STCK(now') \in Int /\ start_TOD \in Int
    BY WordsTyped DEF TypeOK
  <2>2. currentProcess \in PROC /\ charged[currentProcess] \in Int
    BY <1>2 DEF TypeOK
  <2>3. updateProcessTimeHelper(charged[currentProcess], start_TOD, STCK(now + a)) \in Int
    BY <2>1, <2>2, WordsTyped
  <2>4. timer' \in 0 .. TimerRange - 1 /\ pltPending' \in BOOLEAN
    BY <1>2, TimerTyped DEF returnFromInterrupt, setTIMER, timeLeft
  <2>5. p_time' \in [PROC -> Int]
    BY <1>2, <2>3 DEF returnFromInterrupt
  <2>6. late' \in BOOLEAN /\ start_TOD' \in Int
    BY <1>2, <2>1 DEF returnFromInterrupt, switchContext, TypeOK
  <2> QED
    BY <1>2, <2>4, <2>5, <2>6 DEF returnFromInterrupt, TypeOK
<1> QED
  BY <1>1, <1>2

\* Charging the current process.
LEMMA ChargeTyped ==
    ASSUME TypeOK, currentProcess # NULL, NEW t \in Nat
    PROVE  /\ currentProcess \in PROC /\ p_time[currentProcess] \in Int
           /\ updateProcessTimeHelper(p_time[currentProcess], start_TOD, STCK(t)) \in Int
           /\ Charge(currentProcess, start_TOD, STCK(t)) => p_time' \in [PROC -> Int]
<1>1. /\ currentProcess \in PROC /\ p_time[currentProcess] \in Int
      /\ start_TOD \in Int /\ STCK(t) \in Int
  BY WordsTyped DEF TypeOK
<1>2. updateProcessTimeHelper(p_time[currentProcess], start_TOD, STCK(t)) \in Int
  BY <1>1, WordsTyped
<1> QED
  BY <1>1, <1>2 DEF Charge, TypeOK

\* Every step keeps the types.
LEMMA TypedStep ==
    ASSUME TypeOK, [Next]_vars
    PROVE  TypeOK'
<1>1. /\ now \in Nat /\ MaxWork \in Nat /\ Latency \in Nat
      /\ \A a \in Before, b \in After : a \in Nat /\ b \in Nat /\ now + a + b \in Nat
                                        /\ now + a \in Nat /\ a + b \in Nat
  BY RangeAssumption DEF TypeOK, Before, After
<1>2. CASE Tick
  <2>1. timer' \in 0 .. TimerRange - 1 /\ pltPending' \in BOOLEAN
    BY <1>2, TimerTyped DEF Tick, Count, TypeOK
  <2>2. used' \in [PROC -> Nat]
    BY <1>2 DEF Tick, Running, TypeOK
  <2> QED
    BY <1>2, <2>1, <2>2 DEF Tick, queues, TypeOK
<1>3. CASE Wait
  BY <1>3 DEF Wait, queues, plt, history, TypeOK
<1>4. CASE callReturns
  <2>1. PICK a \in Before, b \in After :
           /\ now' = now + a + b
           /\ Charge(currentProcess, start_TOD, STCK(now + a))
           /\ switchContext(now')
           /\ Count(a + b)
    BY <1>4 DEF callReturns
  <2>2. timer' \in 0 .. TimerRange - 1 /\ pltPending' \in BOOLEAN
    BY <1>1, <2>1, TimerTyped DEF Count, TypeOK
  <2>3. p_time' \in [PROC -> Int] /\ start_TOD' \in Int
    BY <1>1, <1>4, <2>1, ChargeTyped, WordsTyped DEF callReturns, Running, switchContext
  <2> QED
    BY <1>1, <1>4, <2>1, <2>2, <2>3 DEF callReturns, queues, history, TypeOK
<1>5. CASE getCPUTime
  <2> DEFINE answer(a) == updateProcessTimeHelper(p_time[currentProcess], start_TOD, STCK(now + a))
             again(a, b) == updateProcessTimeHelper(answer(a), start_TOD, STCK(now + a + b))
  <2>1. PICK a \in Before, b \in After :
           /\ now' = now + a + b
           /\ p_time' = [p_time EXCEPT ![currentProcess] = again(a, b)]
           /\ recounted' = recounted + Signed(STCK(now + a) - start_TOD)
           /\ switchContext(now')
           /\ Count(a + b)
    BY <1>5 DEF getCPUTime
  <2>2. timer' \in 0 .. TimerRange - 1 /\ pltPending' \in BOOLEAN
    BY <1>1, <2>1, TimerTyped DEF Count, TypeOK
  <2>3. /\ answer(a) \in Int /\ currentProcess \in PROC
        /\ STCK(now + a) \in Int /\ STCK(now + a + b) \in Int /\ start_TOD \in Int
    BY <1>1, <1>5, ChargeTyped, WordsTyped DEF getCPUTime, Running, TypeOK
  <2> HIDE DEF answer
  <2>4. again(a, b) \in Int /\ Signed(STCK(now + a) - start_TOD) \in Int
    BY <2>3, WordsTyped
  <2> HIDE DEF again
  <2>5. p_time' \in [PROC -> Int] /\ recounted' \in Int /\ start_TOD' \in Int
    BY <2>1, <2>3, <2>4, SMTT(30) DEF switchContext, TypeOK
  <2> QED
    BY <1>1, <1>5, <2>1, <2>2, <2>5 DEF getCPUTime, queues, TypeOK
<1>6. CASE passUp
  <2>1. PICK a \in Before, b \in After :
           /\ now' = now + a + b
           /\ Charge(currentProcess, start_TOD, STCK(now + a))
           /\ recounted' = recounted + Signed(STCK(now + a) - start_TOD)
           /\ Count(a + b)
    BY <1>6 DEF passUp
  <2>2. timer' \in 0 .. TimerRange - 1 /\ pltPending' \in BOOLEAN
    BY <1>1, <2>1, TimerTyped DEF Count, TypeOK
  <2>3. p_time' \in [PROC -> Int] /\ STCK(now + a) \in Int /\ start_TOD \in Int
    BY <1>1, <1>6, <2>1, ChargeTyped, WordsTyped DEF passUp, Running, TypeOK
  <2>4. Signed(STCK(now + a) - start_TOD) \in Int
    BY <2>3, WordsTyped
  <2>5. recounted' \in Int /\ now' \in Nat
    BY <1>1, <2>1, <2>4, SMTT(30) DEF TypeOK
  <2> QED
    BY <1>6, <2>2, <2>3, <2>5 DEF passUp, queues, TypeOK
<1>7. CASE blockCurrentProcessHelper
  <2>1. PICK a \in Before, b \in After :
           /\ now' = now + a + b
           /\ Charge(currentProcess, start_TOD, STCK(now + a))
           /\ scheduler(readyQueue, now')
    BY <1>7 DEF blockCurrentProcessHelper
  <2>2. currentProcess \in PROC /\ p_time' \in [PROC -> Int] /\ now' \in Nat
    BY <1>1, <1>7, <2>1, ChargeTyped DEF blockCurrentProcessHelper, Running
  <2>3. ioQueue' \in Seq(PROC) /\ clockQueue' \in Seq(PROC)
    <3>1. Append(ioQueue, currentProcess) \in Seq(PROC) /\ Append(clockQueue, currentProcess) \in Seq(PROC)
      BY <2>2, AppendQueue DEF TypeOK
    <3>2. ioQueue \in Seq(PROC) /\ clockQueue \in Seq(PROC)
      BY DEF TypeOK
    <3> QED
      BY <1>7, <3>1, <3>2 DEF blockCurrentProcessHelper
  <2>4. /\ currentProcess' \in PROC \cup {NULL} /\ readyQueue' \in Seq(PROC)
        /\ start_TOD' \in Int /\ timer' \in 0 .. TimerRange - 1
        /\ pltPending' \in BOOLEAN /\ slice' \in Nat /\ late' \in BOOLEAN
    BY <2>1, <2>2, SchedulerTyped DEF TypeOK
  <2> QED
    BY <1>7, <2>2, <2>3, <2>4 DEF blockCurrentProcessHelper, TypeOK
<1>8. CASE PLTInterruptHandler
  <2>1. PICK a \in Before, b \in After :
           /\ now' = now + a + b
           /\ Charge(currentProcess, start_TOD, STCK(now + a))
           /\ scheduler(Append(readyQueue, currentProcess), now')
    BY <1>8 DEF PLTInterruptHandler
  <2>2. /\ currentProcess \in PROC /\ p_time' \in [PROC -> Int] /\ now' \in Nat
        /\ Append(readyQueue, currentProcess) \in Seq(PROC)
    BY <1>1, <1>8, <2>1, ChargeTyped, AppendQueue DEF PLTInterruptHandler, TypeOK
  <2>3. /\ currentProcess' \in PROC \cup {NULL} /\ readyQueue' \in Seq(PROC)
        /\ start_TOD' \in Int /\ timer' \in 0 .. TimerRange - 1
        /\ pltPending' \in BOOLEAN /\ slice' \in Nat /\ late' \in BOOLEAN
    BY <2>1, <2>2, SchedulerTyped DEF TypeOK
  <2> QED
    BY <1>8, <2>2, <2>3 DEF PLTInterruptHandler, TypeOK
<1>9. CASE nonTimerInterruptHandler
  <2> DEFINE woken(a, c) == [p_time EXCEPT ![Head(ioQueue)] =
                 updateProcessTimeHelper(@, STCK(now + a), STCK(now + a + c))]
  <2>1. PICK a \in 0 .. Latency, c \in Before, b \in After :
           /\ now' = now + a + c + b
           /\ \/ /\ ioQueue # <<>> /\ ioQueue' = Tail(ioQueue)
                 /\ returnFromInterrupt(Append(readyQueue, Head(ioQueue)), woken(a, c), a)
              \/ /\ ioQueue = <<>> /\ UNCHANGED ioQueue
                 /\ returnFromInterrupt(readyQueue, p_time, a)
    BY <1>9 DEF nonTimerInterruptHandler
  <2>2. a \in Nat /\ c \in Nat /\ b \in Nat /\ now' \in Nat /\ now + a \in Nat /\ now + a + c \in Nat
    BY <1>1, <2>1, SMTT(30)
  <2>3. CASE ioQueue # <<>>
    <3>1. Head(ioQueue) \in PROC /\ Tail(ioQueue) \in Seq(PROC)
      BY <2>3, TailQueue DEF TypeOK
    <3>2. STCK(now + a) \in Int /\ STCK(now + a + c) \in Int /\ p_time[Head(ioQueue)] \in Int
      BY <2>2, <3>1, WordsTyped DEF TypeOK
    <3>3. updateProcessTimeHelper(p_time[Head(ioQueue)], STCK(now + a), STCK(now + a + c)) \in Int
      BY <3>2, WordsTyped
    <3>4. woken(a, c) \in [PROC -> Int] /\ Append(readyQueue, Head(ioQueue)) \in Seq(PROC)
      BY <3>1, <3>3 DEF TypeOK
    <3> HIDE DEF woken
    <3>5. /\ ioQueue' = Tail(ioQueue)
          /\ returnFromInterrupt(Append(readyQueue, Head(ioQueue)), woken(a, c), a)
      BY <2>1, <2>3
    <3>6. /\ currentProcess' \in PROC \cup {NULL} /\ readyQueue' \in Seq(PROC)
          /\ start_TOD' \in Int /\ timer' \in 0 .. TimerRange - 1
          /\ pltPending' \in BOOLEAN /\ slice' \in Nat /\ late' \in BOOLEAN
          /\ p_time' \in [PROC -> Int]
      BY <2>2, <3>4, <3>5, ReturnTyped
    <3> QED
      BY <1>9, <2>2, <3>1, <3>5, <3>6 DEF nonTimerInterruptHandler, TypeOK
  <2>4. CASE ioQueue = <<>>
    <3>1. UNCHANGED ioQueue /\ returnFromInterrupt(readyQueue, p_time, a)
      BY <2>1, <2>4
    <3>2. /\ currentProcess' \in PROC \cup {NULL} /\ readyQueue' \in Seq(PROC)
          /\ start_TOD' \in Int /\ timer' \in 0 .. TimerRange - 1
          /\ pltPending' \in BOOLEAN /\ slice' \in Nat /\ late' \in BOOLEAN
          /\ p_time' \in [PROC -> Int]
      BY <2>2, <3>1, ReturnTyped DEF TypeOK
    <3> QED
      BY <1>9, <2>2, <3>1, <3>2 DEF nonTimerInterruptHandler, TypeOK
  <2> QED
    BY <2>3, <2>4
<1>10. CASE intervalTimerInterruptHandler
  <2>1. PICK a \in 0 .. Latency, b \in After :
           /\ now' = now + a + b /\ clockQueue' = <<>>
           /\ returnFromInterrupt(readyQueue \o clockQueue, p_time, a)
    BY <1>10 DEF intervalTimerInterruptHandler
  <2>2. a \in Nat /\ b \in Nat /\ now' \in Nat /\ readyQueue \o clockQueue \in Seq(PROC)
    BY <1>1, <2>1, ConcatQueue DEF TypeOK, After
  <2>3. /\ currentProcess' \in PROC \cup {NULL} /\ readyQueue' \in Seq(PROC)
        /\ start_TOD' \in Int /\ timer' \in 0 .. TimerRange - 1
        /\ pltPending' \in BOOLEAN /\ slice' \in Nat /\ late' \in BOOLEAN
        /\ p_time' \in [PROC -> Int]
    BY <2>1, <2>2, ReturnTyped DEF TypeOK
  <2>4. clockQueue' \in Seq(PROC)
    BY <2>1
  <2> QED
    BY <1>10, <2>2, <2>3, <2>4 DEF intervalTimerInterruptHandler, TypeOK
<1>11. CASE UNCHANGED vars
  BY <1>11 DEF vars, queues, plt, history, TypeOK
<1> QED
  BY <1>2, <1>3, <1>4, <1>5, <1>6, <1>7, <1>8, <1>9, <1>10, <1>11 DEF Next, TimeIsUp

-----------------------------------------------------------------------------
(* Time slices                                                             *)

\* The scheduler starts a new slice, or leaves nobody to use one.
LEMMA SchedulerSlice ==
    ASSUME TypeOK, SliceInv, NEW rq, NEW t, scheduler(rq, t)
    PROVE  SliceInv'
<1>1. CASE rq # <<>>
  <2>1. timer' = PLT_TIME_SLICE /\ slice' = 0 /\ PLT_TIME_SLICE \in Nat
    BY <1>1, RangeAssumption DEF scheduler, setTIMER
  <2> QED
    BY <2>1 DEF SliceInv
<1>2. CASE rq = <<>>
  <2>1. currentProcess' = NULL /\ slice' = slice /\ late' = late
    BY <1>2 DEF scheduler
  <2> QED
    BY <2>1 DEF SliceInv
<1> QED
  BY <1>1, <1>2

\* While the nucleus works the PLT counts on, and the process does not use it.
LEMMA CountSlice ==
    ASSUME TypeOK, SliceInv, Running, NEW n \in Nat, Count(n),
           UNCHANGED <<currentProcess, slice, late>>
    PROVE  SliceInv'
<1>1. CASE late
  BY <1>1 DEF SliceInv
<1>2. CASE ~late
  <2>1. slice + timer <= PLT_TIME_SLICE /\ slice <= PLT_TIME_SLICE + 1
    BY <1>2 DEF SliceInv, Running
  <2>2. CASE n > timer
    BY <2>1, <2>2 DEF SliceInv, Count
  <2>3. CASE n <= timer
    <3>1. timer' = timer - n
      BY <2>3, TimerTyped DEF Count
    <3>2. slice + timer' <= PLT_TIME_SLICE
      BY <2>1, <3>1, RangeAssumption DEF TypeOK
    <3> QED
      BY <2>1, <3>2 DEF SliceInv
  <2> QED
    BY <2>2, <2>3 DEF TypeOK
<1> QED
  BY <1>1, <1>2

\* The interrupted process gets back what was left of its slice, unless the PLT
\* has been read past zero.
LEMMA ReturnSlice ==
    ASSUME TypeOK, SliceInv, ~pltPending, NEW rq, NEW charged, NEW a \in Nat,
           returnFromInterrupt(rq, charged, a)
    PROVE  SliceInv'
<1>1. CASE currentProcess = NULL
  BY <1>1, SchedulerSlice DEF returnFromInterrupt
<1>2. CASE currentProcess # NULL
  <2>1. /\ timer' = (timer - a) % TimerRange /\ late' = (late \/ a > timer)
        /\ slice' = slice
    BY <1>2 DEF returnFromInterrupt, setTIMER, timeLeft
  <2>2. CASE late \/ a > timer
    BY <2>1, <2>2 DEF SliceInv
  <2>3. CASE ~late /\ ~(a > timer)
    <3>1. timer' = timer - a
      BY <2>1, <2>3, TimerTyped DEF TypeOK
    <3>2. slice + timer <= PLT_TIME_SLICE /\ slice <= PLT_TIME_SLICE + 1
      BY <1>2, <2>3 DEF SliceInv
    <3>3. slice + timer' <= PLT_TIME_SLICE
      BY <3>1, <3>2, RangeAssumption DEF TypeOK
    <3> QED
      BY <2>1, <3>2, <3>3 DEF SliceInv
  <2> QED
    BY <2>2, <2>3
<1> QED
  BY <1>1, <1>2

\* Every step keeps the slice bounded.
LEMMA SliceStep ==
    ASSUME TypeOK, SliceInv, [Next]_vars
    PROVE  SliceInv'
<1>1. \A a \in Before, b \in After : a + b \in Nat
  BY RangeAssumption DEF Before, After
<1>2. CASE Tick
  <2>1. CASE late
    BY <1>2, <2>1 DEF Tick, SliceInv
  <2>2. CASE ~late
    <3>1. /\ slice + timer <= PLT_TIME_SLICE /\ slice' = slice + 1
          /\ timer' = (timer - 1) % TimerRange /\ pltPending' = (pltPending \/ 1 > timer)
          /\ slice \in Nat /\ timer \in Nat /\ PLT_TIME_SLICE \in Nat
      BY <1>2, <2>2, RangeAssumption DEF Tick, Count, Running, SliceInv, TypeOK
    <3>2. slice' <= PLT_TIME_SLICE + 1
      BY <3>1
    <3>3. CASE timer = 0
      <4>1. 1 > timer
        BY <3>3
      <4>2. pltPending'
        BY <3>1, <4>1, Zenon
      <4> QED
        BY <3>2, <4>2 DEF SliceInv
    <3>4. CASE timer # 0
      <4>1. timer' = timer - 1
        BY <3>1, <3>4, TimerTyped
      <4>2. slice' + timer' <= PLT_TIME_SLICE
        BY <3>1, <4>1
      <4> QED
        BY <3>2, <4>2 DEF SliceInv
    <3> QED
      BY <3>3, <3>4
  <2> QED
    BY <2>1, <2>2
<1>3. CASE Wait \/ UNCHANGED vars
  BY <1>3 DEF Wait, vars, queues, plt, history, SliceInv
<1>4. CASE callReturns \/ getCPUTime \/ passUp
  <2>1. Running /\ UNCHANGED <<currentProcess, slice, late>>
    BY <1>4 DEF callReturns, getCPUTime, passUp, queues, history
  <2>2. \E n \in Nat : Count(n)
    BY <1>1, <1>4 DEF callReturns, getCPUTime, passUp
  <2> QED
    BY <2>1, <2>2, CountSlice
<1>5. CASE blockCurrentProcessHelper \/ PLTInterruptHandler
  BY <1>5, SchedulerSlice DEF blockCurrentProcessHelper, PLTInterruptHandler
<1>6. CASE nonTimerInterruptHandler \/ intervalTimerInterruptHandler
  <2>1. ~pltPending /\ 0 .. Latency \subseteq Nat
    BY <1>6 DEF nonTimerInterruptHandler, intervalTimerInterruptHandler
  <2>2. \E rq, charged : \E a \in Nat : returnFromInterrupt(rq, charged, a)
    <3>1. CASE nonTimerInterruptHandler
      BY <2>1, <3>1 DEF nonTimerInterruptHandler
    <3>2. CASE intervalTimerInterruptHandler
      BY <2>1, <3>2 DEF intervalTimerInterruptHandler
    <3> QED
      BY <1>6, <3>1, <3>2
  <2> QED
    BY <2>1, <2>2, ReturnSlice
<1> QED
  BY <1>2, <1>3, <1>4, <1>5, <1>6 DEF Next, TimeIsUp

-----------------------------------------------------------------------------
(* CPU time                                                                *)

\* What TimeInv says before a step that ends while cpu_t still holds all time.
LEMMA TimeBefore ==
    ASSUME TypeOK, TimeInv, NEW n \in Nat, now <= n, n < HalfRange
    PROVE  /\ recounted \in Nat /\ HalfRange \in Nat
           /\ \E t \in 0 .. now :
                /\ start_TOD = STCK(t)
                /\ now + recounted < HalfRange => ChargedFrom(t)
<1>1. HalfRange \in Nat
  BY RangeAssumption DEF HalfRange
<1>2. now < HalfRange
  BY <1>1 DEF TypeOK
<1> QED
  BY <1>1, <1>2 DEF TimeInv

\* With nobody charged more than c ticks for being woken, the current process is
\* charged up to now + a, and whoever has the CPU next is so from now' on.
LEMMA ChargeAndReload ==
    ASSUME TypeOK, NEW t \in 0 .. now, ChargedFrom(t), start_TOD = STCK(t),
           NEW a \in Nat, NEW c \in Nat, NEW n \in Nat, now' = n, now + a + c <= n,
           UNCHANGED <<recounted, used>>, recounted \in Nat,
           HalfRange \in Nat, n + recounted < HalfRange,
           NEW charged \in [PROC -> Int],
           \A p \in PROC : p_time[p] <= charged[p] /\ charged[p] <= p_time[p] + c,
           SumFunction(charged) <= SumFunction(p_time) + c,
           \/ currentProcess = NULL /\ p_time' = charged
           \/ /\ currentProcess # NULL
              /\ p_time' = [charged EXCEPT ![currentProcess] =
                              updateProcessTimeHelper(@, start_TOD, STCK(now + a))]
    PROVE  \A s \in 0 .. n : s = n \/ currentProcess' = NULL => ChargedFrom(s)'
<1> SUFFICES ASSUME NEW s \in 0 .. n, s = n \/ currentProcess' = NULL
             PROVE  ChargedFrom(s)'
  OBVIOUS
<1>1. ChargedEach(s)'
  <2> SUFFICES ASSUME NEW p \in PROC
               PROVE  /\ 0 <= p_time'[p]
                      /\ used'[p] <= p_time'[p] + Open(p, s)'
                      /\ p_time'[p] + Open(p, s)' <= now' + recounted'
    BY DEF ChargedEach
  <2> DEFINE cur == currentProcess
  <2>1. /\ now \in Nat /\ now + a \in Nat /\ t \in Nat /\ t <= now
        /\ p_time[p] \in Int /\ charged[p] \in Int /\ used[p] \in Nat /\ p # NULL
        /\ p_time[p] <= charged[p] /\ charged[p] <= p_time[p] + c
        /\ a \in Nat /\ c \in Nat /\ n \in Nat /\ now' = n /\ recounted \in Nat /\ HalfRange \in Nat
        /\ now + a + c <= n /\ n + recounted < HalfRange
        /\ s = n \/ currentProcess' = NULL
    BY ProcAssumption DEF TypeOK
  <2>2. /\ 0 <= p_time[p] /\ used[p] <= p_time[p] + Open(p, t)
        /\ p_time[p] + Open(p, t) <= now + recounted
    BY DEF ChargedFrom, ChargedEach
  <2>3. Open(p, s)' = 0 /\ Open(p, t) = IF p = cur THEN now - t ELSE 0
    BY ONLY <2>1 DEF Open
  <2>4. 0 <= p_time'[p] /\ used[p] <= p_time'[p] /\ p_time'[p] <= n + recounted
    <3>1. CASE p = cur
      <4>1. charged[p] \in Nat /\ charged[p] + ((now + a) - t) < HalfRange
        <5>1. Open(p, t) = now - t
          BY ONLY <2>3, <3>1
        <5> QED
          BY ONLY <2>1, <2>2, <5>1
      <4>2. updateProcessTimeHelper(charged[p], STCK(t), STCK(now + a)) = charged[p] + ((now + a) - t)
        BY <2>1, <4>1, Elapsed
      <4>3. p_time'[p] = charged[p] + ((now + a) - t)
        BY <2>1, <3>1, <4>2
      <4> QED
        BY <2>1, <2>2, <2>3, <3>1, <4>3
    <3>2. CASE p # cur
      <4>1. p_time'[p] = charged[p]
        BY <2>1, <3>2
      <4> QED
        BY <2>1, <2>2, <2>3, <3>2, <4>1
    <3> QED
      BY <3>1, <3>2
  <2>5. p_time'[p] \in Int /\ used'[p] = used[p] /\ recounted' = recounted
    <3>1. p_time' \in [PROC -> Int]
      <4>1. CASE cur = NULL
        BY <4>1
      <4>2. CASE cur # NULL
        <5>1. cur \in PROC /\ STCK(now + a) \in Int /\ start_TOD \in Int /\ charged[cur] \in Int
          BY <2>1, <4>2, WordsTyped DEF TypeOK
        <5>2. updateProcessTimeHelper(charged[cur], start_TOD, STCK(now + a)) \in Int
          BY <5>1, WordsTyped
        <5> QED
          BY <4>2, <5>2
      <4> QED
        BY <4>1, <4>2
    <3> QED
      BY <3>1
  <2> QED
    BY ONLY <2>1, <2>3, <2>4, <2>5
<1>2. ChargedTotal(s)'
  <2>1. /\ now \in Nat /\ now + a \in Nat /\ t \in Nat /\ t <= now
        /\ OpenTime(s)' = 0 /\ recounted' = recounted
    BY DEF TypeOK, OpenTime
  <2>2. SumFunction(p_time) + OpenTime(t) <= now + recounted
    BY DEF ChargedFrom, ChargedTotal
  <2>3. SumFunction(p_time) \in Int /\ SumFunction(charged) \in Int
    BY TotalTyped DEF TypeOK
  <2>4. CASE currentProcess = NULL
    <3>1. p_time' = charged /\ OpenTime(t) = 0
      BY <2>4 DEF OpenTime
    <3> QED
      BY <2>1, <2>2, <2>3, <3>1 DEF ChargedTotal
  <2>5. CASE currentProcess # NULL
    <3> DEFINE p == currentProcess
               v == charged[p] + ((now + a) - t)
    <3>1. /\ p \in PROC /\ charged[p] \in Int /\ p_time[p] \in Int
          /\ p_time[p] <= charged[p] /\ charged[p] <= p_time[p] + c /\ OpenTime(t) = now - t
      BY <2>5 DEF TypeOK, OpenTime
    <3>2. 0 <= p_time[p] /\ p_time[p] + (now - t) <= now + recounted
      BY <3>1 DEF ChargedFrom, ChargedEach, Open
    <3> HIDE DEF p
    <3>3. charged[p] \in Nat /\ v < HalfRange /\ v \in Int /\ t <= now + a
      BY <2>1, <3>1, <3>2
    <3>4. updateProcessTimeHelper(charged[p], STCK(t), STCK(now + a)) = v
      BY <2>1, <3>3, Elapsed
    <3>5. p_time' = [charged EXCEPT ![p] = v]
      BY <2>5, <3>4 DEF p
    <3>6. /\ SumFunction(p_time') \in Int
          /\ SumFunction(p_time') = SumFunction(charged) + (v - charged[p])
      <4> HIDE DEF v
      <4> QED
        BY <3>1, <3>3, <3>5, TotalCharge
    <3>7. v - charged[p] = (now + a) - t
      BY <2>1, <3>1
    <3>8. SumFunction(p_time') <= n + recounted
      <4> HIDE DEF v
      <4> QED
        BY <2>1, <2>2, <2>3, <3>1, <3>6, <3>7
    <3> QED
      BY <2>1, <3>6, <3>8 DEF ChargedTotal
  <2> QED
    BY <2>4, <2>5
<1> QED
  BY <1>1, <1>2 DEF ChargedFrom

\* The scheduler counts the time of the process it loads from t.
LEMMA SchedulerStarts ==
    ASSUME NEW rq, NEW t, scheduler(rq, t)
    PROVE  start_TOD' = STCK(t) \/ (currentProcess' = NULL /\ start_TOD' = start_TOD)
BY DEF scheduler, switchContext

\* So do all the steps that charge and then load a process.
LEMMA Reloaded ==
    ASSUME TypeOK, TimeInv, NEW a \in Nat, NEW c \in Nat,
           NEW n \in Nat, now' = n, now + a + c <= n,
           UNCHANGED <<recounted, used>>,
           NEW charged \in [PROC -> Int],
           n < HalfRange /\ n + recounted < HalfRange =>
             /\ \A p \in PROC : p_time[p] <= charged[p] /\ charged[p] <= p_time[p] + c
             /\ SumFunction(charged) <= SumFunction(p_time) + c,
           \/ currentProcess = NULL /\ p_time' = charged
           \/ /\ currentProcess # NULL
              /\ p_time' = [charged EXCEPT ![currentProcess] =
                              updateProcessTimeHelper(@, start_TOD, STCK(now + a))],
           \/ start_TOD' = STCK(n)
           \/ currentProcess' = NULL /\ start_TOD' = start_TOD
    PROVE  TimeInv'
<1> SUFFICES ASSUME n < HalfRange
             PROVE  /\ recounted' \in Nat
                    /\ \E t \in 0 .. n :
                         /\ start_TOD' = STCK(t)
                         /\ n + recounted' < HalfRange => ChargedFrom(t)'
  BY DEF TimeInv, HalfRange, STCK, Signed
<1>1. now \in Nat /\ now <= n
  BY DEF TypeOK
<1>2. PICK t \in 0 .. now : /\ start_TOD = STCK(t)
                            /\ now + recounted < HalfRange => ChargedFrom(t)
  BY <1>1, TimeBefore
<1>3. recounted \in Nat /\ recounted' = recounted /\ HalfRange \in Nat
  BY <1>1, TimeBefore
<1>4. PICK s \in 0 .. n : start_TOD' = STCK(s) /\ (s = n \/ currentProcess' = NULL)
  BY <1>1, <1>2
<1>5. ASSUME n + recounted' < HalfRange PROVE ChargedFrom(s)'
  <2>1. ChargedFrom(t)
    BY <1>1, <1>2, <1>3, <1>5
  <2>2. /\ \A p \in PROC : p_time[p] <= charged[p] /\ charged[p] <= p_time[p] + c
        /\ SumFunction(charged) <= SumFunction(p_time) + c
    BY <1>3, <1>5
  <2> QED
    BY <1>2, <1>3, <1>4, <1>5, <2>1, <2>2, ChargeAndReload
<1> QED
  BY <1>3, <1>4, <1>5

\* The same for a handler that ends in returnFromInterrupt.
LEMMA ReturnReloaded ==
    ASSUME TypeOK, TimeInv, NEW a \in Nat, NEW c \in Nat,
           NEW n \in Nat, now' = n, now + a + c <= n,
           UNCHANGED <<recounted, used>>,
           NEW charged \in [PROC -> Int],
           n < HalfRange /\ n + recounted < HalfRange =>
             /\ \A p \in PROC : p_time[p] <= charged[p] /\ charged[p] <= p_time[p] + c
             /\ SumFunction(charged) <= SumFunction(p_time) + c,
           NEW rq, returnFromInterrupt(rq, charged, a)
    PROVE  TimeInv'
<1>1. CASE currentProcess = NULL
  <2>1. p_time' = charged /\ scheduler(rq, n)
    BY <1>1 DEF returnFromInterrupt
  <2>2. \/ start_TOD' = STCK(n)
        \/ currentProcess' = NULL /\ start_TOD' = start_TOD
    BY <2>1, SchedulerStarts
  <2> QED
    BY <1>1, <2>1, <2>2, Reloaded
<1>2. CASE currentProcess # NULL
  <2>1. /\ p_time' = [charged EXCEPT ![currentProcess] =
                        updateProcessTimeHelper(@, start_TOD, STCK(now + a))]
        /\ start_TOD' = STCK(n)
    BY <1>2 DEF returnFromInterrupt, switchContext
  <2> QED
    BY <1>2, <2>1, Reloaded
<1> QED
  BY <1>1, <1>2

\* What the current process is charged and, with SYS6 or when passing up, what is
\* charged once more, while cpu_t holds all time.
LEMMA Answer ==
    ASSUME TypeOK, NEW t \in 0 .. now, start_TOD = STCK(t), ChargedFrom(t), recounted \in Nat,
           currentProcess # NULL, NEW a \in Nat, NEW more \in Nat,
           (now + a) + recounted + more < HalfRange
    PROVE  LET p == currentProcess
           IN /\ p \in PROC /\ p_time[p] \in Nat
              /\ used[p] <= p_time[p] + (now - t) /\ p_time[p] + (now - t) <= now + recounted
              /\ updateProcessTimeHelper(p_time[p], start_TOD, STCK(now + a))
                   = p_time[p] + ((now + a) - t)
<1> DEFINE p == currentProcess
<1>1. /\ p \in PROC /\ p_time[p] \in Int /\ now \in Nat /\ t \in Nat /\ t <= now
      /\ HalfRange \in Nat /\ now + a \in Nat
  BY RangeAssumption DEF TypeOK, HalfRange
<1>2. 0 <= p_time[p] /\ used[p] <= p_time[p] + (now - t) /\ p_time[p] + (now - t) <= now + recounted
  BY <1>1 DEF ChargedFrom, ChargedEach, Open
<1> HIDE DEF p
<1>3. p_time[p] \in Nat /\ t <= now + a /\ p_time[p] + ((now + a) - t) < HalfRange
  BY <1>1, <1>2
<1>4. updateProcessTimeHelper(p_time[p], STCK(t), STCK(now + a)) = p_time[p] + ((now + a) - t)
  BY <1>1, <1>3, Elapsed
<1> QED
  BY <1>1, <1>2, <1>3, <1>4 DEF p

\* The difference SYS6 and passing up charge again.
LEMMA Again ==
    ASSUME now \in Nat, NEW t \in 0 .. now, start_TOD = STCK(t), NEW a \in Nat,
           now + a < HalfRange
    PROVE  Signed(STCK(now + a) - start_TOD) = (now + a) - t
<1>1. HalfRange \in Nat /\ now + a \in Nat /\ t \in Nat /\ t <= now + a
  BY RangeAssumption DEF HalfRange
<1>2. 0 + ((now + a) - t) < HalfRange
  BY <1>1
<1> QED
  BY <1>1, <1>2, Elapsed

\* Every step keeps the account.
LEMMA TimeStep ==
    ASSUME TypeOK, TimeInv, [Next]_vars
    PROVE  TimeInv'
<1>1. /\ now \in Nat /\ p_time \in [PROC -> Int] /\ HalfRange \in Nat
      /\ \A a \in Before, b \in After : a \in Nat /\ b \in Nat /\ now + a + b \in Nat
      /\ \A p \in PROC : p_time[p] <= p_time[p] /\ p_time[p] <= p_time[p] + 0
      /\ SumFunction(p_time) \in Int /\ SumFunction(p_time) <= SumFunction(p_time) + 0
  <2>1. p_time \in [PROC -> Int] /\ SumFunction(p_time) \in Int
    BY TotalTyped DEF TypeOK
  <2>2. SumFunction(p_time) <= SumFunction(p_time) + 0
    BY <2>1
  <2>3. /\ now \in Nat /\ HalfRange \in Nat
        /\ \A a \in Before, b \in After : a \in Nat /\ b \in Nat /\ now + a + b \in Nat
    BY RangeAssumption DEF TypeOK, Before, After, HalfRange
  <2>4. \A p \in PROC : p_time[p] <= p_time[p] /\ p_time[p] <= p_time[p] + 0
    BY <2>1
  <2> QED
    BY <2>1, <2>2, <2>3, <2>4
<1>2. CASE Tick
  <2> SUFFICES ASSUME now + 1 < HalfRange
               PROVE  /\ recounted' \in Nat
                      /\ \E t \in 0 .. now + 1 :
                           /\ start_TOD' = STCK(t)
                           /\ now + 1 + recounted' < HalfRange => ChargedFrom(t)'
    BY <1>2 DEF Tick, TimeInv, HalfRange, STCK, Signed
  <2>1. now + 1 \in Nat /\ now <= now + 1
    BY <1>1
  <2>2. PICK t \in 0 .. now : /\ start_TOD = STCK(t)
                              /\ now + recounted < HalfRange => ChargedFrom(t)
    BY <2>1, TimeBefore
  <2>3. recounted \in Nat /\ UNCHANGED <<recounted, start_TOD, p_time, currentProcess>>
    BY <1>2, <2>1, TimeBefore DEF Tick, queues
  <2>4. ASSUME now + 1 + recounted < HalfRange, NEW p \in PROC
        PROVE  /\ 0 <= p_time'[p]
               /\ used'[p] <= p_time'[p] + Open(p, t)'
               /\ p_time'[p] + Open(p, t)' <= now' + recounted'
    <3>1. /\ 0 <= p_time[p] /\ used[p] <= p_time[p] + Open(p, t)
          /\ p_time[p] + Open(p, t) <= now + recounted
      BY <1>1, <2>2, <2>3, <2>4 DEF ChargedFrom, ChargedEach
    <3>2. now' = now + 1 /\ p_time[p] \in Int /\ used[p] \in Nat /\ t \in Nat /\ t <= now
      BY <1>2, <2>2 DEF Tick, TypeOK
    <3>3. CASE p = currentProcess
      <4>1. Open(p, t) = now - t /\ Open(p, t)' = now' - t
        BY <2>3, <3>3 DEF Open
      <4>3. now' - t = now + 1 - t
        BY <1>1, <3>2
      <4>2. used'[p] = used[p] + 1
        BY <1>2, <3>3 DEF Tick, TypeOK
      <4> QED
        BY <1>1, <2>3, <3>1, <3>2, <4>1, <4>2, <4>3
    <3>4. CASE p # currentProcess
      <4>1. Open(p, t) = 0 /\ Open(p, t)' = 0
        BY <2>3, <3>4 DEF Open
      <4>2. used'[p] = used[p]
        BY <1>2, <3>4 DEF Tick, TypeOK
      <4> QED
        BY <1>1, <2>3, <3>1, <3>2, <4>1, <4>2
    <3> QED
      BY <3>3, <3>4
  <2>5. now + 1 + recounted' < HalfRange => ChargedFrom(t)'
    <3> SUFFICES ASSUME now + 1 + recounted < HalfRange
                 PROVE  ChargedEach(t)' /\ ChargedTotal(t)'
      BY <2>3 DEF ChargedFrom
    <3>1. ChargedEach(t)'
      BY <2>4 DEF ChargedEach
    <3>2. SumFunction(p_time) + OpenTime(t) <= now + recounted
      BY <1>1, <2>2, <2>3 DEF ChargedFrom, ChargedTotal
    <3>3. /\ OpenTime(t) = now - t /\ OpenTime(t)' = now + 1 - t /\ now' = now + 1
          /\ t \in Nat
      BY <1>1, <1>2, <2>2, <2>3 DEF Tick, Running, OpenTime
    <3>4. SumFunction(p_time) + (now + 1 - t) <= now + 1 + recounted
      BY <1>1, <2>3, <3>2, <3>3
    <3> QED
      BY <2>3, <3>1, <3>3, <3>4 DEF ChargedTotal
  <2>6. t \in 0 .. now + 1
    BY <1>1, <2>2
  <2> QED
    BY <2>2, <2>3, <2>5, <2>6
<1>3. CASE Wait
  <2> SUFFICES ASSUME now + 1 < HalfRange
               PROVE  /\ recounted' \in Nat
                      /\ \E t \in 0 .. now + 1 :
                           /\ start_TOD' = STCK(t)
                           /\ now + 1 + recounted' < HalfRange => ChargedFrom(t)'
    BY <1>3 DEF Wait, TimeInv, HalfRange, STCK, Signed
  <2>1. now + 1 \in Nat /\ now <= now + 1
    BY <1>1
  <2>2. PICK t \in 0 .. now : /\ start_TOD = STCK(t)
                              /\ now + recounted < HalfRange => ChargedFrom(t)
    BY <2>1, TimeBefore
  <2>3. /\ recounted \in Nat /\ currentProcess = NULL /\ now' = now + 1
        /\ UNCHANGED <<recounted, start_TOD, p_time, used, currentProcess>>
    BY <1>3, <2>1, TimeBefore DEF Wait, queues, history
  <2>4. ASSUME now + 1 + recounted < HalfRange, NEW p \in PROC
        PROVE  /\ 0 <= p_time'[p]
               /\ used'[p] <= p_time'[p] + Open(p, t)'
               /\ p_time'[p] + Open(p, t)' <= now' + recounted'
    <3>1. /\ 0 <= p_time[p] /\ used[p] <= p_time[p] + Open(p, t)
          /\ p_time[p] + Open(p, t) <= now + recounted
      BY <1>1, <2>2, <2>3, <2>4 DEF ChargedFrom, ChargedEach
    <3>2. p_time[p] \in Int /\ used[p] \in Nat /\ p # NULL
      BY ProcAssumption DEF TypeOK
    <3>3. Open(p, t) = 0 /\ Open(p, t)' = 0
      BY <2>3, <3>2 DEF Open
    <3> QED
      BY <1>1, <2>3, <3>1, <3>2, <3>3
  <2>5. now + 1 + recounted' < HalfRange => ChargedFrom(t)'
    <3> SUFFICES ASSUME now + 1 + recounted < HalfRange
                 PROVE  ChargedEach(t)' /\ ChargedTotal(t)'
      BY <2>3 DEF ChargedFrom
    <3>1. ChargedEach(t)'
      BY <2>4 DEF ChargedEach
    <3>2. SumFunction(p_time) + OpenTime(t) <= now + recounted
      BY <1>1, <2>2, <2>3 DEF ChargedFrom, ChargedTotal
    <3>3. OpenTime(t) = 0 /\ OpenTime(t)' = 0
      BY <2>3 DEF OpenTime
    <3>4. SumFunction(p_time) + 0 <= now + 1 + recounted
      BY <1>1, <2>3, <3>2, <3>3
    <3> QED
      BY <2>3, <3>1, <3>3, <3>4 DEF ChargedTotal
  <2>6. t \in 0 .. now + 1
    BY <1>1, <2>2
  <2> QED
    BY <2>2, <2>3, <2>5, <2>6
<1>4. CASE callReturns \/ blockCurrentProcessHelper \/ PLTInterruptHandler
  <2>1. PICK a \in Before, b \in After :
           /\ now' = now + a + b
           /\ Charge(currentProcess, start_TOD, STCK(now + a))
           /\ \/ switchContext(now')
              \/ scheduler(readyQueue, now')
              \/ scheduler(Append(readyQueue, currentProcess), now')
    BY <1>4 DEF callReturns, blockCurrentProcessHelper, PLTInterruptHandler
  <2> DEFINE n == now + a + b
  <2>2. currentProcess # NULL /\ UNCHANGED <<recounted, used>>
    BY <1>4 DEF callReturns, blockCurrentProcessHelper, PLTInterruptHandler, Running, history
  <2>3. a \in Nat /\ n \in Nat /\ now + a + 0 <= n /\ now' = n
    BY <1>1, <2>1
  <2>4. start_TOD' = STCK(n) \/ (currentProcess' = NULL /\ start_TOD' = start_TOD)
    BY <2>1, SchedulerStarts DEF switchContext
  <2>5. p_time' = [p_time EXCEPT ![currentProcess] =
                     updateProcessTimeHelper(@, start_TOD, STCK(now + a))]
    BY <2>1 DEF Charge
  <2> HIDE DEF n
  <2> QED
    BY <1>1, <2>2, <2>3, <2>4, <2>5, Reloaded
<1>5. CASE getCPUTime
  <2> DEFINE answer(a) == updateProcessTimeHelper(p_time[currentProcess], start_TOD, STCK(now + a))
             again(a, b) == updateProcessTimeHelper(answer(a), start_TOD, STCK(now + a + b))
  <2>1. PICK a \in Before, b \in After :
           /\ now' = now + a + b
           /\ p_time' = [p_time EXCEPT ![currentProcess] = again(a, b)]
           /\ recounted' = recounted + Signed(STCK(now + a) - start_TOD)
           /\ start_TOD' = STCK(now')
    BY <1>5 DEF getCPUTime, switchContext
  <2> PICK n \in Nat : n = now + a + b
    BY <1>1
  <2>2. a \in Nat /\ b \in Nat /\ n \in Nat /\ now <= n /\ now' = n /\ n = now + (a + b)
    BY <1>1, <2>1
  <2> SUFFICES ASSUME n < HalfRange
               PROVE  /\ recounted' \in Nat
                      /\ n + recounted' < HalfRange => ChargedFrom(n)'
    BY <2>1, <2>2 DEF TimeInv, HalfRange, STCK, Signed
  <2>3. PICK t \in 0 .. now : /\ start_TOD = STCK(t)
                              /\ now + recounted < HalfRange => ChargedFrom(t)
    BY <2>2, TimeBefore
  <2>4. recounted \in Nat /\ t \in Nat /\ t <= now /\ now + a < HalfRange
    BY <1>1, <2>2, <2>3, TimeBefore
  <2>5. recounted' = recounted + ((now + a) - t)
    BY <1>1, <2>1, <2>2, <2>3, <2>4, Again
  <2>6. recounted' \in Nat
    BY <1>1, <2>2, <2>4, <2>5
  <2>7. ASSUME n + recounted' < HalfRange, NEW p \in PROC
        PROVE  /\ 0 <= p_time'[p]
               /\ used'[p] <= p_time'[p] + Open(p, n)'
               /\ p_time'[p] + Open(p, n)' <= now' + recounted'
    <3>1. now + recounted < HalfRange /\ (now + a) + recounted + ((now + a) - t) < HalfRange
      BY <1>1, <2>2, <2>4, <2>5, <2>7
    <3>2. currentProcess # NULL /\ used' = used /\ (now + a) - t \in Nat
      BY <1>1, <1>5, <2>2, <2>4 DEF getCPUTime, Running
    <3>3. Open(p, n)' = 0
      BY <2>2 DEF Open
    <3>4. used[p] \in Nat /\ p_time[p] \in Int
      BY DEF TypeOK
    <3>5. CASE p = currentProcess
      <4>1. /\ p_time[p] \in Nat
            /\ used[p] <= p_time[p] + (now - t) /\ p_time[p] + (now - t) <= now + recounted
            /\ answer(a) = p_time[p] + ((now + a) - t)
        BY <1>1, <2>2, <2>3, <2>4, <3>1, <3>2, <3>5, Answer
      <4>2. /\ answer(a) \in Nat /\ answer(a) + (n - t) < HalfRange /\ t <= n
        BY <1>1, <2>2, <2>4, <2>5, <2>7, <4>1
      <4> HIDE DEF answer
      <4>3. again(a, b) = answer(a) + (n - t)
        BY <2>2, <2>3, <2>4, <4>2, Elapsed
      <4>4. p_time'[p] = answer(a) + (n - t)
        BY <1>1, <2>1, <3>5, <4>3
      <4> QED
        BY <1>1, <2>2, <2>4, <2>5, <3>2, <3>3, <3>4, <4>1, <4>4
    <3>6. CASE p # currentProcess
      <4>1. p_time'[p] = p_time[p]
        BY <1>1, <2>1, <3>6
      <4>2. /\ 0 <= p_time[p] /\ used[p] <= p_time[p] + 0
            /\ p_time[p] + 0 <= now + recounted
        BY <2>3, <3>1, <3>6 DEF ChargedFrom, ChargedEach, Open
      <4> QED
        BY <1>1, <2>2, <2>4, <2>5, <3>2, <3>3, <3>4, <4>1, <4>2
    <3> QED
      BY <3>5, <3>6
  <2>8. ASSUME n + recounted' < HalfRange
        PROVE  ChargedTotal(n)'
    <3> DEFINE p == currentProcess
               v == p_time[p] + ((now + a) - t) + (n - t)
    <3>1. now + recounted < HalfRange /\ (now + a) + recounted + ((now + a) - t) < HalfRange
      BY <1>1, <2>2, <2>4, <2>5, <2>8
    <3>2. currentProcess # NULL /\ (now + a) - t \in Nat /\ OpenTime(n)' = 0
      BY <1>1, <1>5, <2>2, <2>4 DEF getCPUTime, Running, OpenTime
    <3>3. SumFunction(p_time) + (now - t) <= now + recounted
      BY <2>3, <3>1, <3>2 DEF ChargedFrom, ChargedTotal, OpenTime
    <3>4. /\ p \in PROC /\ p_time[p] \in Nat /\ p_time[p] + (now - t) <= now + recounted
          /\ answer(a) = p_time[p] + ((now + a) - t)
      BY <1>1, <2>2, <2>3, <2>4, <3>1, <3>2, Answer
    <3>5. answer(a) \in Nat /\ answer(a) + (n - t) < HalfRange /\ t <= n /\ v \in Int
      BY <1>1, <2>2, <2>4, <2>5, <2>8, <3>4
    <3> HIDE DEF answer
    <3>6. again(a, b) = answer(a) + (n - t)
      BY <2>2, <2>3, <2>4, <3>5, Elapsed
    <3>7. p_time' = [p_time EXCEPT ![p] = v]
      BY <2>1, <3>4, <3>6
    <3>8. v - p_time[p] = ((now + a) - t) + (n - t)
      BY <1>1, <2>2, <2>4, <3>4
    <3> HIDE DEF v, p
    <3>9. SumFunction(p_time') = SumFunction(p_time) + (((now + a) - t) + (n - t))
      BY <1>1, <3>4, <3>5, <3>7, <3>8, TotalCharge
    <3>10. SumFunction(p_time') + 0 <= n + recounted'
      BY <1>1, <2>2, <2>4, <2>5, <3>3, <3>9
    <3> QED
      BY <2>2, <3>2, <3>10 DEF ChargedTotal
  <2> QED
    BY <2>6, <2>7, <2>8 DEF ChargedFrom, ChargedEach
<1>6. CASE passUp
  <2>1. PICK a \in Before, b \in After :
           /\ now' = now + a + b
           /\ Charge(currentProcess, start_TOD, STCK(now + a))
           /\ recounted' = recounted + Signed(STCK(now + a) - start_TOD)
    BY <1>6 DEF passUp
  <2> DEFINE n == now + a + b
  <2>2. a \in Nat /\ b \in Nat /\ n \in Nat /\ now <= n /\ now' = n /\ n = now + (a + b)
    BY <1>1, <2>1
  <2> SUFFICES ASSUME n < HalfRange
               PROVE  /\ recounted' \in Nat
                      /\ \E t \in 0 .. n : /\ start_TOD' = STCK(t)
                                           /\ n + recounted' < HalfRange => ChargedFrom(t)'
    BY <2>1, <2>2 DEF TimeInv, HalfRange, STCK, Signed
  <2>3. PICK t \in 0 .. now : /\ start_TOD = STCK(t)
                              /\ now + recounted < HalfRange => ChargedFrom(t)
    BY <2>2, TimeBefore
  <2>4. recounted \in Nat /\ t \in Nat /\ t <= now /\ now + a < HalfRange /\ t \in 0 .. n
    BY <1>1, <2>2, <2>3, TimeBefore
  <2>5. recounted' = recounted + ((now + a) - t)
    BY <1>1, <2>1, <2>2, <2>3, <2>4, Again
  <2>6. recounted' \in Nat /\ start_TOD' = STCK(t)
    BY <1>1, <1>6, <2>2, <2>3, <2>4, <2>5 DEF passUp
  <2>7. ASSUME n + recounted' < HalfRange, NEW p \in PROC
        PROVE  /\ 0 <= p_time'[p]
               /\ used'[p] <= p_time'[p] + Open(p, t)'
               /\ p_time'[p] + Open(p, t)' <= now' + recounted'
    <3>1. now + recounted < HalfRange /\ (now + a) + recounted + ((now + a) - t) < HalfRange
      BY <1>1, <2>2, <2>4, <2>5, <2>7
    <3>2. /\ currentProcess # NULL /\ used' = used /\ (now + a) - t \in Nat
          /\ currentProcess' = currentProcess
      BY <1>1, <1>6, <2>2, <2>4 DEF passUp, Running, queues
    <3>4. used[p] \in Nat /\ p_time[p] \in Int
      BY DEF TypeOK
    <3>5. CASE p = currentProcess
      <4>1. /\ p_time[p] \in Nat
            /\ used[p] <= p_time[p] + (now - t) /\ p_time[p] + (now - t) <= now + recounted
            /\ updateProcessTimeHelper(p_time[p], start_TOD, STCK(now + a))
                 = p_time[p] + ((now + a) - t)
        BY <1>1, <2>2, <2>3, <2>4, <3>1, <3>2, <3>5, Answer
      <4>2. p_time'[p] = p_time[p] + ((now + a) - t)
        BY <1>1, <2>1, <3>5, <4>1 DEF Charge
      <4>3. Open(p, t)' = n - t
        BY <2>2, <3>2, <3>5 DEF Open
      <4> QED
        BY <1>1, <2>2, <2>4, <2>5, <3>2, <3>4, <4>1, <4>2, <4>3
    <3>6. CASE p # currentProcess
      <4>1. p_time'[p] = p_time[p]
        BY <1>1, <2>1, <3>6 DEF Charge
      <4>2. /\ 0 <= p_time[p] /\ used[p] <= p_time[p] + 0
            /\ p_time[p] + 0 <= now + recounted
        BY <2>3, <3>1, <3>6 DEF ChargedFrom, ChargedEach, Open
      <4>3. Open(p, t)' = 0
        BY <3>2, <3>6 DEF Open
      <4> QED
        BY <1>1, <2>2, <2>4, <2>5, <3>2, <3>4, <4>1, <4>2, <4>3
    <3> QED
      BY <3>5, <3>6
  <2>8. ASSUME n + recounted' < HalfRange
        PROVE  ChargedTotal(t)'
    <3> DEFINE p == currentProcess
               v == p_time[p] + ((now + a) - t)
    <3>1. now + recounted < HalfRange /\ (now + a) + recounted + ((now + a) - t) < HalfRange
      BY <1>1, <2>2, <2>4, <2>5, <2>8
    <3>2. currentProcess # NULL /\ (now + a) - t \in Nat /\ OpenTime(t)' = n - t
      BY <1>1, <1>6, <2>2, <2>4 DEF passUp, Running, queues, OpenTime
    <3>3. SumFunction(p_time) + (now - t) <= now + recounted
      BY <2>3, <3>1, <3>2 DEF ChargedFrom, ChargedTotal, OpenTime
    <3>4. /\ p \in PROC /\ p_time[p] \in Nat
          /\ updateProcessTimeHelper(p_time[p], start_TOD, STCK(now + a)) = v
      BY <1>1, <2>2, <2>3, <2>4, <3>1, <3>2, Answer
    <3>5. v \in Int /\ v - p_time[p] = (now + a) - t
      BY <1>1, <2>2, <2>4, <3>4
    <3>6. p_time' = [p_time EXCEPT ![p] = v]
      BY <2>1, <3>4 DEF Charge
    <3> HIDE DEF v, p
    <3>7. SumFunction(p_time') = SumFunction(p_time) + ((now + a) - t)
      <4>1. SumFunction(p_time') = SumFunction(p_time) + (v - p_time[p])
        BY ONLY <1>1, <3>4, <3>5, <3>6, TotalCharge
      <4> QED
        BY ONLY <3>5, <4>1
    <3>8. SumFunction(p_time') + (n - t) <= n + recounted'
      BY <1>1, <2>2, <2>4, <2>5, <3>3, <3>7
    <3> QED
      BY <2>2, <3>2, <3>8 DEF ChargedTotal
  <2> QED
    BY <2>4, <2>6, <2>7, <2>8 DEF ChargedFrom, ChargedEach
<1>7. CASE nonTimerInterruptHandler
  <2> DEFINE woken(a, c) == [p_time EXCEPT ![Head(ioQueue)] =
                 updateProcessTimeHelper(@, STCK(now + a), STCK(now + a + c))]
  <2>1. PICK a \in 0 .. Latency, c \in Before, b \in After :
           /\ now' = now + a + c + b
           /\ \/ /\ ioQueue # <<>>
                 /\ returnFromInterrupt(Append(readyQueue, Head(ioQueue)), woken(a, c), a)
              \/ /\ ioQueue = <<>> /\ returnFromInterrupt(readyQueue, p_time, a)
    BY <1>7 DEF nonTimerInterruptHandler
  <2> DEFINE n == now + a + c + b
  <2>2. /\ a \in Nat /\ c \in Nat /\ b \in Nat /\ n \in Nat /\ now' = n
        /\ now + a + c <= n /\ now <= n /\ now + a + 0 <= n
        /\ UNCHANGED <<recounted, used>>
    <3>1. a \in Nat /\ c \in Nat /\ b \in Nat
      BY RangeAssumption DEF Before, After
    <3>2. UNCHANGED <<recounted, used>>
      BY <1>7 DEF nonTimerInterruptHandler
    <3> QED
      BY <1>1, <2>1, <3>1, <3>2
  <2>3. CASE ioQueue = <<>>
    <3>1. returnFromInterrupt(readyQueue, p_time, a)
      BY <2>1, <2>3
    <3> HIDE DEF n
    <3> QED
      BY <1>1, <2>2, <3>1, ReturnReloaded
  <2>4. CASE ioQueue # <<>>
    <3> DEFINE h == Head(ioQueue)
               add == updateProcessTimeHelper(p_time[h], STCK(now + a), STCK(now + a + c))
               charged == woken(a, c)
    <3>1. h \in PROC /\ now + a \in Nat /\ now + a + c \in Nat
      BY <1>1, <2>2, <2>4, TailQueue DEF TypeOK
    <3>2. /\ returnFromInterrupt(Append(readyQueue, h), charged, a)
          /\ charged = [p_time EXCEPT ![h] = add]
      BY <2>1, <2>4
    <3>3. add \in Int
      <4>1. STCK(now + a) \in Int /\ STCK(now + a + c) \in Int /\ p_time[h] \in Int
        BY <1>1, <3>1, WordsTyped
      <4> QED
        BY <4>1, WordsTyped
    <3>4. n < HalfRange /\ n + recounted < HalfRange => add = p_time[h] + c /\ p_time[h] \in Nat
      <4> SUFFICES ASSUME n < HalfRange, n + recounted < HalfRange
                   PROVE  add = p_time[h] + c /\ p_time[h] \in Nat
        OBVIOUS
      <4>3. PICK t \in 0 .. now : now + recounted < HalfRange => ChargedFrom(t)
        BY <2>2, TimeBefore
      <4>4. recounted \in Nat
        BY <2>2, TimeBefore
      <4>5. ChargedFrom(t) /\ t \in Nat /\ t <= now
        BY <1>1, <2>2, <4>3, <4>4
      <4>6. p_time[h] \in Nat /\ p_time[h] <= now + recounted
        <5>1. Open(h, t) \in Nat
          BY <1>1, <4>5 DEF Open
        <5>2. 0 <= p_time[h] /\ p_time[h] + Open(h, t) <= now + recounted /\ p_time[h] \in Int
          BY <1>1, <3>1, <4>5 DEF ChargedFrom, ChargedEach
        <5> QED
          BY <1>1, <4>4, <5>1, <5>2
      <4>7. p_time[h] + ((now + a + c) - (now + a)) < HalfRange /\ now + a <= now + a + c
        BY <1>1, <2>2, <4>4, <4>6
      <4>8. add = p_time[h] + ((now + a + c) - (now + a))
        BY <3>1, <4>6, <4>7, Elapsed
      <4>9. (now + a + c) - (now + a) = c
        BY <1>1, <2>2
      <4> QED
        BY <4>6, <4>8, <4>9
    <3> HIDE DEF add, charged, n, h, woken
    <3>5. charged \in [PROC -> Int]
      BY <1>1, <3>1, <3>2, <3>3
    <3>6. n < HalfRange /\ n + recounted < HalfRange =>
            /\ \A p \in PROC : p_time[p] <= charged[p] /\ charged[p] <= p_time[p] + c
            /\ SumFunction(charged) <= SumFunction(p_time) + c
      <4> SUFFICES ASSUME n < HalfRange, n + recounted < HalfRange
                   PROVE  /\ \A p \in PROC : p_time[p] <= charged[p] /\ charged[p] <= p_time[p] + c
                          /\ SumFunction(charged) <= SumFunction(p_time) + c
        OBVIOUS
      <4>1. \A p \in PROC : p_time[p] <= charged[p] /\ charged[p] <= p_time[p] + c
        BY <1>1, <2>2, <3>1, <3>2, <3>4
      <4>2. /\ SumFunction(charged) \in Int
            /\ SumFunction(charged) = SumFunction(p_time) + (add - p_time[h])
        BY <1>1, <3>1, <3>2, <3>3, TotalCharge
      <4>3. add - p_time[h] = c
        BY <2>2, <3>4
      <4> QED
        BY <1>1, <2>2, <4>1, <4>2, <4>3
    <3> QED
      BY <2>2, <3>2, <3>5, <3>6, ReturnReloaded
  <2> QED
    BY <2>3, <2>4
<1>8. CASE intervalTimerInterruptHandler
  <2>1. PICK a \in 0 .. Latency, b \in After :
           /\ now' = now + a + b
           /\ returnFromInterrupt(readyQueue \o clockQueue, p_time, a)
    BY <1>8 DEF intervalTimerInterruptHandler
  <2> DEFINE n == now + a + b
  <2>2. /\ a \in Nat /\ n \in Nat /\ now' = n /\ now + a + 0 <= n
        /\ UNCHANGED <<recounted, used>>
    BY <1>1, <1>8, <2>1 DEF intervalTimerInterruptHandler, After
  <2> HIDE DEF n
  <2> QED
    BY <1>1, <2>1, <2>2, ReturnReloaded
<1>9. CASE UNCHANGED vars
  BY <1>9 DEF vars, queues, history, TimeInv, ChargedFrom, ChargedEach, ChargedTotal, Open, OpenTime, HalfRange, STCK, Signed
<1> QED
  BY <1>2, <1>3, <1>4, <1>5, <1>6, <1>7, <1>8, <1>9 DEF Next, TimeIsUp

-----------------------------------------------------------------------------
(* The theorems                                                            *)

\* The first process has just been loaded, with all of its slice, when the
\* kernel starts (initial.c:296-301).
LEMMA InitCpu == Init => Inv
<1> SUFFICES ASSUME Init
             PROVE  Inv
  OBVIOUS
<1>1. PICK p \in PROC : currentProcess = p /\ readyQueue = SetToSeq(PROC \ {p})
  BY DEF Init
<1>2. SetToSeq(PROC \ {p}) \in Seq(PROC)
  <2> DEFINE S == PROC \ {p}
             n == Cardinality(S)
  <2>1. IsFiniteSet(S)
    BY ProcAssumption, FS_RemoveElement
  <2>2. n \in Nat /\ ExistsBijection(1 .. n, S)
    BY <2>1, FS_CardinalityType
  <2>3. PICK g \in Bijection(1 .. n, S) : TRUE
    BY <2>2 DEF ExistsBijection
  <2>4. g \in [1 .. n -> S] /\ IsInjective(g)
    BY <2>3 DEF Bijection, Injection, IsInjective
  <2> DEFINE q == SetToSeq(S)
  <2>5. q \in [1 .. n -> S] /\ IsInjective(q)
    BY <2>4 DEF SetToSeq
  <2>6. q \in [1 .. n -> PROC]
    BY <2>5
  <2>7. \A m \in Nat : \A f \in [1 .. m -> PROC] : f \in Seq(PROC)
    OBVIOUS
  <2> QED
    BY <2>2, <2>6, <2>7
<1>3. 0 \in Nat /\ STCK(0) \in Int
  BY WordsTyped
<1>4. TypeOK
  <2>1. /\ now \in Nat /\ start_TOD \in Int /\ currentProcess \in PROC \cup {NULL}
        /\ readyQueue \in Seq(PROC)
    BY <1>1, <1>2, <1>3 DEF Init
  <2>2. ioQueue \in Seq(PROC) /\ clockQueue \in Seq(PROC)
    BY DEF Init
  <2>3. p_time \in [PROC -> Int] /\ used \in [PROC -> Nat]
    BY DEF Init
  <2>4. timer \in 0 .. TimerRange - 1 /\ slice \in Nat /\ recounted \in Int
    <3>1. timer = PLT_TIME_SLICE /\ slice = 0 /\ recounted = 0
      BY DEF Init
    <3> QED
      BY <3>1, RangeAssumption
  <2>5. pltPending \in BOOLEAN /\ late \in BOOLEAN
    BY Zenon DEF Init
  <2> QED
    BY <2>1, <2>2, <2>3, <2>4, <2>5 DEF TypeOK
<1>5. SliceInv
  BY RangeAssumption DEF Init, SliceInv
<1>6. TimeInv
  <2>1. /\ now = 0 /\ recounted = 0 /\ start_TOD = STCK(0)
        /\ p_time = [q \in PROC |-> 0] /\ used = [q \in PROC |-> 0]
    BY DEF Init
  <2>2. ChargedEach(0)
    BY <2>1 DEF ChargedEach, Open
  <2>3. ChargedTotal(0)
    <3>1. SumFunction(p_time) = 0
      BY <2>1, ProcAssumption, SumZero
    <3> QED
      BY <2>1, <3>1 DEF ChargedTotal, OpenTime
  <2> QED
    BY <2>1, <2>2, <2>3 DEF TimeInv, ChargedFrom
<1> QED
  BY <1>4, <1>5, <1>6 DEF Inv

\* Every tick, call and interrupt preserves the invariant.
LEMMA StepCpu == Inv /\ [Next]_vars => Inv'
BY TypedStep, SliceStep, TimeStep DEF Inv

\* The accounting of CPU time and slices keeps its invariant.
THEOREM CpuInvariance == Spec => []Inv
<1>1. Init => Inv
  BY InitCpu
<1>2. Inv /\ [Next]_vars => Inv'
  BY StepCpu
<1> QED
  BY <1>1, <1>2, PTL DEF Spec

\* The time stamps, the charged times and the PLT keep their types; the PLT
\* never leaves its width, whatever timeLeft has been stored (interrupts.c:348,
\* 400, 455).
THEOREM CpuTyped == Spec => []TypeOK
<1>1. Inv => TypeOK
  BY DEF Inv
<1> QED
  BY <1>1, CpuInvariance, PTL

\* For every slice, width of the PLT and latency, a process does not run longer
\* than its slice and one tick between two dispatches, unless the PLT was read
\* past zero (scheduler.c:134; interrupts.c:348, 400, 455).
THEOREM SlicesBounded == Spec => []SliceBounded
<1>1. Inv => SliceBounded
  BY DEF Inv, SliceInv, SliceBounded
<1> QED
  BY <1>1, CpuInvariance, PTL

\* The condition under which cpu_t holds every time there has been.
InRange == now < HalfRange /\ now + recounted < HalfRange

\* As long as the time since boot, with what SYS6 and passing up have counted
\* again, fits in cpu_t, every tick in which a process had the CPU is charged to
\* it: through every handler, and wherever the low word of the time of day
\* overflows in between (exceptions.c, updateProcessTimeHelper).
THEOREM NoneForgotten == Spec => [](InRange => NothingForgotten)
<1>1. Inv /\ InRange => NothingForgotten
  <2> SUFFICES ASSUME Inv, InRange, NEW p \in PROC
               PROVE  p_time[p] + Uncharged(p) >= used[p]
    BY DEF NothingForgotten
  <2>1. /\ now \in Nat /\ recounted \in Nat /\ now < HalfRange
        /\ p_time[p] \in Int /\ used[p] \in Nat
    BY DEF Inv, TypeOK, TimeInv, InRange
  <2>2. PICK t \in 0 .. now : start_TOD = STCK(t) /\ ChargedFrom(t)
    BY DEF Inv, TimeInv, InRange
  <2>3. used[p] <= p_time[p] + Open(p, t)
    BY <2>2 DEF ChargedFrom, ChargedEach
  <2>4. Uncharged(p) = Open(p, t)
    <3>1. CASE p = currentProcess
      <4>1. t \in Nat /\ t <= now /\ 0 + (now - t) < HalfRange
        BY <2>1, RangeAssumption DEF HalfRange
      <4>2. Signed(STCK(now) - STCK(t)) = now - t
        BY <2>1, <4>1, Elapsed
      <4> QED
        BY <2>2, <3>1, <4>2 DEF Uncharged, Open
    <3>2. CASE p # currentProcess
      BY <3>2 DEF Uncharged, Open
    <3> QED
      BY <3>1, <3>2
  <2>5. Open(p, t) \in Int
    BY <2>1 DEF Open
  <2> QED
    BY <2>1, <2>3, <2>4, <2>5
<1>2. (Inv => (InRange => NothingForgotten))
  BY <1>1
<1> QED
  BY <1>2, CpuInvariance, PTL

\* In that range no instant is charged twice, to one process or to two, beyond
\* what SYS6 and passing up count again: whichever processes are interrupted,
\* woken and dispatched in between, the charges of all of them add up to no more
\* than the time there has been (initial.c:169-171; interrupts.c:331, 350).
THEOREM NoneChargedTwice == Spec => [](InRange => ChargedOnce)
<1>1. Inv /\ InRange => ChargedOnce
  <2> SUFFICES ASSUME Inv, InRange
               PROVE  ChargedOnce
    OBVIOUS
  <2> DEFINE due == [p \in PROC |-> p_time[p] + Uncharged(p)]
  <2>1. /\ now \in Nat /\ recounted \in Nat /\ now < HalfRange
        /\ p_time \in [PROC -> Int]
    BY DEF Inv, TypeOK, TimeInv, InRange
  <2>2. PICK t \in 0 .. now : start_TOD = STCK(t) /\ ChargedTotal(t)
    BY DEF Inv, TimeInv, InRange, ChargedFrom
  <2>3. SumFunction(p_time) + OpenTime(t) <= now + recounted
    BY <2>2 DEF ChargedTotal
  <2>4. CASE currentProcess = NULL
    <3>1. \A p \in PROC : Uncharged(p) = 0
      BY <2>4, ProcAssumption DEF Uncharged
    <3>2. due = p_time
      BY <2>1, <3>1
    <3>3. OpenTime(t) = 0 /\ SumFunction(p_time) \in Int
      BY <2>1, <2>4, TotalTyped DEF OpenTime
    <3> HIDE DEF due
    <3>4. SumFunction(due) <= now + recounted
      BY <2>1, <2>3, <3>2, <3>3
    <3> QED
      BY <3>4 DEF due, ChargedOnce
  <2>5. CASE currentProcess # NULL
    <3> DEFINE cur == currentProcess
               v == p_time[cur] + (now - t)
    <3>1. t \in Nat /\ t <= now /\ 0 + (now - t) < HalfRange
      BY <2>1, RangeAssumption DEF HalfRange
    <3>2. Signed(STCK(now) - STCK(t)) = now - t
      BY <2>1, <3>1, Elapsed
    <3>3. \A p \in PROC : Uncharged(p) = IF p = cur THEN now - t ELSE 0
      BY <2>2, <3>2 DEF Uncharged
    <3>4. cur \in PROC /\ v \in Int /\ v - p_time[cur] = now - t
      BY <2>1, <2>5, <3>1 DEF Inv, TypeOK
    <3>5. due = [p_time EXCEPT ![cur] = v]
      <4>1. due[cur] = v
        BY <3>3, <3>4
      <4>2. \A p \in PROC : p # cur => due[p] = p_time[p]
        BY <2>1, <3>3
      <4>3. due = [p \in PROC |-> due[p]]
        OBVIOUS
      <4> HIDE DEF due, v, cur
      <4> QED
        BY <2>1, <4>1, <4>2, <4>3
    <3>6. OpenTime(t) = now - t
      BY <2>5 DEF OpenTime
    <3> HIDE DEF due, v, cur
    <3>7. /\ SumFunction(p_time) \in Int
          /\ SumFunction(due) = SumFunction(p_time) + (now - t)
      BY <2>1, <3>4, <3>5, TotalCharge
    <3>8. SumFunction(due) <= now + recounted
      BY <2>3, <3>6, <3>7
    <3> QED
      BY <3>8 DEF due, ChargedOnce
  <2> QED
    BY <2>4, <2>5
<1>2. (Inv => (InRange => ChargedOnce))
  BY <1>1
<1> QED
  BY <1>2, CpuInvariance, PTL
=============================================================================
