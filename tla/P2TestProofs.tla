---------------------------- MODULE P2TestProofs ----------------------------
(***************************************************************************)
(* The test program runs on the nucleus: every step of P2Test is one of    *)
(* Nucleus or changes nothing of it, so that what is proved of Nucleus     *)
(* holds of the test.  And term_mut does what it is there for.             *)
(***************************************************************************)
EXTENDS NucleusProofs, P2Test

-----------------------------------------------------------------------------
(* The programs                                                            *)

Lock   == Ins("P", term_mut)
Unlock == Ins("V", term_mut)

\* What an instruction names exists: P and V a semaphore, create a program, a trap
\* its cause; and a jump leads to a line where the terminal is not taken.  The
\* targets of jumps in the program itself are the lines in back.
Instr(back) ==
    [op : {"P", "V"}, arg : USERSEM]
        \cup [op : {"create"}, arg : DOMAIN Text]
        \cup [op : {"trap"}, arg : {"BUSERROR", "ADDRERROR", "TLB"}]
        \cup [op : {"LDST"}, arg : {<<"p5a", 1>>, <<"p5b", 1>>, <<"p5b", 2>>, <<"p5b_user", 1>>}]
        \cup [op : {"loop"}, arg : {Len(p1_setup) + 1}]
        \cup [op : {"delayed"}, arg : back]
        \cup [op : {"start", "SYS2", "SYS5", "SYS6", "SYS7", "SYS8", "SYS9",
                    "setp1p2synch", "checkp1p2synch"}, arg : {NULL}]

\* V(term_mut) is only called by who has the terminal, who does not keep it.
Bracketed(code) ==
    /\ \A k \in 1 .. Len(code) : code[k] = Unlock => Inside(code, k)
    /\ ~Inside(code, Len(code) + 1)

Code(back) == {code \in Seq(Instr(back)) : Bracketed(code)}

\* What has been executed decides, not what comes after.
LEMMA InsidePrefix ==
    ASSUME NEW a, NEW b, NEW k \in Nat, \A i \in 1 .. k - 1 : a[i] = b[i]
    PROVE  Inside(a, k) <=> Inside(b, k)
BY DEF Inside

\* The terminal is taken after P(term_mut), and until V(term_mut).
LEMMA InsideNext ==
    ASSUME NEW code, NEW k \in Nat, k > 0
    PROVE  Inside(code, k + 1) <=> code[k] = Lock \/ (Inside(code, k) /\ code[k] # Unlock)
<1>1. Lock # Unlock
  BY DEF Lock, Unlock, Ins
<1>2. ASSUME Inside(code, k + 1)
      PROVE  code[k] = Lock \/ (Inside(code, k) /\ code[k] # Unlock)
  <2>1. PICK i \in 1 .. k : /\ code[i] = Lock
                            /\ \A j \in i + 1 .. k : code[j] # Unlock
    BY <1>2 DEF Inside, Lock, Unlock
  <2>2. CASE i = k
    BY <2>1, <2>2
  <2>3. CASE i # k
    <3>1. i \in 1 .. k - 1 /\ k \in i + 1 .. k /\ \A j \in i + 1 .. k - 1 : j \in i + 1 .. k
      BY <2>3
    <3> QED
      BY <2>1, <3>1 DEF Inside, Lock, Unlock
  <2> QED
    BY <2>2, <2>3
<1>3. ASSUME code[k] = Lock
      PROVE  Inside(code, k + 1)
  <2>1. k \in 1 .. (k + 1) - 1 /\ \A j \in k + 1 .. (k + 1) - 1 : FALSE
    OBVIOUS
  <2> QED
    BY <1>3, <2>1 DEF Inside, Lock
<1>4. ASSUME Inside(code, k), code[k] # Unlock
      PROVE  Inside(code, k + 1)
  <2>1. PICK i \in 1 .. k - 1 : /\ code[i] = Lock
                                /\ \A j \in i + 1 .. k - 1 : code[j] # Unlock
    BY <1>4 DEF Inside, Lock, Unlock
  <2>2. \A j \in i + 1 .. (k + 1) - 1 : j = k \/ j \in i + 1 .. k - 1
    OBVIOUS
  <2> QED
    BY <1>4, <2>1, <2>2 DEF Inside, Lock, Unlock
<1> QED
  BY <1>2, <1>3, <1>4

\* Programs are put together from parts.
LEMMA CodeConcat ==
    ASSUME NEW back, NEW a \in Code(back), NEW b \in Code(back)
    PROVE  a \o b \in Code(back)
<1> DEFINE c == a \o b
           m == Len(a)
<1>1. /\ a \in Seq(Instr(back)) /\ b \in Seq(Instr(back)) /\ m \in Nat /\ Len(b) \in Nat
      /\ c \in Seq(Instr(back)) /\ Len(c) = m + Len(b)
  BY DEF Code
<1>2. \A k \in 1 .. m : c[k] = a[k]
  BY <1>1
<1>3. \A k \in 1 .. Len(b) : c[m + k] = b[k]
  BY <1>1
<1>a. Bracketed(a) /\ Bracketed(b)
  BY DEF Code
<1> HIDE DEF c, m
\* Behind a the terminal is taken just when it is in b.
<1>4. ASSUME NEW k \in 1 .. Len(b) + 1
      PROVE  Inside(c, m + k) <=> Inside(b, k)
  <2>0. k \in Nat /\ m + k \in Nat
    BY <1>1
  <2>1. ASSUME Inside(b, k)
        PROVE  Inside(c, m + k)
    <3>1. PICK i \in 1 .. k - 1 : /\ b[i] = Lock
                                  /\ \A j \in i + 1 .. k - 1 : b[j] # Unlock
      BY <2>1 DEF Inside, Lock, Unlock
    <3>2. m + i \in 1 .. (m + k) - 1 /\ c[m + i] = Lock
      BY <1>1, <1>3, <3>1
    <3>3. ASSUME NEW j \in (m + i) + 1 .. (m + k) - 1
          PROVE  c[j] # Unlock
      <4>1. j - m \in i + 1 .. k - 1 /\ j - m \in 1 .. Len(b) /\ m + (j - m) = j
        BY <1>1
      <4> QED
        BY <1>3, <3>1, <4>1
    <3> QED
      BY <3>2, <3>3 DEF Inside, Lock, Unlock
  <2>2. ASSUME Inside(c, m + k)
        PROVE  Inside(b, k)
    <3>1. PICK i \in 1 .. (m + k) - 1 : /\ c[i] = Lock
                                        /\ \A j \in i + 1 .. (m + k) - 1 : c[j] # Unlock
      BY <2>2 DEF Inside, Lock, Unlock
    <3>2. CASE i > m
      <4>1. i - m \in 1 .. k - 1 /\ i - m \in 1 .. Len(b) /\ m + (i - m) = i
        BY <1>1, <3>2
      <4>2. b[i - m] = Lock
        BY <1>3, <3>1, <4>1
      <4>3. ASSUME NEW j \in (i - m) + 1 .. k - 1
            PROVE  b[j] # Unlock
        <5>1. j \in 1 .. Len(b) /\ m + j \in i + 1 .. (m + k) - 1
          BY <1>1, <4>1
        <5> QED
          BY <1>3, <3>1, <5>1
      <4> QED
        BY <4>1, <4>2, <4>3 DEF Inside, Lock, Unlock
    <3>3. CASE i <= m
      <4>1. i \in 1 .. (m + 1) - 1 /\ a[i] = Lock
        BY <1>1, <1>2, <3>1, <3>3
      <4>2. ASSUME NEW j \in i + 1 .. (m + 1) - 1
            PROVE  a[j] # Unlock
        <5>1. j \in 1 .. m /\ j \in i + 1 .. (m + k) - 1
          BY <1>1
        <5> QED
          BY <1>2, <3>1, <5>1
      <4>3. Inside(a, m + 1)
        BY <4>1, <4>2 DEF Inside, Lock, Unlock
      <4> QED
        BY <1>a, <4>3 DEF Bracketed, m
    <3> QED
      BY <1>1, <3>2, <3>3
  <2> QED
    BY <2>1, <2>2
<1>5. ASSUME NEW k \in 1 .. m
      PROVE  Inside(c, k) <=> Inside(a, k)
  <2>1. k \in Nat /\ \A i \in 1 .. k - 1 : c[i] = a[i]
    BY <1>1, <1>2
  <2> QED
    BY <2>1, InsidePrefix
<1>6. ASSUME NEW k \in 1 .. Len(c), c[k] = Unlock
      PROVE  Inside(c, k)
  <2>1. CASE k <= m
    <3>1. k \in 1 .. m /\ a[k] = Unlock
      BY <1>1, <1>2, <1>6, <2>1
    <3> QED
      BY <1>5, <1>a, <3>1 DEF Bracketed, m
  <2>2. CASE k > m
    <3>1. k - m \in 1 .. Len(b) /\ k - m \in 1 .. Len(b) + 1 /\ m + (k - m) = k
      BY <1>1, <2>2
    <3>2. b[k - m] = Unlock
      BY <1>3, <1>6, <3>1
    <3>3. Inside(b, k - m)
      BY <1>a, <3>1, <3>2 DEF Bracketed
    <3>4. Inside(c, m + (k - m))
      BY <1>4, <3>1, <3>3
    <3> QED
      BY <3>1, <3>4
  <2> QED
    BY <1>1, <2>1, <2>2
<1>7. ~Inside(c, Len(c) + 1)
  <2>1. Len(b) + 1 \in 1 .. Len(b) + 1 /\ Len(c) + 1 = m + (Len(b) + 1)
    BY <1>1
  <2> QED
    BY <1>4, <1>a, <2>1 DEF Bracketed
<1> QED
  BY <1>1, <1>6, <1>7 DEF Code, Bracketed, c

\* A single instruction that is not about the terminal.
LEMMA CodeOne ==
    ASSUME NEW back, NEW x \in Instr(back), x # Lock, x # Unlock
    PROVE  <<x>> \in Code(back)
<1>1. <<x>> \in Seq(Instr(back)) /\ Len(<<x>>) = 1 /\ <<x>>[1] = x
  OBVIOUS
<1>2. ~Inside(<<x>>, 1)
  BY DEF Inside
<1>3. ~Inside(<<x>>, 1 + 1)
  BY <1>1, <1>2, InsideNext
<1> QED
  BY <1>1, <1>3 DEF Code, Bracketed

\* term_mut is a semaphore of its own (p2test.c:83).
LEMMA OtherSems ==
    /\ term_mut \in USERSEM
    /\ {testsem, startp2, endp2, endp3, blkp4, synp4, endp4, endp5, endp8, endcreate, blkp8, s}
          \subseteq USERSEM \ {term_mut}
<1> DEFINE q == <<term_mut, testsem, startp2, endp2, endp3, blkp4, synp4, endp4,
                  endp5, endp8, endcreate, blkp8, s>>
<1>1. \A i \in 2 .. 13 : q[i] # q[1]
  <2>1. DOMAIN q = 1 .. 13 /\ 1 \in DOMAIN q /\ \A i \in 2 .. 13 : i \in DOMAIN q /\ i # 1
    OBVIOUS
  <2>2. IsInjective(q)
    BY SemsAssumption
  <2> HIDE DEF q
  <2> QED
    BY <2>1, <2>2 DEF IsInjective
<1>2. /\ q[1] = term_mut /\ q[2] = testsem /\ q[3] = startp2 /\ q[4] = endp2 /\ q[5] = endp3
      /\ q[6] = blkp4 /\ q[7] = synp4 /\ q[8] = endp4 /\ q[9] = endp5 /\ q[10] = endp8
      /\ q[11] = endcreate /\ q[12] = blkp8 /\ q[13] = s
  OBVIOUS
<1> HIDE DEF q
<1>3. /\ testsem # term_mut /\ startp2 # term_mut /\ endp2 # term_mut /\ endp3 # term_mut
      /\ blkp4 # term_mut /\ synp4 # term_mut /\ endp4 # term_mut /\ endp5 # term_mut
      /\ endp8 # term_mut /\ endcreate # term_mut /\ blkp8 # term_mut /\ s # term_mut
  BY <1>1, <1>2
<1> QED
  BY <1>3, SemsAssumption

\* The programs of the test, by name.
LEMMA TextIs ==
    /\ DOMAIN Text = {"p1", "p2", "p3", "p4", "p5", "p5a", "p5b_user", "p5b", "p5mm", "BUSERROR",
                      "ADDRERROR", "SYSCALLEXCPT", "p6", "p7", "p8root", "child1", "child2",
                      "p8leaf"}
    /\ Text["p1"] = test /\ Text["p2"] = p2 /\ Text["p3"] = p3 /\ Text["p4"] = p4
    /\ Text["p5"] = p5 /\ Text["p5a"] = p5a /\ Text["p5b_user"] = p5b_user
    /\ Text["p5b"] = p5b /\ Text["p5mm"] = p5mm
    /\ Text["BUSERROR"] = p5gen(<<"p5a", 1>>) /\ Text["ADDRERROR"] = p5gen(<<"p5b", 1>>)
    /\ Text["SYSCALLEXCPT"] = p5sys /\ Text["p6"] = p6 /\ Text["p7"] = p7
    /\ Text["p8root"] = p8root /\ Text["child1"] = child1 /\ Text["child2"] = child1
    /\ Text["p8leaf"] = p8leaf
BY DEF Text

\* print takes the terminal and gives it back (p2test.c:127, 135).
LEMMA CodePrint == \A back : print \in Code(back)
<1> SUFFICES ASSUME NEW back PROVE print \in Code(back)
  OBVIOUS
<1> DEFINE body == [i \in 1 .. 2 * Chars |-> Ins(IF i % 2 = 1 THEN "start" ELSE "SYS5", NULL)]
           n == 2 * Chars
           c == print
<1>0. n \in Nat /\ Lock # Unlock
  BY TestAssumption DEF Lock, Unlock, Ins
<1>1. /\ body \in Seq(Instr(back)) /\ Len(body) = n
      /\ \A i \in 1 .. n : body[i] # Unlock
  <2>1. \A i \in 1 .. n : body[i] \in Instr(back) /\ body[i] # Unlock
    BY DEF Instr, Ins, Unlock
  <2> QED
    BY <1>0, <2>1
<1> HIDE DEF body
<1>2. /\ <<Lock>> \in Seq(Instr(back)) /\ <<Unlock>> \in Seq(Instr(back))
      /\ Len(<<Lock>>) = 1 /\ Len(<<Unlock>>) = 1 /\ <<Lock>>[1] = Lock /\ <<Unlock>>[1] = Unlock
  <2>1. Lock \in Instr(back) /\ Unlock \in Instr(back)
    BY OtherSems DEF Lock, Unlock, Ins, Instr
  <2> QED
    BY <2>1
<1>3. c = (<<Lock>> \o body) \o <<Unlock>>
  BY DEF print, P, V, Lock, Unlock, body
<1>4. /\ c \in Seq(Instr(back)) /\ Len(c) = n + 2
      /\ c[1] = Lock /\ c[n + 2] = Unlock
      /\ \A i \in 2 .. n + 1 : c[i] = body[i - 1]
  <2> DEFINE d == <<Lock>> \o body
  <2>1. /\ d \in Seq(Instr(back)) /\ Len(d) = n + 1 /\ d[1] = Lock
        /\ \A i \in 2 .. n + 1 : d[i] = body[i - 1]
    BY <1>0, <1>1, <1>2
  <2> HIDE DEF d, n
  <2>2. c = d \o <<Unlock>>
    BY <1>3 DEF d
  <2>3. /\ c \in Seq(Instr(back)) /\ Len(c) = n + 2 /\ c[n + 2] = Unlock
        /\ \A i \in 1 .. n + 1 : c[i] = d[i]
    BY <1>0, <1>2, <2>1, <2>2
  <2> QED
    BY <1>0, <2>1, <2>3
<1> HIDE DEF c, n
<1>5. \A i \in 1 .. n + 1 : c[i] # Unlock
  <2> SUFFICES ASSUME NEW i \in 1 .. n + 1 PROVE c[i] # Unlock
    OBVIOUS
  <2>1. CASE i = 1
    BY <1>0, <1>4, <2>1
  <2>2. CASE i # 1
    <3>1. i \in 2 .. n + 1 /\ i - 1 \in 1 .. n
      BY <1>0, <2>2
    <3> QED
      BY <1>1, <1>4, <3>1
  <2> QED
    BY <2>1, <2>2
<1>6. Inside(c, n + 2)
  <2>1. 1 \in 1 .. (n + 2) - 1 /\ \A j \in 1 + 1 .. (n + 2) - 1 : j \in 1 .. n + 1
    BY <1>0
  <2> QED
    BY <1>4, <1>5, <2>1 DEF Inside, Lock, Unlock
<1>7. ~Inside(c, (n + 2) + 1)
  <2>1. n + 2 \in Nat /\ n + 2 > 0
    BY <1>0
  <2> QED
    BY <1>0, <1>4, <2>1, InsideNext
<1>8. ASSUME NEW k \in 1 .. n + 2, c[k] = Unlock
      PROVE  Inside(c, k)
  <2>1. k = n + 2
    BY <1>0, <1>5, <1>8
  <2> QED
    BY <1>6, <2>1
<1> QED
  BY <1>4, <1>7, <1>8 DEF Code, Bracketed, c

\* The other parts of the programs.
LEMMA CodeParts ==
    \A back :
        /\ \A sem \in USERSEM \ {term_mut} : P(sem) \in Code(back) /\ V(sem) \in Code(back)
        /\ \A prog \in DOMAIN Text : Create(prog) \in Code(back)
        /\ \A cause \in {"BUSERROR", "ADDRERROR", "TLB"} : Trap(cause) \in Code(back)
        /\ \A op \in {"SYS2", "SYS6", "SYS7", "SYS8", "SYS9", "setp1p2synch", "checkp1p2synch"} :
              Call(op) \in Code(back)
        /\ \A to \in {<<"p5a", 1>>, <<"p5b", 1>>, <<"p5b", 2>>, <<"p5b_user", 1>>} :
              <<Ins("LDST", to)>> \in Code(back)
        /\ <<Ins("loop", Len(p1_setup) + 1)>> \in Code(back)
        /\ \A line \in back : <<Ins("delayed", line)>> \in Code(back)
<1> SUFFICES ASSUME NEW back
             PROVE  /\ \A sem \in USERSEM \ {term_mut} : P(sem) \in Code(back) /\ V(sem) \in Code(back)
                    /\ \A prog \in DOMAIN Text : Create(prog) \in Code(back)
                    /\ \A cause \in {"BUSERROR", "ADDRERROR", "TLB"} : Trap(cause) \in Code(back)
                    /\ \A op \in {"SYS2", "SYS6", "SYS7", "SYS8", "SYS9", "setp1p2synch",
                                  "checkp1p2synch"} : Call(op) \in Code(back)
                    /\ \A to \in {<<"p5a", 1>>, <<"p5b", 1>>, <<"p5b", 2>>, <<"p5b_user", 1>>} :
                          <<Ins("LDST", to)>> \in Code(back)
                    /\ <<Ins("loop", Len(p1_setup) + 1)>> \in Code(back)
                    /\ \A line \in back : <<Ins("delayed", line)>> \in Code(back)
  OBVIOUS
<1>1. ASSUME NEW sem \in USERSEM \ {term_mut}
      PROVE  P(sem) \in Code(back) /\ V(sem) \in Code(back)
  <2>1. /\ Ins("P", sem) \in Instr(back) /\ Ins("P", sem) # Lock /\ Ins("P", sem) # Unlock
        /\ Ins("V", sem) \in Instr(back) /\ Ins("V", sem) # Lock /\ Ins("V", sem) # Unlock
    BY DEF Instr, Ins, Lock, Unlock
  <2> QED
    BY <2>1, CodeOne DEF P, V
<1>2. ASSUME NEW prog \in DOMAIN Text
      PROVE  Create(prog) \in Code(back)
  <2>1. Ins("create", prog) \in Instr(back) /\ Ins("create", prog) # Lock /\ Ins("create", prog) # Unlock
    BY DEF Instr, Ins, Lock, Unlock
  <2> QED
    BY <2>1, CodeOne DEF Create
<1>3. ASSUME NEW cause \in {"BUSERROR", "ADDRERROR", "TLB"}
      PROVE  Trap(cause) \in Code(back)
  <2>1. Ins("trap", cause) \in Instr(back) /\ Ins("trap", cause) # Lock /\ Ins("trap", cause) # Unlock
    BY DEF Instr, Ins, Lock, Unlock
  <2> QED
    BY <2>1, CodeOne DEF Trap
<1>4. ASSUME NEW op \in {"SYS2", "SYS6", "SYS7", "SYS8", "SYS9", "setp1p2synch", "checkp1p2synch"}
      PROVE  Call(op) \in Code(back)
  <2>1. Ins(op, NULL) \in Instr(back) /\ Ins(op, NULL) # Lock /\ Ins(op, NULL) # Unlock
    BY DEF Instr, Ins, Lock, Unlock
  <2> QED
    BY <2>1, CodeOne DEF Call
<1>5. ASSUME NEW to \in {<<"p5a", 1>>, <<"p5b", 1>>, <<"p5b", 2>>, <<"p5b_user", 1>>}
      PROVE  <<Ins("LDST", to)>> \in Code(back)
  <2>1. Ins("LDST", to) \in Instr(back) /\ Ins("LDST", to) # Lock /\ Ins("LDST", to) # Unlock
    BY DEF Instr, Ins, Lock, Unlock
  <2> QED
    BY <2>1, CodeOne
<1>6. <<Ins("loop", Len(p1_setup) + 1)>> \in Code(back)
  <2> DEFINE x == Ins("loop", Len(p1_setup) + 1)
  <2>1. x \in Instr(back) /\ x # Lock /\ x # Unlock
    BY DEF Instr, Ins, Lock, Unlock
  <2> QED
    BY <2>1, CodeOne
<1>7. ASSUME NEW line \in back
      PROVE  <<Ins("delayed", line)>> \in Code(back)
  <2>1. Ins("delayed", line) \in Instr(back) /\ Ins("delayed", line) # Lock /\ Ins("delayed", line) # Unlock
    BY DEF Instr, Ins, Lock, Unlock
  <2> QED
    BY <2>1, CodeOne
<1> QED
  BY <1>1, <1>2, <1>3, <1>4, <1>5, <1>6, <1>7

\* The programs are made of such parts.  Only p3 and p5b go back to a line of their
\* own, to wait for the clock again (p2test.c:368-373, 546-553).
LEMMA Programs ==
    /\ p1_setup \in Code({1})
    /\ \A prog \in DOMAIN Text : Text[prog] \in Code(IF prog = "p5b" THEN {3} ELSE {1})
<1> DEFINE C == Code({1})
<1>1. \A a, b \in C : a \o b \in C
  BY CodeConcat
<1>2. /\ \A sem \in USERSEM \ {term_mut} : P(sem) \in C /\ V(sem) \in C
      /\ \A prog \in DOMAIN Text : Create(prog) \in C
      /\ \A cause \in {"BUSERROR", "ADDRERROR", "TLB"} : Trap(cause) \in C
      /\ \A op \in {"SYS2", "SYS6", "SYS7", "SYS8", "SYS9", "setp1p2synch", "checkp1p2synch"} :
            Call(op) \in C
      /\ \A to \in {<<"p5a", 1>>, <<"p5b", 1>>, <<"p5b", 2>>, <<"p5b_user", 1>>} :
            <<Ins("LDST", to)>> \in C
      /\ <<Ins("loop", Len(p1_setup) + 1)>> \in C
      /\ <<Ins("delayed", 1)>> \in C
      /\ print \in C
  BY CodeParts, CodePrint
<1> HIDE DEF C
<1>3. /\ P(startp2) \in C /\ P(endp2) \in C /\ P(endp3) \in C /\ P(endp5) \in C /\ P(blkp4) \in C
      /\ P(s) \in C /\ P(synp4) \in C /\ P(endcreate) \in C /\ P(endp8) \in C /\ P(blkp8) \in C
      /\ V(testsem) \in C /\ V(startp2) \in C /\ V(s) \in C /\ V(endp2) \in C /\ V(endp3) \in C
      /\ V(synp4) \in C /\ V(endp4) \in C /\ V(endp8) \in C /\ V(endcreate) \in C
  BY <1>2, OtherSems
<1>4. /\ Create("p2") \in C /\ Create("p3") \in C /\ Create("p4") \in C /\ Create("p5") \in C
      /\ Create("p6") \in C /\ Create("p7") \in C /\ Create("p8root") \in C
      /\ Create("child1") \in C /\ Create("child2") \in C /\ Create("p8leaf") \in C
  BY <1>2, TextIs
<1>5. /\ Call("SYS2") \in C /\ Call("SYS6") \in C /\ Call("SYS7") \in C /\ Call("SYS8") \in C
      /\ Call("SYS9") \in C /\ Call("setp1p2synch") \in C /\ Call("checkp1p2synch") \in C
      /\ Trap("BUSERROR") \in C /\ Trap("ADDRERROR") \in C /\ Trap("TLB") \in C
  BY <1>2
<1>6. p1_setup \in C
  BY <1>1, <1>2, <1>3, <1>4, <1>5 DEF p1_setup
<1>7. test \in C
  BY <1>1, <1>2, <1>3, <1>4, <1>5, <1>6 DEF test
<1>8. p2 \in C
  BY <1>1, <1>2, <1>3, <1>5 DEF p2
<1>9. p3 \in C
  BY <1>1, <1>2, <1>3, <1>5 DEF p3
<1>10. p4 \in C
  BY <1>1, <1>2, <1>3, <1>4, <1>5 DEF p4
<1>11. p5 \in C /\ p5a \in C /\ p5b_user \in C /\ p6 \in C /\ p7 \in C
  BY <1>1, <1>2, <1>5 DEF p5, p5a, p5b_user, p6, p7
<1>12. p5mm \in C /\ p5sys \in C /\ p5gen(<<"p5a", 1>>) \in C /\ p5gen(<<"p5b", 1>>) \in C
  BY <1>1, <1>2, <1>5 DEF p5mm, p5sys, p5gen
<1>13. p8root \in C
  BY <1>1, <1>2, <1>3, <1>4, <1>5 DEF p8root
<1>14. child1 \in C /\ p8leaf \in C
  BY <1>1, <1>2, <1>3, <1>4 DEF child1, p8leaf
<1>15. p5b \in Code({3})
  <2> DEFINE D == Code({3})
  <2>1. \A a, b \in D : a \o b \in D
    BY CodeConcat
  <2>2. /\ P(endp4) \in D /\ V(blkp4) \in D /\ V(endp5) \in D
        /\ Call("SYS9") \in D /\ Call("SYS7") \in D /\ Call("SYS2") \in D
        /\ <<Ins("delayed", 3)>> \in D
    BY CodeParts, OtherSems
  <2> HIDE DEF D
  <2>3. p5b \in D
    BY <2>1, <2>2 DEF p5b
  <2> QED
    BY <2>3 DEF D
<1>16. ASSUME NEW prog \in DOMAIN Text, prog # "p5b"
       PROVE  Text[prog] \in C
  BY <1>7, <1>8, <1>9, <1>10, <1>11, <1>12, <1>13, <1>14, <1>16, TextIs
<1>17. Text["p5b"] \in Code({3})
  BY <1>15, TextIs
<1>18. ASSUME NEW prog \in DOMAIN Text
       PROVE  Text[prog] \in Code(IF prog = "p5b" THEN {3} ELSE {1})
  BY <1>16, <1>17 DEF C
<1> QED
  BY <1>6, <1>18 DEF C

\* The lines that are jumped to are in no print.
LEMMA Targets ==
    /\ \A code : ~Inside(code, 0) /\ ~Inside(code, 1)
    /\ ~Inside(Text["p5b"], 2) /\ ~Inside(Text["p5b"], 3)
    /\ ~Inside(Text["p1"], Len(p1_setup) + 1) /\ Len(p1_setup) \in Nat
<1>1. \A code : ~Inside(code, 0) /\ ~Inside(code, 1)
  BY DEF Inside
<1>2. p5b[1] # Lock /\ p5b[2] # Lock
  <2> DEFINE Begins(c) == /\ c \in Seq(Instr({3})) /\ Len(c) >= 2
                          /\ c[1] = Ins("SYS9", NULL) /\ c[2] = Ins("P", endp4)
             R == Seq(Instr({3}))
  <2>1. ASSUME NEW a, NEW b \in R, Begins(a)
        PROVE  Begins(a \o b)
    <3>1. /\ a \o b \in R /\ Len(a \o b) = Len(a) + Len(b) /\ Len(b) \in Nat /\ Len(a) \in Nat
          /\ \A i \in 1 .. Len(a) : (a \o b)[i] = a[i]
      BY <2>1
    <3>2. 1 \in 1 .. Len(a) /\ 2 \in 1 .. Len(a)
      BY <2>1, <3>1
    <3> QED
      BY <2>1, <3>1, <3>2
  <2>2. /\ P(endp4) \in R /\ V(blkp4) \in R /\ V(endp5) \in R
        /\ Call("SYS9") \in R /\ Call("SYS7") \in R /\ Call("SYS2") \in R
        /\ <<Ins("delayed", 3)>> \in R
    BY CodeParts, OtherSems DEF Code
  <2>3. Begins(Call("SYS9") \o P(endp4))
    <3>1. Call("SYS9") = <<Ins("SYS9", NULL)>> /\ P(endp4) = <<Ins("P", endp4)>>
      BY DEF Call, P
    <3>2. Call("SYS9") \o P(endp4) \in R
      BY <2>2
    <3> QED
      BY <3>1, <3>2
  <2> HIDE DEF Begins, R
  <2>4. Begins(p5b)
    BY <2>1, <2>2, <2>3 DEF p5b
  <2> QED
    BY <2>4, OtherSems DEF Begins, Lock, Ins
<1>3. ~Inside(p5b, 1 + 1) /\ ~Inside(p5b, 2 + 1)
  BY <1>1, <1>2, InsideNext
<1>4. ~Inside(test, Len(p1_setup) + 1) /\ Len(p1_setup) \in Nat
  <2> DEFINE S == Instr({1})
             a == p1_setup
             n == Len(a)
  <2>1. a \in Seq(S) /\ ~Inside(a, n + 1) /\ n \in Nat
    BY Programs DEF Code, Bracketed
  <2> DEFINE Begins(c) == c \in Seq(S) /\ Len(c) >= n /\ \A i \in 1 .. n : c[i] = a[i]
             R == Seq(S)
  <2>2. ASSUME NEW c, NEW b \in R, Begins(c)
        PROVE  Begins(c \o b)
    <3> HIDE DEF n, a, S
    <3>1. /\ c \o b \in Seq(S) /\ Len(c \o b) = Len(c) + Len(b) /\ Len(b) \in Nat /\ Len(c) \in Nat
          /\ \A i \in 1 .. Len(c) : (c \o b)[i] = c[i]
      BY <2>2
    <3>2. \A i \in 1 .. n : i \in 1 .. Len(c)
      BY <2>1, <2>2, <3>1
    <3> QED
      BY <2>1, <2>2, <3>1, <3>2
  <2>3. Begins(a)
    BY <2>1
  <2>4. /\ Create("p8root") \in R /\ P(endp8) \in R /\ <<Ins("loop", Len(p1_setup) + 1)>> \in R
        /\ print \in R /\ Trap("BUSERROR") \in R
    BY CodeParts, CodePrint, OtherSems, TextIs DEF Code
  <2> HIDE DEF Begins, R
  <2>5. Begins(test)
    BY <2>2, <2>3, <2>4 DEF test
  <2>6. \A i \in 1 .. (n + 1) - 1 : test[i] = a[i]
    BY <2>1, <2>5 DEF Begins
  <2> HIDE DEF n, a
  <2>7. ~Inside(test, n + 1)
    BY <2>1, <2>6, InsidePrefix
  <2> QED
    BY <2>1, <2>7 DEF n, a
<1> QED
  BY <1>1, <1>3, <1>4, TextIs

\* What is true of any line of any program.
LEMMA LineSound ==
    ASSUME NEW prog \in DOMAIN Text, NEW k \in DOMAIN Text[prog], NEW x, x = Text[prog][k]
    PROVE  /\ k \in Nat /\ k > 0 /\ x = Ins(x.op, x.arg)
           /\ x.op \in {"P", "V"} => x.arg \in USERSEM
           /\ x.op = "create" => x.arg \in DOMAIN Text
           /\ x.op = "trap" => Handler(x.arg) \in DOMAIN Text
           /\ x.op = "LDST" => /\ x.arg[1] \in DOMAIN Text /\ x.arg[2] \in Nat
                               /\ ~Inside(Text[x.arg[1]], x.arg[2])
           /\ x.op = "loop" => x.arg \in Nat /\ ~Inside(Text["p1"], x.arg)
           /\ x.op = "delayed" => x.arg \in Nat /\ ~Inside(Text[prog], x.arg)
           /\ x = Unlock => Inside(Text[prog], k)
<1> DEFINE back == IF prog = "p5b" THEN {3} ELSE {1}
<1>1. Text[prog] \in Seq(Instr(back)) /\ Bracketed(Text[prog])
  BY Programs DEF Code
<1>2. k \in 1 .. Len(Text[prog]) /\ Len(Text[prog]) \in Nat /\ x \in Instr(back)
  BY <1>1
<1>3. k \in Nat /\ k > 0 /\ (x = Unlock => Inside(Text[prog], k))
  BY <1>1, <1>2 DEF Bracketed
<1>4. x.op = "delayed" => x.arg \in Nat /\ ~Inside(Text[prog], x.arg)
  <2>1. x.op = "delayed" => x.arg \in back
    BY <1>2 DEF Instr
  <2>2. (back = {3} /\ prog = "p5b") \/ back = {1}
    OBVIOUS
  <2> HIDE DEF back
  <2> QED
    BY <2>1, <2>2, Targets
<1>5. x.op = "loop" => x.arg \in Nat /\ ~Inside(Text["p1"], x.arg)
  <2>1. x.op = "loop" => x.arg = Len(p1_setup) + 1
    BY <1>2 DEF Instr
  <2> QED
    BY <2>1, Targets
<1>6. x.op = "LDST" => /\ x.arg[1] \in DOMAIN Text /\ x.arg[2] \in Nat
                       /\ ~Inside(Text[x.arg[1]], x.arg[2])
  <2>1. x.op = "LDST" => x.arg \in {<<"p5a", 1>>, <<"p5b", 1>>, <<"p5b", 2>>, <<"p5b_user", 1>>}
    BY <1>2 DEF Instr
  <2>2. {"p5a", "p5b", "p5b_user"} \subseteq DOMAIN Text
    BY TextIs
  <2> QED
    BY <2>1, <2>2, Targets
<1>7. x.op = "trap" => Handler(x.arg) \in DOMAIN Text
  <2>1. x.op = "trap" => x.arg \in {"BUSERROR", "ADDRERROR", "TLB"}
    BY <1>2 DEF Instr
  <2>2. {"BUSERROR", "ADDRERROR", "p5mm"} \subseteq DOMAIN Text
    BY TextIs
  <2> QED
    BY <2>1, <2>2 DEF Handler
<1>8. /\ x.op \in {"P", "V"} => x.arg \in USERSEM
      /\ x.op = "create" => x.arg \in DOMAIN Text
      /\ x = Ins(x.op, x.arg)
  BY <1>2 DEF Instr, Ins
<1> QED
  BY <1>3, <1>4, <1>5, <1>6, <1>7, <1>8

-----------------------------------------------------------------------------
(* Where the processes are                                                 *)

PcSound == pc \in [PCB -> [prog : DOMAIN Text, line : Nat]]

\* The current process, when it executes an instruction.
LEMMA Current ==
    ASSUME Inv, PcSound, NEW op, Runs(op)
    PROVE  /\ Executing /\ currentProcess \in Live /\ currentProcess \in PCB
           /\ p_semAdd[currentProcess] = NULL
           /\ Here.prog \in DOMAIN Text /\ Here.line \in DOMAIN Text[Here.prog]
           /\ Text[Here.prog][Here.line] = Ins(op, Arg)
<1>1. Executing /\ currentProcess # NULL
  BY DEF Runs, Executing, Inv, ModeSound
<1>2. currentProcess \in Live /\ currentProcess \in PCB /\ p_semAdd[currentProcess] = NULL
  BY <1>1 DEF Inv, EveryProcessPlaced, CurrentSound, Live
<1>3. Here.prog \in DOMAIN Text
  BY <1>2 DEF PcSound, Here
<1>4. Here.line \in DOMAIN Text[Here.prog] /\ Text[Here.prog][Here.line].op = op
  BY DEF Runs
<1>5. Text[Here.prog][Here.line] = Ins(op, Arg)
  BY <1>3, <1>4, LineSound DEF Arg
<1> QED
  BY <1>1, <1>2, <1>3, <1>4, <1>5

\* Does p have the terminal, or wait for it, where it is after the step?
After(p) == Inside(Text[pc'[p].prog], pc'[p].line)

\* The instruction moves the current process, to where inside says.
Moved(inside) ==
    /\ PcSound'
    /\ \A p \in PCB : p # currentProcess => (After(p) <=> Holds(p))
    /\ After(currentProcess) <=> inside

\* A jump.
LEMMA GotoMoves ==
    ASSUME PcSound, currentProcess \in PCB, NEW prog \in DOMAIN Text, NEW line \in Nat,
           Goto(prog, line)
    PROVE  Moved(Inside(Text[prog], line))
<1>1. pc' = [pc EXCEPT ![currentProcess] = [prog |-> prog, line |-> line]]
  BY DEF Goto, At
<1> QED
  BY <1>1 DEF PcSound, Holds, After, Moved

\* The next instruction.
LEMMA AdvanceMoves ==
    ASSUME Inv, PcSound, NEW op, Runs(op), Advance
    PROVE  Moved(\/ op = "P" /\ Arg = term_mut
                 \/ Holds(currentProcess) /\ ~(op = "V" /\ Arg = term_mut))
<1> DEFINE prog == Here.prog
           k == Here.line
           x == Text[prog][k]
<1>1. /\ currentProcess \in PCB /\ prog \in DOMAIN Text /\ k \in DOMAIN Text[prog]
      /\ x = Ins(op, Arg)
  BY Current
<1>2. k \in Nat /\ k > 0
  BY <1>1, LineSound
<1>3. Goto(prog, k + 1) /\ (Holds(currentProcess) <=> Inside(Text[prog], k))
  BY DEF Advance, Holds, Here
<1>4. /\ x = Lock <=> op = "P" /\ Arg = term_mut
      /\ x = Unlock <=> op = "V" /\ Arg = term_mut
  BY <1>1 DEF Lock, Unlock, Ins
<1> HIDE DEF prog, k, x
<1>5. Moved(Inside(Text[prog], k + 1))
  BY <1>1, <1>2, <1>3, GotoMoves
<1>6. Inside(Text[prog], k + 1) <=> \/ op = "P" /\ Arg = term_mut
                                    \/ Holds(currentProcess) /\ ~(op = "V" /\ Arg = term_mut)
  BY <1>2, <1>3, <1>4, InsideNext DEF x
<1> QED
  BY <1>5, <1>6 DEF Moved

\* The instruction takes the terminal for nobody, and only its own process may
\* have left a print.
Idles ==
    /\ PcSound'
    /\ \A p \in PCB : After(p) => Holds(p)
    /\ \A p \in PCB : p # currentProcess /\ Holds(p) => After(p)

\* Nobody but P(term_mut) and V(term_mut) is about the terminal.
LEMMA AdvanceIdles ==
    ASSUME Inv, PcSound, NEW op, Runs(op), Advance, op \notin {"P", "V"} \/ Arg # term_mut
    PROVE  Idles
<1>1. Moved(Holds(currentProcess))
  <2>1. Holds(currentProcess) <=> \/ op = "P" /\ Arg = term_mut
                                  \/ Holds(currentProcess) /\ ~(op = "V" /\ Arg = term_mut)
    OBVIOUS
  <2> QED
    BY <2>1, AdvanceMoves DEF Moved
<1> QED
  BY <1>1 DEF Idles, Moved

\* A jump leads out of every print.
LEMMA JumpIdles ==
    ASSUME PcSound, currentProcess \in PCB, NEW prog \in DOMAIN Text, NEW line \in Nat,
           Goto(prog, line), ~Inside(Text[prog], line)
    PROVE  Idles
<1>1. Moved(FALSE)
  BY GotoMoves DEF Moved
<1> QED
  BY <1>1 DEF Idles, Moved

\* Nobody moves.
LEMMA NobodyMoved ==
    ASSUME PcSound, UNCHANGED pc
    PROVE  Idles
BY DEF PcSound, Idles, After, Holds

-----------------------------------------------------------------------------
(* Every step of the test is a step of the nucleus                         *)

\* The nucleus does not see which process makes a call, or why: the steps of the
\* test are among those of Nucleus.
LEMMA TestStep ==
    ASSUME Inv, PcSound, [TestNext]_allVars
    PROVE  [Next]_vars
<1>1. CASE Execute
  <2> DEFINE instruction == \/ SYS1 \/ SYS2 \/ SYS3 \/ SYS4 \/ SYS5 \/ SYS6 \/ SYS7 \/ SYS8
                            \/ SYS9 \/ ProgramTrap \/ StartTransmitter \/ LDST
                            \/ setSynch \/ checkSynch \/ loop
  <2>0. instruction
    BY <1>1 DEF Execute, Instruction
  <2>a. ASSUME NEW op, Runs(op), Trapped
        PROVE  Executing /\ saveState /\ UNCHANGED hardware
    BY <2>a DEF Runs, Trapped
  <2>1. CASE SYS1
    <3>1. createProcess(Supported) /\ Supported \in BOOLEAN
      BY <2>1 DEF SYS1, Supported
    <3>2. \E support \in BOOLEAN : createProcess(support)
      BY <3>1
    <3> QED
      BY <2>1, <2>a, <3>2 DEF SYS1, Next, systemTrapHandler
  <2>2. CASE SYS2 \/ SYS6 \/ SYS7 \/ SYS8 \/ SYS9
    <3>1. \/ terminateCurrent \/ getCPUTime \/ waitForClock \/ getSupportData \/ passUpOrDie
      BY <2>2 DEF SYS2, SYS6, SYS7, SYS8, SYS9
    <3>2. Executing /\ saveState /\ UNCHANGED hardware
      BY <2>2, <2>a DEF SYS2, SYS6, SYS7, SYS8, SYS9
    <3> QED
      BY <3>1, <3>2 DEF Next, systemTrapHandler
  <2>3. CASE SYS3 \/ SYS4
    <3>1. \/ Runs("P") /\ Trapped /\ passeren(Arg)
          \/ Runs("V") /\ Trapped /\ verhogen(Arg)
      BY <2>3 DEF SYS3, SYS4
    <3>2. ASSUME NEW op \in {"P", "V"}, Runs(op)
          PROVE  Arg \in USERSEM
      <4>1. /\ Here.prog \in DOMAIN Text /\ Here.line \in DOMAIN Text[Here.prog]
            /\ Text[Here.prog][Here.line] = Ins(op, Arg)
        BY <3>2, Current
      <4>2. Ins(op, Arg).op = op /\ Ins(op, Arg).arg = Arg
        BY DEF Ins
      <4> QED
        BY <4>1, <4>2, LineSound
    <3>3. Arg \in USERSEM
      BY <3>1, <3>2
    <3>4. \/ \E sem \in USERSEM : passeren(sem)
          \/ \E sem \in USERSEM : verhogen(sem)
      BY <3>1, <3>3
    <3> QED
      BY <2>a, <3>1, <3>4 DEF Next, systemTrapHandler
  <2>4. CASE SYS5
    <3>1. \E d \in DEVICE : waitForIO(d)
      BY <2>4, TestAssumption DEF SYS5
    <3> QED
      BY <2>4, <2>a, <3>1 DEF SYS5, Next, systemTrapHandler
  <2>5. CASE ProgramTrap
    BY <2>5 DEF ProgramTrap, Runs, Next, programTrapHandler
  <2>6. CASE StartTransmitter
    BY <2>6, TestAssumption DEF StartTransmitter, Next
  <2>7. CASE LDST \/ setSynch \/ checkSynch \/ loop
    BY <2>7 DEF LDST, setSynch, checkSynch, loop
  <2> QED
    BY <2>0, <2>1, <2>2, <2>3, <2>4, <2>5, <2>6, <2>7
<1>2. CASE Decide
  BY <1>2 DEF Decide, Instruction, TooShort, LongEnough
<1>3. CASE \/ Terminate \/ SliceEnds \/ Preempt \/ ClockTick \/ Transmitted \/ IntervalEnds
           \/ Halted
  BY <1>3 DEF Terminate, SliceEnds, Preempt, ClockTick, Transmitted, IntervalEnds, Halted, Next
<1>4. CASE Completes
  BY <1>4, TestAssumption DEF Completes, Next
<1>5. CASE UNCHANGED allVars
  BY <1>5 DEF allVars
<1> QED
  BY <1>1, <1>2, <1>3, <1>4, <1>5 DEF TestNext

-----------------------------------------------------------------------------
(* Mutual exclusion on the terminal                                        *)

\* The inductive invariant: at most one process has the terminal, and none while
\* term_mut is free; and whoever waits for it is about to print.
Exclusive ==
    /\ OnePrints
    /\ userSem[term_mut] <= 1
    /\ \A p \in Live : p_semAdd[p] = term_mut => Holds(p)

\* term_mut is a semaphore in memory, neither NULL nor one of the nucleus's own.
LEMMA TermMut ==
    /\ term_mut \in USERSEM /\ term_mut \in Semaphore
    /\ term_mut # NULL /\ term_mut \notin DeviceSem
    /\ Typed => userSem[term_mut] \in Int
    /\ Typed' => userSem'[term_mut] \in Int
BY OtherSems, Addresses DEF Typed

\* A step that gives the terminal to nobody.
LEMMA CalmStep ==
    ASSUME Exclusive, Typed, Typed',
           userSem'[term_mut] <= userSem[term_mut] \/ userSem'[term_mut] <= 0,
           \A p \in PCB \ pcbFree' :
              \/ /\ p \in Live /\ (p_semAdd'[p] = term_mut <=> p_semAdd[p] = term_mut)
                 /\ After(p) => Holds(p)
                 /\ p_semAdd[p] = term_mut => After(p)
              \/ ~After(p) /\ p_semAdd'[p] # term_mut
    PROVE  Exclusive'
<1>1. userSem[term_mut] \in Int /\ userSem'[term_mut] \in Int
  BY TermMut
<1>2. \A p : p \in Live' <=> p \in PCB \ pcbFree'
  BY DEF Live
<1>3. \A p : Holds(p)' <=> After(p)
  BY DEF Holds, After
<1>4. Owners' \subseteq Owners
  BY <1>2, <1>3 DEF Owners
<1>5. userSem'[term_mut] <= 1 /\ (userSem'[term_mut] > 0 => userSem[term_mut] > 0)
  BY <1>1 DEF Exclusive
<1>6. OnePrints'
  BY <1>4, <1>5 DEF OnePrints, Exclusive
<1>7. \A p \in Live' : p_semAdd'[p] = term_mut => Holds(p)'
  BY <1>2, <1>3
<1> QED
  BY <1>5, <1>6, <1>7 DEF Exclusive

\* The nucleus neither wakes nor blocks anybody at term_mut, and leaves it alone.
Aside ==
    /\ pcbFree \subseteq pcbFree'
    /\ userSem'[term_mut] = userSem[term_mut]
    /\ \A p \in PCB : p_semAdd'[p] = term_mut <=> p_semAdd[p] = term_mut

\* An instruction or interrupt that has nothing to do with the terminal.
LEMMA AsideStep ==
    ASSUME Inv, Typed', Exclusive, Idles, Aside, currentProcess \in PCB => p_semAdd[currentProcess] # term_mut
    PROVE  Exclusive'
<1>1. Typed /\ Live = PCB \ pcbFree /\ userSem[term_mut] \in Int
  BY TermMut DEF Inv, Live
<1>2. \A p \in PCB \ pcbFree' :
         /\ p \in Live /\ (p_semAdd'[p] = term_mut <=> p_semAdd[p] = term_mut)
         /\ After(p) => Holds(p)
         /\ p_semAdd[p] = term_mut => After(p)
  <2> SUFFICES ASSUME NEW p \in PCB \ pcbFree'
               PROVE  /\ p \in Live /\ (p_semAdd'[p] = term_mut <=> p_semAdd[p] = term_mut)
                      /\ After(p) => Holds(p)
                      /\ p_semAdd[p] = term_mut => After(p)
    OBVIOUS
  <2>1. p \in Live /\ (p_semAdd'[p] = term_mut <=> p_semAdd[p] = term_mut)
    BY <1>1 DEF Aside
  <2>2. After(p) => Holds(p)
    BY DEF Idles
  <2>3. p_semAdd[p] = term_mut => p # currentProcess /\ Holds(p)
    BY <2>1 DEF Exclusive
  <2> QED
    BY <2>1, <2>2, <2>3 DEF Idles
<1>3. userSem'[term_mut] <= userSem[term_mut]
  BY <1>1 DEF Aside
<1> QED
  BY <1>1, <1>2, <1>3, CalmStep

\* The current process blocks on another semaphore.
LEMMA BlockAside ==
    ASSUME Inv, NEW sem, sem # term_mut, blockCurrentProcessHelper(sem), UNCHANGED pcbFree,
           userSem'[term_mut] = userSem[term_mut],
           currentProcess \in PCB, p_semAdd[currentProcess] # term_mut
    PROVE  Aside
<1>1. p_semAdd' = [p_semAdd EXCEPT ![currentProcess] = sem] /\ p_semAdd \in [PCB -> Semaphore \cup {NULL}]
  BY DEF blockCurrentProcessHelper, insertBlocked, Inv, Typed
<1> QED
  BY <1>1 DEF Aside

\* Processes that do not wait for term_mut are unblocked.
LEMMA UnblockAside ==
    ASSUME Inv, NEW ps, unblock(ps), UNCHANGED pcbFree, userSem'[term_mut] = userSem[term_mut],
           \A p \in ps : p_semAdd[p] # term_mut
    PROVE  Aside
<1>1. p_semAdd' = [p \in PCB |-> IF p \in ps THEN NULL ELSE p_semAdd[p]]
  BY DEF unblock
<1> QED
  BY <1>1, TermMut DEF Aside

\* Who is in the queue of a semaphore waits for it.
LEMMA WaitsFor ==
    ASSUME Inv, NEW sem \in Semaphore
    PROVE  /\ \A p \in ToSet(asl[sem]) : p_semAdd[p] = sem
           /\ asl[sem] # <<>> => Head(asl[sem]) \in PCB /\ p_semAdd[Head(asl[sem])] = sem
<1>1. asl[sem] \in Seq(PCB) /\ ToSet(asl[sem]) = {p \in Live : p_semAdd[p] = sem}
  BY DEF Inv, Typed, EveryProcessPlaced, AslSound
<1>2. asl[sem] # <<>> => Head(asl[sem]) \in PCB /\ Head(asl[sem]) \in ToSet(asl[sem])
  BY <1>1, TailQueue
<1> QED
  BY <1>1, <1>2

\* A process returns from a call that is not about semaphores.
LEMMA NothingAside ==
    ASSUME UNCHANGED <<pcbFree, p_semAdd, userSem>>
    PROVE  Aside
BY DEF Aside

\* A new process begins before its first print (SYS1).
LEMMA CreateExclusive ==
    ASSUME Inv, Typed', PcSound, Exclusive, SYS1
    PROVE  PcSound' /\ Exclusive'
<1> DEFINE cur == currentProcess
<1>1. /\ cur \in Live /\ cur \in PCB /\ p_semAdd[cur] = NULL
      /\ Here.prog \in DOMAIN Text /\ Here.line \in DOMAIN Text[Here.prog]
      /\ Text[Here.prog][Here.line] = Ins("create", Arg)
  BY Current DEF SYS1
<1>2. Arg \in DOMAIN Text
  <2>1. Ins("create", Arg).op = "create" /\ Ins("create", Arg).arg = Arg
    BY DEF Ins
  <2> QED
    BY <1>1, <2>1, LineSound
<1>3. Typed /\ createProcess(Supported) /\ UNCHANGED userSem
  BY DEF Inv, SYS1, createProcess, sems
<1>4. CASE pcbFree # {}
  <2>1. PICK p \in pcbFree : /\ pcbFree' = pcbFree \ {p}
                             /\ p_semAdd' = [p_semAdd EXCEPT ![p] = NULL]
    BY <1>3, <1>4 DEF createProcess
  <2>2. /\ pcbFree' = pcbFree \ {Min(pcbFree)}
        /\ pc' = [pc EXCEPT ![cur].line = @ + 1, ![Min(pcbFree)] = At(Arg, 1)]
    BY <1>4 DEF SYS1
  <2>3. Min(pcbFree) = p
    BY <2>1, <2>2
  <2>4. p \in PCB /\ p # cur /\ p_semAdd \in [PCB -> Semaphore \cup {NULL}]
    BY <1>1, <2>1 DEF Inv, Typed, Live
  <2>5. pc' = [pc EXCEPT ![cur].line = @ + 1, ![p] = [prog |-> Arg, line |-> 1]]
    BY <2>2, <2>3 DEF At
  <2>6. /\ PcSound' /\ pc'[p] = [prog |-> Arg, line |-> 1]
        /\ pc'[cur] = [prog |-> Here.prog, line |-> Here.line + 1]
        /\ \A q \in PCB : q # p /\ q # cur => pc'[q] = pc[q]
    BY <1>1, <1>2, <2>4, <2>5 DEF PcSound, Here
  <2>7. ~After(p) /\ p_semAdd'[p] # term_mut
    BY <2>1, <2>4, <2>6, Targets, TermMut DEF After
  <2>8. After(cur) <=> Holds(cur)
    <3>1. Here.line \in Nat /\ Here.line > 0
      BY <1>1, LineSound
    <3>2. Text[Here.prog][Here.line] # Lock /\ Text[Here.prog][Here.line] # Unlock
      BY <1>1 DEF Lock, Unlock, Ins
    <3>3. Inside(Text[Here.prog], Here.line + 1) <=> Inside(Text[Here.prog], Here.line)
      BY <3>1, <3>2, InsideNext
    <3> QED
      BY <2>6, <3>3 DEF After, Holds, Here
  <2>9. \A q \in PCB : q # p => (After(q) <=> Holds(q))
    BY <2>6, <2>8 DEF After, Holds
  <2>10. \A q \in PCB \ pcbFree' : q # p => q \in Live /\ p_semAdd'[q] = p_semAdd[q]
    BY <2>1, <2>4 DEF Live
  <2>11. userSem'[term_mut] <= userSem[term_mut]
    BY <1>3, TermMut
  <2>12. \A q \in PCB \ pcbFree' :
            \/ /\ q \in Live /\ (p_semAdd'[q] = term_mut <=> p_semAdd[q] = term_mut)
               /\ After(q) => Holds(q)
               /\ p_semAdd[q] = term_mut => After(q)
            \/ ~After(q) /\ p_semAdd'[q] # term_mut
    BY <2>7, <2>9, <2>10 DEF Exclusive
  <2> QED
    BY <1>3, <2>6, <2>11, <2>12, CalmStep
<1>5. CASE pcbFree = {}
  <2>1. UNCHANGED <<pcbFree, p_semAdd, userSem>>
    BY <1>3, <1>5 DEF createProcess
  <2>2. Goto("p1", 0) \/ Advance
    BY <1>5 DEF SYS1
  <2>3. Runs("create")
    BY DEF SYS1
  <2>4. CASE Goto("p1", 0)
    <3>1. "p1" \in DOMAIN Text /\ ~Inside(Text["p1"], 0)
      BY TextIs, Targets
    <3>2. Idles
      BY <1>1, <2>4, <3>1, JumpIdles
    <3> QED
      BY <1>1, <2>1, <3>2, AsideStep, NothingAside, TermMut DEF Idles
  <2>5. CASE Advance
    <3>1. Idles
      BY <2>3, <2>5, AdvanceIdles
    <3> QED
      BY <1>1, <2>1, <3>1, AsideStep, NothingAside, TermMut DEF Idles
  <2> QED
    BY <2>2, <2>4, <2>5
<1> QED
  BY <1>4, <1>5

\* P: who finds term_mut free has the terminal, the others wait (SYS3).
LEMMA PExclusive ==
    ASSUME Inv, CountInv, Typed', PcSound, Exclusive, SYS3
    PROVE  PcSound' /\ Exclusive'
<1> DEFINE cur == currentProcess
           tm == term_mut
<1>1. Runs("P") /\ passeren(Arg) /\ Advance
  BY DEF SYS3
<1>2. cur \in Live /\ cur \in PCB /\ p_semAdd[cur] = NULL
  BY <1>1, Current
<1>3. /\ userSem' = [userSem EXCEPT ![Arg] = @ - 1] /\ UNCHANGED pcbFree
      /\ \/ userSem'[Arg] < 0 /\ blockCurrentProcessHelper(Arg)
         \/ userSem'[Arg] >= 0 /\ UNCHANGED p_semAdd
  <2>1. mustBlock(userSem'[Arg]) <=> userSem'[Arg] < 0
    BY DEF mustBlock
  <2>2. userSem'[Arg] \in Int
    <3>1. Arg \in USERSEM
      <4>1. /\ Here.prog \in DOMAIN Text /\ Here.line \in DOMAIN Text[Here.prog]
            /\ Text[Here.prog][Here.line] = Ins("P", Arg)
        BY <1>1, Current
      <4>2. Ins("P", Arg).op = "P" /\ Ins("P", Arg).arg = Arg
        BY DEF Ins
      <4> QED
        BY <4>1, <4>2, LineSound
    <3> QED
      BY <3>1 DEF Typed
  <2> QED
    BY <1>1, <2>1, <2>2 DEF passeren, blocking
<1>4. userSem \in [USERSEM -> Int] /\ tm \in USERSEM /\ tm # NULL
  BY TermMut DEF Inv, Typed
<1>5. CASE Arg # tm
  <2>1. userSem'[tm] = userSem[tm]
    BY <1>3, <1>4, <1>5
  <2>2. Aside
    <3>1. CASE blockCurrentProcessHelper(Arg)
      BY <1>2, <1>3, <1>4, <1>5, <2>1, <3>1, BlockAside
    <3>2. CASE UNCHANGED p_semAdd
      BY <1>3, <2>1, <3>2 DEF Aside
    <3> QED
      BY <1>3, <3>1, <3>2
  <2>3. Idles
    BY <1>1, <1>5, AdvanceIdles
  <2> QED
    BY <1>2, <1>4, <2>2, <2>3, AsideStep DEF Idles
<1>6. CASE Arg = tm
  <2>1. PcSound' /\ After(cur) /\ \A p \in PCB : p # cur => (After(p) <=> Holds(p))
    BY <1>1, <1>6, AdvanceMoves DEF Moved
  <2>2. userSem'[tm] = userSem[tm] - 1 /\ userSem[tm] \in Int /\ userSem[tm] <= 1
    BY <1>3, <1>4, <1>6 DEF Exclusive
  <2>3. \A p : /\ p \in Live' <=> p \in Live
               /\ p \in Live => p \in PCB
               /\ Holds(p)' <=> After(p)
    BY <1>3 DEF Live, Holds, After
  <2>4. CASE userSem'[tm] < 0
    <3>1. p_semAdd' = [p_semAdd EXCEPT ![cur] = tm] /\ p_semAdd \in [PCB -> Semaphore \cup {NULL}]
      BY <1>3, <1>6, <2>4 DEF blockCurrentProcessHelper, insertBlocked, Inv, Typed
    <3>2. p_semAdd'[cur] = tm /\ \A p \in PCB : p # cur => p_semAdd'[p] = p_semAdd[p]
      BY <1>2, <3>1
    <3>3. Owners' \subseteq Owners
      BY <2>1, <2>3, <3>2 DEF Owners
    <3>4. \A p \in Live' : p_semAdd'[p] = tm => Holds(p)'
      BY <2>1, <2>3, <3>2 DEF Exclusive
    <3>5. OnePrints' /\ userSem'[tm] <= 1
      BY <2>2, <2>4, <3>3 DEF Exclusive, OnePrints
    <3> QED
      BY <2>1, <3>4, <3>5 DEF Exclusive
  <2>5. CASE userSem'[tm] >= 0
    <3>1. p_semAdd' = p_semAdd /\ userSem[tm] > 0 /\ userSem'[tm] = 0
      BY <1>3, <1>6, <2>2, <2>5
    <3>2. Owners = {}
      BY <3>1 DEF Exclusive, OnePrints
    <3>3. Owners' \subseteq {cur}
      BY <2>1, <2>3, <3>1, <3>2 DEF Owners
    <3>4. \A p \in Live' : p_semAdd'[p] = tm => Holds(p)'
      BY <2>1, <2>3, <3>1 DEF Exclusive
    <3>5. OnePrints' /\ userSem'[tm] <= 1
      BY <3>1, <3>3 DEF OnePrints
    <3> QED
      BY <2>1, <3>4, <3>5 DEF Exclusive
  <2> QED
    BY <2>2, <2>4, <2>5
<1> QED
  BY <1>5, <1>6

\* V: the terminal goes to the first who waits for it, or is free (SYS4).
LEMMA VExclusive ==
    ASSUME Inv, Typed', PcSound, Exclusive, SYS4
    PROVE  PcSound' /\ Exclusive'
<1> DEFINE cur == currentProcess
           tm == term_mut
<1>1. Runs("V") /\ verhogen(Arg) /\ Advance
  BY DEF SYS4
<1>2. /\ cur \in Live /\ cur \in PCB /\ p_semAdd[cur] = NULL
      /\ Here.prog \in DOMAIN Text /\ Here.line \in DOMAIN Text[Here.prog]
      /\ Text[Here.prog][Here.line] = Ins("V", Arg)
  BY <1>1, Current
<1>3. Arg \in USERSEM /\ Arg \in Semaphore
  <2>1. Ins("V", Arg).op = "V" /\ Ins("V", Arg).arg = Arg
    BY DEF Ins
  <2> QED
    BY <1>2, <2>1, LineSound, Addresses
<1>4. /\ userSem' = [userSem EXCEPT ![Arg] = @ + 1] /\ UNCHANGED pcbFree
      /\ \/ userSem'[Arg] <= 0 /\ asl[Arg] # <<>> /\ unblock({Head(asl[Arg])})
         \/ UNCHANGED p_semAdd
  BY <1>1 DEF verhogen, removeBlocked, blocking
<1>5. userSem \in [USERSEM -> Int] /\ tm \in USERSEM /\ tm # NULL
  BY TermMut DEF Inv, Typed
<1>6. CASE Arg # tm
  <2>1. userSem'[tm] = userSem[tm]
    BY <1>4, <1>5, <1>6
  <2>2. Aside
    <3>1. CASE asl[Arg] # <<>> /\ unblock({Head(asl[Arg])})
      BY <1>3, <1>4, <1>6, <2>1, <3>1, WaitsFor, UnblockAside
    <3>2. CASE UNCHANGED p_semAdd
      BY <1>4, <2>1, <3>2 DEF Aside
    <3> QED
      BY <1>4, <3>1, <3>2
  <2>3. Idles
    BY <1>1, <1>6, AdvanceIdles
  <2> QED
    BY <1>2, <1>5, <2>2, <2>3, AsideStep DEF Idles
<1>7. CASE Arg = tm
  <2>1. PcSound' /\ ~After(cur) /\ \A p \in PCB : p # cur => (After(p) <=> Holds(p))
    BY <1>1, <1>7, AdvanceMoves DEF Moved
  <2>2. cur \in Owners
    <3>1. Inside(Text[Here.prog], Here.line)
      BY <1>2, <1>7, LineSound DEF Unlock
    <3> QED
      BY <1>2, <1>5, <3>1 DEF Owners, Holds, Here
  <2>3. /\ userSem[tm] \in Int /\ userSem[tm] <= 0 /\ userSem'[tm] = userSem[tm] + 1
        /\ \A p \in Owners : p = cur
    BY <1>4, <1>5, <1>7, <2>2 DEF Exclusive, OnePrints
  <2>4. \A p : /\ p \in Live' <=> p \in Live
               /\ p \in Live => p \in PCB
               /\ Holds(p)' <=> After(p)
    BY <1>4 DEF Live, Holds, After
  <2>5. CASE userSem'[tm] <= 0 /\ asl[tm] # <<>> /\ unblock({Head(asl[tm])})
    <3> DEFINE h == Head(asl[tm])
    <3>1. h \in PCB /\ p_semAdd[h] = tm
      BY <1>3, <1>7, <2>5, WaitsFor
    <3>2. p_semAdd'[h] = NULL /\ \A p \in PCB : p # h => p_semAdd'[p] = p_semAdd[p]
      BY <2>5, <3>1 DEF unblock
    <3> HIDE DEF h
    <3>3. Owners' \subseteq {h}
      <4>1. ASSUME NEW p \in Owners', p # h
            PROVE  FALSE
        <5>1. p \in Live /\ p \in PCB /\ p_semAdd[p] # tm /\ After(p)
          BY <2>4, <3>2, <4>1 DEF Owners
        <5>2. p # cur /\ Holds(p)
          BY <2>1, <5>1
        <5> QED
          BY <2>3, <5>1, <5>2 DEF Owners
      <4> QED
        BY <4>1
    <3>4. \A p \in Live' : p_semAdd'[p] = tm => Holds(p)'
      <4> SUFFICES ASSUME NEW p \in Live, p_semAdd'[p] = tm
                   PROVE  After(p)
        BY <2>4
      <4>1. p \in PCB /\ p # h /\ p_semAdd[p] = tm /\ p # cur
        BY <1>2, <1>5, <2>4, <3>2
      <4> QED
        BY <2>1, <4>1 DEF Exclusive
    <3>5. OnePrints' /\ userSem'[tm] <= 1
      BY <2>3, <2>5, <3>3 DEF OnePrints
    <3> QED
      BY <2>1, <3>4, <3>5 DEF Exclusive
  <2>6. CASE UNCHANGED p_semAdd
    <3>1. Owners' = {}
      <4>1. ASSUME NEW p \in Owners'
            PROVE  FALSE
        <5>1. p \in Live /\ p \in PCB /\ p_semAdd[p] # tm /\ After(p)
          BY <2>4, <2>6, <4>1 DEF Owners
        <5>2. p # cur /\ Holds(p)
          BY <2>1, <5>1
        <5> QED
          BY <2>3, <5>1, <5>2 DEF Owners
      <4> QED
        BY <4>1
    <3>2. \A p \in Live' : p_semAdd'[p] = tm => Holds(p)'
      BY <1>2, <1>5, <2>1, <2>4, <2>6 DEF Exclusive
    <3>3. OnePrints' /\ userSem'[tm] <= 1
      BY <2>3, <3>1 DEF OnePrints
    <3> QED
      BY <2>1, <3>2, <3>3 DEF Exclusive
  <2> QED
    BY <1>4, <1>7, <2>5, <2>6
<1> QED
  BY <1>6, <1>7

\* Every other instruction leaves the terminal alone, or its process dies or goes
\* on in a handler.
LEMMA OtherExclusive ==
    ASSUME Inv, Typed', PcSound, Exclusive,
           \/ SYS2 \/ SYS5 \/ SYS6 \/ SYS7 \/ SYS8 \/ SYS9 \/ ProgramTrap \/ StartTransmitter
           \/ LDST \/ setSynch \/ checkSynch \/ loop \/ TooShort \/ LongEnough
    PROVE  PcSound' /\ Exclusive'
<1> DEFINE cur == currentProcess
<1>0. ASSUME NEW op, Runs(op)
      PROVE  /\ cur \in PCB /\ p_semAdd[cur] = NULL /\ term_mut # NULL
             /\ Here.prog \in DOMAIN Text /\ Here.line \in DOMAIN Text[Here.prog]
             /\ Text[Here.prog][Here.line] = Ins(op, Arg)
             /\ Text[Here.prog][Here.line].op = op /\ Text[Here.prog][Here.line].arg = Arg
  <2>1. Ins(op, Arg).op = op /\ Ins(op, Arg).arg = Arg
    BY DEF Ins
  <2> QED
    BY <1>0, <2>1, Current, TermMut
<1>1. ASSUME NEW op, Runs(op), Idles, Aside
      PROVE  PcSound' /\ Exclusive'
  BY <1>0, <1>1, AsideStep DEF Idles
<1>2. ASSUME NEW op, Runs(op), Advance, op \notin {"P", "V"}, Aside
      PROVE  PcSound' /\ Exclusive'
  BY <1>1, <1>2, AdvanceIdles
<1>3. ASSUME NEW op, Runs(op), NEW prog \in DOMAIN Text, NEW line \in Nat, Goto(prog, line),
             ~Inside(Text[prog], line), Aside
      PROVE  PcSound' /\ Exclusive'
  BY <1>0, <1>1, <1>3, JumpIdles
<1>4. CASE SYS2
  <2>1. Aside
    BY <1>4, NothingAside DEF SYS2, terminateCurrent, blocking, sems
  <2> QED
    BY <1>1, <1>4, <2>1, NobodyMoved DEF SYS2
<1>5. CASE SYS5 \/ SYS7
  <2>1. PICK o \in {"SYS5", "SYS7"} : Runs(o) /\ Advance
    BY <1>5 DEF SYS5, SYS7
  <2>2. PICK sem \in DeviceSem :
           /\ UNCHANGED <<pcbFree, userSem>>
           /\ blockCurrentProcessHelper(sem) \/ UNCHANGED p_semAdd
    <3>1. 0 \in DeviceSem /\ CLOCK_INDEX \in DeviceSem
      BY TestAssumption, Addresses
    <3> QED
      BY <1>5, <3>1 DEF SYS5, SYS7, waitForIO, waitForClock, blocking
  <2>3. sem # term_mut
    BY TermMut
  <2>4. Aside
    BY <1>0, <2>1, <2>2, <2>3, BlockAside, NothingAside
  <2> QED
    BY <1>2, <2>1, <2>4
<1>6. CASE SYS6 \/ SYS8
  <2>1. PICK o \in {"SYS6", "SYS8"} : Runs(o) /\ Advance
    BY <1>6 DEF SYS6, SYS8
  <2>2. Aside
    BY <1>6, NothingAside
       DEF SYS6, SYS8, getCPUTime, getSupportData, returnToCaller, blocking, sems
  <2> QED
    BY <1>2, <2>1, <2>2
<1>7. ASSUME NEW op, Runs(op), NEW cause, Handler(cause) \in DOMAIN Text, passUpOrDie,
             PassedUp(cause)
      PROVE  PcSound' /\ Exclusive'
  <2>1. Aside
    BY <1>7, NothingAside DEF passUpOrDie, terminateCurrent, blocking, sems
  <2>2. Goto(Handler(cause), 1) \/ UNCHANGED pc
    BY <1>7 DEF PassedUp
  <2>3. CASE Goto(Handler(cause), 1)
    BY <1>3, <1>7, <2>1, <2>3, Targets
  <2>4. CASE UNCHANGED pc
    BY <1>1, <1>7, <2>1, <2>4, NobodyMoved
  <2> QED
    BY <2>2, <2>3, <2>4
<1>8. CASE SYS9
  <2>1. Handler("SYSCALLEXCPT") \in DOMAIN Text
    BY TextIs DEF Handler
  <2> QED
    BY <1>7, <1>8, <2>1 DEF SYS9
<1>9. CASE ProgramTrap
  <2>1. Runs("trap") /\ passUpOrDie /\ PassedUp(Arg)
    BY <1>9 DEF ProgramTrap
  <2>2. Handler(Arg) \in DOMAIN Text
    BY <1>0, <2>1, LineSound
  <2> QED
    BY <1>7, <2>1, <2>2
<1>10. CASE StartTransmitter
  <2>1. Aside
    BY <1>10, NothingAside DEF StartTransmitter, StartDevice, nucleusState, blocking, sems
  <2> QED
    BY <1>2, <1>10, <2>1 DEF StartTransmitter
<1>11. ASSUME UNCHANGED vars
       PROVE  Aside
  BY <1>11, NothingAside DEF vars, blocking, sems
<1>12. CASE LDST
  <2>1. Runs("LDST") /\ Goto(Arg[1], Arg[2]) /\ Aside
    BY <1>11, <1>12 DEF LDST
  <2>2. Arg[1] \in DOMAIN Text /\ Arg[2] \in Nat /\ ~Inside(Text[Arg[1]], Arg[2])
    BY <1>0, <2>1, LineSound
  <2> QED
    BY <1>3, <2>1, <2>2
<1>13. CASE setSynch
  BY <1>2, <1>11, <1>13 DEF setSynch
<1>14. "p1" \in DOMAIN Text
  BY TextIs
<1>15. CASE checkSynch
  <2>1. Runs("checkp1p2synch") /\ Aside /\ (Goto("p1", 0) \/ Advance)
    BY <1>11, <1>15 DEF checkSynch
  <2> QED
    BY <1>2, <1>3, <1>14, <2>1, Targets
<1>16. CASE loop
  <2>1. Runs("loop") /\ Aside /\ (Goto("p1", Arg) \/ Advance)
    BY <1>11, <1>16 DEF loop
  <2>2. Arg \in Nat /\ ~Inside(Text["p1"], Arg)
    BY <1>0, <2>1, LineSound
  <2> QED
    BY <1>2, <1>3, <1>14, <2>1, <2>2
<1>17. CASE TooShort
  <2>1. Runs("delayed") /\ Aside /\ Goto(Here.prog, Arg)
    BY <1>11, <1>17 DEF TooShort
  <2>2. Here.prog \in DOMAIN Text /\ Arg \in Nat /\ ~Inside(Text[Here.prog], Arg)
    BY <1>0, <2>1, LineSound
  <2> QED
    BY <1>3, <2>1, <2>2
<1>18. CASE LongEnough
  BY <1>2, <1>11, <1>18 DEF LongEnough
<1> QED
  BY <1>4, <1>5, <1>6, <1>8, <1>9, <1>10, <1>12, <1>13, <1>15, <1>16, <1>17, <1>18

\* Whoever is killed leaves nobody with the terminal who had not got it: a process
\* that waited for term_mut gives back a P that had found it taken.
LEMMA KillExclusive ==
    ASSUME Inv, CountInv, Typed', PcSound, Exclusive, Terminate
    PROVE  PcSound' /\ Exclusive'
<1> DEFINE tm == term_mut
<1>1. /\ terminateProcess
      /\ pc' = [p \in PCB |-> IF p \in pcbFree' THEN [prog |-> "p1", line |-> 0] ELSE pc[p]]
  BY DEF Terminate, At
<1>2. PcSound' /\ \A p \in PCB \ pcbFree' : After(p) <=> Holds(p)
  BY <1>1, TextIs DEF PcSound, After, Holds
<1>3. Typed /\ userSem \in [USERSEM -> Int] /\ tm \in USERSEM /\ tm \in Semaphore /\ tm # NULL
  BY TermMut DEF Inv, Typed
<1>4. /\ pcbFree \subseteq pcbFree' /\ UNCHANGED p_semAdd
      /\ userSem'[tm] <= userSem[tm] \/ userSem'[tm] <= 0
  <2>1. CASE terminateChild
    BY <1>3, <2>1 DEF terminateChild, blocking, sems
  <2>2. ASSUME terminating # <<>>, terminateSelf(terminating[Len(terminating)])
        PROVE  /\ pcbFree \subseteq pcbFree' /\ UNCHANGED p_semAdd
               /\ userSem'[tm] <= userSem[tm] \/ userSem'[tm] <= 0
    <3> DEFINE p == terminating[Len(terminating)]
    <3>1. p \in Live
      <4>1. Len(terminating) \in DOMAIN terminating
        BY <1>3, <2>2, EmptySeq DEF Typed
      <4> QED
        BY <4>1 DEF Inv, Family, StackSound
    <3>2. terminateSelf(p)
      BY <2>2
    <3> HIDE DEF p
    <3>3. /\ pcbFree' = pcbFree \cup {p} /\ UNCHANGED p_semAdd
          /\ \/ UNCHANGED userSem
             \/ p_semAdd[p] \notin DeviceSem /\ p_semAdd[p] # NULL
                /\ userSem' = [userSem EXCEPT ![p_semAdd[p]] = @ + 1]
      BY <3>2 DEF terminateSelf, giveBack, sems
    <3>4. CASE UNCHANGED userSem
      BY <1>3, <3>3, <3>4
    <3>5. CASE userSem' = [userSem EXCEPT ![p_semAdd[p]] = @ + 1] /\ p_semAdd[p] # tm
      BY <1>3, <3>3, <3>5
    <3>6. CASE userSem' = [userSem EXCEPT ![p_semAdd[p]] = @ + 1] /\ p_semAdd[p] = tm
      <4>1. asl[tm] \in Seq(PCB) /\ p \in ToSet(asl[tm])
        BY <1>3, <3>1, <3>6 DEF Typed, Inv, EveryProcessPlaced, AslSound
      <4>2. Len(asl[tm]) > 0
        BY <4>1, EmptyQueue, EmptySeq
      <4>3. userSem[tm] < 0
        BY <1>3, <4>2 DEF CountInv, Balanced, SemaphoreBalance
      <4> QED
        BY <1>3, <3>3, <3>6, <4>3
    <3> QED
      BY <3>3, <3>4, <3>5, <3>6
  <2> QED
    BY <1>1, <2>1, <2>2 DEF terminateProcess
<1>5. \A p \in PCB \ pcbFree' :
         /\ p \in Live /\ (p_semAdd'[p] = tm <=> p_semAdd[p] = tm)
         /\ After(p) => Holds(p)
         /\ p_semAdd[p] = tm => After(p)
  BY <1>2, <1>4 DEF Live, Exclusive
<1> QED
  BY <1>2, <1>3, <1>4, <1>5, CalmStep

\* Interrupts, timers and devices have nothing to do with term_mut.
LEMMA InterruptExclusive ==
    ASSUME Inv, Typed', PcSound, Exclusive,
           \/ SliceEnds \/ Preempt \/ ClockTick \/ Transmitted \/ IntervalEnds \/ Completes
           \/ Halted \/ UNCHANGED allVars
    PROVE  PcSound' /\ Exclusive'
<1>1. Idles
  <2>1. UNCHANGED pc
    BY DEF SliceEnds, Preempt, ClockTick, Transmitted, IntervalEnds, Completes, Halted,
       allVars, testing
  <2> QED
    BY <2>1, NobodyMoved
<1>2. currentProcess \in PCB => p_semAdd[currentProcess] # term_mut
  BY TermMut, Addresses DEF Inv, EveryProcessPlaced, CurrentSound
<1>3. CASE SliceEnds \/ Preempt \/ IntervalEnds \/ Completes \/ Halted \/ UNCHANGED allVars
  <2>1. UNCHANGED <<pcbFree, p_semAdd, userSem>>
    BY <1>3 DEF SliceEnds, PltExpires, Preempt, PLTInterruptHandler, IntervalEnds,
       IntervalTimerExpires, Completes, DeviceCompletes, Halted, StayStopped, allVars, vars,
       nucleusState, blocking, sems
  <2> QED
    BY <1>1, <1>2, <2>1, NothingAside, AsideStep DEF Idles
<1>4. CASE ClockTick
  <2>1. unblock(ToSet(asl[CLOCK_INDEX])) /\ UNCHANGED <<pcbFree, userSem>>
    BY <1>4 DEF ClockTick, intervalTimerInterruptHandler
  <2>2. \A p \in ToSet(asl[CLOCK_INDEX]) : p_semAdd[p] # term_mut
    <3>1. CLOCK_INDEX \in Semaphore /\ CLOCK_INDEX # term_mut
      BY Addresses, TermMut
    <3> QED
      BY <3>1, WaitsFor
  <2>3. Aside
    BY <2>1, <2>2, UnblockAside
  <2> QED
    BY <1>1, <1>2, <2>3, AsideStep DEF Idles
<1>5. CASE Transmitted
  <2>1. PICK d \in DEVICE :
           /\ UNCHANGED <<pcbFree, userSem>>
           /\ \/ asl[d] # <<>> /\ unblock({Head(asl[d])})
              \/ UNCHANGED p_semAdd
    BY <1>5 DEF Transmitted, nonTimerInterruptHandler, removeBlocked, blocking
  <2>2. d \in Semaphore /\ d # term_mut
    BY Addresses, TermMut
  <2>3. Aside
    BY <2>1, <2>2, WaitsFor, UnblockAside, NothingAside
  <2> QED
    BY <1>1, <1>2, <2>3, AsideStep DEF Idles
<1> QED
  BY <1>3, <1>4, <1>5

-----------------------------------------------------------------------------
(* Theorems                                                                *)

\* What is proved of Nucleus, what holds of the programs, and who has the terminal.
TestInv == Inv /\ CountInv /\ PcSound /\ Exclusive

\* p1 is at its first line, and term_mut is free (p2test.c:83).
LEMMA TestStarts == TestInit => Init /\ TestInv
<1> SUFFICES ASSUME TestInit PROVE Init /\ TestInv
  OBVIOUS
<1>1. Init /\ Inv /\ CountInv
  BY InitInv, InitCounts DEF TestInit
<1>2. pc = [p \in PCB |-> [prog |-> "p1", line |-> IF p = currentProcess THEN 1 ELSE 0]]
  BY DEF TestInit, At
<1>3. PcSound /\ \A p \in PCB : ~Holds(p)
  BY <1>2, TextIs, Targets DEF PcSound, Holds
<1>4. userSem[term_mut] = 1
  BY TermMut DEF TestInit
<1>5. Owners = {} /\ \A p \in Live : p_semAdd[p] # term_mut
  <2>1. \A p \in Live : p \in PCB /\ p_semAdd[p] = NULL
    BY <1>1 DEF Init, Live
  <2> QED
    BY <1>3, <2>1, TermMut DEF Owners
<1>6. Exclusive
  BY <1>4, <1>5 DEF Exclusive, OnePrints
<1> QED
  BY <1>1, <1>3, <1>6 DEF TestInv

\* Every step of the test preserves it, and is one of Nucleus or none.
LEMMA TestSteps == TestInv /\ [TestNext]_allVars => [Next]_vars /\ TestInv'
<1> SUFFICES ASSUME TestInv, [TestNext]_allVars PROVE [Next]_vars /\ TestInv'
  OBVIOUS
<1>1. Inv /\ CountInv /\ PcSound /\ Exclusive
  BY DEF TestInv
<1>2. [Next]_vars
  BY <1>1, TestStep
<1>3. Inv' /\ CountInv' /\ Typed'
  <2>1. Inv' /\ CountInv'
    BY <1>1, <1>2, StepInv, StepCounts
  <2> QED
    BY <2>1 DEF Inv
<1>4. PcSound' /\ Exclusive'
  <2>1. CASE Execute \/ Decide
    <3>1. \/ SYS1 \/ SYS2 \/ SYS3 \/ SYS4 \/ SYS5 \/ SYS6 \/ SYS7 \/ SYS8 \/ SYS9
          \/ ProgramTrap \/ StartTransmitter \/ LDST \/ setSynch \/ checkSynch \/ loop
          \/ TooShort \/ LongEnough
      BY <2>1 DEF Execute, Decide, Instruction
    <3> QED
      BY <1>1, <1>3, <3>1, CreateExclusive, PExclusive, VExclusive, OtherExclusive
  <2>2. CASE Terminate
    BY <1>1, <1>3, <2>2, KillExclusive
  <2>3. CASE \/ SliceEnds \/ Preempt \/ ClockTick \/ Transmitted \/ IntervalEnds \/ Completes
             \/ Halted \/ UNCHANGED allVars
    BY <1>1, <1>3, <2>3, InterruptExclusive
  <2> QED
    BY <2>1, <2>2, <2>3 DEF TestNext
<1> QED
  BY <1>2, <1>3, <1>4 DEF TestInv

\* The test runs on the nucleus: whatever its processes do, every step is one that
\* Nucleus allows, so each property proved of Nucleus holds while the test runs;
\* in particular every P and V is on a semaphore of the test (p2test.c:83-101).
THEOREM TestRunsOnNucleus == TestSpec => Spec
BY TestStarts, TestSteps, PTL DEF TestSpec, Spec

\* For any number of pcbs, characters and incarnations, and wherever slices run
\* out, two processes never print at once (p2test.c:83, 127-135).
THEOREM MutualExclusion == TestSpec => []OnePrints
<1>1. TestInv => OnePrints
  BY DEF TestInv, Exclusive
<1> QED
  BY <1>1, TestStarts, TestSteps, PTL DEF TestSpec
=============================================================================
