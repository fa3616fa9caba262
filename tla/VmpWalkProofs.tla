---------------------------- MODULE VmpWalkProofs ----------------------------
(***************************************************************************)
(* What the data flow of VmpWalk says of an indirect transfer, for any     *)
(* code and any reach of the look-back: that the taint is exact, that only *)
(* the block of a site counts, and that idle loads change nothing.         *)
(***************************************************************************)
EXTENDS VmpWalk, FiniteSetTheorems, WellFoundedInduction, TLAPS

-----------------------------------------------------------------------------
(* The instructions are those of words of the code, in the order of their   *)
(* addresses.                                                               *)
Instructions == {Populate(w, a) : w \in Words, a \in Nat}
Ascending ==
  /\ \A i \in 1..Len(insns) : insns[i].address \in Nat /\ insns[i].address < address
  /\ \A i \in 2..Len(insns) : insns[i - 1].address < insns[i].address
WInv == address \in Nat /\ insns \in Seq(Instructions) /\ Ascending

LEMMA InitW == Init => WInv
BY DEF Init, WInv, Ascending

LEMMA NextW == WInv /\ [Next]_vars => WInv'
<1> SUFFICES ASSUME WInv, [Next]_vars PROVE WInv'
  OBVIOUS
<1>1. ASSUME NEW w \in Words, Decode(w) PROVE WInv'
  <2> DEFINE new == Populate(w, address)
             n == Len(insns)
  <2>1. new \in Instructions /\ new.address = address BY DEF Instructions, WInv, Populate
  <2>2. address \in Nat /\ insns \in Seq(Instructions) /\ n \in Nat BY DEF WInv
  <2>3. /\ \A i \in 1..n : insns[i].address \in Nat /\ insns[i].address < address
        /\ \A i \in 2..n : insns[i - 1].address < insns[i].address
    BY DEF WInv, Ascending
  <2>4. address' = address + 1 BY <1>1 DEF Decode
  <2>5. insns' = insns \/ insns' = Append(insns, new) BY <1>1 DEF Decode
  <2> HIDE DEF new
  <2>6. CASE insns' = insns
    <3>1. Len(insns') = n /\ \A i \in 1..n : insns[i].address < address' BY <2>2, <2>3, <2>4, <2>6
    <3>2. Ascending'
      <4> HIDE DEF n
      <4> QED BY <2>3, <2>6, <3>1 DEF Ascending
    <3> QED BY <2>2, <2>4, <2>6, <3>2 DEF WInv
  <2>7. CASE insns' = Append(insns, new)
    <3>1. /\ insns' \in Seq(Instructions) /\ Len(insns') = n + 1 /\ insns'[n + 1] = new
          /\ \A i \in 1..n : insns'[i] = insns[i]
      BY <2>1, <2>2, <2>7
    <3> HIDE DEF n
    <3>2. ASSUME NEW i \in 1..(n + 1)
          PROVE  insns'[i].address \in Nat /\ insns'[i].address < address'
      <4>1. CASE i = n + 1 BY <4>1, <3>1, <2>1, <2>2, <2>4
      <4>2. CASE i # n + 1
        <5>1. i \in 1..n BY <4>2, <2>2
        <5>2. insns'[i] = insns[i] BY <5>1, <3>1
        <5> QED BY <5>1, <5>2, <2>2, <2>3, <2>4
      <4> QED BY <4>1, <4>2
    <3>3. ASSUME NEW i \in 2..(n + 1) PROVE insns'[i - 1].address < insns'[i].address
      <4>1. i - 1 \in 1..n BY <2>2
      <4>2. insns'[i - 1] = insns[i - 1] /\ insns[i - 1].address < address BY <4>1, <3>1, <2>3
      <4>3. CASE i = n + 1 BY <4>2, <4>3, <3>1, <2>1
      <4>4. CASE i # n + 1
        <5>1. i \in 1..n /\ i \in 2..n BY <4>4, <2>2
        <5>2. insns'[i] = insns[i] BY <5>1, <3>1
        <5> QED BY <5>1, <5>2, <4>2, <2>3
      <4> QED BY <4>3, <4>4
    <3>4. Ascending' BY <3>1, <3>2, <3>3 DEF Ascending
    <3> QED BY <3>1, <3>4, <2>2, <2>4 DEF WInv
  <2> QED BY <2>5, <2>6, <2>7
<1>2. ASSUME UNCHANGED <<insns, address>> PROVE WInv'
  BY <1>2 DEF WInv, Ascending
<1>3. CASE Decoded BY <1>2, <1>3 DEF Decoded
<1>4. ASSUME NEW k \in 1..MaxWords, Pass(k) \/ Exclude(k) \/ Loop(k) \/ Transfer(k) PROVE WInv'
  BY <1>2, <1>4 DEF Pass, Exclude, Loop, Transfer, Visit
<1>5. CASE UNCHANGED vars BY <1>2, <1>5 DEF vars
<1> QED BY <1>1, <1>3, <1>4, <1>5 DEF Next

-----------------------------------------------------------------------------
(* Intervals have a least and a greatest element.                          *)
LEMMA LeastNatural ==
  ASSUME NEW T, T \subseteq Nat, T # {}
  PROVE  \E x \in T : \A y \in T : x <= y
<1> DEFINE Less == {ss \in Nat \X Nat : ss[1] < ss[2]}
<1>1. IsWellFoundedOn(Less, Nat) BY NatLessThanWellFounded DEF OpToRel
<1>2. \A x, y \in Nat : x < y => <<x, y>> \in Less OBVIOUS
<1> HIDE DEF Less
<1>3. PICK x \in T : \A y \in T : ~(<<y, x>> \in Less) BY <1>1, WFMin
<1>4. \A y \in T : ~(y < x) BY <1>2, <1>3
<1> QED BY <1>4

LEMMA MostIsGreatest ==
  ASSUME NEW n \in Nat, NEW T \in SUBSET (0..n), T # {}
  PROVE  Most(T) \in T /\ \A y \in T : Most(T) >= y
<1> DEFINE Gaps == {n - x : x \in T}
<1>1. Gaps \subseteq Nat /\ Gaps # {}
  <2>1. \A x \in T : x \in 0..n /\ n - x \in Nat OBVIOUS
  <2> QED BY <2>1
<1>2. PICK g \in Gaps : \A h \in Gaps : g <= h
  <2> HIDE DEF Gaps
  <2> QED BY <1>1, LeastNatural
<1>3. PICK x \in T : g = n - x BY <1>2
<1>4. \A y \in T : n - x <= n - y BY <1>2, <1>3
<1>5. \A y \in T : x >= y BY <1>4
<1> QED BY <1>3, <1>5 DEF Most
\* The greatest element, or 0 for none.
LEMMA MostOrNone ==
  ASSUME NEW n \in Nat, NEW T \in SUBSET (1..n)
  PROVE  /\ T = {} => Most(T \cup {0}) = 0
         /\ T # {} => Most(T \cup {0}) = Most(T) /\ Most(T) \in T /\ \A y \in T : Most(T) >= y
<1>1. ASSUME T # {}
      PROVE  Most(T \cup {0}) = Most(T) /\ Most(T) \in T /\ \A y \in T : Most(T) >= y
  <2> DEFINE W == T \cup {0}
  <2>1. T \in SUBSET (0..n) /\ W \in SUBSET (0..n) /\ W # {} OBVIOUS
  <2>2. Most(T) \in T /\ \A y \in T : Most(T) >= y BY <2>1, <1>1, MostIsGreatest
  <2>3. Most(W) \in W /\ \A y \in W : Most(W) >= y
    <3> HIDE DEF W
    <3> QED BY <2>1, MostIsGreatest
  <2>4. \A y \in T : y \in Nat /\ y >= 1
    <3>1. \A y \in 1..n : y \in Nat /\ y >= 1 OBVIOUS
    <3> QED BY <3>1
  <2>5. Most(W) \in T
    <3>1. Most(T) \in W /\ Most(T) >= 1 /\ Most(T) \in Nat BY <2>2, <2>4
    <3>2. Most(W) >= Most(T) BY <3>1, <2>3
    <3>3. Most(W) # 0 BY <3>1, <3>2
    <3> QED BY <3>3, <2>3
  <2>6. Most(W) >= Most(T) /\ Most(T) >= Most(W) /\ Most(W) \in Nat /\ Most(T) \in Nat
    BY <2>2, <2>3, <2>4, <2>5
  <2> QED BY <2>2, <2>6
<1>2. ASSUME T = {} PROVE Most(T \cup {0}) = 0
  <2>1. {0} \in SUBSET (0..0) /\ {0} # {} /\ T \cup {0} = {0} BY <1>2
  <2> QED BY <2>1, MostIsGreatest
<1> QED BY <1>1, <1>2

(* f starts with z and goes from one value to the next by G. *)
Solution(f, n, A, z, G) ==
  f \in [0 .. n -> A] /\ f[0] = z /\ \A i \in 1 .. n : f[i] = G[i][f[i - 1]]

(* A recursion over 0 .. n has a solution. *)
LEMMA RecursionExists ==
  ASSUME NEW n \in Nat, NEW A, NEW z \in A, NEW G \in [1 .. n -> [A -> A]]
  PROVE  \E f : Solution(f, n, A, z, G)
<1> DEFINE Solves(f, m) == f[0] = z /\ \A i \in 1 .. m : f[i] = G[i][f[i - 1]]
           Bad == {m \in 0 .. n : ~ \E f \in [0 .. m -> A] : Solves(f, m)}
<1>1. SUFFICES ASSUME Bad # {} PROVE FALSE
  <2>1. n \in 0 .. n OBVIOUS
  <2>2. PICK f \in [0 .. n -> A] : Solves(f, n) BY <2>1
  <2>3. Solution(f, n, A, z, G) BY <2>2 DEF Solution
  <2> QED BY <2>3
<1>2. PICK m \in Bad : \A k \in Bad : m <= k
  <2>1. Bad \subseteq Nat OBVIOUS
  <2> HIDE DEF Bad
  <2> QED BY <1>1, <2>1, LeastNatural
<1>3. m # 0
  <2>1. SUFFICES ASSUME m = 0 PROVE FALSE OBVIOUS
  <2>2. [i \in 0 .. 0 |-> z] \in [0 .. 0 -> A] /\ Solves([i \in 0 .. 0 |-> z], 0) OBVIOUS
  <2> QED BY <2>1, <2>2, <1>2
<1>4. m \in 1 .. n /\ m - 1 \in 0 .. n /\ ~(m <= m - 1) BY <1>2, <1>3
<1>5. ~(m - 1 \in Bad) BY <1>2, <1>4
<1>6. PICK f \in [0 .. m - 1 -> A] : Solves(f, m - 1) BY <1>4, <1>5
<1> DEFINE g == [i \in 0 .. m |-> IF i < m THEN f[i] ELSE G[m][f[m - 1]]]
<1>7. f[m - 1] \in A /\ G[m][f[m - 1]] \in A BY <1>4, <1>6
<1>8. g \in [0 .. m -> A] BY <1>4, <1>6, <1>7
<1>8a. g[m] = G[m][f[m - 1]] /\ \A i \in 0 .. m - 1 : g[i] = f[i] BY <1>4
<1> HIDE DEF g
<1>9. g[0] = z BY <1>4, <1>6, <1>8a
<1>10. ASSUME NEW i \in 1 .. m PROVE g[i] = G[i][g[i - 1]]
  <2>1. g[i - 1] = f[i - 1] BY <1>4, <1>8a, <1>10
  <2>2. CASE i = m
    <3> QED BY <2>1, <2>2, <1>8a
  <2>3. CASE i # m
    <3>1. i \in 1 .. m - 1 /\ g[i] = f[i] BY <2>3, <1>4, <1>8a, <1>10
    <3> QED BY <2>1, <3>1, <1>6
  <2> QED BY <2>2, <2>3
<1>11. Solves(g, m) BY <1>9, <1>10
<1> QED BY <1>2, <1>8, <1>11

-----------------------------------------------------------------------------
(* What LastWrite finds among the definitions that the detector takes in:   *)
(* the last instruction from f on, and before i, with that destination.     *)
LastDest(f, i, reg) == Most({j \in f..(i - 1) : Dest(insns[j]) = reg} \cup {0})
TakenIn(f, k) == [i \in f..(k - 1) |-> Defined(insns[i])]
Followed(f, k) == [i \in f..(k - 1) |-> Traceable(insns[i])]

LEMMA LastWriteIsLastDest ==
  ASSUME NEW f \in Nat, NEW k \in Nat, NEW i \in Nat, i <= k, NEW reg, reg # NoReg
  PROVE  LastWrite(f, i, reg, TakenIn(f, k)) = LastDest(f, i, reg)
<1>1. \A j \in f..(i - 1) : j \in f..(k - 1) OBVIOUS
<1>2. \A j \in f..(i - 1) : TakenIn(f, k)[j] = {Dest(insns[j])} \ {NoReg}
  BY <1>1 DEF TakenIn, Defined
<1>3. \A j \in f..(i - 1) : reg \in TakenIn(f, k)[j] <=> Dest(insns[j]) = reg BY <1>2
<1>4. {j \in f..(i - 1) : reg \in TakenIn(f, k)[j]} = {j \in f..(i - 1) : Dest(insns[j]) = reg}
  BY <1>3
<1> QED BY <1>4 DEF LastWrite, LastDest

Writers(f, i, reg) == {j \in f..(i - 1) : Dest(insns[j]) = reg}

LEMMA LastDestIs ==
  ASSUME NEW f \in Nat \ {0}, NEW i \in Nat, NEW reg
  PROVE  /\ Writers(f, i, reg) = {} => LastDest(f, i, reg) = 0
         /\ Writers(f, i, reg) # {} =>
               /\ LastDest(f, i, reg) \in Writers(f, i, reg)
               /\ \A j \in Writers(f, i, reg) : LastDest(f, i, reg) >= j
<1> DEFINE T == Writers(f, i, reg) \cup {0}
<1>1. T \in SUBSET (0..i)
  <2>1. \A j \in f..(i - 1) : j \in 0..i OBVIOUS
  <2> QED BY <2>1 DEF Writers
<1>2. LastDest(f, i, reg) = Most(T) BY DEF LastDest, Writers
<1>3. T # {} OBVIOUS
<1>4. Most(T) \in T /\ \A y \in T : Most(T) >= y
  <2> HIDE DEF T
  <2> QED BY <1>1, <1>3, MostIsGreatest
<1>5. \A j \in Writers(f, i, reg) : j >= 1 /\ j \in Nat BY DEF Writers
<1>6. CASE Writers(f, i, reg) = {}
  BY <1>2, <1>4, <1>6
<1>7. CASE Writers(f, i, reg) # {}
  <2>1. Most(T) # 0
    <3>1. PICK j \in Writers(f, i, reg) : TRUE BY <1>7
    <3> QED BY <3>1, <1>4, <1>5
  <2>2. Most(T) \in Writers(f, i, reg) BY <2>1, <1>4
  <2> QED BY <2>2, <1>2, <1>4, <1>7
<1> QED BY <1>6, <1>7

LEMMA NextLastDest ==
  ASSUME NEW f \in Nat \ {0}, NEW i \in Nat, i >= f, NEW reg
  PROVE  /\ Dest(insns[i]) = reg => LastDest(f, i + 1, reg) = i
         /\ Dest(insns[i]) # reg => LastDest(f, i + 1, reg) = LastDest(f, i, reg)
<1>1. \A j : j \in Writers(f, i + 1, reg) <=> j \in Writers(f, i, reg) \/ (j = i /\ Dest(insns[i]) = reg)
  <2>1. f..((i + 1) - 1) = f..(i - 1) \cup {i} /\ i \notin f..(i - 1) OBVIOUS
  <2> QED BY <2>1 DEF Writers
<1>2. ASSUME Dest(insns[i]) = reg PROVE LastDest(f, i + 1, reg) = i
  <2>1. i \in Writers(f, i + 1, reg) BY <1>1, <1>2
  <2>2. LastDest(f, i + 1, reg) \in Writers(f, i + 1, reg) /\ LastDest(f, i + 1, reg) >= i
    BY <2>1, LastDestIs
  <2>3. \A j \in Writers(f, i + 1, reg) : j \in Nat /\ j <= i BY DEF Writers
  <2> QED BY <2>2, <2>3
<1>3. ASSUME Dest(insns[i]) # reg PROVE LastDest(f, i + 1, reg) = LastDest(f, i, reg)
  <2>1. Writers(f, i + 1, reg) = Writers(f, i, reg) BY <1>1, <1>3
  <2> QED BY <2>1 DEF LastDest, Writers
<1> QED BY <1>2, <1>3

-----------------------------------------------------------------------------
(* The taint as an equation, and what it means.                             *)
Carry(ins, old) ==
  IF Dest(ins) = NoReg THEN old
  ELSE (old \ {Dest(ins)}) \cup (IF Propagates(ins, old) THEN {Dest(ins)} ELSE {})
Flows(t, s, f, k, reg) ==
  t[f + 1] = {reg} /\ \A i \in (f + 2)..k : t[i] = Carry(s[i - 1], t[i - 1])

LEMMA TaintedFlows ==
  ASSUME NEW s, NEW f \in Nat, NEW k \in Nat, k > f, NEW reg
  PROVE  Flows(Tainted(s, f, k, reg), s, f, k, reg)
<1> DEFINE Step(i, t) == IF i = f + 1 THEN {reg}
                         ELSE LET ins == s[i - 1]
                                  old == t[i - 1]
                              IN IF Dest(ins) = NoReg THEN old
                                 ELSE (old \ {Dest(ins)})
                                        \cup (IF Propagates(ins, old) THEN {Dest(ins)} ELSE {})
           Is(t) == t = [i \in (f + 1)..k |-> Step(i, t)]
           n == k - (f + 1)
           R == {reg} \cup {Dest(s[j]) : j \in f..k}
           A == SUBSET R
           G == [m \in 1..n |-> [old \in A |-> Carry(s[f + m], old)]]
<1>1. n \in Nat OBVIOUS
<1>2. ASSUME NEW m \in 1..n, NEW old \in A PROVE Carry(s[f + m], old) \in A
  <2>1. f + m \in f..k BY <1>1
  <2>2. Dest(s[f + m]) \in R BY <2>1
  <2> HIDE DEF R
  <2> QED BY <2>2 DEF Carry
<1>3. G \in [1..n -> [A -> A]] BY <1>2
<1>4. {reg} \in A OBVIOUS
<1>5. PICK u : Solution(u, n, A, {reg}, G)
  <2> HIDE DEF n, A, G
  <2> QED BY <1>1, <1>3, <1>4, RecursionExists
<1>6. u \in [0..n -> A] /\ u[0] = {reg} /\ \A m \in 1..n : u[m] = Carry(s[f + m], u[m - 1])
  <2>1. u \in [0..n -> A] /\ u[0] = {reg} /\ \A m \in 1..n : u[m] = G[m][u[m - 1]]
    BY <1>5 DEF Solution
  <2>2. ASSUME NEW m \in 1..n PROVE u[m] = Carry(s[f + m], u[m - 1])
    <3>1. m - 1 \in 0..n BY <1>1
    <3>2. u[m - 1] \in A BY <3>1, <2>1
    <3>3. G[m][u[m - 1]] = Carry(s[f + m], u[m - 1]) BY <3>2
    <3> QED BY <3>3, <2>1
  <2> QED BY <2>1, <2>2
<1> DEFINE w == [i \in (f + 1)..k |-> u[i - (f + 1)]]
<1>7. Is(w)
  <2> SUFFICES ASSUME NEW i \in (f + 1)..k PROVE u[i - (f + 1)] = Step(i, w)
    OBVIOUS
  <2>1. CASE i = f + 1 BY <2>1, <1>6
  <2>2. CASE i # f + 1
    <3>1. i - 1 \in (f + 1)..k /\ i - (f + 1) \in 1..n BY <2>2
    <3>2. w[i - 1] = u[i - (f + 1) - 1] /\ s[i - 1] = s[f + (i - (f + 1))]
      <4>1. (i - 1) - (f + 1) = i - (f + 1) - 1 /\ i - 1 = f + (i - (f + 1)) OBVIOUS
      <4> QED BY <3>1, <4>1
    <3>3. u[i - (f + 1)] = Carry(s[i - 1], w[i - 1]) BY <3>1, <3>2, <1>6
    <3> HIDE DEF w
    <3> QED BY <2>2, <3>3 DEF Carry
  <2> QED BY <2>1, <2>2
<1>8. Tainted(s, f, k, reg) = CHOOSE t : Is(t) BY DEF Tainted
<1>9. Is(Tainted(s, f, k, reg))
  <2> HIDE DEF Is
  <2> QED BY <1>7, <1>8
<1> DEFINE t == Tainted(s, f, k, reg)
<1>10. \A i \in (f + 1)..k : t[i] = Step(i, t)
  <2> DEFINE v == [i \in (f + 1)..k |-> Step(i, t)]
  <2>1. t = v BY <1>9
  <2>2. \A i \in (f + 1)..k : v[i] = Step(i, t) OBVIOUS
  <2> HIDE DEF v, Step, t
  <2> QED BY <2>1, <2>2
<1>11. t[f + 1] = {reg}
  <2>1. f + 1 \in (f + 1)..k OBVIOUS
  <2> HIDE DEF t
  <2> QED BY <2>1, <1>10
<1>12. ASSUME NEW i \in (f + 2)..k PROVE t[i] = Carry(s[i - 1], t[i - 1])
  <2>1. i \in (f + 1)..k /\ i # f + 1 OBVIOUS
  <2>2. t[i] = Step(i, t) BY <2>1, <1>10
  <2> HIDE DEF t
  <2> QED BY <2>1, <2>2 DEF Carry
<1> QED BY <1>11, <1>12 DEF Flows

-----------------------------------------------------------------------------
(* A register is tainted before an instruction exactly if what was written  *)
(* to it last is derived: by induction over the instructions.               *)
Means(t, d, f, i) ==
  \A reg : reg # NoReg => (reg \in t[i] <=> LastDest(f, i, reg) > 0 /\ d[LastDest(f, i, reg)])

LEMMA FirstMeans ==
  ASSUME NEW f \in Nat \ {0}, NEW t, NEW d, IsLoad(insns[f]), ~IsCompare(insns[f]),
         d[f], t[f + 1] = {insns[f].reg}
  PROVE  Means(t, d, f, f + 1)
<1> SUFFICES ASSUME NEW reg, reg # NoReg
             PROVE  reg \in t[f + 1] <=> LastDest(f, f + 1, reg) > 0 /\ d[LastDest(f, f + 1, reg)]
  BY DEF Means
<1>1. Dest(insns[f]) = insns[f].reg BY DEF Dest
<1>2. CASE insns[f].reg = reg
  <2>1. LastDest(f, f + 1, reg) = f BY <1>1, <1>2, NextLastDest
  <2> QED BY <1>2, <2>1
<1>3. CASE insns[f].reg # reg
  <2>1. LastDest(f, f + 1, reg) = LastDest(f, f, reg) BY <1>1, <1>3, NextLastDest
  <2>2. Writers(f, f, reg) = {} BY DEF Writers
  <2>3. LastDest(f, f, reg) = 0 BY <2>2, LastDestIs
  <2> QED BY <1>3, <2>1, <2>3
<1> QED BY <1>2, <1>3

LEMMA NextMeans ==
  ASSUME NEW f \in Nat \ {0}, NEW i \in Nat, i > f, NEW t, NEW d, Means(t, d, f, i),
         t[i + 1] = Carry(insns[i], t[i]), d[i] <=> Propagates(insns[i], t[i])
  PROVE  Means(t, d, f, i + 1)
<1> SUFFICES ASSUME NEW reg, reg # NoReg
             PROVE  reg \in t[i + 1] <=> LastDest(f, i + 1, reg) > 0 /\ d[LastDest(f, i + 1, reg)]
  BY DEF Means
<1>1. CASE Dest(insns[i]) = reg
  <2>1. LastDest(f, i + 1, reg) = i BY <1>1, NextLastDest
  <2>2. reg \in t[i + 1] <=> Propagates(insns[i], t[i]) BY <1>1 DEF Carry
  <2> QED BY <2>1, <2>2
<1>2. CASE Dest(insns[i]) # reg
  <2>1. LastDest(f, i + 1, reg) = LastDest(f, i, reg) BY <1>2, NextLastDest
  <2>2. reg \in t[i + 1] <=> reg \in t[i] BY <1>2 DEF Carry
  <2>3. reg \in t[i] <=> LastDest(f, i, reg) > 0 /\ d[LastDest(f, i, reg)] BY DEF Means
  <2> QED BY <2>1, <2>2, <2>3
<1> QED BY <1>1, <1>2

LEMMA TaintMeans ==
  ASSUME NEW f \in Nat \ {0}, NEW k \in Nat, k > f, NEW t, NEW d,
         IsLoad(insns[f]), ~IsCompare(insns[f]), d[f], Flows(t, insns, f, k, insns[f].reg),
         \A j \in (f + 1)..(k - 1) : Means(t, d, f, j) => (d[j] <=> Propagates(insns[j], t[j]))
  PROVE  \A i \in (f + 1)..k : Means(t, d, f, i)
<1> DEFINE Bad == {i \in (f + 1)..k : ~Means(t, d, f, i)}
<1>1. SUFFICES ASSUME Bad # {} PROVE FALSE OBVIOUS
<1>2. PICK i \in Bad : \A j \in Bad : i <= j
  <2>1. Bad \subseteq Nat OBVIOUS
  <2> HIDE DEF Bad
  <2> QED BY <1>1, <2>1, LeastNatural
<1>3. i # f + 1
  <2>1. Means(t, d, f, f + 1) BY FirstMeans DEF Flows
  <2> QED BY <1>2, <2>1
<1>4. i - 1 \in (f + 1)..(k - 1) /\ i \in (f + 2)..k /\ ~(i <= i - 1) /\ (i - 1) + 1 = i
  BY <1>2, <1>3
<1>5. Means(t, d, f, i - 1)
  <2>1. i - 1 \notin Bad BY <1>2, <1>4
  <2>2. i - 1 \in (f + 1)..k BY <1>4
  <2> QED BY <2>1, <2>2
<1>6. d[i - 1] <=> Propagates(insns[i - 1], t[i - 1]) BY <1>4, <1>5
<1>7. t[i] = Carry(insns[i - 1], t[i - 1]) BY <1>4 DEF Flows
<1>8. Means(t, d, f, i)
  <2> DEFINE h == i - 1
  <2>1. h \in Nat /\ h > f /\ i = h + 1 BY <1>4
  <2>2. Means(t, d, f, h) /\ (d[h] <=> Propagates(insns[h], t[h])) BY <1>5, <1>6
  <2>3. t[h + 1] = Carry(insns[h], t[h]) BY <1>7, <2>1
  <2> HIDE DEF h
  <2>4. Means(t, d, f, h + 1) BY <2>1, <2>2, <2>3, NextMeans
  <2> QED BY <2>1, <2>4
<1> QED BY <1>2, <1>8

-----------------------------------------------------------------------------
(* What Derived says, as an equation.                                       *)
Chain(d, f, j) ==
  /\ IsTransform(insns[j]) \/ IsLoad(insns[j])
  /\ \E reg \in Uses(insns[j]) : LastDest(f, j, reg) > 0 /\ d[LastDest(f, j, reg)]

\* What is derived is what the taint has reached.
LEMMA ChainPropagates ==
  ASSUME NEW f, NEW j, NEW t, NEW d, Means(t, d, f, j)
  PROVE  Chain(d, f, j) <=> Propagates(insns[j], t[j])
<1>1. \A reg \in Uses(insns[j]) : reg # NoReg BY DEF Uses
<1>2. \A reg \in Uses(insns[j]) :
        reg \in t[j] <=> LastDest(f, j, reg) > 0 /\ d[LastDest(f, j, reg)]
  BY <1>1 DEF Means
<1> QED BY <1>2 DEF Chain, Propagates

\* The step of Derived is a link of such a chain.
Step(d, f, k, j) ==
  \E reg \in Followed(f, k)[j] :
     LastWrite(f, j, reg, TakenIn(f, k)) > 0 /\ d[LastWrite(f, j, reg, TakenIn(f, k))]
LEMMA StepIsChain ==
  ASSUME NEW f \in Nat, NEW k \in Nat, NEW j \in f..(k - 1), NEW d
  PROVE  Step(d, f, k, j) <=> Chain(d, f, j)
<1>1. Followed(f, k)[j] = Traceable(insns[j]) BY DEF Followed
<1>2. j \in Nat /\ j <= k OBVIOUS
<1>3. \A reg \in Traceable(insns[j]) :
        LastWrite(f, j, reg, TakenIn(f, k)) = LastDest(f, j, reg)
  <2>1. \A reg \in Traceable(insns[j]) : reg # NoReg BY DEF Traceable, Uses
  <2> QED BY <1>2, <2>1, LastWriteIsLastDest
<1>4. Step(d, f, k, j)
        <=> \E reg \in Traceable(insns[j]) : LastDest(f, j, reg) > 0 /\ d[LastDest(f, j, reg)]
  BY <1>1, <1>3 DEF Step
<1> QED BY <1>4 DEF Chain, Traceable

LEMMA DerivedIsChain ==
  ASSUME NEW f \in Nat \ {0}, NEW k \in Nat, f < k, IsLoad(insns[f]), ~IsCompare(insns[f])
  PROVE  /\ Derived(f, k, TakenIn(f, k), Followed(f, k))[f]
         /\ \A j \in (f + 1)..(k - 1) :
              Derived(f, k, TakenIn(f, k), Followed(f, k))[j]
                <=> Chain(Derived(f, k, TakenIn(f, k), Followed(f, k)), f, j)
<1> DEFINE n == k - 1
           Is(d) == d = [j \in f..n |->
                          \/ j = f
                          \/ \E reg \in Followed(f, k)[j] :
                                LastWrite(f, j, reg, TakenIn(f, k)) > 0
                                /\ d[LastWrite(f, j, reg, TakenIn(f, k))]]
           t == Tainted(insns, f, k, insns[f].reg)
           w == [j \in f..n |-> j = f \/ Propagates(insns[j], t[j])]
           c == CHOOSE d : Is(d)
           e == Derived(f, k, TakenIn(f, k), Followed(f, k))
<1>1. n \in Nat /\ n >= f OBVIOUS
<1>2. Flows(t, insns, f, k, insns[f].reg) BY TaintedFlows
<1>3. w[f] /\ \A j \in (f + 1)..n : w[j] <=> Propagates(insns[j], t[j])
  <2> HIDE DEF n, t
  <2>1. f \in f..n /\ \A j \in (f + 1)..n : j \in f..n /\ j # f BY <1>1
  <2>2. \A j \in f..n : w[j] <=> j = f \/ Propagates(insns[j], t[j]) OBVIOUS
  <2> HIDE DEF w
  <2> QED BY <2>1, <2>2
<1>4. \A j \in (f + 1)..n : Means(t, w, f, j)
  <2> HIDE DEF t, w
  <2>1. \A j \in (f + 1)..(k - 1) : w[j] <=> Propagates(insns[j], t[j]) BY <1>3
  <2>2. \A j \in (f + 1)..k : Means(t, w, f, j) BY <1>2, <1>3, <2>1, TaintMeans
  <2> QED BY <2>2
<1>5. \A j \in (f + 1)..n : Propagates(insns[j], t[j]) <=> Chain(w, f, j)
  <2> HIDE DEF n, t, w
  <2> QED BY <1>4, ChainPropagates
<1>6. Is(w)
  <2>1. \A j \in f..n : j # f => j \in (f + 1)..n BY <1>1
  <2>2. \A j \in f..n : (j = f \/ Propagates(insns[j], t[j])) <=> (j = f \/ Step(w, f, k, j))
    <3> HIDE DEF t, w
    <3>1. \A j \in f..n : Step(w, f, k, j) <=> Chain(w, f, j) BY StepIsChain
    <3> HIDE DEF n
    <3> QED BY <1>5, <2>1, <3>1
  <2>3. w = [j \in f..n |-> j = f \/ Step(w, f, k, j)]
    <3> HIDE DEF n, t
    <3> DEFINE x == w
    <3>1. \A j \in f..n : (j = f \/ Propagates(insns[j], t[j])) <=> (j = f \/ Step(x, f, k, j)) BY <2>2
    <3> HIDE DEF x
    <3>2. [j \in f..n |-> j = f \/ Propagates(insns[j], t[j])] = [j \in f..n |-> j = f \/ Step(x, f, k, j)]
      BY <3>1
    <3> QED BY <3>2 DEF x
  <2> HIDE DEF n, t, w
  <2> QED BY <2>3 DEF Step
<1>7. Is(c)
  <2> HIDE DEF Is
  <2> QED BY <1>6
<1>8. e = c
  <2>1. e = CHOOSE d : d = [j \in f..(k - 1) |->
                          \/ j = f
                          \/ \E reg \in Followed(f, k)[j] :
                                LastWrite(f, j, reg, TakenIn(f, k)) > 0
                                /\ d[LastWrite(f, j, reg, TakenIn(f, k))]]
    BY DEF Derived
  <2> QED BY <2>1
<1>9. c = [j \in f..n |-> j = f \/ Step(c, f, k, j)]
  <2> HIDE DEF n, c
  <2> QED BY <1>7 DEF Step
<1>10. c[f] /\ \A j \in (f + 1)..n : c[j] <=> Step(c, f, k, j)
  <2> HIDE DEF n, c
  <2> DEFINE x == c
             v == [j \in f..n |-> j = f \/ Step(x, f, k, j)]
  <2>1. c = v BY <1>9
  <2>2. f \in f..n /\ \A j \in (f + 1)..n : j \in f..n /\ j # f BY <1>1
  <2>3. \A j \in f..n : v[j] <=> j = f \/ Step(x, f, k, j) OBVIOUS
  <2> HIDE DEF v
  <2> QED BY <2>1, <2>2, <2>3
<1>11. \A j \in (f + 1)..n : c[j] <=> Chain(c, f, j)
  <2> HIDE DEF c
  <2>1. \A j \in (f + 1)..n : j \in f..(k - 1) OBVIOUS
  <2>2. \A j \in (f + 1)..n : Step(c, f, k, j) <=> Chain(c, f, j) BY <2>1, StepIsChain
  <2> HIDE DEF n
  <2> QED BY <1>10, <2>2
<1> HIDE DEF c, e
<1>12. e[f] /\ \A j \in (f + 1)..n : e[j] <=> Chain(e, f, j) BY <1>8, <1>10, <1>11
<1> QED BY <1>12 DEF e

\* Of a plain instruction everything is taken in.
LEMMA PlainIsTakenIn ==
  ASSUME NEW ins, Plain(ins)
  PROVE  Assigned(ins) = Defined(ins) /\ Read(ins) = Traceable(ins)
<1>1. ins.kind \notin {"subs", "ldp", "bfi", "rev"} BY DEF Plain
<1>2. Second(ins) = NoReg BY <1>1 DEF Second
<1>3. Carries(ins) <=> IsLoad(ins) \/ IsTransform(ins) BY <1>1 DEF Carries
<1>4. IsLoad(ins) \/ IsTransform(ins) \/ ins.kind = "adr" => ~IsCompare(ins)
  BY <1>1 DEF IsLoad, IsTransform, IsCompare
<1>5. Assigned(ins) = Defined(ins)
  <2>1. CASE IsLoad(ins) \/ IsTransform(ins) \/ ins.kind = "adr"
    <3>1. Dest(ins) = ins.reg BY <1>4, <2>1 DEF Dest
    <3>2. Assigned(ins) = {ins.reg, NoReg} \ {NoReg} BY <1>2, <1>3, <2>1 DEF Assigned
    <3> QED BY <3>1, <3>2 DEF Defined
  <2>2. CASE ~(IsLoad(ins) \/ IsTransform(ins) \/ ins.kind = "adr")
    <3>1. Dest(ins) = NoReg BY <1>1, <2>2 DEF Dest
    <3>2. Assigned(ins) = {} BY <1>3, <2>2 DEF Assigned
    <3> QED BY <3>1, <3>2 DEF Defined
  <2> QED BY <2>1, <2>2
<1>6. Read(ins) = Traceable(ins)
  <2>1. CASE Carries(ins)
    <3>1. Read(ins) = ({ins.uses[n] : n \in DOMAIN ins.uses \ {}} \cup {}) \ {NoReg}
      BY <1>1, <2>1 DEF Read
    <3>2. Traceable(ins) = {ins.uses[n] : n \in DOMAIN ins.uses} \ {NoReg}
      BY <1>3, <2>1 DEF Traceable, Uses
    <3> QED BY <3>1, <3>2
  <2>2. CASE ~Carries(ins)
    BY <1>3, <2>2 DEF Read, Traceable
  <2> QED BY <2>1, <2>2
<1> QED BY <1>5, <1>6

-----------------------------------------------------------------------------
(* The fetch that a site is judged by.                                      *)
LEMMA BlockBefore ==
  ASSUME NEW s, NEW k \in Nat \ {0}
  PROVE  Block(s, k) \subseteq 1..(k - 1)
<1> DEFINE T == {i \in (Floor(k) + 1)..k : Breaks(s, i)} \cup {Floor(k)}
<1>1. Floor(k) \in 1..k BY WalkAssumption DEF Floor
<1>2. T \in SUBSET (0..k) /\ T # {} /\ \A i \in T : i >= 1
  <2>1. \A i \in (Floor(k) + 1)..k : i \in 0..k /\ i >= 1 BY <1>1
  <2> QED BY <1>1, <2>1
<1>3. Boundary(s, k) = Most(T) BY DEF Boundary
<1>4. Most(T) \in T
  <2> HIDE DEF T
  <2> QED BY <1>2, MostIsGreatest
<1>5. Boundary(s, k) \in 1..k
  <2>1. \A i \in T : i \in 1..k BY <1>2
  <2> HIDE DEF T
  <2> QED BY <2>1, <1>3, <1>4
<1> QED BY <1>5 DEF Block

LEMMA FetchIsLoad ==
  ASSUME NEW s, NEW k \in Nat \ {0}, OpcodeFetch(s, k) > 0
  PROVE  /\ OpcodeFetch(s, k) \in Fetches(s, k)
         /\ OpcodeFetch(s, k) \in 1..(k - 1) /\ IsLoad(s[OpcodeFetch(s, k)])
<1> DEFINE f == OpcodeFetch(s, k)
<1>1. Fetches(s, k) \subseteq 1..(k - 1) /\ \A i \in Fetches(s, k) : IsLoad(s[i])
  <2>1. \A i : IsOpcodeLoad(s[i]) => IsLoad(s[i]) BY DEF IsOpcodeLoad, IsLoad
  <2> QED BY <2>1, BlockBefore DEF Fetches
<1>2. Leading(s, k) \subseteq Fetches(s, k) BY DEF Leading
<1>3. f \in Fetches(s, k)
  <2>1. CASE Leading(s, k) # {}
    <3> DEFINE T == Leading(s, k)
    <3>1. T \in SUBSET (0..k) /\ T # {} BY <1>1, <1>2, <2>1
    <3>2. f = Most(T) BY <2>1 DEF OpcodeFetch
    <3> HIDE DEF T, f
    <3>3. f \in T BY <3>1, <3>2, MostIsGreatest
    <3> QED BY <3>3, <1>2 DEF T
  <2>2. CASE Leading(s, k) = {}
    <3> DEFINE T == Fetches(s, k) \cup {0}
    <3>1. T \in SUBSET (0..k) /\ T # {} BY <1>1
    <3>2. f = Most(T) BY <2>2 DEF OpcodeFetch
    <3>3. f > 0 OBVIOUS
    <3> HIDE DEF T, f
    <3>4. f \in T BY <3>1, <3>2, MostIsGreatest
    <3> QED BY <3>3, <3>4 DEF T
  <2> QED BY <2>1, <2>2
<1>4. f \in 1..(k - 1) /\ IsLoad(s[f]) BY <1>1, <1>3
<1> QED BY <1>3, <1>4

\* What the flow of a site says if the handler itself is not what is fetched.
LEMMA FlowFacts ==
  ASSUME NEW s, NEW k, Flow(s, k).fetch > 0, ~Flow(s, k).direct
  PROVE  /\ Flow(s, k).fetch = OpcodeFetch(s, k)
         /\ Flow(s, k).linked <=>
              s[k].reg \in Tainted(s, OpcodeFetch(s, k), k, s[OpcodeFetch(s, k)].reg)[k]
<1> DEFINE d == DirectFetch(s, k)
           f == IF d > 0 THEN d ELSE OpcodeFetch(s, k)
           taint == IF f > 0 THEN Tainted(s, f, k, s[f].reg) ELSE << >>
           trace == Trace(s, k, s[k].reg, f, taint)
<1>1. Flow(s, k) = Found(s, k, d, f, taint, trace) BY DEF Flow, FlowOf, Fetched, Traced
<1> HIDE DEF d, trace
<1>2. /\ Flow(s, k).fetch = f
      /\ Flow(s, k).direct = (d > 0)
      /\ Flow(s, k).linked = (f > 0 /\ d = 0 /\ s[k].reg \in taint[k])
  <2> HIDE DEF f, taint
  <2> QED BY <1>1 DEF Found
<1>3. ~(d > 0) BY <1>2
<1>4. d = 0 BY <1>3 DEF d, DirectFetch
<1>5. f = OpcodeFetch(s, k) /\ f > 0 BY <1>2, <1>3
<1>6. taint = Tainted(s, f, k, s[f].reg) BY <1>5
<1> HIDE DEF f, taint
<1> QED BY <1>2, <1>4, <1>5, <1>6

\* A site goes through a register.
LEMMA SiteHasRegister ==
  ASSUME WInv, NEW k \in DOMAIN insns, IsIndirect(insns[k])
  PROVE  insns[k].reg # NoReg
<1>1. insns[k] \in Instructions BY DEF WInv
<1>2. PICK w \in Words, a \in Nat : insns[k] = Populate(w, a) BY <1>1 DEF Instructions
<1>3. insns[k].kind = w.kind /\ insns[k].reg = Canonical(w.reg) BY <1>2 DEF Populate
<1>4. insns[k].kind \in {"br", "blr"} \/ insns[k].reg # NoReg
  BY DEF IsIndirect, IsIndirectBranch, IsIndirectCall, IsReturnDispatch
<1> QED BY <1>3, <1>4, WalkAssumption

-----------------------------------------------------------------------------
\* Each indirect transfer of the code is said to be linked to the opcode
\* exactly if a chain of definitions leads from the fetch to its register.
LEMMA LinkTakenIn ==
  ASSUME WInv, NEW k \in Sites, Flow(insns, k).fetch > 0, ~Flow(insns, k).direct
  PROVE  /\ OpcodeFetch(insns, k) \in 1..(k - 1) /\ k \in Nat
         /\ Flow(insns, k).fetch = OpcodeFetch(insns, k)
         /\ Flow(insns, k).linked =
              LinkedByDefinitions(OpcodeFetch(insns, k), k,
                TakenIn(OpcodeFetch(insns, k), k), Followed(OpcodeFetch(insns, k), k))
<1> DEFINE f == OpcodeFetch(insns, k)
           d == Derived(f, k, TakenIn(f, k), Followed(f, k))
           t == Tainted(insns, f, k, insns[f].reg)
<1>1. k \in DOMAIN insns /\ IsIndirect(insns[k]) BY DEF Sites
<1>2. k \in Nat \ {0} BY <1>1 DEF WInv
<1>3. Flow(insns, k).fetch = f /\ f > 0 /\ (Flow(insns, k).linked <=> insns[k].reg \in t[k])
  BY FlowFacts
<1>4. f \in 1..(k - 1) /\ IsLoad(insns[f]) BY <1>2, <1>3, FetchIsLoad
<1>4a. ~IsCompare(insns[f]) BY <1>4 DEF IsLoad, IsCompare
<1>5. d[f] /\ \A j \in (f + 1)..(k - 1) : d[j] <=> Chain(d, f, j)
  <2>1. f \in Nat \ {0} /\ f < k BY <1>2, <1>4
  <2> HIDE DEF f
  <2> QED BY <1>2, <2>1, <1>4, <1>4a, DerivedIsChain
<1>6. Flows(t, insns, f, k, insns[f].reg)
  <2> HIDE DEF f
  <2> QED BY <1>2, <1>4, TaintedFlows
<1>7. \A j \in (f + 1)..(k - 1) : Means(t, d, f, j) => (d[j] <=> Propagates(insns[j], t[j]))
  <2> HIDE DEF f, d, t
  <2> QED BY <1>5, ChainPropagates
<1>8. Means(t, d, f, k)
  <2> HIDE DEF f, d, t
  <2>1. f \in Nat \ {0} /\ k > f /\ k \in (f + 1)..k BY <1>2, <1>4
  <2> QED BY <1>2, <2>1, <1>4, <1>4a, <1>5, <1>6, <1>7, TaintMeans
<1>9. insns[k].reg # NoReg BY <1>1, SiteHasRegister
<1>10. LastWrite(f, k, insns[k].reg, TakenIn(f, k)) = LastDest(f, k, insns[k].reg)
  <2> HIDE DEF f
  <2>1. f \in Nat /\ k <= k BY <1>2, <1>4
  <2> QED BY <1>2, <1>9, <2>1, LastWriteIsLastDest
<1>11. insns[k].reg \in t[k] <=> LinkedByDefinitions(f, k, TakenIn(f, k), Followed(f, k))
  <2>1. insns[k].reg \in t[k]
          <=> LastDest(f, k, insns[k].reg) > 0 /\ d[LastDest(f, k, insns[k].reg)]
    BY <1>8, <1>9 DEF Means
  <2> HIDE DEF f, t
  <2> QED BY <2>1, <1>10 DEF LinkedByDefinitions
<1> HIDE DEF f, t, d
<1>12. /\ Flow(insns, k).linked \in BOOLEAN
       /\ LinkedByDefinitions(f, k, TakenIn(f, k), Followed(f, k)) \in BOOLEAN
  BY DEF Flow, FlowOf, Fetched, Traced, Found, LinkedByDefinitions
<1>13. Flow(insns, k).linked = LinkedByDefinitions(f, k, TakenIn(f, k), Followed(f, k))
  BY <1>3, <1>11, <1>12
<1> QED BY <1>2, <1>3, <1>4, <1>13 DEF f

LEMMA LinkHolds ==
  ASSUME WInv
  PROVE  LinkIsDataFlow
<1> DEFINE way(k) == Flow(insns, k).fetch..(k - 1)
           writes(k) == [i \in way(k) |-> Assigned(insns[i])]
           reads(k) == [i \in way(k) |-> Read(insns[i])]
           taken(k) == [i \in way(k) |-> Defined(insns[i])]
           traced(k) == [i \in way(k) |-> Traceable(insns[i])]
<1>1. ASSUME NEW k \in Sites, Flow(insns, k).fetch > 0, ~Flow(insns, k).direct
      PROVE  Flow(insns, k).linked
               = LinkedByDefinitions(Flow(insns, k).fetch, k, taken(k), traced(k))
  <2>1. Flow(insns, k).fetch = OpcodeFetch(insns, k) BY <1>1, LinkTakenIn
  <2>2. /\ taken(k) = TakenIn(Flow(insns, k).fetch, k)
        /\ traced(k) = Followed(Flow(insns, k).fetch, k)
    BY DEF TakenIn, Followed
  <2> HIDE DEF taken, traced
  <2>3. Flow(insns, k).linked =
          LinkedByDefinitions(Flow(insns, k).fetch, k,
            TakenIn(Flow(insns, k).fetch, k), Followed(Flow(insns, k).fetch, k))
    BY <1>1, <2>1, LinkTakenIn
  <2> QED BY <2>2, <2>3
<1>2. ASSUME NEW k \in Sites, Flow(insns, k).fetch > 0, ~Flow(insns, k).direct,
             \A i \in way(k) : Plain(insns[i])
      PROVE  Flow(insns, k).linked
               = LinkedByDefinitions(Flow(insns, k).fetch, k, writes(k), reads(k))
  <2>1. \A i \in way(k) : Assigned(insns[i]) = Defined(insns[i]) /\ Read(insns[i]) = Traceable(insns[i])
    BY <1>2, PlainIsTakenIn
  <2>2. writes(k) = taken(k) /\ reads(k) = traced(k)
    <3> HIDE DEF way
    <3> QED BY <2>1
  <2> HIDE DEF writes, reads, taken, traced
  <2> QED BY <1>1, <1>2, <2>2
<1> QED BY <1>1, <1>2 DEF LinkIsDataFlow

\* Whatever the code, an indirect transfer is found to be linked to the fetch
\* of an opcode exactly if a chain of the definitions that destination_reg
\* reports leads from one to the other; and if only plain instructions lie
\* between them, exactly if what is fetched reaches the target (LinkIsDataFlow).
THEOREM LinksAreDataFlow == Spec => []LinkIsDataFlow
<1> QED BY InitW, NextW, LinkHolds, PTL DEF Spec

-----------------------------------------------------------------------------
(* Code that begins where nothing flows in: r is what remains of s without  *)
(* its first o instructions, and m + o the place of a site.                 *)
Remains(s, r, o, m) ==
  /\ o \in Nat \ {0} /\ m \in Nat \ {0}
  /\ \A j \in 1..m : r[j] = s[j + o]
  /\ Breaks(s, o + 1)

Later(x, o) == IF x > 0 THEN x + o ELSE 0

LEMMA BoundaryIs ==
  ASSUME NEW s, NEW k \in Nat \ {0}
  PROVE  /\ Floor(k) \in 1..k
         /\ Boundary(s, k) \in Floor(k)..k
         /\ Boundary(s, k) = Floor(k) \/ Breaks(s, Boundary(s, k))
         /\ \A j \in (Boundary(s, k) + 1)..k : ~Breaks(s, j)
<1> DEFINE T == {i \in (Floor(k) + 1)..k : Breaks(s, i)} \cup {Floor(k)}
<1>1. Floor(k) \in 1..k BY WalkAssumption DEF Floor
<1>2. T \in SUBSET (0..k) /\ T # {} /\ \A i \in T : i \in Floor(k)..k
  <2>1. \A i \in (Floor(k) + 1)..k : i \in 0..k /\ i \in Floor(k)..k BY <1>1
  <2>2. Floor(k) \in 0..k /\ Floor(k) \in Floor(k)..k BY <1>1
  <2> QED BY <2>1, <2>2
<1>3. Boundary(s, k) = Most(T) BY DEF Boundary
<1>4. Boundary(s, k) \in T /\ \A y \in T : Boundary(s, k) >= y
  <2> HIDE DEF T
  <2> QED BY <1>2, <1>3, MostIsGreatest
<1>5. Boundary(s, k) \in Floor(k)..k BY <1>2, <1>4
<1>6. ASSUME NEW j \in (Boundary(s, k) + 1)..k PROVE ~Breaks(s, j)
  <2>1. j \in (Floor(k) + 1)..k /\ ~(Boundary(s, k) >= j) BY <1>1, <1>5
  <2>2. j \notin T BY <2>1, <1>4
  <2> QED BY <2>1, <2>2
<1> QED BY <1>1, <1>4, <1>5, <1>6

LEMMA BoundaryUnique ==
  ASSUME NEW s, NEW k \in Nat \ {0}, NEW b \in Floor(k)..k, b = Floor(k) \/ Breaks(s, b),
         \A j \in (b + 1)..k : ~Breaks(s, j)
  PROVE  Boundary(s, k) = b
<1> DEFINE c == Boundary(s, k)
<1>1. /\ Floor(k) \in 1..k /\ c \in Floor(k)..k /\ (c = Floor(k) \/ Breaks(s, c))
      /\ \A j \in (c + 1)..k : ~Breaks(s, j)
  BY BoundaryIs
<1> HIDE DEF c
<1>2. ~(c < b)
  <2>1. SUFFICES ASSUME c < b PROVE FALSE OBVIOUS
  <2>2. b \in (c + 1)..k /\ b # Floor(k) BY <1>1, <2>1
  <2> QED BY <1>1, <2>2
<1>3. ~(b < c)
  <2>1. SUFFICES ASSUME b < c PROVE FALSE OBVIOUS
  <2>2. c \in (b + 1)..k /\ c # Floor(k) BY <1>1, <2>1
  <2> QED BY <1>1, <2>2
<1> QED BY <1>1, <1>2, <1>3 DEF c

\* Nothing flows into an instruction of r that does not flow into that of s.
LEMMA TailBreaks ==
  ASSUME NEW s, NEW r, NEW o, NEW m, Remains(s, r, o, m), NEW j \in 2..m
  PROVE  Breaks(r, j) <=> Breaks(s, j + o)
<1>1. r[j] = s[j + o] /\ r[j - 1] = s[(j + o) - 1]
  <2>1. j \in 1..m /\ j - 1 \in 1..m /\ (j - 1) + o = (j + o) - 1 BY DEF Remains
  <2> QED BY <2>1 DEF Remains
<1> QED BY <1>1 DEF Breaks

LEMMA TailBoundary ==
  ASSUME NEW s, NEW r, NEW o, NEW m, Remains(s, r, o, m)
  PROVE  /\ Boundary(r, m) \in 1..m
         /\ Boundary(s, m + o) = Boundary(r, m) + o
<1> DEFINE c == Boundary(r, m)
           k == m + o
<1>0. o \in Nat \ {0} /\ m \in Nat \ {0} /\ k \in Nat \ {0} /\ Breaks(s, o + 1) BY DEF Remains
<1>1. /\ Floor(m) \in 1..m /\ c \in Floor(m)..m /\ (c = Floor(m) \/ Breaks(r, c))
      /\ \A j \in (c + 1)..m : ~Breaks(r, j)
  BY <1>0, BoundaryIs
<1> HIDE DEF c
<1>2. /\ Floor(m) = 1 \/ Floor(m) + o = Floor(k)
      /\ Floor(m) + o >= Floor(k) /\ Floor(k) \in 1..k
  BY <1>0, WalkAssumption DEF Floor
<1>3. c + o \in Floor(k)..k BY <1>0, <1>1, <1>2
<1>4. c + o = Floor(k) \/ Breaks(s, c + o)
  <2>1. CASE c = Floor(m)
    <3>1. CASE Floor(m) = 1
      <4>1. c + o = o + 1 BY <2>1, <3>1, <1>0
      <4> QED BY <4>1, <1>0
    <3> QED BY <2>1, <3>1, <1>2
  <2>2. CASE c # Floor(m)
    <3>1. c \in 2..m BY <2>2, <1>1
    <3> QED BY <2>2, <3>1, <1>1, TailBreaks
  <2> QED BY <2>1, <2>2
<1>5. ASSUME NEW j \in ((c + o) + 1)..k PROVE ~Breaks(s, j)
  <2> DEFINE h == j - o
  <2>1. h \in (c + 1)..m /\ h \in 2..m /\ h + o = j BY <1>0, <1>1
  <2>2. ~Breaks(r, h) BY <2>1, <1>1
  <2> HIDE DEF h
  <2>3. Breaks(r, h) <=> Breaks(s, h + o) BY <2>1, TailBreaks
  <2> QED BY <2>1, <2>2, <2>3
<1>6. Boundary(s, k) = c + o
  <2> HIDE DEF k
  <2> QED BY <1>0, <1>3, <1>4, <1>5, BoundaryUnique
<1>7. c \in 1..m BY <1>0, <1>1
<1> QED BY <1>6, <1>7 DEF c

\* The block is the same one.
LEMMA TailBlock ==
  ASSUME NEW s, NEW r, NEW o, NEW m, Remains(s, r, o, m)
  PROVE  /\ Block(r, m) \subseteq 1..(m - 1)
         /\ \A j \in Block(r, m) : j + o \in Block(s, m + o)
         /\ \A i \in Block(s, m + o) : i - o \in Block(r, m)
         /\ s[Boundary(s, m + o)] = r[Boundary(r, m)]
<1> DEFINE c == Boundary(r, m)
<1>1. o \in Nat \ {0} /\ m \in Nat \ {0} BY DEF Remains
<1>2. c \in 1..m /\ Boundary(s, m + o) = c + o BY TailBoundary
<1>3. s[c + o] = r[c] BY <1>2 DEF Remains
<1>4. Block(r, m) = c..(m - 1) /\ Block(s, m + o) = (c + o)..((m + o) - 1) BY <1>2 DEF Block
<1> HIDE DEF c
<1>5. Block(r, m) \subseteq 1..(m - 1) BY <1>1, <1>2, <1>4
<1>6. \A j \in c..(m - 1) : j + o \in (c + o)..((m + o) - 1) BY <1>1, <1>2
<1>7. \A i \in (c + o)..((m + o) - 1) : i - o \in c..(m - 1) BY <1>1, <1>2
<1> QED BY <1>2, <1>3, <1>4, <1>5, <1>6, <1>7 DEF c

\* A condition on the instructions of the block holds for the same ones.
LEMMA TailWord ==
  ASSUME NEW s, NEW r, NEW o, NEW m, Remains(s, r, o, m), NEW j \in 1..m
  PROVE  r[j] = s[j + o]
BY DEF Remains

-----------------------------------------------------------------------------
(* The fetch moves with the code.                                           *)
LEMMA MostMoves ==
  ASSUME NEW n \in Nat, NEW T \in SUBSET (1..n), NEW o \in Nat, NEW U,
         \A x \in T : x + o \in U, \A y \in U : y - o \in T /\ y \in Nat
  PROVE  /\ T = {} <=> U = {}
         /\ T # {} => Most(T) \in T /\ Most(U) = Most(T) + o
         /\ Most(T \cup {0}) \in T \cup {0}
         /\ Most(U \cup {0}) = Later(Most(T \cup {0}), o)
<1>1. T = {} <=> U = {} OBVIOUS
<1>2. U \in SUBSET (0..(n + o))
  <2> SUFFICES ASSUME NEW y \in U PROVE y \in 0..(n + o)
    OBVIOUS
  <2>1. y \in Nat /\ y - o \in 1..n OBVIOUS
  <2> QED BY <2>1
<1>3. \A x \in T : x \in 1..n /\ x \in Nat /\ x > 0
  <2>1. \A x \in 1..n : x \in Nat /\ x > 0 OBVIOUS
  <2> QED BY <2>1
<1>4. ASSUME T # {} PROVE Most(T) \in T /\ Most(U) = Most(T) + o
  <2>1. T \in SUBSET (0..n) BY <1>3
  <2>2. Most(T) \in T /\ \A y \in T : Most(T) >= y BY <2>1, <1>4, MostIsGreatest
  <2>3. U # {} BY <1>1, <1>4
  <2>4. n + o \in Nat OBVIOUS
  <2>5. Most(U) \in U /\ \A y \in U : Most(U) >= y BY <1>2, <2>3, <2>4, MostIsGreatest
  <2>6. Most(U) - o \in T /\ Most(T) + o \in U /\ Most(U) \in Nat BY <2>2, <2>5
  <2>7. Most(T) >= Most(U) - o /\ Most(U) >= Most(T) + o BY <2>2, <2>5, <2>6
  <2>8. Most(T) \in Nat BY <2>2, <1>3
  <2> QED BY <2>2, <2>6, <2>7, <2>8
<1>6. U \in SUBSET (1..(n + o))
  <2> SUFFICES ASSUME NEW y \in U PROVE y \in 1..(n + o)
    OBVIOUS
  <2>1. y \in Nat /\ y - o \in 1..n OBVIOUS
  <2> QED BY <2>1
<1>5. n + o \in Nat OBVIOUS
<1>7. CASE T # {}
  <2>1. Most(T \cup {0}) = Most(T) /\ Most(T) \in T BY <1>7, MostOrNone
  <2>2. Most(U \cup {0}) = Most(U) BY <1>1, <1>5, <1>6, <1>7, MostOrNone
  <2>3. Most(U) = Most(T) + o BY <1>4, <1>7
  <2>4. Most(T) > 0 BY <2>1, <1>3
  <2> QED BY <1>1, <1>4, <2>1, <2>2, <2>3, <2>4 DEF Later
<1>8. CASE T = {}
  <2>1. Most(T \cup {0}) = 0 /\ Most(U \cup {0}) = 0 BY <1>1, <1>5, <1>6, <1>8, MostOrNone
  <2>2. Most(T \cup {0}) \in T \cup {0} BY <2>1
  <2>3. Most(U \cup {0}) = Later(Most(T \cup {0}), o) BY <2>1 DEF Later
  <2> QED BY <1>1, <1>8, <2>2, <2>3
<1> QED BY <1>7, <1>8

-----------------------------------------------------------------------------
LEMMA TailAdvance ==
  ASSUME NEW s, NEW r, NEW o, NEW m, Remains(s, r, o, m), NEW f \in 1..(m - 1), NEW vip
  PROVE  VipAdvance(s, f + o, m + o, vip) <=> VipAdvance(r, f, m, vip)
<1> DEFINE T == Writes(r, f, m, vip)
           U == Writes(s, f + o, m + o, vip)
<1>1. o \in Nat \ {0} /\ m \in Nat \ {0} BY DEF Remains
<1>2. r[f] = s[f + o]
  <2>1. f \in 1..m BY <1>1
  <2> QED BY <2>1, TailWord
<1>3. \A j \in T : j + o \in U /\ s[j + o] = r[j]
  <2> SUFFICES ASSUME NEW j \in (f + 1)..(m - 1), Dest(r[j]) = vip
               PROVE  j + o \in U /\ s[j + o] = r[j]
    BY DEF Writes
  <2>1. j \in 1..m /\ j + o \in ((f + o) + 1)..((m + o) - 1) BY <1>1
  <2>2. r[j] = s[j + o] BY <2>1, TailWord
  <2> QED BY <2>1, <2>2 DEF Writes
<1>4. \A i \in U : i - o \in T /\ r[i - o] = s[i]
  <2> SUFFICES ASSUME NEW i \in ((f + o) + 1)..((m + o) - 1), Dest(s[i]) = vip
               PROVE  i - o \in T /\ r[i - o] = s[i]
    BY DEF Writes
  <2> DEFINE j == i - o
  <2>1. j \in 1..m /\ j \in (f + 1)..(m - 1) /\ j + o = i BY <1>1
  <2> HIDE DEF j
  <2>2. r[j] = s[j + o] BY <2>1, TailWord
  <2>3. j \in T /\ r[j] = s[i] BY <2>1, <2>2 DEF Writes
  <2> QED BY <2>3 DEF j
<1> HIDE DEF T, U
<1>5. (\A i \in U : IsTransform(s[i]) /\ vip \in Uses(s[i]))
        <=> (\A j \in T : IsTransform(r[j]) /\ vip \in Uses(r[j]))
  BY <1>3, <1>4
<1>6. (\E i \in U : Advances(s[i], vip)) <=> (\E j \in T : Advances(r[j], vip))
  BY <1>3, <1>4
<1> QED BY <1>2, <1>5, <1>6 DEF VipAdvance, T, U

LEMMA TailTaint ==
  ASSUME NEW s, NEW r, NEW o, NEW m, Remains(s, r, o, m), NEW f \in 1..(m - 1), NEW reg
  PROVE  \A i \in (f + 1)..m : Tainted(s, f + o, m + o, reg)[i + o] = Tainted(r, f, m, reg)[i]
<1> DEFINE t == Tainted(r, f, m, reg)
           u == Tainted(s, f + o, m + o, reg)
           Bad == {i \in (f + 1)..m : u[i + o] # t[i]}
<1>1. o \in Nat \ {0} /\ m \in Nat \ {0} BY DEF Remains
<1>2. Flows(t, r, f, m, reg) BY <1>1, TaintedFlows
<1>3. Flows(u, s, f + o, m + o, reg)
  <2> DEFINE ff == f + o
             mm == m + o
  <2>1. ff \in Nat /\ mm \in Nat /\ mm > ff BY <1>1
  <2> HIDE DEF ff, mm
  <2>2. Flows(Tainted(s, ff, mm, reg), s, ff, mm, reg) BY <2>1, TaintedFlows
  <2> QED BY <2>2 DEF ff, mm
<1> HIDE DEF t, u
<1>4. SUFFICES ASSUME Bad # {} PROVE FALSE BY DEF t, u
<1>5. PICK i \in Bad : \A j \in Bad : i <= j
  <2>1. Bad \subseteq Nat OBVIOUS
  <2> HIDE DEF Bad
  <2> QED BY <1>4, <2>1, LeastNatural
<1>6. i # f + 1
  <2>1. t[f + 1] = {reg} /\ u[(f + o) + 1] = {reg} BY <1>2, <1>3 DEF Flows
  <2>2. (f + o) + 1 = (f + 1) + o BY <1>1
  <2>3. u[(f + 1) + o] = t[f + 1] BY <2>1, <2>2
  <2> QED BY <1>5, <2>3
<1> DEFINE h == i - 1
<1>7. h \in (f + 1)..m /\ i \in (f + 2)..m /\ ~(i <= h) /\ i = h + 1
  <2>1. i \in (f + 1)..m /\ f \in Nat BY <1>1, <1>5
  <2> QED BY <2>1, <1>1, <1>6
<1>8. u[h + o] = t[h]
  <2>1. h \notin Bad BY <1>5, <1>7
  <2> QED BY <2>1, <1>7
<1>9. t[i] = Carry(r[h], t[h]) BY <1>2, <1>7 DEF Flows
<1>10. u[i + o] = Carry(s[h + o], u[h + o])
  <2>1. i + o \in ((f + o) + 2)..(m + o) /\ (i + o) - 1 = h + o BY <1>1, <1>7
  <2> HIDE DEF h
  <2>2. u[i + o] = Carry(s[(i + o) - 1], u[(i + o) - 1]) BY <1>3, <2>1 DEF Flows
  <2> QED BY <2>1, <2>2
<1>11. r[h] = s[h + o]
  <2>1. h \in 1..m BY <1>1, <1>7
  <2> QED BY <2>1, TailWord
<1> QED BY <1>5, <1>8, <1>9, <1>10, <1>11

LEMMA TailFetches ==
  ASSUME NEW s, NEW r, NEW o, NEW m, Remains(s, r, o, m)
  PROVE  /\ Fetches(r, m) \in SUBSET (1..(m - 1))
         /\ \A j \in Fetches(r, m) : j + o \in Fetches(s, m + o)
         /\ \A i \in Fetches(s, m + o) : i - o \in Fetches(r, m) /\ i \in Nat
<1>1. o \in Nat \ {0} /\ m \in Nat \ {0} BY DEF Remains
<1>2. /\ Block(r, m) \subseteq 1..(m - 1)
      /\ \A j \in Block(r, m) : j + o \in Block(s, m + o)
      /\ \A i \in Block(s, m + o) : i - o \in Block(r, m)
  BY TailBlock
<1>3. ASSUME NEW j \in Block(r, m)
      PROVE  r[j] = s[j + o] /\ \A vip : VipAdvance(s, j + o, m + o, vip) <=> VipAdvance(r, j, m, vip)
  <2>1. j \in 1..(m - 1) BY <1>2
  <2>2. j \in 1..m BY <1>1, <2>1
  <2> QED BY <2>1, <2>2, TailWord, TailAdvance
<1>4. ASSUME NEW j \in Fetches(r, m) PROVE j + o \in Fetches(s, m + o)
  <2>1. j \in Block(r, m) BY DEF Fetches
  <2>2. j + o \in Block(s, m + o) BY <2>1, <1>2
  <2> QED BY <2>1, <2>2, <1>3 DEF Fetches
<1>5. ASSUME NEW i \in Fetches(s, m + o) PROVE i - o \in Fetches(r, m) /\ i \in Nat
  <2> DEFINE j == i - o
  <2>1. i \in Block(s, m + o) BY DEF Fetches
  <2>2. j \in Block(r, m) BY <2>1, <1>2
  <2>3. i \in Nat /\ j + o = i
    <3>1. m + o \in Nat \ {0} BY <1>1
    <3>2. i \in 1..((m + o) - 1) BY <2>1, <3>1, BlockBefore
    <3> QED BY <3>2, <1>1
  <2> HIDE DEF j
  <2>4. r[j] = s[i] /\ \A vip : VipAdvance(s, i, m + o, vip) <=> VipAdvance(r, j, m, vip)
    BY <2>2, <2>3, <1>3
  <2>5. j \in Fetches(r, m) BY <2>2, <2>4 DEF Fetches
  <2> QED BY <2>3, <2>5 DEF j
<1>6. Fetches(r, m) \subseteq 1..(m - 1) BY <1>2 DEF Fetches
<1> QED BY <1>4, <1>5, <1>6

LEMMA TailLeading ==
  ASSUME NEW s, NEW r, NEW o, NEW m, Remains(s, r, o, m)
  PROVE  /\ Leading(r, m) \in SUBSET (1..(m - 1))
         /\ \A j \in Leading(r, m) : j + o \in Leading(s, m + o)
         /\ \A i \in Leading(s, m + o) : i - o \in Leading(r, m) /\ i \in Nat
<1>1. o \in Nat \ {0} /\ m \in Nat \ {0} BY DEF Remains
<1>2. /\ Fetches(r, m) \in SUBSET (1..(m - 1))
      /\ \A j \in Fetches(r, m) : j + o \in Fetches(s, m + o)
      /\ \A i \in Fetches(s, m + o) : i - o \in Fetches(r, m) /\ i \in Nat
  BY TailFetches
<1>3. ASSUME NEW j \in Fetches(r, m)
      PROVE  r[j] = s[j + o] /\ \A reg, target : Reaches(s, j + o, m + o, reg, target) <=> Reaches(r, j, m, reg, target)
  <2>1. j \in 1..(m - 1) BY <1>2
  <2>2. j \in 1..m /\ m \in (j + 1)..m BY <1>1, <2>1
  <2>3. \A reg : Tainted(s, j + o, m + o, reg)[m + o] = Tainted(r, j, m, reg)[m]
    BY <2>1, <2>2, TailTaint
  <2> QED BY <2>2, <2>3, TailWord DEF Reaches
<1>4. r[m] = s[m + o]
  <2>1. m \in 1..m BY <1>1
  <2> QED BY <2>1, TailWord
<1>5. ASSUME NEW j \in Leading(r, m) PROVE j + o \in Leading(s, m + o)
  <2>1. j \in Fetches(r, m) BY DEF Leading
  <2> QED BY <2>1, <1>2, <1>3, <1>4 DEF Leading
<1>6. ASSUME NEW i \in Leading(s, m + o) PROVE i - o \in Leading(r, m) /\ i \in Nat
  <2> DEFINE j == i - o
  <2>1. i \in Fetches(s, m + o) BY DEF Leading
  <2>2. j \in Fetches(r, m) /\ i \in Nat BY <2>1, <1>2
  <2>3. j + o = i BY <2>2, <1>1
  <2> HIDE DEF j
  <2>4. r[j] = s[i] /\ \A reg, target : Reaches(s, i, m + o, reg, target) <=> Reaches(r, j, m, reg, target)
    BY <2>2, <2>3, <1>3
  <2>5. j \in Leading(r, m) BY <2>2, <2>4, <1>4 DEF Leading
  <2> QED BY <2>2, <2>5 DEF j
<1>7. Leading(r, m) \subseteq 1..(m - 1) BY <1>2 DEF Leading
<1> QED BY <1>5, <1>6, <1>7

\* The opcode fetch is the same one, or there is none.
LEMMA TailOpcodeFetch ==
  ASSUME NEW s, NEW r, NEW o, NEW m, Remains(s, r, o, m)
  PROVE  /\ OpcodeFetch(r, m) \in 0..(m - 1)
         /\ OpcodeFetch(s, m + o) = Later(OpcodeFetch(r, m), o)
<1> DEFINE T == Leading(r, m)
           U == Leading(s, m + o)
           V == Fetches(r, m)
           W == Fetches(s, m + o)
           n == m - 1
<1>1. o \in Nat \ {0} /\ m \in Nat \ {0} /\ n \in Nat BY DEF Remains
<1>2. T \in SUBSET (1..n) /\ (\A x \in T : x + o \in U) /\ \A y \in U : y - o \in T /\ y \in Nat
  BY TailLeading
<1>3. V \in SUBSET (1..n) /\ (\A x \in V : x + o \in W) /\ \A y \in W : y - o \in V /\ y \in Nat
  BY TailFetches
<1>4. OpcodeFetch(r, m) = IF T # {} THEN Most(T) ELSE Most(V \cup {0}) BY DEF OpcodeFetch
<1>5. OpcodeFetch(s, m + o) = IF U # {} THEN Most(U) ELSE Most(W \cup {0}) BY DEF OpcodeFetch
<1> HIDE DEF T, U, V, W, n
<1>6. (T = {} <=> U = {}) /\ (T # {} => Most(T) \in T /\ Most(U) = Most(T) + o)
  BY <1>1, <1>2, MostMoves
<1>7. Most(V \cup {0}) \in V \cup {0} /\ Most(W \cup {0}) = Later(Most(V \cup {0}), o)
  BY <1>1, <1>3, MostMoves
<1>8. \A x \in V \cup {0} : x \in 0..n
  <2>1. \A x \in 1..n : x \in 0..n BY <1>1
  <2>2. 0 \in 0..n BY <1>1
  <2> QED BY <2>1, <2>2, <1>3
<1>9. \A x \in T : x \in 0..n /\ x > 0
  <2>1. \A x \in 1..n : x \in 0..n /\ x > 0 BY <1>1
  <2> QED BY <2>1, <1>2
<1>10. CASE T # {}
  <2>1. OpcodeFetch(r, m) = Most(T) /\ OpcodeFetch(s, m + o) = Most(T) + o BY <1>4, <1>5, <1>6, <1>10
  <2>2. Most(T) \in 0..n /\ Most(T) > 0 BY <1>6, <1>9, <1>10
  <2> QED BY <2>1, <2>2 DEF Later, n
<1>11. CASE T = {}
  <2>1. OpcodeFetch(r, m) = Most(V \cup {0}) /\ OpcodeFetch(s, m + o) = Most(W \cup {0})
    BY <1>4, <1>5, <1>6, <1>11
  <2>2. Most(V \cup {0}) \in 0..n BY <1>7, <1>8
  <2> QED BY <2>1, <2>2, <1>7 DEF n
<1> QED BY <1>10, <1>11

LEMMA TailDirectFetch ==
  ASSUME NEW s, NEW r, NEW o, NEW m, Remains(s, r, o, m)
  PROVE  /\ DirectFetch(r, m) \in 0..(m - 1)
         /\ DirectFetch(s, m + o) = Later(DirectFetch(r, m), o)
<1> DEFINE T == HandlerLoads(r, m)
           U == HandlerLoads(s, m + o)
           n == m - 1
           a == Most(T \cup {0})
           b == Most(U \cup {0})
<1>1. o \in Nat \ {0} /\ m \in Nat \ {0} /\ n \in Nat BY DEF Remains
<1>2. /\ Block(r, m) \subseteq 1..(m - 1)
      /\ \A j \in Block(r, m) : j + o \in Block(s, m + o)
      /\ \A i \in Block(s, m + o) : i - o \in Block(r, m)
  BY TailBlock
<1>3. \A j \in 1..m : r[j] = s[j + o] BY TailWord
<1>4. m \in 1..m /\ r[m] = s[m + o] BY <1>1, <1>3
<1>5. \A j \in 1..(m - 1) : j \in 1..m BY <1>1
<1>6. T \in SUBSET (1..n) BY <1>2 DEF HandlerLoads
<1>7. ASSUME NEW x \in T PROVE x + o \in U
  <2>1. x \in Block(r, m) BY DEF HandlerLoads
  <2>2. r[x] = s[x + o] /\ x + o \in Block(s, m + o) BY <2>1, <1>2, <1>3, <1>5
  <2> QED BY <2>2, <1>4 DEF HandlerLoads
<1>8. ASSUME NEW y \in U PROVE y - o \in T /\ y \in Nat
  <2> DEFINE j == y - o
  <2>1. y \in Block(s, m + o) BY DEF HandlerLoads
  <2>2. j \in Block(r, m) BY <2>1, <1>2
  <2>3. y \in Nat /\ j + o = y
    <3>1. m + o \in Nat \ {0} BY <1>1
    <3>2. y \in 1..((m + o) - 1) BY <2>1, <3>1, BlockBefore
    <3> QED BY <3>2, <1>1
  <2> HIDE DEF j
  <2>4. r[j] = s[y] BY <2>2, <2>3, <1>2, <1>3, <1>5
  <2>5. j \in T BY <2>2, <2>4, <1>4 DEF HandlerLoads
  <2> QED BY <2>3, <2>5 DEF j
<1>9. DirectFetch(r, m) = IF a > 0 /\ VipAdvance(r, a, m, r[a].base) THEN a ELSE 0 BY DEF DirectFetch
<1>10. DirectFetch(s, m + o) = IF b > 0 /\ VipAdvance(s, b, m + o, s[b].base) THEN b ELSE 0
  BY DEF DirectFetch
<1>11. a \in T \cup {0} /\ b = Later(a, o)
  <2> HIDE DEF T, U, n
  <2> QED BY <1>1, <1>6, <1>7, <1>8, MostMoves
<1>12. a = 0 \/ a \in 1..(m - 1) BY <1>6, <1>11
<1> HIDE DEF a, b
<1>13. CASE a = 0
  <2>1. b = 0 BY <1>11, <1>13 DEF Later
  <2>2. DirectFetch(r, m) = 0 /\ DirectFetch(s, m + o) = 0 BY <2>1, <1>9, <1>10, <1>13
  <2> QED BY <2>2, <1>1 DEF Later
<1>14. CASE a \in 1..(m - 1)
  <2>1. a > 0 /\ b = a + o /\ b > 0 /\ a \in 0..(m - 1) BY <1>1, <1>11, <1>14 DEF Later
  <2>2. r[a] = s[b] BY <2>1, <1>3, <1>5, <1>14
  <2>3. VipAdvance(s, b, m + o, s[b].base) <=> VipAdvance(r, a, m, r[a].base)
    BY <2>1, <2>2, <1>14, TailAdvance
  <2>4. CASE VipAdvance(r, a, m, r[a].base)
    BY <2>1, <2>3, <2>4, <1>9, <1>10 DEF Later
  <2>5. CASE ~VipAdvance(r, a, m, r[a].base)
    <3>1. DirectFetch(r, m) = 0 /\ DirectFetch(s, m + o) = 0 BY <2>3, <2>5, <1>9, <1>10
    <3> QED BY <3>1, <1>1 DEF Later
  <2> QED BY <2>4, <2>5
<1> QED BY <1>12, <1>13, <1>14

-----------------------------------------------------------------------------
(* Where a target comes from: the recursion of Trace has a solution, row by *)
(* row, and it moves with the code.                                         *)
Stopped(loaded, computed, base) == [loaded |-> loaded, computed |-> computed, base |-> base]
From(s, f, taint, i) == IF f > 0 /\ i > f THEN Source(s[i], taint[i]) ELSE NoReg
Regs(s, k, target) == {target} \cup UNION {Uses(s[j]) : j \in Block(s, k)}
Back(ins, reg, old, from) ==
  IF Dest(ins) # reg THEN old[reg]
  ELSE IF IsLoad(ins) THEN Stopped(TRUE, FALSE, ins.base)
  ELSE IF IsTransform(ins)
       THEN IF from # NoReg THEN [old[from] EXCEPT !.computed = TRUE]
            ELSE Stopped(FALSE, TRUE, NoReg)
  ELSE Stopped(FALSE, FALSE, NoReg)
Row(ins, regs, old, from) == [reg \in regs |-> Back(ins, reg, old, from)]
Unwritten(regs) == [reg \in regs |-> Stopped(FALSE, FALSE, NoReg)]

Traces(t, s, k, target, f, taint) ==
  /\ t[Boundary(s, k) - 1] = Unwritten(Regs(s, k, target))
  /\ \A i \in Boundary(s, k)..(k - 1) :
        t[i] = Row(s[i], Regs(s, k, target), t[i - 1], From(s, f, taint, i))

\* The first operand that is tainted is an operand.
LEMMA SourceIsUsed ==
  ASSUME NEW ins, DOMAIN ins.uses \subseteq Nat, NEW tainted, Source(ins, tainted) # NoReg
  PROVE  Source(ins, tainted) \in Uses(ins)
<1> DEFINE hit == {k \in DOMAIN ins.uses : ins.uses[k] \in tainted}
           c == CHOOSE k \in hit : \A j \in hit : k <= j
<1>1. hit # {} /\ Source(ins, tainted) = ins.uses[c] BY DEF Source
<1>2. hit \subseteq Nat OBVIOUS
<1>3. c \in hit
  <2> HIDE DEF hit
  <2> QED BY <1>1, <1>2, LeastNatural
<1>4. c \in DOMAIN ins.uses BY <1>3
<1> QED BY <1>1, <1>4 DEF Uses

\* The operands in the block are counted.
Countable(s, k) == \A j \in Block(s, k) : DOMAIN s[j].uses \subseteq Nat
HasTrace(s, k, target, f, taint) ==
  \E t : Traces(t, s, k, target, f, taint) /\ Trace(s, k, target, f, taint) = t[k - 1][target]

LEMMA TraceTraces ==
  ASSUME NEW s, NEW k \in Nat \ {0}, NEW target, NEW f, NEW taint, Countable(s, k)
  PROVE  HasTrace(s, k, target, f, taint)
<1> SUFFICES ASSUME \A j \in Block(s, k) : DOMAIN s[j].uses \subseteq Nat
             PROVE  \E t : Traces(t, s, k, target, f, taint) /\ Trace(s, k, target, f, taint) = t[k - 1][target]
  BY DEF Countable, HasTrace
<1> DEFINE B == Boundary(s, k)
           R == Regs(s, k, target)
           from(i) == From(s, f, taint, i)
           Cell(i, reg, t) == IF i < B THEN Stopped(FALSE, FALSE, NoReg)
                              ELSE Back(s[i], reg, t[i - 1], from(i))
           Is(t) == t = [i \in (B - 1)..(k - 1) |-> [reg \in R |-> Cell(i, reg, t)]]
           n == k - B
           S == [loaded : BOOLEAN, computed : BOOLEAN, base : {NoReg} \cup {s[j].base : j \in Block(s, k)}]
           A == [R -> S]
           G == [m \in 1..n |-> [old \in A |-> Row(s[B - 1 + m], R, old, from(B - 1 + m))]]
           c == CHOOSE t : Is(t)
<1>1. B \in 1..k /\ n \in Nat /\ \A i : i \in Block(s, k) <=> i \in B..(k - 1)
  <2>1. B \in 1..k BY BoundaryIs
  <2> QED BY <2>1 DEF Block
<1>2. ASSUME NEW m \in 1..n, NEW old \in A
      PROVE  Row(s[B - 1 + m], R, old, from(B - 1 + m)) \in A
  <2> DEFINE i == B - 1 + m
  <2>1. i \in Block(s, k)
    <3>1. i \in B..(k - 1) BY <1>1
    <3> QED BY <3>1, <1>1
  <2>2. from(i) # NoReg => from(i) \in R
    <3>1. from(i) # NoReg => from(i) \in Uses(s[i])
      <4> HIDE DEF i
      <4>1. DOMAIN s[i].uses \subseteq Nat BY <2>1
      <4> QED BY <4>1, SourceIsUsed DEF From
    <3> HIDE DEF i, from
    <3> QED BY <2>1, <3>1 DEF Regs
  <2>3. s[i].base \in {NoReg} \cup {s[j].base : j \in Block(s, k)} BY <2>1
  <2> SUFFICES ASSUME NEW reg \in R PROVE Back(s[i], reg, old, from(i)) \in S
    BY DEF Row
  <2> HIDE DEF i, from, R
  <2>4. old[reg] \in S OBVIOUS
  <2>5. Stopped(TRUE, FALSE, s[i].base) \in S BY <2>3 DEF Stopped
  <2>6. Stopped(FALSE, TRUE, NoReg) \in S /\ Stopped(FALSE, FALSE, NoReg) \in S BY DEF Stopped
  <2>7. from(i) # NoReg => [old[from(i)] EXCEPT !.computed = TRUE] \in S
    <3>1. SUFFICES ASSUME from(i) # NoReg PROVE [old[from(i)] EXCEPT !.computed = TRUE] \in S
      OBVIOUS
    <3>2. old[from(i)] \in S BY <2>2, <3>1
    <3> QED BY <3>2
  <2> HIDE DEF S
  <2> QED BY <2>4, <2>5, <2>6, <2>7 DEF Back
<1>3. G \in [1..n -> [A -> A]]
  <2> HIDE DEF A, n, from
  <2> QED BY <1>2
<1>4. Unwritten(R) \in A
  <2>1. Stopped(FALSE, FALSE, NoReg) \in S BY DEF Stopped
  <2> HIDE DEF S
  <2> QED BY <2>1 DEF Unwritten
<1>5. PICK u : Solution(u, n, A, Unwritten(R), G)
  <2> HIDE DEF n, A, G, R
  <2> QED BY <1>1, <1>3, <1>4, RecursionExists
<1>6. /\ u[0] = Unwritten(R)
      /\ \A m \in 1..n : u[m] = Row(s[B - 1 + m], R, u[m - 1], from(B - 1 + m))
  <2> HIDE DEF A, R, B, n, from
  <2>1. u \in [0..n -> A] /\ u[0] = Unwritten(R) /\ \A m \in 1..n : u[m] = G[m][u[m - 1]]
    BY <1>5 DEF Solution
  <2>2. ASSUME NEW m \in 1..n PROVE u[m] = Row(s[B - 1 + m], R, u[m - 1], from(B - 1 + m))
    <3>1. m - 1 \in 0..n BY <1>1
    <3>2. u[m - 1] \in A BY <3>1, <2>1
    <3>3. G[m][u[m - 1]] = Row(s[B - 1 + m], R, u[m - 1], from(B - 1 + m)) BY <3>2
    <3> QED BY <3>3, <2>1
  <2> QED BY <2>1, <2>2
<1> DEFINE w == [i \in (B - 1)..(k - 1) |-> u[i - (B - 1)]]
<1>7. Is(w)
  <2> HIDE DEF from, R, B
  <2> SUFFICES ASSUME NEW i \in (B - 1)..(k - 1) PROVE u[i - (B - 1)] = [reg \in R |-> Cell(i, reg, w)]
    OBVIOUS
  <2>1. CASE i = B - 1
    <3>1. i - (B - 1) = 0 /\ i < B BY <2>1, <1>1
    <3> HIDE DEF w
    <3> QED BY <3>1, <1>6 DEF Unwritten
  <2>2. CASE i # B - 1
    <3> DEFINE m == i - (B - 1)
    <3>1. m \in 1..n /\ B - 1 + m = i /\ ~(i < B) BY <2>2, <1>1
    <3>2. w[i - 1] = u[m - 1]
      <4>1. i - 1 \in (B - 1)..(k - 1) /\ (i - 1) - (B - 1) = m - 1 BY <2>2, <1>1
      <4> QED BY <4>1
    <3> HIDE DEF w, m
    <3>3. u[m] = Row(s[i], R, w[i - 1], from(i)) BY <3>1, <3>2, <1>6
    <3>4. u[m] = [reg \in R |-> Cell(i, reg, w)] BY <3>1, <3>3 DEF Row
    <3> QED BY <3>4 DEF m
  <2> QED BY <2>1, <2>2
<1>8. Is(c)
  <2> HIDE DEF Is
  <2> QED BY <1>7
<1>9. Trace(s, k, target, f, taint) = c[k - 1][target]
  BY DEF Trace, Regs, From, Back, Stopped
<1>10. \A i \in (B - 1)..(k - 1) : c[i] = [reg \in R |-> Cell(i, reg, c)]
  <2> HIDE DEF c, Cell, R, B
  <2> DEFINE x == c
             v == [i \in (B - 1)..(k - 1) |-> [reg \in R |-> Cell(i, reg, x)]]
  <2>1. c = v BY <1>8
  <2>2. \A i \in (B - 1)..(k - 1) : v[i] = [reg \in R |-> Cell(i, reg, x)] OBVIOUS
  <2> HIDE DEF v
  <2> QED BY <2>1, <2>2
<1>11. Traces(c, s, k, target, f, taint)
  <2> HIDE DEF c
  <2>1. c[B - 1] = Unwritten(R)
    <3>1. B - 1 \in (B - 1)..(k - 1) /\ B - 1 < B BY <1>1
    <3> HIDE DEF B, R
    <3> QED BY <3>1, <1>10 DEF Unwritten
  <2>2. ASSUME NEW i \in B..(k - 1) PROVE c[i] = Row(s[i], R, c[i - 1], from(i))
    <3>1. i \in (B - 1)..(k - 1) /\ ~(i < B) BY <1>1
    <3> HIDE DEF B, R, from
    <3> QED BY <3>1, <1>10 DEF Row
  <2> QED BY <2>1, <2>2 DEF Traces
<1> QED BY <1>9, <1>11

LEMMA TailRegs ==
  ASSUME NEW s, NEW r, NEW o, NEW m, Remains(s, r, o, m), NEW target
  PROVE  Regs(s, m + o, target) = Regs(r, m, target)
<1>1. o \in Nat \ {0} /\ m \in Nat \ {0} BY DEF Remains
<1>2. ASSUME NEW j \in Block(r, m) PROVE j + o \in Block(s, m + o) /\ r[j] = s[j + o]
  <2>1. j \in 1..(m - 1) BY TailBlock
  <2>2. j \in 1..m BY <1>1, <2>1
  <2> QED BY <2>2, TailBlock, TailWord
<1>3. ASSUME NEW i \in Block(s, m + o) PROVE i - o \in Block(r, m) /\ r[i - o] = s[i]
  <2> DEFINE j == i - o
  <2>1. j \in Block(r, m) BY TailBlock
  <2>2. j + o = i
    <3>1. m + o \in Nat \ {0} BY <1>1
    <3>2. i \in 1..((m + o) - 1) BY <3>1, BlockBefore
    <3> QED BY <3>2, <1>1
  <2> HIDE DEF j
  <2>3. r[j] = s[i] BY <2>1, <2>2, <1>2
  <2> QED BY <2>1, <2>3 DEF j
<1>4. \A x : x \in UNION {Uses(s[i]) : i \in Block(s, m + o)} <=> x \in UNION {Uses(r[j]) : j \in Block(r, m)}
  <2>1. \A x : x \in UNION {Uses(s[i]) : i \in Block(s, m + o)} <=> \E i \in Block(s, m + o) : x \in Uses(s[i])
    OBVIOUS
  <2>2. \A x : x \in UNION {Uses(r[j]) : j \in Block(r, m)} <=> \E j \in Block(r, m) : x \in Uses(r[j])
    OBVIOUS
  <2>3. \A x : (\E i \in Block(s, m + o) : x \in Uses(s[i])) <=> \E j \in Block(r, m) : x \in Uses(r[j])
    BY <1>2, <1>3
  <2> QED BY <2>1, <2>2, <2>3
<1> QED BY <1>4 DEF Regs

LEMMA TailTrace ==
  ASSUME NEW s, NEW r, NEW o, NEW m, Remains(s, r, o, m), NEW target, NEW f \in 0..(m - 1),
         NEW u, NEW t, \A i \in (f + 1)..m : f > 0 => u[i + o] = t[i],
         \A j \in 1..m : DOMAIN r[j].uses \subseteq Nat
  PROVE  Trace(s, m + o, target, Later(f, o), u) = Trace(r, m, target, f, t)
<1> DEFINE c == Boundary(r, m)
           k == m + o
           g == Later(f, o)
           R == Regs(r, m, target)
<1>1. o \in Nat \ {0} /\ m \in Nat \ {0} /\ k \in Nat \ {0} /\ f \in Nat BY DEF Remains
<1>2. c \in 1..m /\ Boundary(s, k) = c + o BY TailBoundary
<1>3. Regs(s, k, target) = R BY TailRegs
<1>4. PICK x : Traces(x, r, m, target, f, t) /\ Trace(r, m, target, f, t) = x[m - 1][target]
  <2>1. \A j \in Block(r, m) : DOMAIN r[j].uses \subseteq Nat
    <3>1. \A j \in 1..(m - 1) : j \in 1..m BY <1>1
    <3> QED BY <3>1, TailBlock
  <2>2. m \in Nat \ {0} /\ Countable(r, m) BY <2>1, <1>1 DEF Countable
  <2>3. HasTrace(r, m, target, f, t) BY <2>2, TraceTraces
  <2> QED BY <2>3 DEF HasTrace
<1>5. PICK y : Traces(y, s, k, target, g, u) /\ Trace(s, k, target, g, u) = y[k - 1][target]
  <2>1. ASSUME NEW i \in Block(s, k) PROVE DOMAIN s[i].uses \subseteq Nat
    <3> DEFINE j == i - o
    <3>1. j \in Block(r, m) BY TailBlock
    <3>2. j \in 1..(m - 1) BY <3>1, TailBlock
    <3>3. j \in 1..m BY <1>1, <3>2
    <3>4. i \in 1..(k - 1) BY <1>1, BlockBefore
    <3>5. j + o = i BY <1>1, <3>4
    <3> HIDE DEF j
    <3>6. r[j] = s[i] BY <3>3, <3>5, TailWord
    <3> QED BY <3>3, <3>6
  <2> HIDE DEF k, g
  <2>2. k \in Nat \ {0} /\ Countable(s, k) BY <2>1, <1>1 DEF Countable
  <2>3. HasTrace(s, k, target, g, u) BY <2>2, TraceTraces
  <2> QED BY <2>3 DEF HasTrace
<1>6. x[c - 1] = Unwritten(R) /\ \A i \in c..(m - 1) : x[i] = Row(r[i], R, x[i - 1], From(r, f, t, i))
  BY <1>4 DEF Traces
<1>7. /\ y[(c + o) - 1] = Unwritten(R)
      /\ \A i \in (c + o)..(k - 1) : y[i] = Row(s[i], R, y[i - 1], From(s, g, u, i))
  <2> HIDE DEF k, c, R
  <2> QED BY <1>2, <1>3, <1>5 DEF Traces
<1>8. ASSUME NEW i \in c..(m - 1) PROVE r[i] = s[i + o] /\ From(r, f, t, i) = From(s, g, u, i + o)
  <2>1. i \in 1..m /\ i \in Nat BY <1>1, <1>2
  <2>2. r[i] = s[i + o] BY <2>1, TailWord
  <2>3. (f > 0 /\ i > f) <=> (g > 0 /\ i + o > g)
    BY <1>1, <2>1 DEF Later
  <2>4. f > 0 /\ i > f => u[i + o] = t[i]
    <3>1. i > f => i \in (f + 1)..m BY <1>1, <2>1
    <3> QED BY <3>1
  <2> HIDE DEF g
  <2> QED BY <2>2, <2>3, <2>4 DEF From
<1> DEFINE Bad == {i \in c..(m - 1) : y[i + o] # x[i]}
<1> HIDE DEF c, R, g
<1>9. Bad = {}
  <2>1. SUFFICES ASSUME Bad # {} PROVE FALSE OBVIOUS
  <2>2. PICK i \in Bad : \A j \in Bad : i <= j
    <3>1. Bad \subseteq Nat BY <1>2
    <3> HIDE DEF Bad
    <3> QED BY <2>1, <3>1, LeastNatural
  <2> DEFINE h == i - 1
  <2>3. i \in c..(m - 1) /\ ~(i <= h) BY <1>2, <2>2
  <2>4. y[h + o] = x[h]
    <3>1. CASE i = c
      <4>1. h = c - 1 /\ h + o = (c + o) - 1 BY <3>1, <1>1, <1>2
      <4> HIDE DEF h
      <4> QED BY <4>1, <1>6, <1>7
    <3>2. CASE i # c
      <4>1. h \in c..(m - 1) BY <3>2, <2>3, <1>1, <1>2
      <4>2. h \notin Bad BY <2>2, <2>3
      <4> QED BY <4>1, <4>2
    <3> QED BY <3>1, <3>2
  <2>5. x[i] = Row(r[i], R, x[h], From(r, f, t, i)) BY <2>3, <1>6
  <2>6. y[i + o] = Row(s[i + o], R, y[h + o], From(s, g, u, i + o))
    <3>1. i + o \in (c + o)..(k - 1) /\ (i + o) - 1 = h + o BY <2>3, <1>1, <1>2
    <3> HIDE DEF h, k
    <3>2. y[i + o] = Row(s[i + o], R, y[(i + o) - 1], From(s, g, u, i + o)) BY <3>1, <1>7
    <3> QED BY <3>1, <3>2
  <2>7. y[i + o] = x[i] BY <2>3, <2>4, <2>5, <2>6, <1>8
  <2> QED BY <2>2, <2>7
<1>10. y[k - 1] = x[m - 1]
  <2>1. CASE c = m
    <3>1. m - 1 = c - 1 /\ k - 1 = (c + o) - 1 BY <2>1, <1>1, <1>2
    <3> HIDE DEF k
    <3> QED BY <3>1, <1>6, <1>7
  <2>2. CASE c # m
    <3>1. m - 1 \in c..(m - 1) /\ (m - 1) + o = k - 1 BY <2>2, <1>1, <1>2
    <3> HIDE DEF k
    <3>2. m - 1 \notin Bad BY <1>9
    <3>3. y[(m - 1) + o] = x[m - 1] BY <3>1, <3>2
    <3> QED BY <3>1, <3>3
  <2> QED BY <2>1, <2>2
<1> QED BY <1>4, <1>5, <1>10 DEF g

-----------------------------------------------------------------------------
(* What is found out at the site, and what is said of it.                   *)
LEMMA TailBlockWords ==
  ASSUME NEW s, NEW r, NEW o, NEW m, Remains(s, r, o, m)
  PROVE  /\ \A j \in Block(r, m) : j \in 1..(m - 1) /\ j + o \in Block(s, m + o) /\ s[j + o] = r[j]
         /\ \A i \in Block(s, m + o) : i \in Nat /\ i - o \in Block(r, m) /\ s[i] = r[i - o]
         /\ r[m] = s[m + o]
<1>1. o \in Nat \ {0} /\ m \in Nat \ {0} BY DEF Remains
<1>2. ASSUME NEW j \in Block(r, m)
      PROVE  j \in 1..(m - 1) /\ j + o \in Block(s, m + o) /\ s[j + o] = r[j]
  <2>1. j \in 1..(m - 1) BY TailBlock
  <2>2. j \in 1..m BY <1>1, <2>1
  <2> QED BY <2>1, <2>2, TailBlock, TailWord
<1>3. ASSUME NEW i \in Block(s, m + o)
      PROVE  i \in Nat /\ i - o \in Block(r, m) /\ s[i] = r[i - o]
  <2> DEFINE j == i - o
  <2>1. j \in Block(r, m) BY TailBlock
  <2>2. i \in Nat /\ j + o = i
    <3>1. m + o \in Nat \ {0} BY <1>1
    <3>2. i \in 1..((m + o) - 1) BY <3>1, BlockBefore
    <3> QED BY <3>2, <1>1
  <2> HIDE DEF j
  <2>3. s[i] = r[j] BY <2>1, <2>2, <1>2
  <2> QED BY <2>1, <2>2, <2>3 DEF j
<1>4. m \in 1..m BY <1>1
<1> QED BY <1>2, <1>3, <1>4, TailWord

Whole(s, r, o, m) == DOMAIN r = 1..m /\ 1..(m + o) \subseteq DOMAIN s

LEMMA TailEdges ==
  ASSUME NEW s, NEW r, NEW o, NEW m, Remains(s, r, o, m), Whole(s, r, o, m)
  PROVE  /\ LocalBackEdge(s, m + o) <=> LocalBackEdge(r, m)
         /\ IncomingEdge(r, m) => IncomingEdge(s, m + o)
<1> DEFINE a == s[Boundary(s, m + o)].address
           b == r[Boundary(r, m)].address
           c == Boundary(r, m)
<1>1. o \in Nat \ {0} /\ m \in Nat \ {0} BY DEF Remains
<1>2. a = b
  <2>1. s[Boundary(s, m + o)] = r[Boundary(r, m)] BY TailBlock
  <2> QED BY <2>1
<1>3. c \in 1..m /\ Boundary(s, m + o) = c + o BY TailBoundary
<1>4. LocalBackEdge(s, m + o) <=> LocalBackEdge(r, m)
  <2>1. LocalBackEdge(s, m + o) <=>
          \E i \in Block(s, m + o) : IsDirectJump(s[i]) /\ s[i].target \in a..(s[i].address - 1)
    BY DEF LocalBackEdge
  <2>2. LocalBackEdge(r, m) <=>
          \E j \in Block(r, m) : IsDirectJump(r[j]) /\ r[j].target \in b..(r[j].address - 1)
    BY DEF LocalBackEdge
  <2> HIDE DEF a, b
  <2>3. /\ \A j \in Block(r, m) : j + o \in Block(s, m + o) /\ s[j + o] = r[j]
        /\ \A i \in Block(s, m + o) : i - o \in Block(r, m) /\ s[i] = r[i - o]
    BY TailBlockWords
  <2> QED BY <2>1, <2>2, <2>3, <1>2
<1>5. ASSUME IncomingEdge(r, m) PROVE IncomingEdge(s, m + o)
  <2>1. PICK i \in DOMAIN r \ (c..m) : IsDirectJump(r[i]) /\ r[i].target \in b..r[m].address
    BY <1>5 DEF IncomingEdge
  <2> HIDE DEF a, b, c
  <2>2. i \in 1..m /\ i \notin c..m BY <2>1 DEF Whole
  <2>3. i + o \in 1..(m + o) /\ i + o \notin (c + o)..(m + o) BY <2>2, <1>1, <1>3
  <2>4. r[i] = s[i + o] /\ r[m] = s[m + o]
    <3>1. r[i] = s[i + o] BY <2>2, TailWord
    <3>2. r[m] = s[m + o] BY TailBlockWords
    <3> QED BY <3>1, <3>2
  <2>5. i + o \in DOMAIN s \ (Boundary(s, m + o)..(m + o)) BY <2>3, <1>3 DEF Whole
  <2>6. IsDirectJump(s[i + o]) /\ s[i + o].target \in a..s[m + o].address BY <2>1, <2>4, <1>2
  <2> QED BY <2>5, <2>6 DEF IncomingEdge, a
<1> QED BY <1>4, <1>5

LEMMA TailContext ==
  ASSUME NEW s, NEW r, NEW o, NEW m, Remains(s, r, o, m), NEW vip, NEW table
  PROVE  SharedContext(s, m + o, vip, table) <=> SharedContext(r, m, vip, table)
<1> DEFINE P == Block(r, m)
           Q == Block(s, m + o)
           p(base) == {j \in P : r[j].base = base}
           q(base) == {i \in Q : s[i].base = base}
<1>1. /\ \A j \in P : j + o \in Q /\ s[j + o] = r[j]
      /\ \A i \in Q : i - o \in P /\ s[i] = r[i - o]
  BY TailBlockWords
<1> HIDE DEF P, Q
<1>2. {s[i].base : i \in Q} = {r[j].base : j \in P}
  <2>1. \A i \in Q : s[i].base \in {r[j].base : j \in P} BY <1>1
  <2>2. \A j \in P : r[j].base \in {s[i].base : i \in Q} BY <1>1
  <2> QED BY <2>1, <2>2
<1>3. ASSUME NEW base
      PROVE  /\ {s[i].disp : i \in q(base)} = {r[j].disp : j \in p(base)}
             /\ (\E i \in q(base) : IsStore(s[i])) <=> (\E j \in p(base) : IsStore(r[j]))
  <2>1. \A i \in q(base) : i - o \in p(base) /\ s[i] = r[i - o] BY <1>1
  <2>2. \A j \in p(base) : j + o \in q(base) /\ s[j + o] = r[j] BY <1>1
  <2> HIDE DEF p, q
  <2>3. \A i \in q(base) : s[i].disp \in {r[j].disp : j \in p(base)} BY <2>1
  <2>4. \A j \in p(base) : r[j].disp \in {s[i].disp : i \in q(base)} BY <2>2
  <2>5. {s[i].disp : i \in q(base)} = {r[j].disp : j \in p(base)} BY <2>3, <2>4
  <2>6. (\E i \in q(base) : IsStore(s[i])) <=> (\E j \in p(base) : IsStore(r[j])) BY <2>1, <2>2
  <2> QED BY <2>5, <2>6
<1>4. SharedContext(s, m + o, vip, table) <=>
        \E base \in {s[i].base : i \in Q} \ {NoReg, "sp", vip, table} :
          Cardinality({s[i].disp : i \in q(base)}) >= 2 /\ \E i \in q(base) : IsStore(s[i])
  BY DEF SharedContext, Q
<1>5. SharedContext(r, m, vip, table) <=>
        \E base \in {r[j].base : j \in P} \ {NoReg, "sp", vip, table} :
          Cardinality({r[j].disp : j \in p(base)}) >= 2 /\ \E j \in p(base) : IsStore(r[j])
  BY DEF SharedContext, P
<1> HIDE DEF p, q
<1> QED BY <1>2, <1>3, <1>4, <1>5

SameFlow(a, b) ==
  /\ a.fetch > 0 <=> b.fetch > 0
  /\ a.fetch = 0 <=> b.fetch = 0
  /\ a.direct = b.direct /\ a.vip = b.vip /\ a.advanced = b.advanced /\ a.linked = b.linked
  /\ a.decodes = b.decodes /\ a.loaded = b.loaded /\ a.computed = b.computed
  /\ a.table = b.table /\ a.adr = b.adr

Decodes(ins, tainted) == IsTransform(ins) /\ Dest(ins) # NoReg /\ Source(ins, tainted) # NoReg

LEMMA TailFound ==
  ASSUME NEW s, NEW r, NEW o, NEW m, Remains(s, r, o, m), NEW d \in 0..(m - 1), NEW f \in 0..(m - 1),
         d > 0 => f > 0, NEW u, NEW t, \A i \in (f + 1)..m : f > 0 => u[i + o] = t[i], NEW trace
  PROVE  SameFlow(Found(s, m + o, Later(d, o), Later(f, o), u, trace), Found(r, m, d, f, t, trace))
<1> DEFINE g == Later(f, o)
           e == Later(d, o)
           k == m + o
<1>1. o \in Nat \ {0} /\ m \in Nat \ {0} /\ f \in Nat /\ d \in Nat BY DEF Remains
<1>2. (g > 0 <=> f > 0) /\ (g = 0 <=> f = 0) /\ (e > 0 <=> d > 0) /\ (e = 0 <=> d = 0)
  BY <1>1 DEF Later
<1>3. f > 0 => f \in 1..(m - 1) /\ f \in 1..m /\ g = f + o BY <1>1 DEF Later
<1>4. f > 0 => s[g] = r[f] BY <1>3, TailWord
<1>5. f > 0 => (VipAdvance(s, g, k, s[g].base) <=> VipAdvance(r, f, m, r[f].base))
  BY <1>3, <1>4, TailAdvance
<1>6. f > 0 => u[k] = t[m]
  <2>1. m \in (f + 1)..m BY <1>1
  <2> QED BY <2>1
<1>7. s[k] = r[m] BY TailBlockWords
<1>8. f > 0 => ((\E i \in (g + 1)..(k - 1) : Decodes(s[i], u[i]))
                 <=> \E j \in (f + 1)..(m - 1) : Decodes(r[j], t[j]))
  <2> SUFFICES ASSUME f > 0
               PROVE  (\E i \in (g + 1)..(k - 1) : Decodes(s[i], u[i]))
                        <=> \E j \in (f + 1)..(m - 1) : Decodes(r[j], t[j])
    OBVIOUS
  <2>0. g = f + o BY <1>3
  <2>1. ASSUME NEW j \in (f + 1)..(m - 1)
        PROVE  j + o \in (g + 1)..(k - 1) /\ s[j + o] = r[j] /\ u[j + o] = t[j]
    <3>1. j \in 1..m /\ j \in (f + 1)..m /\ j + o \in (g + 1)..(k - 1) BY <1>1, <2>0
    <3> QED BY <3>1, TailWord
  <2>2. ASSUME NEW i \in (g + 1)..(k - 1)
        PROVE  i - o \in (f + 1)..(m - 1) /\ s[i] = r[i - o] /\ u[i] = t[i - o]
    <3> DEFINE j == i - o
    <3>1. j \in (f + 1)..(m - 1) /\ j + o = i BY <1>1, <2>0
    <3> HIDE DEF j, g, k
    <3>2. s[j + o] = r[j] /\ u[j + o] = t[j] BY <3>1, <2>1
    <3>3. j \in (f + 1)..(m - 1) /\ s[i] = r[j] /\ u[i] = t[j] BY <3>1, <3>2
    <3> QED BY <3>3 DEF j
  <2> HIDE DEF g, k
  <2> QED BY <2>1, <2>2
<1>9. (\E i \in Block(s, k) : i + 6 >= k /\ s[i].kind = "adr")
        <=> \E j \in Block(r, m) : j + 6 >= m /\ r[j].kind = "adr"
  <2>1. ASSUME NEW j \in Block(r, m) PROVE j + o \in Block(s, k) /\ s[j + o] = r[j] /\ (j + 6 >= m <=> (j + o) + 6 >= k)
    <3>1. j \in 1..(m - 1) /\ j + o \in Block(s, k) /\ s[j + o] = r[j] BY TailBlockWords
    <3> QED BY <3>1, <1>1
  <2>2. ASSUME NEW i \in Block(s, k) PROVE i - o \in Block(r, m) /\ s[i] = r[i - o] /\ ((i - o) + 6 >= m <=> i + 6 >= k)
    <3>1. i \in Nat /\ i - o \in Block(r, m) /\ s[i] = r[i - o] BY TailBlockWords
    <3> QED BY <3>1, <1>1
  <2> HIDE DEF k
  <2> QED BY <2>1, <2>2
<1> DEFINE b == Found(s, k, e, g, u, trace)
           a == Found(r, m, d, f, t, trace)
<1> HIDE DEF e, g, k
<1>10. /\ a.fetch = f /\ a.direct = (d > 0)
       /\ a.vip = (IF f > 0 THEN r[f].base ELSE NoReg)
       /\ a.advanced = (f > 0 /\ VipAdvance(r, f, m, r[f].base))
       /\ a.linked = (f > 0 /\ d = 0 /\ r[m].reg \in t[m])
       /\ a.decodes = (f > 0 /\ \E j \in (f + 1)..(m - 1) : Decodes(r[j], t[j]))
       /\ a.loaded = (d > 0 \/ trace.loaded)
       /\ a.computed = trace.computed
       /\ a.table = (IF d > 0 THEN r[f].base ELSE trace.base)
       /\ a.adr = (\E j \in Block(r, m) : j + 6 >= m /\ r[j].kind = "adr")
  BY DEF Found, Decodes
<1>11. /\ b.fetch = g /\ b.direct = (e > 0)
       /\ b.vip = (IF g > 0 THEN s[g].base ELSE NoReg)
       /\ b.advanced = (g > 0 /\ VipAdvance(s, g, k, s[g].base))
       /\ b.linked = (g > 0 /\ e = 0 /\ s[k].reg \in u[k])
       /\ b.decodes = (g > 0 /\ \E i \in (g + 1)..(k - 1) : Decodes(s[i], u[i]))
       /\ b.loaded = (e > 0 \/ trace.loaded)
       /\ b.computed = trace.computed
       /\ b.table = (IF e > 0 THEN s[g].base ELSE trace.base)
       /\ b.adr = (\E i \in Block(s, k) : i + 6 >= k /\ s[i].kind = "adr")
  BY DEF Found, Decodes
<1> HIDE DEF a, b
<1>12. (b.fetch > 0 <=> a.fetch > 0) /\ (b.fetch = 0 <=> a.fetch = 0) BY <1>2, <1>10, <1>11
<1>13. b.direct = a.direct BY <1>2, <1>10, <1>11
<1>14. b.vip = a.vip BY <1>2, <1>4, <1>10, <1>11
<1>15. b.advanced = a.advanced BY <1>2, <1>5, <1>10, <1>11
<1>16. b.linked = a.linked BY <1>2, <1>6, <1>7, <1>10, <1>11
<1>17. b.decodes = a.decodes BY <1>2, <1>8, <1>10, <1>11
<1>18. b.loaded = a.loaded BY <1>2, <1>10, <1>11
<1>19. b.computed = a.computed BY <1>10, <1>11
<1>20. b.table = a.table BY <1>2, <1>4, <1>10, <1>11
<1>21. b.adr = a.adr BY <1>9, <1>10, <1>11
<1>22. SameFlow(b, a)
  BY <1>12, <1>13, <1>14, <1>15, <1>16, <1>17, <1>18, <1>19, <1>20, <1>21 DEF SameFlow
<1> QED BY <1>22 DEF a, b, e, g, k

LEMMA TailFlow ==
  ASSUME NEW s, NEW r, NEW o, NEW m, Remains(s, r, o, m), \A j \in 1..m : DOMAIN r[j].uses \subseteq Nat
  PROVE  SameFlow(Flow(s, m + o), Flow(r, m))
<1> DEFINE k == m + o
           d == DirectFetch(r, m)
           f == IF d > 0 THEN d ELSE OpcodeFetch(r, m)
           t == IF f > 0 THEN Tainted(r, f, m, r[f].reg) ELSE << >>
           e == Later(d, o)
           g == Later(f, o)
           u == IF g > 0 THEN Tainted(s, g, k, s[g].reg) ELSE << >>
<1>1. o \in Nat \ {0} /\ m \in Nat \ {0} BY DEF Remains
<1>2. d \in 0..(m - 1) /\ DirectFetch(s, k) = e BY TailDirectFetch
<1>3. OpcodeFetch(r, m) \in 0..(m - 1) /\ OpcodeFetch(s, k) = Later(OpcodeFetch(r, m), o) BY TailOpcodeFetch
<1> HIDE DEF d
<1>4. f \in 0..(m - 1) /\ (d > 0 => f > 0) BY <1>2, <1>3
<1>5. (e > 0 <=> d > 0) BY <1>1, <1>2 DEF Later
<1>6. g = IF e > 0 THEN e ELSE OpcodeFetch(s, k) BY <1>3, <1>5
<1>7. Flow(s, k) = Found(s, k, e, g, u, Trace(s, k, s[k].reg, g, u))
  <2>1. Flow(s, k) = FlowOf(s, k, e) BY <1>2 DEF Flow
  <2>2. Flow(s, k) = Fetched(s, k, e, g)
    <3> HIDE DEF e, g, u
    <3> QED BY <2>1, <1>6 DEF FlowOf
  <2> HIDE DEF e, g
  <2> QED BY <2>2 DEF Fetched, Traced
<1>8. Flow(r, m) = Found(r, m, d, f, t, Trace(r, m, r[m].reg, f, t))
  BY DEF Flow, FlowOf, Fetched, Traced, d
<1> HIDE DEF f
<1>9. \A i \in (f + 1)..m : f > 0 => u[i + o] = t[i]
  <2> SUFFICES ASSUME NEW i \in (f + 1)..m, f > 0 PROVE u[i + o] = t[i]
    OBVIOUS
  <2>1. f \in 1..(m - 1) /\ f \in 1..m /\ g = f + o /\ g > 0 BY <1>1, <1>4 DEF Later
  <2>2. s[g] = r[f] BY <2>1, TailWord
  <2>3. u = Tainted(s, f + o, m + o, r[f].reg) /\ t = Tainted(r, f, m, r[f].reg) BY <2>1, <2>2
  <2> HIDE DEF u, t, g
  <2> QED BY <2>1, <2>3, TailTaint
<1>10. s[k].reg = r[m].reg BY TailBlockWords
<1> HIDE DEF u, t
<1>11. Trace(s, k, s[k].reg, g, u) = Trace(r, m, r[m].reg, f, t)
  <2>1. Trace(s, m + o, r[m].reg, Later(f, o), u) = Trace(r, m, r[m].reg, f, t)
    BY <1>4, <1>9, TailTrace
  <2> QED BY <2>1, <1>10
<1> DEFINE trace == Trace(r, m, r[m].reg, f, t)
<1>12. SameFlow(Found(s, m + o, Later(d, o), Later(f, o), u, trace), Found(r, m, d, f, t, trace))
  <2> HIDE DEF trace
  <2> QED BY <1>2, <1>4, <1>9, TailFound
<1> QED BY <1>7, <1>8, <1>11, <1>12
LEMMA TailSaid ==
  ASSUME NEW s, NEW r, NEW o, NEW m, Remains(s, r, o, m), Whole(s, r, o, m),
         \A j \in 1..m : DOMAIN r[j].uses \subseteq Nat, ~IncomingEdge(s, m + o)
  PROVE  Said(s, m + o) = Said(r, m)
<1> DEFINE k == m + o
           a == Flow(r, m)
           b == Flow(s, k)
<1>1. SameFlow(b, a) BY TailFlow
<1>2. s[k] = r[m] BY TailBlockWords
<1>3. (LocalBackEdge(s, k) <=> LocalBackEdge(r, m)) /\ ~IncomingEdge(s, k) /\ ~IncomingEdge(r, m)
  BY TailEdges
<1>4. \A vip, table : SharedContext(s, k, vip, table) <=> SharedContext(r, m, vip, table)
  BY TailContext
<1> HIDE DEF a, b, k
<1>5. AbiThunk(s, k, b) <=> AbiThunk(r, m, a)
  BY <1>1, <1>2, <1>3, <1>4 DEF AbiThunk, SameFlow
<1>6. (ClassicStrong(b) <=> ClassicStrong(a)) /\ (ClassicMedium(b) <=> ClassicMedium(a))
  BY <1>1 DEF ClassicStrong, ClassicMedium, SameFlow
<1>7. (DirectStrong(s, k, b) <=> DirectStrong(r, m, a)) /\ (DirectMedium(s, k, b) <=> DirectMedium(r, m, a))
  BY <1>1, <1>2 DEF DirectStrong, DirectMedium, SameFlow
<1>8. Trampoline(s, k, b) <=> Trampoline(r, m, a)
  BY <1>1, <1>2 DEF Trampoline, SameFlow
<1>9. Strength(s, k, b) = Strength(r, m, a)
  BY <1>5, <1>6, <1>7, <1>8 DEF Strength
<1>10. VtableCall(s, k, b) = VtableCall(r, m, a)
  BY <1>1, <1>2 DEF VtableCall, SameFlow
<1>11. b.linked = a.linked /\ b.loaded = a.loaded BY <1>1 DEF SameFlow
<1>12. SaidOf(s, k, b) = SaidOf(r, m, a)
  BY <1>5, <1>9, <1>10, <1>11 DEF SaidOf
<1> QED BY <1>12 DEF Said, a, b, k

LEMMA BlockHolds ==
  ASSUME WInv
  PROVE  OnlyItsBlock
<1> SUFFICES ASSUME NEW k \in Sites, NEW i \in 2..k,
                    ~(/\ insns[i - 1].address + 1 = insns[i].address
                      /\ insns[i - 1].kind \notin {"b", "br", "blr", "ret"}),
                    ~IncomingEdge(insns, k)
             PROVE  Said(insns, k) = Said(SubSeq(insns, i, k), k - i + 1)
  BY DEF OnlyItsBlock
<1> DEFINE n == Len(insns)
           o == i - 1
           m == k - i + 1
           r == SubSeq(insns, i, k)
<1>1. n \in Nat /\ DOMAIN insns = 1..n /\ k \in 1..n BY DEF WInv, Sites
<1>2. o \in Nat \ {0} /\ m \in Nat \ {0} /\ m + o = k /\ o + 1 = i BY <1>1
<1>3. DOMAIN r = 1..m /\ \A j \in 1..m : r[j] = insns[j + o] /\ j + o \in 1..n
  <2>1. r = [j \in 1..m |-> insns[j + o]]
    <3>1. \A j \in 1..m : (i + j) - 1 = j + o /\ (j + i) - 1 = j + o BY <1>1
    <3>2. insns \in Seq(Instructions) /\ i \in 1..(n + 1) /\ k \in (i - 1)..n BY <1>1 DEF WInv
    <3>3. 1..((1 + k) - i) = 1..m /\ (k - i) + 1 = m BY <1>1
    <3>4. r \in Seq(Instructions) /\ Len(r) = m
      <4> HIDE DEF n
      <4> QED BY <3>2, <1>1, <1>2
    <3>5. \A j \in 1..m : r[j] = insns[j + o] BY <3>1, <3>2, <1>1, <1>2
    <3> HIDE DEF r, m, o
    <3> QED BY <3>4, <3>5
  <2>2. \A j \in 1..m : j + o \in 1..n BY <1>1, <1>2
  <2> HIDE DEF r, m, o, n
  <2> QED BY <2>1, <2>2
<1>4. Breaks(insns, i)
  BY DEF Breaks, IsIndirect, IsIndirectBranch, IsIndirectCall
<1> HIDE DEF r, m, o, n
<1>5. Remains(insns, r, o, m) BY <1>2, <1>3, <1>4 DEF Remains
<1>6. Whole(insns, r, o, m)
  <2>1. 1..(m + o) \subseteq 1..n BY <1>1, <1>2
  <2> QED BY <2>1, <1>1, <1>3 DEF Whole
<1>7. ASSUME NEW j \in 1..m PROVE DOMAIN r[j].uses \subseteq Nat
  <2>1. r[j] \in Instructions BY <1>1, <1>3 DEF WInv
  <2>2. PICK w \in Words, a \in Nat : r[j] = Populate(w, a) BY <2>1 DEF Instructions
  <2>3. r[j].uses = [h \in DOMAIN w.uses |-> Canonical(w.uses[h])] BY <2>2 DEF Populate, Operands
  <2>4. DOMAIN w.uses \subseteq Nat BY WalkAssumption
  <2> QED BY <2>3, <2>4
<1>8. Said(insns, m + o) = Said(r, m) BY <1>2, <1>5, <1>6, <1>7, TailSaid
<1> QED BY <1>2, <1>8 DEF r, m

\* Whatever the code, what is said of an indirect transfer is what would be
\* said if the code began at the last place before it that nothing flows into,
\* unless a jump from elsewhere leads to it (OnlyItsBlock).
THEOREM BlocksAreJudgedAlone == Spec => []OnlyItsBlock
<1> QED BY InitW, NextW, BlockHolds, PTL DEF Spec

-----------------------------------------------------------------------------
(* Code without one load: q is what s becomes up to the site at k when the  *)
(* load at j is taken out. Every other instruction is the same, but for its *)
(* address.                                                                 *)
Alike(a, b) ==
  /\ a.kind = b.kind /\ a.reg = b.reg /\ a.width = b.width /\ a.uses = b.uses
  /\ a.base = b.base /\ a.disp = b.disp /\ a.writeback = b.writeback

\* The places after and before the load is taken out.
Closer(i, j) == IF i < j THEN i ELSE i - 1
Further(x, j) == IF x < j THEN x ELSE x + 1

\* What is loaded is of no use to the instruction.
Spares(ins, d) == d \notin Uses(ins) /\ d # ins.reg /\ d # ins.base

Dropped(s, q, j, k) ==
  /\ j \in Nat \ {0} /\ k \in Nat /\ j < k /\ k <= Lookback + 1
  /\ \A i \in 1..k : i # j =>
        /\ Alike(s[i], q[Closer(i, j)]) /\ Spares(s[i], s[j].reg)
        /\ q[Closer(i, j)].address = s[i].address - (IF i < j THEN 0 ELSE 1)
  /\ \A i \in 1..k : s[i].address \in Nat /\ DOMAIN s[i].uses \subseteq Nat
  /\ \A i \in 2..k : s[i - 1].address < s[i].address
  /\ IsLoad(s[j])

LEMMA LoadHasDest ==
  ASSUME NEW ins, IsLoad(ins)
  PROVE  Dest(ins) = ins.reg
<1>1. ~IsCompare(ins) BY DEF IsLoad, IsCompare
<1> QED BY <1>1 DEF Dest

LEMMA AlikeFacts ==
  ASSUME NEW a, NEW b, Alike(a, b)
  PROVE  /\ IsLoad(a) <=> IsLoad(b)
         /\ IsPointerLoad(a) <=> IsPointerLoad(b)
         /\ IsOpcodeLoad(a) <=> IsOpcodeLoad(b)
         /\ IsStore(a) <=> IsStore(b)
         /\ IsTransform(a) <=> IsTransform(b)
         /\ IsIndirectBranch(a) <=> IsIndirectBranch(b)
         /\ IsIndirectCall(a) <=> IsIndirectCall(b)
         /\ IsIndirect(a) <=> IsIndirect(b)
         /\ Dest(a) = Dest(b) /\ Uses(a) = Uses(b)
         /\ \A reg : Advances(a, reg) <=> Advances(b, reg)
         /\ \A x : Source(a, x) = Source(b, x)
<1>1. (IsLoad(a) <=> IsLoad(b)) /\ (IsTransform(a) <=> IsTransform(b)) /\ Uses(a) = Uses(b)
  BY DEF Alike, IsLoad, IsTransform, Uses
<1>2. Dest(a) = Dest(b) BY <1>1 DEF Alike, Dest, IsCompare
<1>3. /\ IsPointerLoad(a) <=> IsPointerLoad(b)
      /\ IsOpcodeLoad(a) <=> IsOpcodeLoad(b)
      /\ IsStore(a) <=> IsStore(b)
  BY DEF Alike, IsPointerLoad, IsOpcodeLoad, IsStore
<1>4. /\ IsIndirectBranch(a) <=> IsIndirectBranch(b)
      /\ IsIndirectCall(a) <=> IsIndirectCall(b)
      /\ IsIndirect(a) <=> IsIndirect(b)
  BY DEF Alike, IsIndirect, IsIndirectBranch, IsIndirectCall, IsReturnDispatch
<1>5. \A reg : Advances(a, reg) <=> Advances(b, reg) BY <1>1, <1>2 DEF Alike, Advances
<1>6. \A x : Source(a, x) = Source(b, x) BY DEF Alike, Source
<1> QED BY <1>1, <1>2, <1>3, <1>4, <1>5, <1>6

LEMMA DropWord ==
  ASSUME NEW s, NEW q, NEW j, NEW k, Dropped(s, q, j, k), NEW i \in 1..k, i # j
  PROVE  /\ Alike(s[i], q[Closer(i, j)]) /\ Spares(s[i], s[j].reg)
         /\ q[Closer(i, j)].address = s[i].address - (IF i < j THEN 0 ELSE 1)
BY DEF Dropped

\* Nothing flows into an instruction, with the load or without it.
LEMMA DropBreaks ==
  ASSUME NEW s, NEW q, NEW j, NEW k, Dropped(s, q, j, k)
  PROVE  /\ \A i \in 2..k : i # j /\ i # j + 1 => (Breaks(s, i) <=> Breaks(q, Closer(i, j)))
         /\ j >= 2 => (Breaks(q, j) <=> Breaks(s, j) \/ Breaks(s, j + 1))
<1>1. j \in Nat \ {0} /\ k \in Nat /\ j < k BY DEF Dropped
<1>2. \A i \in 1..k : s[i].address \in Nat BY DEF Dropped
<1>3. \A i \in 2..k : s[i - 1].address < s[i].address BY DEF Dropped
<1>4. ASSUME NEW i \in 2..k, i # j, i # j + 1
      PROVE  Breaks(s, i) <=> Breaks(q, Closer(i, j))
  <2> DEFINE h == i - 1
             x == Closer(i, j)
             z == Closer(i - 1, j)
  <2>1. h \in 1..k /\ h # j /\ i \in 1..k BY <1>1, <1>4
  <2>2. x - 1 = z /\ (i < j <=> h < j) BY <1>1, <1>4 DEF Closer
  <2>3. Alike(s[h], q[z]) /\ q[z].address = s[h].address - (IF h < j THEN 0 ELSE 1)
    BY <2>1, DropWord
  <2>4. q[x].address = s[i].address - (IF i < j THEN 0 ELSE 1) BY <2>1, <1>4, DropWord
  <2>5. s[h].address \in Nat /\ s[i].address \in Nat BY <2>1, <1>2
  <2> HIDE DEF x, z, h
  <2>6. s[h].address + 1 # s[i].address <=> q[z].address + 1 # q[x].address
    BY <2>2, <2>3, <2>4, <2>5
  <2>7. (IsIndirect(s[h]) <=> IsIndirect(q[z])) /\ s[h].kind = q[z].kind
    BY <2>3, AlikeFacts DEF Alike
  <2>8. Breaks(s, i) <=> \/ s[h].address + 1 # s[i].address
                         \/ s[h].kind = "b" \/ IsIndirect(s[h]) \/ s[h].kind = "ret"
    BY DEF Breaks, h
  <2>9. Breaks(q, x) <=> \/ q[z].address + 1 # q[x].address
                         \/ q[z].kind = "b" \/ IsIndirect(q[z]) \/ q[z].kind = "ret"
    BY <2>2 DEF Breaks
  <2> QED BY <2>6, <2>7, <2>8, <2>9 DEF x
<1>5. ASSUME j >= 2 PROVE Breaks(q, j) <=> Breaks(s, j) \/ Breaks(s, j + 1)
  <2> DEFINE h == j - 1
             e == j + 1
  <2>1. h \in 1..k /\ h # j /\ e \in 1..k /\ e # j /\ j \in 1..k /\ e \in 2..k /\ j \in 2..k BY <1>1, <1>5
  <2>2. Closer(h, j) = h /\ Closer(e, j) = j /\ h < j /\ ~(e < j) /\ e - 1 = j BY <1>1 DEF Closer
  <2>3. Alike(s[h], q[h]) /\ q[h].address = s[h].address
    <3>1. s[h].address \in Nat BY <2>1, <1>2
    <3> HIDE DEF h, e
    <3>2. Alike(s[h], q[h]) /\ q[h].address = s[h].address - 0 BY <2>1, <2>2, DropWord
    <3> QED BY <3>1, <3>2
  <2>4. q[j].address = s[e].address - 1
    <3> HIDE DEF h, e
    <3> QED BY <2>1, <2>2, DropWord
  <2>5. s[h].address \in Nat /\ s[j].address \in Nat /\ s[e].address \in Nat BY <2>1, <1>2
  <2>6. s[h].address < s[j].address /\ s[j].address < s[e].address
    <3>1. s[e - 1].address < s[e].address
      <4> HIDE DEF e, h
      <4> QED BY <2>1, <1>3
    <3>2. s[h].address < s[j].address BY <2>1, <1>3
    <3> QED BY <3>1, <3>2, <2>2
  <2>7. IsLoad(s[j]) BY DEF Dropped
  <2> HIDE DEF h, e
  <2>8. (IsIndirect(s[h]) <=> IsIndirect(q[h])) /\ s[h].kind = q[h].kind
    BY <2>3, AlikeFacts DEF Alike
  <2>9. q[h].address + 1 # q[j].address
          <=> s[h].address + 1 # s[j].address \/ s[j].address + 1 # s[e].address
    BY <2>3, <2>4, <2>5, <2>6
  <2>10. Breaks(s, j) <=> \/ s[h].address + 1 # s[j].address
                          \/ s[h].kind = "b" \/ IsIndirect(s[h]) \/ s[h].kind = "ret"
    BY DEF Breaks, h
  <2>11. Breaks(q, j) <=> \/ q[h].address + 1 # q[j].address
                          \/ q[h].kind = "b" \/ IsIndirect(q[h]) \/ q[h].kind = "ret"
    BY DEF Breaks, h
  <2>12. Breaks(s, e) <=> s[j].address + 1 # s[e].address
    BY <2>2, <2>7 DEF Breaks, IsLoad, IsIndirect, IsIndirectBranch, IsIndirectCall, IsReturnDispatch
  <2> QED BY <2>8, <2>9, <2>10, <2>11, <2>12 DEF e
<1> QED BY <1>4, <1>5

\* The block loses the load, if it has it, and nothing else.
LEMMA DropBoundary ==
  ASSUME NEW s, NEW q, NEW j, NEW k, Dropped(s, q, j, k)
  PROVE  /\ Boundary(q, k - 1) \in 1..(k - 1)
         /\ \/ Boundary(q, k - 1) < j /\ Boundary(s, k) = Boundary(q, k - 1)
            \/ Boundary(q, k - 1) = j /\ Boundary(s, k) \in {j, j + 1}
            \/ Boundary(q, k - 1) > j /\ Boundary(s, k) = Boundary(q, k - 1) + 1
<1> DEFINE h == k - 1
           c == Boundary(q, h)
<1>1. j \in Nat \ {0} /\ k \in Nat \ {0} /\ h \in Nat \ {0} /\ j \in 1..h /\ h + 1 = k BY DEF Dropped
<1>2. Floor(k) = 1 /\ Floor(h) = 1 BY <1>1, WalkAssumption DEF Floor, Dropped
<1>3. c \in 1..h /\ (c = 1 \/ Breaks(q, c)) /\ \A x \in (c + 1)..h : ~Breaks(q, x)
  <2> HIDE DEF h
  <2> QED BY <1>1, <1>2, BoundaryIs
<1> HIDE DEF h, c
<1>4. \A i \in 2..k : i # j /\ i # j + 1 => (Breaks(s, i) <=> Breaks(q, Closer(i, j)))
  BY DropBreaks
<1>5. j >= 2 => (Breaks(q, j) <=> Breaks(s, j) \/ Breaks(s, j + 1))
  BY DropBreaks
<1>6. ASSUME NEW i \in (j + 2)..k, i > c + 1 PROVE ~Breaks(s, i)
  <2>1. i \in 2..k /\ i # j /\ i # j + 1 /\ Closer(i, j) = i - 1 /\ i - 1 \in (c + 1)..h
    BY <1>1, <1>3, <1>6 DEF Closer
  <2> QED BY <2>1, <1>3, <1>4
<1>7. \A b : b \in 1..k /\ (b = 1 \/ Breaks(s, b)) /\ (\A i \in (b + 1)..k : ~Breaks(s, i))
               => Boundary(s, k) = b
  BY <1>1, <1>2, BoundaryUnique
<1>8. CASE c > j
  <2>1. c + 1 \in 2..k /\ c + 1 # j /\ c + 1 # j + 1 /\ Closer(c + 1, j) = c /\ c # 1 /\ c + 1 \in 1..k
    BY <1>1, <1>3, <1>8 DEF Closer
  <2>2. Breaks(s, c + 1) BY <2>1, <1>3, <1>4
  <2>3. \A i \in ((c + 1) + 1)..k : i \in (j + 2)..k /\ i > c + 1 BY <1>1, <1>3, <1>8
  <2>4. Boundary(s, k) = c + 1 BY <2>1, <2>2, <2>3, <1>6, <1>7
  <2> QED BY <2>4, <1>3, <1>8 DEF c, h
<1>9. CASE c = j
  <2>1. \A i \in ((j + 1) + 1)..k : i \in (j + 2)..k /\ i > c + 1 BY <1>1, <1>3, <1>9
  <2>2. CASE Breaks(s, j + 1)
    <3>1. j + 1 \in 1..k BY <1>1
    <3>2. Boundary(s, k) = j + 1 BY <2>1, <2>2, <3>1, <1>6, <1>7
    <3> QED BY <3>2, <1>3, <1>9 DEF c, h
  <2>3. CASE ~Breaks(s, j + 1)
    <3>1. j \in 1..k /\ (j # 1 => j >= 2) BY <1>1
    <3>2. j = 1 \/ Breaks(s, j) BY <2>3, <3>1, <1>3, <1>5, <1>9
    <3>3. ASSUME NEW i \in (j + 1)..k PROVE ~Breaks(s, i)
      <4>1. i = j + 1 \/ i \in ((j + 1) + 1)..k BY <1>1
      <4> QED BY <4>1, <2>1, <2>3, <1>6
    <3>4. Boundary(s, k) = j BY <3>1, <3>2, <3>3, <1>7
    <3> QED BY <3>4, <1>3, <1>9 DEF c, h
  <2> QED BY <2>2, <2>3
<1>10. CASE c < j
  <2>1. c \in 1..k /\ j >= 2 /\ j \in (c + 1)..h BY <1>1, <1>3, <1>10
  <2>2. c = 1 \/ Breaks(s, c)
    <3>1. c # 1 => c \in 2..k /\ c # j /\ c # j + 1 /\ Closer(c, j) = c BY <1>1, <1>3, <1>10 DEF Closer
    <3> QED BY <3>1, <1>3, <1>4
  <2>3. ~Breaks(s, j) /\ ~Breaks(s, j + 1) BY <2>1, <1>3, <1>5
  <2>4. ASSUME NEW i \in (c + 1)..k PROVE ~Breaks(s, i)
    <3>1. CASE i < j
      <4>1. i \in 2..k /\ i # j /\ i # j + 1 /\ Closer(i, j) = i /\ i \in (c + 1)..h
        BY <3>1, <1>1, <1>3 DEF Closer
      <4> QED BY <4>1, <1>3, <1>4
    <3>2. CASE i >= j
      <4>1. i = j \/ i = j + 1 \/ (i \in (j + 2)..k /\ i > c + 1) BY <3>2, <1>1, <1>3, <1>10
      <4> QED BY <4>1, <2>3, <1>6
    <3>3. i \in Int /\ j \in Int BY <1>1, <1>3
    <3> QED BY <3>1, <3>2, <3>3
  <2>5. Boundary(s, k) = c BY <2>1, <2>2, <2>4, <1>7
  <2> QED BY <2>5, <1>3, <1>10 DEF c, h
<1>11. c \in Int /\ j \in Int BY <1>1, <1>3
<1> QED BY <1>8, <1>9, <1>10, <1>11

LEMMA DropBlock ==
  ASSUME NEW s, NEW q, NEW j, NEW k, Dropped(s, q, j, k)
  PROVE  /\ Block(s, k) \subseteq 1..(k - 1)
         /\ Block(q, k - 1) \subseteq 1..(k - 2)
         /\ \A i \in Block(s, k) : i # j => Closer(i, j) \in Block(q, k - 1) /\ Further(Closer(i, j), j) = i
         /\ \A x \in Block(q, k - 1) :
              /\ Further(x, j) \in Block(s, k) /\ Further(x, j) # j /\ Closer(Further(x, j), j) = x
<1> DEFINE h == k - 1
           c == Boundary(q, h)
           b == Boundary(s, k)
<1>1. j \in Nat \ {0} /\ k \in Nat \ {0} /\ h \in Nat \ {0} /\ j \in 1..h BY DEF Dropped
<1>2. /\ c \in 1..h
      /\ (c < j /\ b = c) \/ (c = j /\ b \in {j, j + 1}) \/ (c > j /\ b = c + 1)
  BY DropBoundary
<1>3. Block(s, k) = b..(k - 1) /\ Block(q, h) = c..(h - 1) BY DEF Block
<1> HIDE DEF b, c
<1>4. b \in 1..k BY <1>1, <1>2
<1>5. \A i \in b..(k - 1) : i \in 1..(k - 1) BY <1>1, <1>4
<1>6. \A x \in c..(h - 1) : x \in 1..(k - 2) BY <1>1, <1>2
<1>7. ASSUME NEW i \in b..(k - 1), i # j
      PROVE  Closer(i, j) \in c..(h - 1) /\ Further(Closer(i, j), j) = i
  BY <1>1, <1>2, <1>7 DEF Closer, Further
<1>8. ASSUME NEW x \in c..(h - 1)
      PROVE  Further(x, j) \in b..(k - 1) /\ Further(x, j) # j /\ Closer(Further(x, j), j) = x
  BY <1>1, <1>2 DEF Closer, Further
<1> QED BY <1>3, <1>5, <1>6, <1>7, <1>8 DEF h
LEMMA DropBlockWords ==
  ASSUME NEW s, NEW q, NEW j, NEW k, Dropped(s, q, j, k)
  PROVE  /\ \A x \in 1..(k - 1) :
              /\ Further(x, j) \in 1..k /\ Further(x, j) # j /\ Closer(Further(x, j), j) = x
              /\ Alike(s[Further(x, j)], q[x]) /\ Spares(s[Further(x, j)], s[j].reg)
         /\ \A i \in 1..k : i # j => /\ Closer(i, j) \in 1..(k - 1) /\ Further(Closer(i, j), j) = i
                                     /\ Alike(s[i], q[Closer(i, j)]) /\ Spares(s[i], s[j].reg)
<1>1. j \in Nat \ {0} /\ k \in Nat \ {0} /\ j \in 1..(k - 1) BY DEF Dropped
<1>2. ASSUME NEW x \in 1..(k - 1)
      PROVE  /\ Further(x, j) \in 1..k /\ Further(x, j) # j /\ Closer(Further(x, j), j) = x
             /\ Alike(s[Further(x, j)], q[x]) /\ Spares(s[Further(x, j)], s[j].reg)
  <2> DEFINE i == Further(x, j)
  <2>1. i \in 1..k /\ i # j /\ Closer(i, j) = x BY <1>1 DEF Closer, Further
  <2> HIDE DEF i
  <2>2. Alike(s[i], q[x]) /\ Spares(s[i], s[j].reg) BY <2>1, DropWord
  <2> QED BY <2>1, <2>2 DEF i
<1>3. ASSUME NEW i \in 1..k, i # j
      PROVE  /\ Closer(i, j) \in 1..(k - 1) /\ Further(Closer(i, j), j) = i
             /\ Alike(s[i], q[Closer(i, j)]) /\ Spares(s[i], s[j].reg)
  <2>1. Closer(i, j) \in 1..(k - 1) /\ Further(Closer(i, j), j) = i
    BY <1>1, <1>3 DEF Closer, Further
  <2> QED BY <2>1, <1>3, DropWord
<1> QED BY <1>2, <1>3

LEMMA DropAdvance ==
  ASSUME NEW s, NEW q, NEW j, NEW k, Dropped(s, q, j, k), NEW f \in 1..(k - 2), NEW vip, vip # s[j].reg
  PROVE  VipAdvance(s, Further(f, j), k, vip) <=> VipAdvance(q, f, k - 1, vip)
<1> DEFINE g == Further(f, j)
           T == Writes(q, f, k - 1, vip)
           U == Writes(s, g, k, vip)
<1>1. j \in Nat \ {0} /\ k \in Nat \ {0} /\ j \in 1..(k - 1) /\ f \in 1..(k - 1) BY DEF Dropped
<1>2. Alike(s[g], q[f]) BY <1>1, DropBlockWords
<1>3. ASSUME NEW x \in T PROVE Further(x, j) \in U /\ Alike(s[Further(x, j)], q[x])
  <2> DEFINE i == Further(x, j)
  <2>1. x \in (f + 1)..((k - 1) - 1) /\ Dest(q[x]) = vip BY DEF Writes
  <2>2. x \in 1..(k - 1) /\ i \in (g + 1)..(k - 1) BY <2>1, <1>1 DEF Further
  <2>3. Alike(s[i], q[x]) BY <2>2, DropBlockWords
  <2>4. Dest(s[i]) = Dest(q[x]) BY <2>3, AlikeFacts
  <2> HIDE DEF i, g
  <2>5. i \in U BY <2>1, <2>2, <2>4 DEF Writes
  <2> QED BY <2>3, <2>5 DEF i
<1>4. ASSUME NEW i \in U PROVE Closer(i, j) \in T /\ Alike(s[i], q[Closer(i, j)])
  <2> DEFINE x == Closer(i, j)
  <2>1. i \in (g + 1)..(k - 1) /\ Dest(s[i]) = vip BY DEF Writes
  <2>2. i # j
    <3>1. SUFFICES ASSUME i = j PROVE FALSE OBVIOUS
    <3>2. Dest(s[j]) = s[j].reg BY LoadHasDest DEF Dropped
    <3> QED BY <3>1, <3>2, <2>1
  <2>3. i \in 1..k /\ x \in (f + 1)..((k - 1) - 1) BY <2>1, <2>2, <1>1 DEF Closer, Further
  <2>4. Alike(s[i], q[x]) BY <2>2, <2>3, DropBlockWords
  <2>5. Dest(s[i]) = Dest(q[x]) BY <2>4, AlikeFacts
  <2> HIDE DEF x
  <2>6. x \in T BY <2>1, <2>3, <2>5 DEF Writes
  <2> QED BY <2>4, <2>6 DEF x
<1> HIDE DEF T, U, g
<1>5. (\A i \in U : IsTransform(s[i]) /\ vip \in Uses(s[i]))
        <=> (\A x \in T : IsTransform(q[x]) /\ vip \in Uses(q[x]))
  <2>1. \A i \in U : Closer(i, j) \in T /\ (IsTransform(s[i]) <=> IsTransform(q[Closer(i, j)]))
                     /\ Uses(s[i]) = Uses(q[Closer(i, j)])
    BY <1>4, AlikeFacts
  <2>2. \A x \in T : Further(x, j) \in U /\ (IsTransform(s[Further(x, j)]) <=> IsTransform(q[x]))
                     /\ Uses(s[Further(x, j)]) = Uses(q[x])
    BY <1>3, AlikeFacts
  <2> QED BY <2>1, <2>2
<1>6. (\E i \in U : Advances(s[i], vip)) <=> (\E x \in T : Advances(q[x], vip))
  <2>1. \A i \in U : Closer(i, j) \in T /\ (Advances(s[i], vip) <=> Advances(q[Closer(i, j)], vip))
    BY <1>4, AlikeFacts
  <2>2. \A x \in T : Further(x, j) \in U /\ (Advances(s[Further(x, j)], vip) <=> Advances(q[x], vip))
    BY <1>3, AlikeFacts
  <2> QED BY <2>1, <2>2
<1>7. s[g].writeback = q[f].writeback BY <1>2 DEF Alike
<1> QED BY <1>5, <1>6, <1>7 DEF VipAdvance, T, U, g

-----------------------------------------------------------------------------
(* The taint is the same one, but for the register that is loaded.          *)
SameBut(x, y, d) == \A reg : reg # d \/ d = NoReg => (reg \in x <=> reg \in y)

LEMMA CarrySame ==
  ASSUME NEW a, NEW b, Alike(a, b), NEW d, Spares(a, d), NEW x, NEW y, SameBut(x, y, d)
  PROVE  SameBut(Carry(a, x), Carry(b, y), d)
<1>1. Dest(a) = Dest(b) /\ Uses(a) = Uses(b) /\ (IsTransform(a) <=> IsTransform(b)) /\ (IsLoad(a) <=> IsLoad(b))
  BY AlikeFacts
<1>2. \A reg \in Uses(a) : reg # d BY DEF Spares
<1>3. Propagates(a, x) <=> Propagates(b, y)
  <2>1. Uses(a) \cap x # {} <=> Uses(b) \cap y # {} BY <1>1, <1>2 DEF SameBut
  <2> QED BY <2>1, <1>1 DEF Propagates
<1>4. ASSUME NEW reg, reg # d \/ d = NoReg PROVE reg \in Carry(a, x) <=> reg \in Carry(b, y)
  <2>1. reg \in x <=> reg \in y BY <1>4 DEF SameBut
  <2> QED BY <2>1, <1>1, <1>3 DEF Carry
<1> QED BY <1>4 DEF SameBut

LEMMA CarryLoad ==
  ASSUME NEW a, NEW d, Dest(a) = d, NEW x, NEW y, SameBut(x, y, d)
  PROVE  SameBut(Carry(a, x), y, d)
<1>1. ASSUME NEW reg, reg # d \/ d = NoReg PROVE reg \in Carry(a, x) <=> reg \in y
  <2>1. reg \in x <=> reg \in y BY <1>1 DEF SameBut
  <2>2. CASE d = NoReg BY <2>1, <2>2 DEF Carry
  <2>3. CASE d # NoReg BY <2>1, <2>3, <1>1 DEF Carry
  <2> QED BY <2>2, <2>3
<1> QED BY <1>1 DEF SameBut

\* The first operand that is tainted is the same one.
LEMMA SourceSame ==
  ASSUME NEW a, NEW b, Alike(a, b), NEW d, Spares(a, d), NEW x, NEW y, SameBut(x, y, d)
  PROVE  Source(a, x) = Source(b, y)
<1>1. a.uses = b.uses BY DEF Alike
<1>2. ASSUME NEW h \in DOMAIN a.uses PROVE a.uses[h] \in x <=> a.uses[h] \in y
  <2>1. a.uses[h] # d \/ d = NoReg BY DEF Spares, Uses
  <2> QED BY <2>1 DEF SameBut
<1> DEFINE P == {h \in DOMAIN a.uses : a.uses[h] \in x}
           Q == {h \in DOMAIN b.uses : b.uses[h] \in y}
<1>3. P = Q BY <1>1, <1>2
<1>4. Source(a, x) = IF P = {} THEN NoReg ELSE a.uses[CHOOSE h \in P : \A i \in P : h <= i]
  BY DEF Source
<1>5. Source(b, y) = IF Q = {} THEN NoReg ELSE b.uses[CHOOSE h \in Q : \A i \in Q : h <= i]
  BY DEF Source
<1> HIDE DEF P, Q
<1> QED BY <1>1, <1>3, <1>4, <1>5

\* The place without the load up to which an instruction has been carried.
Reached(y, j) == IF y <= j THEN y ELSE y - 1

LEMMA DropTaint ==
  ASSUME NEW s, NEW q, NEW j, NEW k, Dropped(s, q, j, k), NEW f \in 1..(k - 2), NEW reg
  PROVE  \A y \in (Further(f, j) + 1)..k :
           SameBut(Tainted(s, Further(f, j), k, reg)[y], Tainted(q, f, k - 1, reg)[Reached(y, j)], s[j].reg)
<1> DEFINE g == Further(f, j)
           h == k - 1
           d == s[j].reg
           u == Tainted(s, g, k, reg)
           t == Tainted(q, f, h, reg)
           Bad == {y \in (g + 1)..k : ~SameBut(u[y], t[Reached(y, j)], d)}
<1>1. j \in Nat \ {0} /\ k \in Nat \ {0} /\ j \in 1..h /\ f \in Nat /\ h \in Nat /\ h > f /\ h = k - 1 BY DEF Dropped
<1>2. g \in Nat /\ k > g /\ g # j /\ g = (IF f < j THEN f ELSE f + 1) BY <1>1 DEF Further
<1> HIDE DEF g, h
<1>3. Flows(u, s, g, k, reg) BY <1>1, <1>2, TaintedFlows
<1>4. Flows(t, q, f, h, reg) BY <1>1, TaintedFlows
<1> HIDE DEF u, t
<1>5. SUFFICES ASSUME Bad # {} PROVE FALSE BY DEF u, t, g, h
<1>6. PICK y \in Bad : \A z \in Bad : y <= z
  <2>1. Bad \subseteq Nat BY <1>1, <1>2
  <2> HIDE DEF Bad
  <2> QED BY <1>5, <2>1, LeastNatural
<1>7. y \in (g + 1)..k /\ ~SameBut(u[y], t[Reached(y, j)], d) BY <1>6
<1>8. y # g + 1
  <2>1. SUFFICES ASSUME y = g + 1 PROVE FALSE OBVIOUS
  <2>2. Reached(y, j) = f + 1 BY <2>1, <1>1, <1>2 DEF Reached
  <2>3. u[y] = {reg} /\ t[f + 1] = {reg} BY <2>1, <1>3, <1>4 DEF Flows
  <2>4. u[y] = t[Reached(y, j)] BY <2>2, <2>3
  <2> QED BY <2>4, <1>7 DEF SameBut
<1> DEFINE i == y - 1
<1>9. i \in (g + 1)..k /\ ~(y <= i) /\ y \in (g + 2)..k /\ i \in 1..k
  <2>1. y \in (g + 1)..k BY <1>7
  <2> QED BY <2>1, <1>1, <1>2, <1>8
<1>10. u[y] = Carry(s[i], u[i]) BY <1>9, <1>3 DEF Flows
<1>11. SameBut(u[i], t[Reached(i, j)], d)
  <2>1. i \notin Bad BY <1>6, <1>9
  <2> QED BY <2>1, <1>9
<1> HIDE DEF Bad
<1>12. CASE i = j
  <2>1. Reached(y, j) = j /\ Reached(i, j) = j
    <3>1. y \in (g + 1)..k BY <1>7
    <3>2. y \in Int BY <3>1, <1>1, <1>2
    <3> QED BY <3>2, <1>1, <1>12 DEF Reached
  <2>2. Dest(s[i]) = d BY <1>12, LoadHasDest DEF Dropped
  <2> HIDE DEF d, i
  <2>3. SameBut(u[y], t[j], d) BY <2>1, <2>2, <1>10, <1>11, CarryLoad
  <2> QED BY <2>1, <2>3, <1>7
<1>13. CASE i # j
  <2> DEFINE x == Closer(i, j)
  <2>1. Reached(i, j) = x /\ Reached(y, j) = x + 1 /\ x + 1 \in (f + 2)..h /\ (x + 1) - 1 = x
    BY <1>1, <1>2, <1>9, <1>13 DEF Reached, Closer
  <2>2. Alike(s[i], q[x]) /\ Spares(s[i], d) BY <1>9, <1>13, DropBlockWords
  <2> HIDE DEF x, d, i
  <2>3. t[x + 1] = Carry(q[x], t[x])
    <3>1. t[x + 1] = Carry(q[(x + 1) - 1], t[(x + 1) - 1]) BY <2>1, <1>4 DEF Flows
    <3> QED BY <2>1, <3>1
  <2>4. SameBut(Carry(s[i], u[i]), Carry(q[x], t[x]), d) BY <2>1, <2>2, <1>11, CarrySame
  <2> QED BY <2>1, <2>3, <2>4, <1>7, <1>10
<1> QED BY <1>12, <1>13

\* What the load itself has read goes nowhere.
LEMMA LoadGoesNowhere ==
  ASSUME NEW s, NEW q, NEW j, NEW k, Dropped(s, q, j, k)
  PROVE  Tainted(s, j, k, s[j].reg)[k] \subseteq {s[j].reg}
<1> DEFINE d == s[j].reg
           t == Tainted(s, j, k, d)
           Bad == {i \in (j + 1)..k : ~(t[i] \subseteq {d})}
<1>1. j \in Nat \ {0} /\ k \in Nat \ {0} /\ k > j BY DEF Dropped
<1>2. Flows(t, s, j, k, d) BY <1>1, TaintedFlows
<1>3. SUFFICES ASSUME Bad # {} PROVE FALSE
  <2>1. k \in (j + 1)..k BY <1>1
  <2> QED BY <2>1
<1> HIDE DEF t, d
<1>4. PICK i \in Bad : \A z \in Bad : i <= z
  <2>1. Bad \subseteq Nat BY <1>1
  <2> HIDE DEF Bad
  <2> QED BY <1>3, <2>1, LeastNatural
<1>5. i # j + 1
  <2>1. t[j + 1] \subseteq {d} BY <1>2 DEF Flows
  <2> QED BY <2>1, <1>4
<1> DEFINE h == i - 1
<1>6. h \in (j + 1)..k /\ ~(i <= h) /\ i \in (j + 2)..k /\ h \in 1..k /\ h # j BY <1>1, <1>4, <1>5
<1>7. t[i] = Carry(s[h], t[h]) BY <1>2, <1>6 DEF Flows
<1>8. t[h] \subseteq {d}
  <2>1. h \notin Bad BY <1>4, <1>6
  <2> QED BY <2>1, <1>6
<1>9. d \notin Uses(s[h]) BY <1>6, DropWord DEF Spares, d
<1> HIDE DEF h
<1>10. ~Propagates(s[h], t[h])
  <2>1. Uses(s[h]) \cap t[h] = {} BY <1>8, <1>9
  <2> QED BY <2>1 DEF Propagates
<1>11. t[i] \subseteq {d} BY <1>7, <1>8, <1>10 DEF Carry
<1> QED BY <1>4, <1>11

-----------------------------------------------------------------------------
(* The fetch stays the same one.                                            *)
\* T is what remains of the places U when j is taken out.
Closed(T, U, n, j) ==
  /\ T \in SUBSET (1..n) /\ U \in SUBSET (1..(n + 1))
  /\ \A x \in T : Further(x, j) \in U
  /\ \A y \in U : y # j /\ Closer(y, j) \in T
SameMost(T, U, j) ==
  /\ T = {} <=> U = {}
  /\ T # {} => Most(T) \in T /\ Most(U) = Further(Most(T), j)

LEMMA MostDropped ==
  ASSUME NEW n \in Nat, NEW j \in Nat \ {0}, NEW T, NEW U, Closed(T, U, n, j)
  PROVE  SameMost(T, U, j)
<1> SUFFICES ASSUME T \in SUBSET (1..n), U \in SUBSET (1..(n + 1)),
                    \A x \in T : Further(x, j) \in U, \A y \in U : y # j /\ Closer(y, j) \in T
             PROVE  /\ T = {} <=> U = {}
                    /\ T # {} => Most(T) \in T /\ Most(U) = Further(Most(T), j)
  BY DEF Closed, SameMost
<1>1. T = {} <=> U = {} OBVIOUS
<1>2. ASSUME T # {} PROVE Most(T) \in T /\ Most(U) = Further(Most(T), j)
  <2>1. Most(T) \in T /\ \A y \in T : Most(T) >= y BY <1>2, MostOrNone
  <2>2. U # {} BY <1>1, <1>2
  <2>3. Most(U) \in U /\ \A y \in U : Most(U) >= y
    <3>1. n + 1 \in Nat OBVIOUS
    <3> QED BY <2>2, <3>1, MostOrNone
  <2> DEFINE a == Most(T)
             b == Most(U)
  <2>4. Further(a, j) \in U /\ b >= Further(a, j) BY <2>1, <2>3
  <2>5. b # j /\ Closer(b, j) \in T /\ a >= Closer(b, j) BY <2>1, <2>3
  <2>6. a \in Nat /\ b \in Nat
    <3>1. \A x \in 1..n : x \in Nat OBVIOUS
    <3>2. \A x \in 1..(n + 1) : x \in Nat OBVIOUS
    <3>3. a \in 1..n /\ b \in 1..(n + 1) BY <2>1, <2>3
    <3> QED BY <3>1, <3>2, <3>3
  <2> HIDE DEF a, b
  <2>7. b = Further(a, j) BY <2>4, <2>5, <2>6 DEF Closer, Further
  <2> QED BY <2>1, <2>7 DEF a, b
<1> QED BY <1>1, <1>2

LEMMA DropFetches ==
  ASSUME NEW s, NEW q, NEW j, NEW k, Dropped(s, q, j, k)
  PROVE  /\ Fetches(q, k - 1) \in SUBSET (1..(k - 2)) /\ Fetches(s, k) \in SUBSET (1..(k - 1))
         /\ \A x \in Fetches(q, k - 1) : Further(x, j) \in Fetches(s, k)
         /\ \A i \in Fetches(s, k) : i # j => Closer(i, j) \in Fetches(q, k - 1)
<1>0. k \in Nat /\ \A x \in 1..(k - 2) : x \in 1..(k - 1) BY DEF Dropped
<1>1. /\ Block(s, k) \subseteq 1..(k - 1) /\ Block(q, k - 1) \subseteq 1..(k - 2)
      /\ \A i \in Block(s, k) : i # j => Closer(i, j) \in Block(q, k - 1) /\ Further(Closer(i, j), j) = i
      /\ \A x \in Block(q, k - 1) : Further(x, j) \in Block(s, k)
  BY DropBlock
<1>2. ASSUME NEW x \in Block(q, k - 1)
      PROVE  x \in Fetches(q, k - 1) <=> Further(x, j) \in Fetches(s, k)
  <2> DEFINE i == Further(x, j)
  <2>1. x \in 1..(k - 2) /\ x \in 1..(k - 1) /\ i \in Block(s, k) BY <1>0, <1>1
  <2>2. Alike(s[i], q[x]) /\ Spares(s[i], s[j].reg) BY <2>1, DropBlockWords
  <2>3. s[i].base # s[j].reg BY <2>2 DEF Spares
  <2>4. VipAdvance(s, i, k, s[i].base) <=> VipAdvance(q, x, k - 1, s[i].base) BY <2>1, <2>3, DropAdvance
  <2>5. s[i].base = q[x].base /\ s[i].reg = q[x].reg BY <2>2 DEF Alike
  <2>6. IsOpcodeLoad(s[i]) <=> IsOpcodeLoad(q[x]) BY <2>2, AlikeFacts
  <2> HIDE DEF i
  <2>7. x \in Fetches(q, k - 1) <=> i \in Fetches(s, k)
    BY <2>1, <2>4, <2>5, <2>6 DEF Fetches
  <2> QED BY <2>7 DEF i
<1>3. Fetches(q, k - 1) \subseteq Block(q, k - 1) /\ Fetches(s, k) \subseteq Block(s, k) BY DEF Fetches
<1>4. ASSUME NEW i \in Fetches(s, k), i # j PROVE Closer(i, j) \in Fetches(q, k - 1)
  <2>1. Closer(i, j) \in Block(q, k - 1) /\ Further(Closer(i, j), j) = i BY <1>1, <1>3, <1>4
  <2> QED BY <2>1, <1>2
<1> QED BY <1>1, <1>2, <1>3, <1>4

\* A fetch leads to the site with the load if it does so without it, and the
\* load itself does not.
LEMMA DropLeading ==
  ASSUME NEW s, NEW q, NEW j, NEW k, Dropped(s, q, j, k), IsIndirect(s[k])
  PROVE  /\ Leading(q, k - 1) \in SUBSET (1..(k - 2)) /\ Leading(s, k) \in SUBSET (1..(k - 1))
         /\ \A x \in Leading(q, k - 1) : Further(x, j) \in Leading(s, k)
         /\ \A i \in Leading(s, k) : i # j /\ Closer(i, j) \in Leading(q, k - 1)
<1>1. j \in Nat \ {0} /\ k \in Nat \ {0} /\ j < k BY DEF Dropped
<1>2. /\ Fetches(q, k - 1) \in SUBSET (1..(k - 2)) /\ Fetches(s, k) \in SUBSET (1..(k - 1))
      /\ \A x \in Fetches(q, k - 1) : Further(x, j) \in Fetches(s, k)
      /\ \A i \in Fetches(s, k) : i # j => Closer(i, j) \in Fetches(q, k - 1)
  BY DropFetches
<1>3. /\ Alike(s[k], q[k - 1]) /\ Spares(s[k], s[j].reg)
  <2>1. k \in 1..k /\ k # j /\ Closer(k, j) = k - 1 BY <1>1 DEF Closer
  <2> QED BY <2>1, DropWord
<1>4. IsIndirect(q[k - 1]) /\ q[k - 1].reg = s[k].reg /\ s[k].reg # s[j].reg
  BY <1>3, AlikeFacts DEF Alike, Spares
<1>5. ASSUME NEW x \in 1..(k - 2)
      PROVE  Reaches(s, Further(x, j), k, s[Further(x, j)].reg, s[k].reg)
               <=> Reaches(q, x, k - 1, q[x].reg, q[k - 1].reg)
  <2> DEFINE i == Further(x, j)
             d == s[j].reg
             u == Tainted(s, i, k, q[x].reg)[k]
             t == Tainted(q, x, k - 1, q[x].reg)[k - 1]
  <2>1. x \in 1..(k - 1) /\ k \in (i + 1)..k /\ Reached(k, j) = k - 1 BY <1>1 DEF Further, Reached
  <2>2. s[i].reg = q[x].reg BY <2>1, DropBlockWords DEF Alike
  <2>3. SameBut(u, t, d)
    <3>1. SameBut(u, Tainted(q, x, k - 1, q[x].reg)[Reached(k, j)], d) BY <2>1, DropTaint
    <3> QED BY <3>1, <2>1
  <2> HIDE DEF u, t, d, i
  <2>4. s[k].reg \in u <=> s[k].reg \in t BY <2>3, <1>4 DEF SameBut, d
  <2> QED BY <2>2, <2>4, <1>4 DEF Reaches, u, t, i
<1>6. ASSUME NEW x \in Leading(q, k - 1) PROVE Further(x, j) \in Leading(s, k)
  <2>1. x \in Fetches(q, k - 1) /\ Reaches(q, x, k - 1, q[x].reg, q[k - 1].reg)
    BY <1>4 DEF Leading
  <2>2. Reaches(s, Further(x, j), k, s[Further(x, j)].reg, s[k].reg) BY <2>1, <1>2, <1>5
  <2> QED BY <2>1, <2>2, <1>2 DEF Leading
<1>7. ASSUME NEW i \in Leading(s, k) PROVE i # j /\ Closer(i, j) \in Leading(q, k - 1)
  <2>1. i \in Fetches(s, k) /\ Reaches(s, i, k, s[i].reg, s[k].reg) BY DEF Leading
  <2>2. i # j
    <3>1. SUFFICES ASSUME i = j PROVE FALSE OBVIOUS
    <3>2. s[k].reg \in Tainted(s, j, k, s[j].reg)[k] BY <2>1, <3>1 DEF Reaches
    <3> QED BY <3>2, <1>4, LoadGoesNowhere
  <2> DEFINE x == Closer(i, j)
  <2>3. x \in Fetches(q, k - 1) /\ x \in 1..(k - 2) BY <2>1, <2>2, <1>2
  <2>4. Further(x, j) = i
    <3>1. i \in 1..(k - 1) BY <2>1, <1>2
    <3> QED BY <3>1, <2>2, <1>1 DEF Closer, Further
  <2> HIDE DEF x
  <2>5. Reaches(q, x, k - 1, q[x].reg, q[k - 1].reg) BY <2>1, <2>3, <2>4, <1>5
  <2>6. x \in Leading(q, k - 1) BY <2>3, <2>5 DEF Leading
  <2> QED BY <2>2, <2>6 DEF x
<1>8. Leading(q, k - 1) \subseteq Fetches(q, k - 1) /\ Leading(s, k) \subseteq Fetches(s, k) BY DEF Leading
<1>9. Leading(q, k - 1) \in SUBSET (1..(k - 2)) /\ Leading(s, k) \in SUBSET (1..(k - 1))
  BY <1>2, <1>8
<1> QED BY <1>6, <1>7, <1>9

LEMMA DropOpcodeFetch ==
  ASSUME NEW s, NEW q, NEW j, NEW k, Dropped(s, q, j, k), IsIndirect(s[k]), Leading(q, k - 1) # {}
  PROVE  /\ OpcodeFetch(q, k - 1) \in 1..(k - 2)
         /\ OpcodeFetch(s, k) = Further(OpcodeFetch(q, k - 1), j)
<1> DEFINE T == Leading(q, k - 1)
           U == Leading(s, k)
           n == k - 2
<1>1. j \in Nat \ {0} /\ k \in Nat \ {0} /\ n + 1 = k - 1 /\ j \in 1..(k - 1) BY DEF Dropped
<1>2. /\ T \in SUBSET (1..n) /\ U \in SUBSET (1..(k - 1))
      /\ (\A x \in T : Further(x, j) \in U) /\ (\A y \in U : y # j /\ Closer(y, j) \in T)
  BY DropLeading
<1>3. n \in Nat
  <2>1. PICK x \in T : TRUE OBVIOUS
  <2>2. x \in 1..n BY <1>2
  <2> QED BY <2>2, <1>1
<1>4. OpcodeFetch(q, k - 1) = Most(T) BY DEF OpcodeFetch
<1>5. OpcodeFetch(s, k) = IF U # {} THEN Most(U) ELSE Most(Fetches(s, k) \cup {0}) BY DEF OpcodeFetch
<1>6. T # {} OBVIOUS
<1> HIDE DEF T, U, n
<1>7. U # {} /\ Most(T) \in T /\ Most(U) = Further(Most(T), j)
  <2>1. U \in SUBSET (1..(n + 1)) /\ T \in SUBSET (1..n) BY <1>1, <1>2
  <2>2. Closed(T, U, n, j) BY <2>1, <1>2 DEF Closed
  <2>3. SameMost(T, U, j) BY <2>2, <1>1, <1>3, MostDropped
  <2> QED BY <2>3, <1>6 DEF SameMost
<1>8. Most(T) \in 1..n BY <1>2, <1>7
<1> QED BY <1>4, <1>5, <1>7, <1>8 DEF n

\* The load itself does not fetch the handler.
LEMMA DropDirectFetch ==
  ASSUME NEW s, NEW q, NEW j, NEW k, Dropped(s, q, j, k)
  PROVE  /\ DirectFetch(q, k - 1) = 0 => DirectFetch(s, k) = 0
         /\ DirectFetch(q, k - 1) # 0 =>
              DirectFetch(q, k - 1) \in 1..(k - 2) /\ DirectFetch(s, k) = Further(DirectFetch(q, k - 1), j)
<1> DEFINE T == HandlerLoads(q, k - 1)
           U == HandlerLoads(s, k)
           h == k - 1
           n == k - 2
           a == Most(T \cup {0})
           b == Most(U \cup {0})
<1>1. j \in Nat \ {0} /\ k \in Nat \ {0} /\ j < k /\ h \in Nat \ {0} /\ n \in Nat \cup {-1} BY DEF Dropped
<1>2. /\ Block(s, k) \subseteq 1..(k - 1) /\ Block(q, k - 1) \subseteq 1..(k - 2)
      /\ \A i \in Block(s, k) : i # j => Closer(i, j) \in Block(q, k - 1) /\ Further(Closer(i, j), j) = i
      /\ \A x \in Block(q, k - 1) : Further(x, j) \in Block(s, k)
  BY DropBlock
<1>3. Alike(s[k], q[k - 1]) /\ Spares(s[k], s[j].reg)
  <2>1. k \in 1..k /\ k # j /\ Closer(k, j) = k - 1 BY <1>1 DEF Closer
  <2> QED BY <2>1, DropWord
<1>4. q[k - 1].reg = s[k].reg /\ s[k].reg # s[j].reg BY <1>3 DEF Alike, Spares
<1>5. ASSUME NEW x \in Block(q, k - 1)
      PROVE  (x \in T <=> Further(x, j) \in U) /\ Alike(s[Further(x, j)], q[x])
  <2> DEFINE i == Further(x, j)
  <2>1. x \in 1..(k - 2) /\ i \in Block(s, k) BY <1>2
  <2>2. x \in 1..(k - 1) BY <2>1, <1>1
  <2>3. Alike(s[i], q[x]) BY <2>2, DropBlockWords
  <2>4. (IsPointerLoad(s[i]) <=> IsPointerLoad(q[x])) /\ s[i].reg = q[x].reg /\ s[i].base = q[x].base
    BY <2>3, AlikeFacts DEF Alike
  <2> HIDE DEF i
  <2>5. x \in T <=> i \in U BY <2>1, <2>4, <1>4 DEF HandlerLoads
  <2> QED BY <2>3, <2>5 DEF i
<1>6. ASSUME NEW y \in U PROVE y # j /\ Closer(y, j) \in T
  <2>1. y \in Block(s, k) /\ s[y].reg = s[k].reg BY DEF HandlerLoads
  <2>2. y # j BY <2>1, <1>4
  <2>3. Closer(y, j) \in Block(q, k - 1) /\ Further(Closer(y, j), j) = y BY <2>1, <2>2, <1>2
  <2> QED BY <2>2, <2>3, <1>5
<1>7. T \subseteq Block(q, k - 1) /\ U \subseteq Block(s, k) BY DEF HandlerLoads
<1>8. \A x \in T : Further(x, j) \in U BY <1>5, <1>7
<1>9. T \in SUBSET (1..n) /\ U \in SUBSET (1..h) BY <1>2, <1>7
<1>10. DirectFetch(q, h) = IF a > 0 /\ VipAdvance(q, a, h, q[a].base) THEN a ELSE 0 BY DEF DirectFetch
<1>11. DirectFetch(s, k) = IF b > 0 /\ VipAdvance(s, b, k, s[b].base) THEN b ELSE 0 BY DEF DirectFetch
<1> HIDE DEF T, U
<1>12. CASE T = {}
  <2>1. U = {} BY <1>6, <1>12
  <2>2. a = 0 /\ b = 0
    <3>1. T \cup {0} = {0} /\ U \cup {0} = {0} /\ {} \cup {0} = {0} BY <2>1, <1>12
    <3>2. Most({} \cup {0}) = 0
      <4>1. 0 \in Nat /\ {} \in SUBSET (1..0) OBVIOUS
      <4> QED BY <4>1, MostOrNone
    <3> QED BY <3>1, <3>2
  <2> HIDE DEF a, b
  <2> QED BY <2>2, <1>10, <1>11 DEF h
<1>13. CASE T # {}
  <2>1. n \in Nat /\ n + 1 = h
    <3>1. PICK x \in T : TRUE BY <1>13
    <3>2. x \in 1..n BY <3>1, <1>9
    <3> QED BY <3>2, <1>1
  <2> HIDE DEF n
  <2>2. (T = {} <=> U = {}) /\ Most(T) \in T /\ Most(U) = Further(Most(T), j)
    <3>1. U \in SUBSET (1..(n + 1)) /\ T \in SUBSET (1..n) BY <2>1, <1>9
    <3>2. n \in Nat /\ j \in Nat \ {0} BY <2>1, <1>1
    <3>3. \A y \in U : y # j /\ Closer(y, j) \in T BY <1>6
    <3>4. Closed(T, U, n, j) BY <3>1, <3>3, <1>8 DEF Closed
    <3>5. SameMost(T, U, j) BY <3>2, <3>4, MostDropped
    <3> QED BY <3>5, <1>13 DEF SameMost
  <2>3. a = Most(T) BY <2>1, <1>9, <1>13, MostOrNone
  <2>4. b = Most(U) BY <2>1, <2>2, <1>1, <1>9, <1>13, MostOrNone
  <2> HIDE DEF a, b, h
  <2>5. a \in T /\ a \in 1..n /\ b = Further(a, j) BY <2>2, <2>3, <2>4, <1>9
  <2>6. a > 0 /\ b > 0 /\ a \in 1..(k - 2)
    <3>1. a \in 1..n BY <2>5
    <3> QED BY <3>1, <2>1, <2>5, <1>1 DEF Further, n
  <2>7. Alike(s[b], q[a]) BY <2>5, <1>5, <1>7
  <2>8. s[b].base = q[a].base /\ s[b].base # s[j].reg
    <3>1. a \in 1..(k - 1) BY <2>6, <1>1
    <3>2. Spares(s[b], s[j].reg) BY <3>1, <2>5, DropBlockWords
    <3> QED BY <3>2, <2>7 DEF Alike, Spares
  <2>9. VipAdvance(s, b, k, s[b].base) <=> VipAdvance(q, a, k - 1, q[a].base)
    BY <2>5, <2>6, <2>8, DropAdvance
  <2>10. CASE VipAdvance(q, a, k - 1, q[a].base)
    <3>1. DirectFetch(q, h) = a /\ DirectFetch(s, k) = b BY <2>6, <2>9, <2>10, <1>10, <1>11 DEF h
    <3> QED BY <3>1, <2>5, <2>6 DEF h
  <2>11. CASE ~VipAdvance(q, a, k - 1, q[a].base)
    <3>1. DirectFetch(q, h) = 0 /\ DirectFetch(s, k) = 0 BY <2>9, <2>11, <1>10, <1>11 DEF h
    <3> QED BY <3>1 DEF h
  <2> QED BY <2>10, <2>11
<1> QED BY <1>12, <1>13

-----------------------------------------------------------------------------
(* The target comes from the same load.                                     *)
LEMMA DropTrace ==
  ASSUME NEW s, NEW q, NEW j, NEW k, Dropped(s, q, j, k), NEW target, target # s[j].reg,
         NEW f \in 1..(k - 2), NEW u, NEW t,
         \A y \in (Further(f, j) + 1)..k : SameBut(u[y], t[Reached(y, j)], s[j].reg)
  PROVE  Trace(s, k, target, Further(f, j), u) = Trace(q, k - 1, target, f, t)
<1> DEFINE h == k - 1
           c == Boundary(q, h)
           b == Boundary(s, k)
           g == Further(f, j)
           d == s[j].reg
           P == Regs(q, h, target)
           R == Regs(s, k, target)
<1>1. j \in Nat \ {0} /\ k \in Nat \ {0} /\ h \in Nat \ {0} /\ j \in 1..h /\ f \in Nat /\ k = h + 1 BY DEF Dropped
<1>2. /\ c \in 1..h
      /\ (c < j /\ b = c) \/ (c = j /\ b \in {j, j + 1}) \/ (c > j /\ b = c + 1)
  BY DropBoundary
<1>3. /\ Block(s, k) = b..(k - 1) /\ Block(q, h) = c..(h - 1)
      /\ Block(s, k) \subseteq 1..(k - 1) /\ Block(q, h) \subseteq 1..(k - 2)
      /\ \A x \in Block(q, h) : Further(x, j) \in Block(s, k)
  <2>1. Block(s, k) = b..(k - 1) /\ Block(q, h) = c..(h - 1) BY DEF Block
  <2> QED BY <2>1, DropBlock
<1>4. ASSUME NEW x \in Block(q, h)
      PROVE  Uses(q[x]) = Uses(s[Further(x, j)]) /\ d \notin Uses(q[x]) /\ DOMAIN q[x].uses \subseteq Nat
  <2> DEFINE i == Further(x, j)
  <2>1. x \in 1..(k - 1) BY <1>1, <1>3
  <2>2. i \in 1..k /\ Alike(s[i], q[x]) /\ Spares(s[i], d) BY <2>1, DropBlockWords
  <2> HIDE DEF i, d
  <2>3. DOMAIN s[i].uses \subseteq Nat BY <2>2 DEF Dropped
  <2>4. Uses(q[x]) = Uses(s[i]) BY <2>2, AlikeFacts
  <2>5. s[i].uses = q[x].uses BY <2>2 DEF Alike
  <2> QED BY <2>2, <2>3, <2>4, <2>5 DEF Spares, i
<1>5. P \subseteq R /\ d \notin P
  <2>1. ASSUME NEW reg \in P PROVE reg \in R /\ reg # d
    <3>1. CASE reg = target BY <3>1 DEF Regs
    <3>2. CASE reg # target
      <4>1. PICK x \in Block(q, h) : reg \in Uses(q[x]) BY <3>2 DEF Regs
      <4>2. reg \in Uses(s[Further(x, j)]) /\ Further(x, j) \in Block(s, k) /\ reg # d
        BY <4>1, <1>3, <1>4
      <4> QED BY <4>2 DEF Regs
    <3> QED BY <3>1, <3>2
  <2> QED BY <2>1
<1>6. PICK x : Traces(x, q, h, target, f, t) /\ Trace(q, h, target, f, t) = x[h - 1][target]
  <2>1. \A i \in Block(q, h) : DOMAIN q[i].uses \subseteq Nat BY <1>4
  <2> HIDE DEF h
  <2>2. h \in Nat \ {0} /\ Countable(q, h) BY <2>1, <1>1 DEF Countable
  <2>3. HasTrace(q, h, target, f, t) BY <2>2, TraceTraces
  <2> QED BY <2>3 DEF HasTrace
<1>7. PICK y : Traces(y, s, k, target, g, u) /\ Trace(s, k, target, g, u) = y[k - 1][target]
  <2>1. ASSUME NEW i \in Block(s, k) PROVE DOMAIN s[i].uses \subseteq Nat
    <3>1. i \in 1..(k - 1) BY <1>3
    <3>2. i \in 1..k BY <3>1, <1>1
    <3> QED BY <3>2 DEF Dropped
  <2> HIDE DEF g
  <2>2. k \in Nat \ {0} /\ Countable(s, k) BY <2>1, <1>1 DEF Countable
  <2>3. HasTrace(s, k, target, g, u) BY <2>2, TraceTraces
  <2> QED BY <2>3 DEF HasTrace
<1>8. x[c - 1] = Unwritten(P) /\ \A i \in c..(h - 1) : x[i] = Row(q[i], P, x[i - 1], From(q, f, t, i))
  BY <1>6 DEF Traces
<1>9. y[b - 1] = Unwritten(R) /\ \A i \in b..(k - 1) : y[i] = Row(s[i], R, y[i - 1], From(s, g, u, i))
  BY <1>7 DEF Traces
<1> DEFINE At(i) == IF i < j THEN i ELSE i - 1
           Equal(i) == \A reg \in P : y[i][reg] = x[At(i)][reg]
           Bad == {i \in b..(k - 1) : ~Equal(i)}
<1> HIDE DEF P, R, b, c
<1>10. Equal(b - 1)
  <2>1. At(b - 1) = c - 1 BY <1>1, <1>2
  <2> HIDE DEF At
  <2>2. \A reg \in P : y[b - 1][reg] = x[c - 1][reg] BY <1>5, <1>8, <1>9 DEF Unwritten
  <2> QED BY <2>1, <2>2
<1>11. ASSUME NEW i \in b..(k - 1), Equal(i - 1) PROVE Equal(i)
  <2>1. b \in 1..k /\ i \in Nat /\ i >= 1 /\ i \in 1..k BY <1>1, <1>2
  <2>2. y[i] = Row(s[i], R, y[i - 1], From(s, g, u, i)) BY <1>9
  <2>3. CASE i = j
    <3>1. At(i) = At(i - 1) BY <2>1, <2>3, <1>1
    <3>2. Dest(s[i]) = d BY <2>3, LoadHasDest DEF Dropped
    <3> HIDE DEF At, d
    <3>3. \A reg \in P : y[i][reg] = y[i - 1][reg] BY <2>2, <3>2, <1>5 DEF Row, Back
    <3> QED BY <3>1, <3>3, <1>11
  <2>4. CASE i # j
    <3> DEFINE z == Closer(i, j)
    <3>1. At(i) = z /\ At(i - 1) = z - 1 /\ z \in c..(h - 1) /\ z \in 1..h
      BY <2>1, <2>4, <1>1, <1>2 DEF Closer
    <3>2. Alike(s[i], q[z]) /\ Spares(s[i], d) BY <2>1, <2>4, DropBlockWords
    <3>3. x[z] = Row(q[z], P, x[z - 1], From(q, f, t, z)) BY <3>1, <1>8
    <3>4. i > g <=> z > f BY <2>1, <2>4, <1>1 DEF Closer, Further
    <3>5. Reached(i, j) = z BY <2>1, <2>4, <1>1 DEF Closer, Reached
    <3>6. g > 0 /\ f > 0 BY <1>1 DEF Further
    <3>7. z \in Block(q, h) BY <3>1, <1>3
    <3> HIDE DEF At, z
    <3>8. From(s, g, u, i) = From(q, f, t, z)
      <4>1. CASE i > g
        <5>1. i \in (g + 1)..k
          <6>1. g \in Nat BY <1>1 DEF Further
          <6> HIDE DEF g
          <6> QED BY <6>1, <4>1, <2>1, <1>1
        <5>2. SameBut(u[i], t[z], d)
          <6>1. SameBut(u[i], t[Reached(i, j)], d) BY <5>1
          <6> QED BY <6>1, <3>5
        <5> HIDE DEF d, g
        <5>3. Source(s[i], u[i]) = Source(q[z], t[z]) BY <5>2, <3>2, SourceSame
        <5> QED BY <4>1, <5>3, <3>4, <3>6 DEF From
      <4>2. CASE ~(i > g)
        <5> HIDE DEF g
        <5> QED BY <4>2, <3>4 DEF From
      <4> QED BY <4>1, <4>2
    <3> DEFINE from == From(q, f, t, z)
    <3>9. from # NoReg => from \in P
      <4>1. from # NoReg => from \in Uses(q[z]) BY <3>7, <1>4, SourceIsUsed DEF From
      <4> HIDE DEF from
      <4> QED BY <4>1, <3>7 DEF Regs, P
    <3>10. /\ Dest(s[i]) = Dest(q[z]) /\ (IsLoad(s[i]) <=> IsLoad(q[z]))
           /\ (IsTransform(s[i]) <=> IsTransform(q[z])) /\ s[i].base = q[z].base
      BY <3>2, AlikeFacts DEF Alike
    <3> HIDE DEF from, d, g
    <3>11. \A reg \in P : y[i - 1][reg] = x[z - 1][reg] BY <3>1, <1>11
    <3>12. ASSUME NEW reg \in P
           PROVE  Back(s[i], reg, y[i - 1], from) = Back(q[z], reg, x[z - 1], from)
      <4>1. y[i - 1][reg] = x[z - 1][reg] BY <3>11
      <4>2. from # NoReg => y[i - 1][from] = x[z - 1][from] BY <3>9, <3>11
      <4> QED BY <4>1, <4>2, <3>10 DEF Back
    <3>13. \A reg \in P : y[i][reg] = x[z][reg]
      <4>1. \A reg \in P : y[i][reg] = Back(s[i], reg, y[i - 1], from)
        BY <2>2, <3>8, <1>5 DEF Row, from
      <4>2. \A reg \in P : x[z][reg] = Back(q[z], reg, x[z - 1], from)
        BY <3>3 DEF Row, from
      <4> QED BY <4>1, <4>2, <3>12
    <3> QED BY <3>1, <3>13
  <2> QED BY <2>3, <2>4
<1> HIDE DEF Equal, At
<1>12. Bad = {}
  <2>1. SUFFICES ASSUME Bad # {} PROVE FALSE OBVIOUS
  <2>2. PICK i \in Bad : \A e \in Bad : i <= e
    <3>1. Bad \subseteq Nat BY <1>1, <1>2
    <3> HIDE DEF Bad
    <3> QED BY <2>1, <3>1, LeastNatural
  <2>3. i \in b..(k - 1) /\ ~Equal(i) /\ b \in 1..k BY <2>2, <1>1, <1>2
  <2>4. Equal(i - 1)
    <3>1. CASE i = b BY <3>1, <1>10
    <3>2. CASE i # b
      <4>1. i - 1 \in b..(k - 1) /\ ~(i <= i - 1) BY <3>2, <2>3, <1>1
      <4>2. i - 1 \notin Bad BY <4>1, <2>2
      <4> QED BY <4>1, <4>2
    <3> QED BY <3>1, <3>2
  <2> QED BY <2>3, <2>4, <1>11
<1>13. Equal(k - 1)
  <2>1. b \in 1..k BY <1>1, <1>2
  <2>2. CASE b = k BY <2>2, <1>10
  <2>3. CASE b # k
    <3>1. k - 1 \in b..(k - 1) BY <2>1, <2>3, <1>1
    <3> QED BY <3>1, <1>12
  <2> QED BY <2>2, <2>3
<1>14. At(k - 1) = h - 1 BY <1>1 DEF At
<1>15. target \in P BY DEF P, Regs
<1>16. y[k - 1][target] = x[h - 1][target] BY <1>13, <1>14, <1>15 DEF Equal
<1> QED BY <1>6, <1>7, <1>16 DEF g, h

\* What the site shares with the rest of the block stays shared.
LEMMA DropContext ==
  ASSUME NEW s, NEW q, NEW j, NEW k, Dropped(s, q, j, k), NEW vip, NEW table,
         SharedContext(q, k - 1, vip, table)
  PROVE  SharedContext(s, k, vip, table)
<1> DEFINE P == Block(q, k - 1)
           Q == Block(s, k)
           p(base) == {x \in P : q[x].base = base}
           r(base) == {i \in Q : s[i].base = base}
<1>1. k \in Nat \ {0} BY DEF Dropped
<1>2. ASSUME NEW x \in P PROVE Further(x, j) \in Q /\ Alike(s[Further(x, j)], q[x])
  <2>1. Further(x, j) \in Q /\ x \in 1..(k - 2) BY DropBlock
  <2>2. x \in 1..(k - 1) BY <2>1, <1>1
  <2> QED BY <2>1, <2>2, DropBlockWords
<1>3. Q \subseteq 1..(k - 1) BY DropBlock
<1> HIDE DEF P, Q
<1>4. PICK base \in {q[x].base : x \in P} \ {NoReg, "sp", vip, table} :
        Cardinality({q[x].disp : x \in p(base)}) >= 2 /\ \E x \in p(base) : IsStore(q[x])
  BY DEF SharedContext, P
<1>5. ASSUME NEW x \in p(base)
      PROVE  Further(x, j) \in r(base) /\ s[Further(x, j)].disp = q[x].disp
             /\ (IsStore(s[Further(x, j)]) <=> IsStore(q[x]))
  <2>1. Further(x, j) \in Q /\ Alike(s[Further(x, j)], q[x]) BY <1>2
  <2> QED BY <2>1, AlikeFacts DEF Alike
<1>6. base \in {s[i].base : i \in Q}
  <2>1. PICK x \in P : q[x].base = base BY <1>4
  <2>2. Further(x, j) \in Q /\ s[Further(x, j)].base = base BY <2>1, <1>2 DEF Alike
  <2> QED BY <2>2
<1>7. \E i \in r(base) : IsStore(s[i]) BY <1>4, <1>5
<1> DEFINE A == {q[x].disp : x \in p(base)}
           B == {s[i].disp : i \in r(base)}
<1>8. A \subseteq B BY <1>5
<1>9. IsFiniteSet(B)
  <2>1. IsFiniteSet(1..(k - 1))
    <3>1. 1 \in Int /\ k - 1 \in Int BY <1>1
    <3> QED BY <3>1, FS_Interval
  <2>2. IsFiniteSet(r(base))
    <3>1. r(base) \subseteq 1..(k - 1) BY <1>3
    <3> QED BY <2>1, <3>1, FS_Subset
  <2> DEFINE S == r(base)
             e == [i \in S |-> s[i].disp]
  <2> HIDE DEF r
  <2>3. e \in [S -> B] /\ \A v \in B : \E i \in S : e[i] = v OBVIOUS
  <2>4. e \in Surjection(S, B)
    <3> HIDE DEF S, e, B
    <3> QED BY <2>3 DEF Surjection
  <2> HIDE DEF e, B
  <2> QED BY <2>2, <2>4, FS_Surjection
<1> HIDE DEF A, B
<1>10. Cardinality(B) >= 2
  <2>1. Cardinality(A) <= Cardinality(B) /\ IsFiniteSet(A) BY <1>8, <1>9, FS_Subset
  <2>2. Cardinality(A) \in Nat /\ Cardinality(B) \in Nat BY <2>1, <1>9, FS_CardinalityType
  <2>3. Cardinality(A) >= 2 BY <1>4 DEF A
  <2> QED BY <2>1, <2>2, <2>3
<1> QED BY <1>4, <1>6, <1>7, <1>10 DEF SharedContext, B, Q

-----------------------------------------------------------------------------
\* A strong site stays one with the load in place.
Strong(s, k, flow) == ~AbiThunk(s, k, flow) /\ (ClassicStrong(flow) \/ DirectStrong(s, k, flow))

LEMMA StrongIsSaid ==
  ASSUME NEW s, NEW k
  PROVE  Said(s, k).strength = "strong" <=> Strong(s, k, Flow(s, k))
<1> DEFINE flow == Flow(s, k)
<1>1. Said(s, k).strength = IF AbiThunk(s, k, flow) THEN "thunk" ELSE Strength(s, k, flow)
  BY DEF Said, SaidOf
<1> HIDE DEF flow
<1>2. ~AbiThunk(s, k, flow) => (Strength(s, k, flow) = "strong" <=> ClassicStrong(flow) \/ DirectStrong(s, k, flow))
  BY DEF Strength
<1> QED BY <1>1, <1>2 DEF Strong, flow

\* What the flow of a site says, by the fetch.
LEMMA FlowIs ==
  ASSUME NEW s, NEW k
  PROVE  LET d == DirectFetch(s, k)
             f == IF d > 0 THEN d ELSE OpcodeFetch(s, k)
             taint == IF f > 0 THEN Tainted(s, f, k, s[f].reg) ELSE << >>
             trace == Trace(s, k, s[k].reg, f, taint)
         IN  /\ Flow(s, k).fetch = f /\ Flow(s, k).direct = (d > 0)
             /\ Flow(s, k).vip = (IF f > 0 THEN s[f].base ELSE NoReg)
             /\ Flow(s, k).advanced = (f > 0 /\ VipAdvance(s, f, k, s[f].base))
             /\ Flow(s, k).linked = (f > 0 /\ d = 0 /\ s[k].reg \in taint[k])
             /\ Flow(s, k).loaded = (d > 0 \/ trace.loaded)
             /\ Flow(s, k).table = (IF d > 0 THEN s[f].base ELSE trace.base)
<1> DEFINE d == DirectFetch(s, k)
           f == IF d > 0 THEN d ELSE OpcodeFetch(s, k)
           taint == IF f > 0 THEN Tainted(s, f, k, s[f].reg) ELSE << >>
           trace == Trace(s, k, s[k].reg, f, taint)
<1>1. Flow(s, k) = Found(s, k, d, f, taint, trace) BY DEF Flow, FlowOf, Fetched, Traced
<1> HIDE DEF d, f, taint, trace
<1>2. /\ Flow(s, k).fetch = f /\ Flow(s, k).direct = (d > 0)
      /\ Flow(s, k).vip = (IF f > 0 THEN s[f].base ELSE NoReg)
      /\ Flow(s, k).advanced = (f > 0 /\ VipAdvance(s, f, k, s[f].base))
      /\ Flow(s, k).linked = (f > 0 /\ d = 0 /\ s[k].reg \in taint[k])
      /\ Flow(s, k).loaded = (d > 0 \/ trace.loaded)
      /\ Flow(s, k).table = (IF d > 0 THEN s[f].base ELSE trace.base)
  BY <1>1 DEF Found
<1> QED BY <1>2 DEF d, f, taint, trace
LEMMA DropStrong ==
  ASSUME NEW s, NEW q, NEW j, NEW k, Dropped(s, q, j, k), IsIndirect(s[k]),
         \A x \in DOMAIN q \cup 1..(k - 1) : ~IsDirectJump(q[x]),
         Strong(q, k - 1, Flow(q, k - 1))
  PROVE  Strong(s, k, Flow(s, k))
<1> DEFINE h == k - 1
           a == Flow(q, h)
           b == Flow(s, k)
           dq == DirectFetch(q, h)
           fq == IF dq > 0 THEN dq ELSE OpcodeFetch(q, h)
           tq == IF fq > 0 THEN Tainted(q, fq, h, q[fq].reg) ELSE << >>
           trq == Trace(q, h, q[h].reg, fq, tq)
           ds == DirectFetch(s, k)
           fs == IF ds > 0 THEN ds ELSE OpcodeFetch(s, k)
           us == IF fs > 0 THEN Tainted(s, fs, k, s[fs].reg) ELSE << >>
           trs == Trace(s, k, s[k].reg, fs, us)
           reg == s[j].reg
<1>1. j \in Nat \ {0} /\ k \in Nat \ {0} /\ h \in Nat \ {0} /\ j < k /\ k = h + 1 BY DEF Dropped
<1>2. Alike(s[k], q[h]) /\ Spares(s[k], reg)
  <2>1. k \in 1..k /\ k # j /\ Closer(k, j) = h BY <1>1 DEF Closer
  <2> QED BY <2>1, DropWord
<1>3. s[k].reg = q[h].reg /\ s[k].reg # reg /\ (IsIndirectCall(s[k]) <=> IsIndirectCall(q[h]))
      /\ IsIndirect(q[h])
  BY <1>2, AlikeFacts DEF Alike, Spares
<1>4. /\ dq = 0 => ds = 0
      /\ dq # 0 => dq \in 1..(k - 2) /\ ds = Further(dq, j)
  BY DropDirectFetch
<1>5. /\ a.fetch = fq /\ a.direct = (dq > 0) /\ a.vip = (IF fq > 0 THEN q[fq].base ELSE NoReg)
      /\ a.advanced = (fq > 0 /\ VipAdvance(q, fq, h, q[fq].base))
      /\ a.linked = (fq > 0 /\ dq = 0 /\ q[h].reg \in tq[h])
      /\ a.loaded = (dq > 0 \/ trq.loaded)
      /\ a.table = (IF dq > 0 THEN q[fq].base ELSE trq.base)
  BY FlowIs
<1>6. /\ b.fetch = fs /\ b.direct = (ds > 0) /\ b.vip = (IF fs > 0 THEN s[fs].base ELSE NoReg)
      /\ b.advanced = (fs > 0 /\ VipAdvance(s, fs, k, s[fs].base))
      /\ b.linked = (fs > 0 /\ ds = 0 /\ s[k].reg \in us[k])
      /\ b.loaded = (ds > 0 \/ trs.loaded)
      /\ b.table = (IF ds > 0 THEN s[fs].base ELSE trs.base)
  BY FlowIs
<1>7. Strong(q, h, a) OBVIOUS
<1>8. ~LocalBackEdge(q, h) /\ ~IncomingEdge(q, h)
  <2>1. \A x \in Block(q, h) : x \in 1..(k - 1)
    <3>1. \A x \in 1..(k - 2) : x \in 1..(k - 1) BY <1>1
    <3> QED BY <3>1, DropBlock
  <2> QED BY <2>1 DEF LocalBackEdge, IncomingEdge
<1> HIDE DEF a, b, ds, dq
<1>9. \A f \in 1..(k - 2) :
        /\ s[Further(f, j)].base = q[f].base /\ s[Further(f, j)].reg = q[f].reg
        /\ VipAdvance(s, Further(f, j), k, s[Further(f, j)].base) <=> VipAdvance(q, f, h, q[f].base)
  <2> SUFFICES ASSUME NEW f \in 1..(k - 2)
               PROVE  /\ s[Further(f, j)].base = q[f].base /\ s[Further(f, j)].reg = q[f].reg
                      /\ VipAdvance(s, Further(f, j), k, s[Further(f, j)].base) <=> VipAdvance(q, f, h, q[f].base)
    OBVIOUS
  <2>1. f \in 1..(k - 1) BY <1>1
  <2>2. Alike(s[Further(f, j)], q[f]) /\ Spares(s[Further(f, j)], reg) BY <2>1, DropBlockWords
  <2>3. s[Further(f, j)].base = q[f].base /\ s[Further(f, j)].reg = q[f].reg /\ q[f].base # reg
    BY <2>2 DEF Alike, Spares
  <2> QED BY <2>3, DropAdvance
<1>10. CASE dq > 0
  <2>1. dq \in 1..(k - 2) /\ ds = Further(dq, j) /\ fq = dq BY <1>4, <1>10
  <2>2. ds > 0 /\ fs = Further(dq, j) BY <2>1, <1>1 DEF Further
  <2>3. ~ClassicStrong(a)
    <3> HIDE DEF fq, tq, us, trq, fs, trs, h
    <3>1. dq # 0 BY <1>10
    <3>2. a.linked = (fq > 0 /\ dq = 0 /\ q[h].reg \in tq[h]) BY <1>5
    <3>3. ~a.linked BY <3>1, <3>2
    <3> QED BY <3>3 DEF ClassicStrong
  <2>4. DirectStrong(q, h, a) /\ ~AbiThunk(q, h, a) BY <2>3, <1>7 DEF Strong
  <2> HIDE DEF fs, fq, tq, us, trq, trs
  <2>5. b.vip = a.vip /\ b.table = a.table /\ a.direct /\ b.direct
    <3> HIDE DEF h
    <3>1. s[fs].base = q[fq].base BY <2>1, <2>2, <1>9
    <3>2. fs > 0 /\ fq > 0 BY <2>1, <2>2, <1>10
    <3>3. a.vip = q[fq].base /\ b.vip = s[fs].base BY <3>2, <1>5, <1>6
    <3>4. a.table = q[fq].base /\ a.direct BY <1>5, <1>10
    <3>5. b.table = s[fs].base /\ b.direct BY <2>2, <1>6
    <3> QED BY <3>1, <3>3, <3>4, <3>5
  <2>6. b.advanced
    <3>1. VipAdvance(q, dq, h, q[dq].base) BY <2>1, <2>4, <1>5 DEF DirectStrong
    <3>2. VipAdvance(s, fs, k, s[fs].base) BY <3>1, <2>1, <2>2, <1>9
    <3>3. fs > 0 BY <2>1, <2>2, <1>1 DEF Further
    <3> QED BY <3>2, <3>3, <1>6
  <2>7. DirectStrong(s, k, b) BY <2>4, <2>5, <2>6, <1>3 DEF DirectStrong
  <2>8. ~AbiThunk(s, k, b)
    <3>1. SharedContext(q, h, a.vip, a.table) => SharedContext(s, k, a.vip, a.table) BY DropContext
    <3> QED BY <3>1, <2>4, <2>5, <1>3, <1>8 DEF AbiThunk
  <2> QED BY <2>7, <2>8 DEF Strong, b
<1>11. CASE ~(dq > 0)
  <2>1. dq = 0 /\ ds = 0 /\ fq = OpcodeFetch(q, h) /\ fs = OpcodeFetch(s, k)
    <3>1. \A x \in 1..(k - 2) : x > 0 BY <1>1
    <3>2. dq = 0 BY <3>1, <1>4, <1>11
    <3> QED BY <3>2, <1>4
  <2>2. ~a.direct /\ ~b.direct
    <3> HIDE DEF fq, tq, us, trq, fs, trs, h
    <3>1. a.direct = (dq > 0) /\ b.direct = (ds > 0) BY <1>5, <1>6
    <3>2. dq = 0 /\ ds = 0 BY <2>1
    <3>3. ~(dq > 0) /\ ~(ds > 0) BY <3>2
    <3> QED BY <3>1, <3>3
  <2>3. ClassicStrong(a) BY <2>2, <1>7 DEF Strong, DirectStrong
  <2>4. fq > 0 /\ VipAdvance(q, fq, h, q[fq].base) /\ q[h].reg \in tq[h] /\ trq.loaded
    <3> HIDE DEF fq, tq, us, trq, fs, trs, h
    <3>1. a.fetch > 0 /\ a.advanced /\ a.loaded /\ a.linked BY <2>3 DEF ClassicStrong
    <3>2. a.linked = (fq > 0 /\ dq = 0 /\ q[h].reg \in tq[h]) BY <1>5
    <3>3. fq > 0 /\ q[h].reg \in tq[h] BY <3>1, <3>2
    <3>4. a.advanced = (fq > 0 /\ VipAdvance(q, fq, h, q[fq].base)) BY <1>5
    <3>5. VipAdvance(q, fq, h, q[fq].base) BY <3>1, <3>4
    <3>6. a.loaded = (dq > 0 \/ trq.loaded) BY <1>5
    <3>7. trq.loaded BY <3>1, <3>6, <1>11
    <3> QED BY <3>3, <3>5, <3>7
  <2>5. fq \in Leading(q, h)
    <3>1. fq \in Fetches(q, h) BY <2>1, <2>4, <1>1, FetchIsLoad
    <3>2. tq = Tainted(q, fq, h, q[fq].reg) BY <2>4
    <3> HIDE DEF fq, tq, h
    <3> QED BY <3>1, <3>2, <2>4 DEF Leading, Reaches
  <2>6. fq \in 1..(k - 2) /\ fs = Further(fq, j)
    <3>1. Leading(q, k - 1) # {} BY <2>5
    <3>2. /\ OpcodeFetch(q, k - 1) \in 1..(k - 2)
          /\ OpcodeFetch(s, k) = Further(OpcodeFetch(q, k - 1), j)
      BY <3>1, DropOpcodeFetch
    <3> QED BY <3>2, <2>1
  <2> HIDE DEF fq, fs
  <2>7. fs > 0 BY <2>6, <1>1 DEF Further
  <2>8. us = Tainted(s, fs, k, q[fq].reg) /\ tq = Tainted(q, fq, h, q[fq].reg)
    BY <2>4, <2>6, <2>7, <1>9
  <2>9. \A y \in (Further(fq, j) + 1)..k : SameBut(us[y], tq[Reached(y, j)], reg)
    <3>1. \A y \in (Further(fq, j) + 1)..k :
            SameBut(Tainted(s, Further(fq, j), k, q[fq].reg)[y], Tainted(q, fq, k - 1, q[fq].reg)[Reached(y, j)], s[j].reg)
      BY <2>6, DropTaint
    <3> HIDE DEF us, tq
    <3> QED BY <3>1, <2>6, <2>8
  <2> HIDE DEF us, tq
  <2>10. s[k].reg \in us[k]
    <3>1. k \in (Further(fq, j) + 1)..k /\ Reached(k, j) = h BY <2>6, <1>1 DEF Further, Reached
    <3>2. SameBut(us[k], tq[h], reg) BY <3>1, <2>9
    <3> QED BY <3>2, <2>4, <1>3 DEF SameBut
  <2>11. trs = trq
    <3>1. s[k].reg # s[j].reg BY <1>3
    <3>2. \A y \in (Further(fq, j) + 1)..k : SameBut(us[y], tq[Reached(y, j)], s[j].reg) BY <2>9
    <3>3. Trace(s, k, s[k].reg, Further(fq, j), us) = Trace(q, k - 1, s[k].reg, fq, tq)
      BY <3>1, <3>2, <2>6, DropTrace
    <3> QED BY <3>3, <2>6, <1>3
  <2> HIDE DEF trs, trq
  <2>12. VipAdvance(s, fs, k, s[fs].base) BY <2>4, <2>6, <1>9
  <2>13. ClassicStrong(b)
    <3>1. b.fetch > 0 /\ b.advanced /\ b.loaded /\ b.linked
      BY <2>1, <2>4, <2>7, <2>10, <2>11, <2>12, <1>6
    <3> QED BY <3>1 DEF ClassicStrong
  <2>14. ~AbiThunk(s, k, b) BY <2>2 DEF AbiThunk
  <2> QED BY <2>13, <2>14 DEF Strong, b
<1> QED BY <1>10, <1>11

LEMMA DecoysHold ==
  ASSUME WInv
  PROVE  DecoysHideNothing
<1> SUFFICES ASSUME NEW k \in Sites, NEW j \in 1..(k - 1), Idle(j), k <= Lookback + 1,
                    \A i \in DOMAIN insns : ~IsDirectJump(insns[i]),
                    Said(DropAt(j), k - 1).strength = "strong"
             PROVE  Said(insns, k).strength = "strong"
  BY DEF DecoysHideNothing
<1> DEFINE n == Len(insns)
           q == DropAt(j)
<1>1. n \in Nat /\ DOMAIN insns = 1..n /\ k \in 1..n /\ IsIndirect(insns[k]) BY DEF WInv, Sites
<1>2. j \in Nat \ {0} /\ k \in Nat /\ j < k BY <1>1
<1>3. /\ \A i \in 1..n : insns[i].address \in Nat
      /\ \A i \in 2..n : insns[i - 1].address < insns[i].address
  BY DEF WInv, Ascending
<1>4. ASSUME NEW i \in 1..n
      PROVE  \E w \in Words : \E a \in Nat : insns[i] = Populate(w, a)
  <2>1. insns[i] \in Instructions BY <1>1 DEF WInv
  <2> QED BY <2>1 DEF Instructions
<1>5. ASSUME NEW i \in 1..n PROVE DOMAIN insns[i].uses \subseteq Nat
  <2>1. PICK w \in Words, a \in Nat : insns[i] = Populate(w, a) BY <1>4
  <2>2. insns[i].uses = [h \in DOMAIN w.uses |-> Canonical(w.uses[h])] BY <2>1 DEF Populate, Operands
  <2>3. DOMAIN w.uses \subseteq Nat BY WalkAssumption
  <2> QED BY <2>2, <2>3
<1>6. DOMAIN q = 1..(n - 1) /\ \A x \in 1..(n - 1) :
        q[x] = IF x < j THEN insns[x] ELSE [insns[x + 1] EXCEPT !.address = @ - 1]
  BY DEF DropAt
<1> HIDE DEF q, n
<1>7. ASSUME NEW i \in 1..n, i # j
      PROVE  /\ Closer(i, j) \in 1..(n - 1)
             /\ Alike(insns[i], q[Closer(i, j)]) /\ insns[i].target = q[Closer(i, j)].target
             /\ q[Closer(i, j)].address = insns[i].address - (IF i < j THEN 0 ELSE 1)
  <2> DEFINE x == Closer(i, j)
             ins == insns[i]
  <2>1. x \in 1..(n - 1) /\ (x < j <=> i < j) /\ (~(i < j) => x + 1 = i) /\ (i < j => x = i)
    BY <1>1, <1>2, <1>7 DEF Closer
  <2>2. q[x] = IF i < j THEN ins ELSE [ins EXCEPT !.address = @ - 1]
    <3> HIDE DEF x
    <3> QED BY <2>1, <1>6
  <2>3. PICK w \in Words, a \in Nat : ins = Populate(w, a) BY <1>4
  <2> HIDE DEF x
  <2>4. ins.address \in Nat BY <1>3
  <2> HIDE DEF ins
  <2>5. CASE i < j
    <3>1. q[x] = ins /\ ins.address - 0 = ins.address BY <2>2, <2>4, <2>5
    <3> QED BY <3>1, <2>1, <2>5 DEF Alike, x, ins
  <2>6. CASE ~(i < j)
    <3>1. q[x] = [ins EXCEPT !.address = @ - 1] BY <2>2, <2>6
    <3>2. Alike(ins, q[x]) /\ ins.target = q[x].target /\ q[x].address = ins.address - 1
      BY <3>1, <2>3 DEF Alike, Populate
    <3> QED BY <3>2, <2>1, <2>6 DEF x, ins
  <2> QED BY <2>5, <2>6
<1>8. ASSUME NEW i \in 1..n, i # j PROVE Spares(insns[i], insns[j].reg)
  <2>1. insns[j].reg \in Changes(insns[j]) BY DEF Changes
  <2>2. Changes(insns[j]) \cap (Uses(insns[i]) \cup {insns[i].reg, insns[i].base}) = {}
    BY <1>1, <1>8 DEF Idle
  <2> QED BY <2>1, <2>2 DEF Spares
<1>9. Dropped(insns, q, j, k)
  <2>1. \A i \in 1..k : i \in 1..n BY <1>1
  <2>2. \A i \in 2..k : i \in 2..n BY <1>1
  <2>3. IsLoad(insns[j]) BY DEF Idle
  <2>4. \A i \in 1..k : i # j =>
           /\ Alike(insns[i], q[Closer(i, j)]) /\ Spares(insns[i], insns[j].reg)
           /\ q[Closer(i, j)].address = insns[i].address - (IF i < j THEN 0 ELSE 1)
    BY <2>1, <1>7, <1>8
  <2>5. \A i \in 1..k : insns[i].address \in Nat /\ DOMAIN insns[i].uses \subseteq Nat
    BY <2>1, <1>3, <1>5
  <2>6. \A i \in 2..k : insns[i - 1].address < insns[i].address BY <2>2, <1>3
  <2> QED BY <2>3, <2>4, <2>5, <2>6, <1>2 DEF Dropped
<1>10. ASSUME NEW x \in DOMAIN q \cup 1..(k - 1) PROVE ~IsDirectJump(q[x])
  <2> DEFINE i == Further(x, j)
  <2>1. x \in 1..(n - 1)
    <3>1. \A y \in 1..(k - 1) : y \in 1..(n - 1) BY <1>1
    <3> QED BY <3>1, <1>6
  <2>2. i \in 1..n /\ i # j /\ Closer(i, j) = x BY <2>1, <1>1, <1>2 DEF Closer, Further
  <2> HIDE DEF i
  <2>3. Alike(insns[i], q[x]) /\ ~IsDirectJump(insns[i]) BY <2>2, <1>1, <1>7
  <2> QED BY <2>3 DEF Alike, IsDirectJump
<1>11. Strong(q, k - 1, Flow(q, k - 1)) BY StrongIsSaid DEF q
<1>12. Strong(insns, k, Flow(insns, k)) BY <1>1, <1>9, <1>10, <1>11, DropStrong
<1> QED BY <1>12, StrongIsSaid

\* Whatever the code, a load that changes nothing the rest uses does not make a
\* strong site a weaker one (DecoysHideNothing).
THEOREM DecoysAreSeenThrough == Spec => []DecoysHideNothing
<1> QED BY InitW, NextW, DecoysHold, PTL DEF Spec
=============================================================================
