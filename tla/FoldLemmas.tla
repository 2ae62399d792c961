---------------------------- MODULE FoldLemmas ----------------------------
(* A left fold is a loop: the lemma below gives the value after each element. *)
(* The loop's body is a parameter of the module, because a lemma cannot have  *)
(* it as one: instantiate the module for each fold, with what the body takes  *)
(* from its surroundings as a and b.                                          *)
EXTENDS Integers, Sequences, Folds

CONSTANT Op(_, _, _, _)

Greatest(S) == CHOOSE x \in S : \A y \in S : x >= y

\* FoldLeft(LAMBDA s, x : Op(a, b, s, x), base, q), with FoldLeft unfolded.
Result(a, b, base, q) ==
  MapThenFoldSet(LAMBDA x, s : Op(a, b, s, x), base, LAMBDA i : q[i], LAMBDA S : Greatest(S), DOMAIN q)

\* What induction over the positions of a sequence rests on.
WellOrdered == \A T \in SUBSET Nat : T # {} => \E x \in T : \A y \in T : x <= y

\* A range-for over q that starts from base: after[i] is the value after the
\* i-th element.  That numbers are well ordered is left to the caller, so that
\* an instance brings no other module's theorems along.
LEMMA Folded ==
  ASSUME NEW S, NEW q \in Seq(S), NEW base, NEW a, NEW b, WellOrdered
  PROVE  \E after : /\ after[0] = base
                    /\ \A i \in 1 .. Len(q) : after[i] = Op(a, b, after[i - 1], q[i])
                    /\ Result(a, b, base, q) = after[Len(q)]
<1>induction. ASSUME NEW T \in SUBSET Nat, 0 \in T, \A n \in T : n + 1 \in T
              PROVE  T = Nat
  <2> SUFFICES ASSUME Nat \ T # {} PROVE FALSE
    OBVIOUS
  <2>1. PICK x \in Nat \ T : \A y \in Nat \ T : x <= y
    <3>1. Nat \ T \in SUBSET Nat
      OBVIOUS
    <3> QED BY <3>1 DEF WellOrdered
  <2>2. x # 0 /\ x - 1 \in Nat /\ x - 1 \notin Nat \ T
    BY <1>induction, <2>1
  <2>3. x - 1 \in T /\ (x - 1) + 1 = x
    BY <2>2
  <2> QED BY <1>induction, <2>1, <2>3
<1>greatest. ASSUME NEW n \in Nat, NEW s \in SUBSET (1 .. (n + 1)), n + 1 \in s
             PROVE  Greatest(s) = n + 1
  <2>1. \A x \in s : (\A y \in s : x >= y) => x = n + 1
    BY <1>greatest
  <2>2. \A y \in s : n + 1 >= y
    OBVIOUS
  <2>3. (CHOOSE x \in s : \A y \in s : x >= y) = n + 1
    BY <1>greatest, <2>1, <2>2
  <2> QED BY <2>3 DEF Greatest
<1> DEFINE Step(g, s) == IF s = {} THEN base ELSE Op(a, b, g[s \ {Greatest(s)}], q[Greatest(s)])
           Iter(g, D) == g = [s \in SUBSET D |-> Step(g, s)]
           Exists == {n \in Nat : \E g : Iter(g, 1 .. n)}
<1>0. Len(q) \in Nat /\ DOMAIN q = 1 .. Len(q)
  OBVIOUS
<1>1. \A n \in Nat : n \in Exists
  <2>1. 0 \in Exists
    <3> DEFINE g == [s \in SUBSET (1 .. 0) |-> base]
    <3>1. \A s \in SUBSET (1 .. 0) : s = {}
      OBVIOUS
    <3>2. Iter(g, 1 .. 0)
      BY <3>1
    <3> QED BY <3>2
  <2>2. ASSUME NEW n \in Exists PROVE n + 1 \in Exists
    <3>0. n \in Nat
      BY <2>2
    <3>1. PICK g : Iter(g, 1 .. n)
      BY <2>2
    <3> DEFINE h == [s \in SUBSET (1 .. (n + 1)) |-> IF n + 1 \in s THEN Op(a, b, g[s \ {n + 1}], q[n + 1]) ELSE g[s]]
    <3>2. ASSUME NEW s \in SUBSET (1 .. (n + 1)) PROVE h[s] = Step(h, s)
      <4>1. CASE n + 1 \in s
        <5>1. Greatest(s) = n + 1
          BY <4>1, <3>0, <1>greatest
        <5>2. s \ {n + 1} \in SUBSET (1 .. n) /\ s \ {n + 1} \in SUBSET (1 .. (n + 1))
          BY <2>2
        <5>3. h[s \ {n + 1}] = g[s \ {n + 1}]
          BY <5>2
        <5> QED BY <4>1, <5>1, <5>3
      <4>2. CASE n + 1 \notin s
        <5>1. s \in SUBSET (1 .. n)
          BY <2>2, <4>2
        <5>2. g[s] = Step(g, s)
          BY <3>1, <5>1
        <5>3. CASE s = {}
          BY <4>2, <5>2, <5>3
        <5>4. CASE s # {}
          <6>1. n + 1 \notin s \ {Greatest(s)} /\ s \ {Greatest(s)} \in SUBSET (1 .. (n + 1))
            BY <4>2
          <6>2. h[s \ {Greatest(s)}] = g[s \ {Greatest(s)}]
            BY <6>1
          <6> QED BY <4>2, <5>2, <5>4, <6>2
        <5> QED BY <5>3, <5>4
      <4> QED BY <4>1, <4>2
    <3>3. Iter(h, 1 .. (n + 1))
      BY <3>2
    <3>4. n + 1 \in Nat /\ \E f : Iter(f, 1 .. (n + 1))
      <4> HIDE DEF Iter, h
      <4> QED BY <3>0, <3>3
    <3> HIDE DEF Iter
    <3> QED BY <3>4
  <2> HIDE DEF Exists
  <2>3. Exists \in SUBSET Nat
    BY DEF Exists
  <2> QED BY <2>1, <2>2, <2>3, <1>induction
<1> DEFINE it == CHOOSE g : Iter(g, DOMAIN q)
<1>2. Iter(it, DOMAIN q)
  <2>1. \E g : Iter(g, DOMAIN q)
    BY <1>0, <1>1
  <2> HIDE DEF Iter
  <2> QED BY <2>1
<1>3. Result(a, b, base, q) = it[DOMAIN q]
  BY DEF Result, MapThenFoldSet
<1> HIDE DEF it
<1> DEFINE after == [n \in 0 .. Len(q) |-> it[1 .. n]]
<1>4. after[0] = base
  <2>1. 1 .. 0 = {} /\ 1 .. 0 \in SUBSET DOMAIN q
    OBVIOUS
  <2>2. it[1 .. 0] = base
    BY <1>2, <2>1
  <2> QED BY <1>0, <2>2
<1>5. ASSUME NEW i \in 1 .. Len(q) PROVE after[i] = Op(a, b, after[i - 1], q[i])
  <2>1. 1 .. i \in SUBSET DOMAIN q /\ 1 .. i # {}
    <3>1. i \in Nat /\ i <= Len(q) /\ i \in 1 .. i
      BY <1>0
    <3>2. \A x \in 1 .. i : x \in 1 .. Len(q)
      BY <1>0, <3>1
    <3> QED BY <1>0, <3>1, <3>2
  <2>5. (1 .. i) \ {i} = 1 .. (i - 1)
    BY <1>0
  <2>2. Greatest(1 .. i) = i
    <3>1. i - 1 \in Nat /\ (i - 1) + 1 = i /\ 1 .. i \in SUBSET (1 .. i) /\ i \in 1 .. i
      BY <1>0
    <3>2. Greatest(1 .. i) = (i - 1) + 1
      BY <3>1, <1>greatest
    <3> QED BY <3>1, <3>2
  <2>3. it[1 .. i] = Op(a, b, it[1 .. (i - 1)], q[i])
    BY <1>2, <2>1, <2>2, <2>5
  <2>4. after[i] = it[1 .. i] /\ after[i - 1] = it[1 .. (i - 1)]
    BY <1>0
  <2> QED BY <2>3, <2>4
<1>6. after[Len(q)] = it[DOMAIN q]
  BY <1>0
<1> QED BY <1>3, <1>4, <1>5, <1>6
=============================================================================
