--------------------------- MODULE SequenceLemmas ---------------------------
(* What the helpers on sequences and numbers that the models use return.   *)
EXTENDS SequencesExt, Integers, FiniteSetTheorems, WellFoundedInduction, TLAPS

\* A set of numbers that is not empty has a least one: the position that
\* std::find_if stops at, if there is any.
LEMMA LeastOfNat == ASSUME NEW T \in SUBSET Nat, T # {} PROVE Min(T) \in T /\ \A y \in T : Min(T) <= y
<1>1. PICK x \in T : \A y \in T : ~(<<y, x>> \in OpToRel(<, Nat))
  BY NatLessThanWellFounded, WFMin
<1>2. \A y \in T : ~(y < x)
  BY <1>1 DEF OpToRel
<1>3. \A y \in T : x <= y
  BY <1>2
<1> QED BY <1>3 DEF Min

\* What holds at the start of a loop and after each of its turns, holds
\* after all of them.
LEMMA LoopInvariant ==
  ASSUME NEW n \in Nat, NEW T, 0 \in T, \A i \in 1 .. n : i - 1 \in T => i \in T
  PROVE  \A i \in 0 .. n : i \in T
<1> DEFINE B == {i \in 0 .. n : i \notin T}
<1>1. SUFFICES ASSUME B # {} PROVE FALSE
  OBVIOUS
<1>2. B \in SUBSET Nat
  OBVIOUS
<1> HIDE DEF B
<1>3. Min(B) \in B /\ \A y \in B : Min(B) <= y
  BY <1>1, <1>2, LeastOfNat
<1>4. PICK m : m = Min(B)
  OBVIOUS
<1>5. m \in 0 .. n /\ m \notin T /\ m # 0 /\ \A y \in B : m <= y
  BY <1>3, <1>4 DEF B
<1>6. m \in 1 .. n /\ m - 1 \in 0 .. n
  BY <1>5
<1>7. m - 1 \notin T
  BY <1>5, <1>6
<1>8. m - 1 \in B
  BY <1>6, <1>7 DEF B
<1> QED BY <1>5, <1>8

\* The numbers are well ordered.
LEMMA NatLeast == \A T \in SUBSET Nat : T # {} => \E x \in T : \A y \in T : x <= y
BY LeastOfNat

\* A list of all the elements of a set, each once.
LEMMA Listing ==
  ASSUME NEW P, IsFiniteSet(P), NEW q \in [1 .. Cardinality(P) -> P], IsInjective(q)
  PROVE  q \in Seq(P) /\ ToSet(q) = P
<1> DEFINE n == Cardinality(P)
<1>1. n \in Nat
  BY FS_CardinalityType
<1>2. IsFiniteSet(1 .. n) /\ Cardinality(1 .. n) = n
  BY <1>1, FS_Interval
<1>3. q \in Injection(1 .. n, P)
  BY DEF Injection
<1>4. q \in Surjection(1 .. n, P)
  <2> HIDE DEF n
  <2>1. Cardinality(1 .. n) = Cardinality(P)
    BY <1>2 DEF n
  <2> QED BY <1>3, <2>1, FS_Injection
<1>5. q \in Seq(P)
  <2> HIDE DEF n
  <2>1. q \in [1 .. n -> P]
    BY DEF n
  <2> QED BY <1>1, <2>1
<1>6. \A x \in P : \E i \in 1 .. n : q[i] = x
  BY <1>4 DEF Surjection
<1> HIDE DEF n
<1>7. DOMAIN q = 1 .. n /\ \A i \in 1 .. n : q[i] \in P
  BY DEF n
<1> QED BY <1>5, <1>6, <1>7 DEF ToSet

\* The list SetToSeq makes of a finite set.
LEMMA SetToSeqFacts ==
  ASSUME NEW P, IsFiniteSet(P)
  PROVE  SetToSeq(P) \in Seq(P) /\ ToSet(SetToSeq(P)) = P /\ IsInjective(SetToSeq(P))
<1> DEFINE q == SetToSeq(P)
<1>1. q \in [1 .. Cardinality(P) -> P] /\ IsInjective(q)
  <2>1. PICK f : f \in Bijection(1 .. Cardinality(P), P)
    BY FS_CardinalityType DEF ExistsBijection
  <2>2. f \in [1 .. Cardinality(P) -> P] /\ IsInjective(f)
    BY <2>1 DEF Bijection, Injection, IsInjective
  <2>3. q = CHOOSE r \in [1 .. Cardinality(P) -> P] : IsInjective(r)
    BY DEF SetToSeq
  <2> HIDE DEF q
  <2> QED BY <2>2, <2>3, Zenon
<1> HIDE DEF q
<1>2. q \in Seq(P) /\ ToSet(q) = P
  BY <1>1, Listing
<1> QED BY <1>1, <1>2 DEF q

\* Taking out the first occurrence of an element: what is behind it moves up
\* (std::erase on a list that holds each entry once).
LEMMA RemoveFirstShifts ==
  ASSUME NEW S, NEW q \in Seq(S), NEW o, \E i \in DOMAIN q : q[i] = o
  PROVE  \E k \in 1 .. Len(q) :
           /\ q[k] = o
           /\ RemoveFirst(q, o) \in Seq(S) /\ Len(RemoveFirst(q, o)) = Len(q) - 1
           /\ \A i \in 1 .. (Len(q) - 1) : RemoveFirst(q, o)[i] = IF i < k THEN q[i] ELSE q[i + 1]
<1> DEFINE I == {i \in 1 .. Len(q) : q[i] = o}
           k == Min(I)
           r == SubSeq(q, 1, k - 1) \o SubSeq(q, k + 1, Len(q))
<1>0. \E i \in 1 .. Len(q) : q[i] = o
  OBVIOUS
<1>1. RemoveFirst(q, o) = r
  BY <1>0 DEF RemoveFirst, RemoveAt, SelectInSeq
<1>2. I \in SUBSET Nat /\ I # {}
  BY <1>0
<1>3. k \in I
  <2> HIDE DEF I
  <2> QED BY <1>2, LeastOfNat
<1>4. k \in 1 .. Len(q) /\ q[k] = o /\ k \in Nat /\ Len(q) \in Nat
  BY <1>3
<1> HIDE DEF k
<1> DEFINE a == SubSeq(q, 1, k - 1)
           b == SubSeq(q, k + 1, Len(q))
<1>5. a \in Seq(S) /\ Len(a) = k - 1 /\ \A i \in 1 .. (k - 1) : a[i] = q[i]
  BY <1>4
<1>6. b \in Seq(S) /\ Len(b) = Len(q) - k /\ \A i \in 1 .. (Len(q) - k) : b[i] = q[k + i]
  BY <1>4
<1>7. r = a \o b
  OBVIOUS
<1> HIDE DEF r, a, b
<1>8. r \in Seq(S) /\ Len(r) = Len(q) - 1
  <2>1. r \in Seq(S) /\ Len(r) = Len(a) + Len(b)
    <3>1. \A x, y \in Seq(S) : x \o y \in Seq(S) /\ Len(x \o y) = Len(x) + Len(y)
      OBVIOUS
    <3> QED BY ONLY <1>5, <1>6, <1>7, <3>1
  <2>2. (k - 1) + (Len(q) - k) = Len(q) - 1
    BY <1>4
  <2> QED BY <1>5, <1>6, <2>1, <2>2
<1>9. \A i \in 1 .. (Len(q) - 1) : r[i] = IF i < k THEN q[i] ELSE q[i + 1]
  <2> SUFFICES ASSUME NEW i \in 1 .. (Len(q) - 1) PROVE r[i] = IF i < k THEN q[i] ELSE q[i + 1]
    OBVIOUS
  <2>1. r[i] = IF i <= k - 1 THEN a[i] ELSE b[i - (k - 1)]
    BY <1>4, <1>5, <1>6, <1>7
  <2>2. CASE i < k
    <3>1. i \in 1 .. (k - 1) /\ i <= k - 1
      BY <1>4, <2>2
    <3>2. r[i] = a[i] /\ a[i] = q[i]
      BY ONLY <2>1, <3>1, <1>5
    <3> QED BY ONLY <2>2, <3>2
  <2>3. CASE ~(i < k)
    <3> DEFINE j == i - (k - 1)
    <3>1. j \in 1 .. (Len(q) - k) /\ k + j = i + 1 /\ ~(i <= k - 1)
      BY <1>4, <2>3
    <3> HIDE DEF j
    <3>2. r[i] = b[j]
      BY ONLY <2>1, <3>1 DEF j
    <3>3. b[j] = q[i + 1]
      BY ONLY <3>1, <1>6
    <3> QED BY ONLY <2>3, <3>2, <3>3
  <2> QED BY ONLY <2>2, <2>3
<1> QED BY <1>1, <1>4, <1>8, <1>9

\* It keeps the others.
LEMMA RemoveFirstFacts ==
  ASSUME NEW S, NEW q \in Seq(S), NEW o
  PROVE  /\ RemoveFirst(q, o) \in Seq(S)
         /\ \A i \in DOMAIN q : q[i] # o =>
              \E j \in DOMAIN RemoveFirst(q, o) : RemoveFirst(q, o)[j] = q[i]
<1> DEFINE r == RemoveFirst(q, o)
<1>1. CASE ~ \E i \in DOMAIN q : q[i] = o
  <2>0. ~ \E i \in 1 .. Len(q) : q[i] = o
    BY <1>1
  <2>1. r = q
    BY <2>0 DEF RemoveFirst
  <2> QED BY <2>1
<1>2. CASE \E i \in DOMAIN q : q[i] = o
  <2>1. PICK k \in 1 .. Len(q) :
          /\ q[k] = o /\ r \in Seq(S) /\ Len(r) = Len(q) - 1
          /\ \A i \in 1 .. (Len(q) - 1) : r[i] = IF i < k THEN q[i] ELSE q[i + 1]
    BY <1>2, RemoveFirstShifts
  <2> HIDE DEF r
  <2>2. ASSUME NEW i \in DOMAIN q, q[i] # o
        PROVE  \E j \in DOMAIN r : r[j] = q[i]
    <3>1. i \in 1 .. Len(q) /\ i # k /\ DOMAIN r = 1 .. (Len(q) - 1)
      BY <2>1, <2>2
    <3>2. CASE i < k
      BY <2>1, <3>1, <3>2
    <3>3. CASE ~(i < k)
      <4>1. i - 1 \in 1 .. (Len(q) - 1) /\ ~(i - 1 < k) /\ (i - 1) + 1 = i
        BY <3>1, <3>3
      <4> QED BY <2>1, <3>1, <4>1
    <3> QED BY <3>2, <3>3
  <2> QED BY <2>1, <2>2 DEF r
<1> QED BY <1>1, <1>2

\* From a list that holds each entry once, it takes the element and nothing else.
LEMMA RemoveFirstOnce ==
  ASSUME NEW S, NEW q \in Seq(S), IsInjective(q), NEW o, NEW r, r = RemoveFirst(q, o)
  PROVE  r \in Seq(S) /\ IsInjective(r) /\ ToSet(r) = ToSet(q) \ {o}
<1>1. CASE ~ \E i \in DOMAIN q : q[i] = o
  <2>0. ~ \E i \in 1 .. Len(q) : q[i] = o
    BY <1>1
  <2>1. r = q
    BY <2>0 DEF RemoveFirst
  <2> QED BY <1>1, <2>1 DEF ToSet
<1>2. CASE \E i \in DOMAIN q : q[i] = o
  <2>1. PICK k \in 1 .. Len(q) :
          /\ q[k] = o /\ r \in Seq(S) /\ Len(r) = Len(q) - 1
          /\ \A i \in 1 .. (Len(q) - 1) : r[i] = IF i < k THEN q[i] ELSE q[i + 1]
    <3>1. \E k \in 1 .. Len(q) :
            /\ q[k] = o
            /\ RemoveFirst(q, o) \in Seq(S) /\ Len(RemoveFirst(q, o)) = Len(q) - 1
            /\ \A i \in 1 .. (Len(q) - 1) : RemoveFirst(q, o)[i] = IF i < k THEN q[i] ELSE q[i + 1]
      BY <1>2, RemoveFirstShifts
    <3> QED BY <3>1
  <2>2. \A i \in DOMAIN q : q[i] # o => \E j \in DOMAIN r : r[j] = q[i]
    BY RemoveFirstFacts
  <2>3. DOMAIN r = 1 .. (Len(q) - 1) /\ DOMAIN q = 1 .. Len(q) /\ Len(q) \in Nat /\ k \in Nat
    BY <2>1
  <2> DEFINE from(i) == IF i < k THEN i ELSE i + 1
  <2>4. \A i \in DOMAIN r : from(i) \in DOMAIN q /\ from(i) # k /\ r[i] = q[from(i)]
    BY <2>1, <2>3
  <2>5. \A i, j \in DOMAIN r : from(i) = from(j) => i = j
    BY <2>3
  <2> HIDE DEF from
  <2>6. \A i, j \in DOMAIN q : q[i] = q[j] => i = j
    BY DEF IsInjective
  <2>7. IsInjective(r)
    <3> SUFFICES ASSUME NEW i \in DOMAIN r, NEW j \in DOMAIN r, r[i] = r[j] PROVE i = j
      BY DEF IsInjective
    <3> QED BY <2>4, <2>5, <2>6
  <2>8. \A i \in DOMAIN r : r[i] \in {q[j] : j \in DOMAIN q} \ {o}
    <3> TAKE i \in DOMAIN r
    <3>1. r[i] = q[from(i)] /\ q[from(i)] # q[k]
      BY <2>3, <2>4, <2>6
    <3> QED BY <2>1, <2>4, <3>1
  <2> QED BY <2>1, <2>2, <2>7, <2>8 DEF ToSet
<1> QED BY <1>1, <1>2

\* R says what comes before what; a list respects it if nothing in it stands
\* behind what it comes before.
Arranged(q, R) == \A i, j \in DOMAIN q : i < j => <<q[j], q[i]>> \notin R

\* Every part of P has an element nothing in it comes before.
HasFirsts(P, R) == \A T \in SUBSET P : T # {} => \E m \in T : \A x \in T : <<x, m>> \notin R

\* Then a finite P can be listed in order.
LEMMA Arranging ==
  ASSUME NEW P, IsFiniteSet(P), NEW R, HasFirsts(P, R)
  PROVE  \E q \in SetToSeqs(P) : Arranged(q, R)
<1> DEFINE Listable(S) == \E q \in [1 .. Cardinality(S) -> S] : IsInjective(q) /\ Arranged(q, R)
           T == {n \in Nat : \A S \in SUBSET P : Cardinality(S) = n => Listable(S)}
<1>0. \A S \in SUBSET P : IsFiniteSet(S) /\ Cardinality(S) \in Nat
  BY FS_Subset, FS_CardinalityType
<1>1. 0 \in T
  <2> SUFFICES ASSUME NEW S \in SUBSET P, Cardinality(S) = 0 PROVE Listable(S)
    BY Zenon
  <2>1. <<>> \in [1 .. 0 -> S] /\ IsInjective(<<>>) /\ Arranged(<<>>, R)
    BY DEF IsInjective, Arranged
  <2> QED BY <2>1
<1>2. ASSUME NEW n \in Nat \ {0}, n - 1 \in T PROVE n \in T
  <2> SUFFICES ASSUME NEW S \in SUBSET P, Cardinality(S) = n PROVE Listable(S)
    BY <1>2
  <2>1. S # {} /\ IsFiniteSet(S)
    BY <1>0, FS_EmptySet
  <2>2. PICK m \in S : \A x \in S : <<x, m>> \notin R
    BY <2>1 DEF HasFirsts
  <2> DEFINE U == S \ {m}
  <2>3. Cardinality(U) = n - 1 /\ U \in SUBSET P
    BY <2>1, <2>2, FS_RemoveElement
  <2>4. Listable(U)
    BY <1>2, <2>3
  <2>5. PICK r \in [1 .. (n - 1) -> U] : IsInjective(r) /\ Arranged(r, R)
    BY <2>3, <2>4
  <2> DEFINE q == [i \in 1 .. n |-> IF i = 1 THEN m ELSE r[i - 1]]
  <2>6. \A i \in 1 .. n : i # 1 => i - 1 \in 1 .. (n - 1)
    OBVIOUS
  <2>7. q \in [1 .. n -> S]
    BY <2>2, <2>5, <2>6
  <2>8. DOMAIN r = 1 .. (n - 1) /\ DOMAIN q = 1 .. n
    BY <2>5
  <2>9. Arranged(q, R)
    <3> SUFFICES ASSUME NEW i \in 1 .. n, NEW j \in 1 .. n, i < j PROVE <<q[j], q[i]>> \notin R
      BY <2>8 DEF Arranged
    <3>1. j # 1 /\ j - 1 \in 1 .. (n - 1) /\ q[j] = r[j - 1] /\ r[j - 1] \in U
      BY <2>5, <2>6
    <3>2. CASE i = 1
      <4>1. q[i] = m /\ q[j] \in S
        BY <3>1, <3>2
      <4> QED BY <2>2, <4>1
    <3>3. CASE i # 1
      <4>1. i - 1 \in 1 .. (n - 1) /\ q[i] = r[i - 1] /\ i - 1 < j - 1
        BY <2>6, <3>3
      <4> QED BY <2>5, <2>8, <3>1, <4>1 DEF Arranged
    <3> QED BY <3>2, <3>3
  <2>10. IsInjective(q)
    <3> SUFFICES ASSUME NEW i \in 1 .. n, NEW j \in 1 .. n, q[i] = q[j] PROVE i = j
      BY <2>8 DEF IsInjective
    <3>1. \A k \in 1 .. n : k # 1 => k - 1 \in 1 .. (n - 1) /\ q[k] = r[k - 1] /\ r[k - 1] # m
      BY <2>5, <2>6
    <3>2. q[1] = m
      OBVIOUS
    <3> HIDE DEF q
    <3>3. CASE i = 1 \/ j = 1
      BY <3>1, <3>2, <3>3
    <3>4. CASE i # 1 /\ j # 1
      <4>1. i - 1 \in DOMAIN r /\ j - 1 \in DOMAIN r /\ r[i - 1] = r[j - 1]
        BY <2>8, <3>1, <3>4
      <4>2. i - 1 = j - 1
        BY <2>5, <4>1 DEF IsInjective
      <4> QED BY <4>2
    <3> QED BY <3>3, <3>4
  <2> HIDE DEF q
  <2> QED BY <2>7, <2>9, <2>10
<1>3. Listable(P)
  <2>1. PICK n \in Nat : n = Cardinality(P)
    BY <1>0
  <2> HIDE DEF T
  <2>2. \A i \in 1 .. n : i - 1 \in T => i \in T
    BY <1>2
  <2>3. \A i \in 0 .. n : i \in T
    BY <1>1, <2>2, LoopInvariant
  <2>4. n \in T
    BY <2>3
  <2> QED BY <2>1, <2>4 DEF T
<1>4. PICK q \in [1 .. Cardinality(P) -> P] : IsInjective(q) /\ Arranged(q, R)
  BY <1>3
<1>5. q \in SetToSeqs(P)
  <2>1. DOMAIN q = 1 .. Cardinality(P)
    OBVIOUS
  <2> QED BY <1>4, <2>1 DEF SetToSeqs, IsInjective
<1> QED BY <1>4, <1>5

\* A sequence of SetToSeqs lists the set.
LEMMA SetToSeqsFacts ==
  ASSUME NEW P, IsFiniteSet(P), NEW q \in SetToSeqs(P)
  PROVE  q \in Seq(P) /\ ToSet(q) = P /\ IsInjective(q)
<1>1. q \in [1 .. Cardinality(P) -> P] /\ IsInjective(q)
  BY DEF SetToSeqs, IsInjective
<1> QED BY <1>1, Listing
=============================================================================
