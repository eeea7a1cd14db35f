------------------------------ MODULE FlattenFacts ------------------------------
(***************************************************************************)
(* Induction, stated for a set of numbers instead of a predicate, and what *)
(* it shows of FlattenSeq: the bytes of a text's characters and the leaves *)
(* of an array's elements are flattened sequences.                         *)
(***************************************************************************)
EXTENDS SequencesExt, Integers, TLAPS, WellFoundedInduction

(* The least number that is not in the set has a predecessor, which is.    *)
LEMMA SetInduction ==
  ASSUME NEW T, 0 \in T, \A n \in Nat : n \in T => n + 1 \in T
  PROVE  Nat \subseteq T
<1> DEFINE U == Nat \ T
           R == OpToRel(<, Nat)
<1>1. IsWellFoundedOn(R, Nat)
  BY NatLessThanWellFounded, Zenon
<1>2. \A x, y \in Nat : x < y => <<x, y>> \in R
  BY DEF OpToRel
<1> HIDE DEF R
<1> SUFFICES ASSUME U # {} PROVE FALSE
  OBVIOUS
<1>3. U \subseteq Nat
  OBVIOUS
<1> HIDE DEF U
<1>4. PICK x \in U : \A y \in U : ~(<<y, x>> \in R)
  BY <1>1, <1>3, WFMin
<1>5. x \in Nat /\ x # 0 /\ x - 1 \in Nat /\ x - 1 < x
  BY <1>3 DEF U
<1>6. x - 1 \in U
  <2>1. x - 1 + 1 = x
    BY <1>5
  <2> QED
    BY <1>5, <2>1 DEF U
<1> QED
  BY <1>2, <1>4, <1>5, <1>6

(* f lists what the first parts of s come to, up to the n-th.              *)
FlattensTo(f, s, n, X) ==
  /\ f \in [0..n -> Seq(X)]
  /\ f[0] = <<>>
  /\ \A i \in 1..n : f[i] = f[i - 1] \o s[i]

IsFlattening(f, s, X) == FlattensTo(f, s, Len(s), X)

LEMMA ConcatenationType ==
  ASSUME NEW X, NEW s \in Seq(X), NEW t \in Seq(X)
  PROVE  s \o t \in Seq(X)
OBVIOUS

LEMMA ConcatenationAt ==
  ASSUME NEW X, NEW s \in Seq(X), NEW t \in Seq(X)
  PROVE  /\ Len(s \o t) = Len(s) + Len(t)
         /\ \A i \in 1..Len(s) : (s \o t)[i] = s[i]
         /\ \A i \in 1..Len(t) : (s \o t)[Len(s) + i] = t[i]
<1>1. Len(s) \in Nat /\ Len(t) \in Nat /\ Len(s \o t) = Len(s) + Len(t)
  OBVIOUS
<1>2. ASSUME NEW i \in 1..Len(s)
      PROVE  (s \o t)[i] = s[i]
  BY <1>1
<1>3. ASSUME NEW i \in 1..Len(t)
      PROVE  (s \o t)[Len(s) + i] = t[i]
  BY <1>1
<1> QED
  BY <1>1, <1>2, <1>3

LEMMA FlatteningGrows ==
  ASSUME NEW X, NEW s \in Seq(Seq(X)), NEW n \in Nat, n + 1 <= Len(s),
         NEW f, FlattensTo(f, s, n, X)
  PROVE  \E g : FlattensTo(g, s, n + 1, X)
<1>1. n + 1 \in 1..Len(s) /\ s[n + 1] \in Seq(X)
  <2>1. Len(s) \in Nat
    OBVIOUS
  <2>2. n + 1 \in 1..Len(s)
    BY <2>1
  <2> QED
    BY <2>2
<1>2. f \in [0..n -> Seq(X)] /\ f[0] = <<>> /\ \A i \in 1..n : f[i] = f[i - 1] \o s[i]
  BY DEF FlattensTo
<1>3. f[n] \in Seq(X)
  BY <1>2
<1> DEFINE new == f[n] \o s[n + 1]
<1>4. new \in Seq(X)
  BY <1>1, <1>3, ConcatenationType
<1> HIDE DEF new
<1> DEFINE g == [i \in 0..n + 1 |-> IF i = n + 1 THEN new ELSE f[i]]
<1>5. g \in [0..n + 1 -> Seq(X)]
  <2>1. ASSUME NEW i \in 0..n + 1
        PROVE  (IF i = n + 1 THEN new ELSE f[i]) \in Seq(X)
    <3>1. i # n + 1 => i \in 0..n
      OBVIOUS
    <3> QED
      BY <1>2, <1>4, <3>1
  <2> QED
    BY <2>1
<1>6. g[0] = <<>>
  BY <1>2
<1>7. ASSUME NEW i \in 1..n + 1
      PROVE  g[i] = g[i - 1] \o s[i]
  <2>1. i - 1 \in 0..n /\ i - 1 \in 0..n + 1 /\ i - 1 # n + 1 /\ i \in 0..n + 1
    OBVIOUS
  <2>2. g[i - 1] = f[i - 1]
    BY <2>1
  <2>3. CASE i = n + 1
    <3>1. i - 1 = n
      BY <2>3
    <3> QED
      BY <2>1, <2>2, <2>3, <3>1 DEF new
  <2>4. CASE i # n + 1
    <3>1. i \in 1..n
      BY <2>4
    <3>2. g[i] = f[i]
      BY <2>1, <2>4
    <3> QED
      BY <1>2, <2>2, <3>1, <3>2
  <2> QED
    BY <2>3, <2>4
<1> HIDE DEF g
<1> QED
  BY <1>5, <1>6, <1>7 DEF FlattensTo

LEMMA FlatteningExists ==
  ASSUME NEW X, NEW s \in Seq(Seq(X))
  PROVE  \E f : IsFlattening(f, s, X)
<1> DEFINE T == {n \in Nat : n <= Len(s) => \E f : FlattensTo(f, s, n, X)}
<1>1. 0 \in T
  <2> DEFINE f == [i \in 0..0 |-> <<>>]
  <2>1. f \in [0..0 -> Seq(X)] /\ f[0] = <<>> /\ 1..0 = {}
    OBVIOUS
  <2> HIDE DEF f
  <2>2. FlattensTo(f, s, 0, X)
    BY <2>1 DEF FlattensTo
  <2> QED
    BY <2>2
<1>2. ASSUME NEW n \in Nat, n \in T
      PROVE  n + 1 \in T
  <2>1. ASSUME n + 1 <= Len(s)
        PROVE  \E f : FlattensTo(f, s, n + 1, X)
    <3>1. Len(s) \in Nat
      OBVIOUS
    <3>2. n <= Len(s)
      BY <2>1, <3>1
    <3>3. PICK f : FlattensTo(f, s, n, X)
      BY <1>2, <3>2
    <3> QED
      BY <2>1, <3>3, FlatteningGrows
  <2> QED
    BY <2>1
<1> HIDE DEF T
<1>3. Nat \subseteq T
  BY <1>1, <1>2, SetInduction
<1>4. Len(s) \in T /\ Len(s) \in Nat
  BY <1>3
<1>5. Len(s) <= Len(s)
  BY <1>4
<1> QED
  BY <1>4, <1>5 DEF T, IsFlattening

(* The recursion of FlattenSeq: a flattening is the one that obeys it.     *)
Accumulates(h, s) ==
  \A i \in 1..Len(s) : h[i] = IF i = 1 THEN s[i] ELSE h[i - 1] \o s[i]

LEMMA FlatteningUnique ==
  ASSUME NEW X, NEW s \in Seq(Seq(X)), NEW f, IsFlattening(f, s, X),
         NEW h, Accumulates(h, s)
  PROVE  \A n \in 1..Len(s) : h[n] = f[n]
<1>1. Len(s) \in Nat
  OBVIOUS
<1>2. ASSUME NEW i \in 1..Len(s)
      PROVE  f[0] = <<>> /\ f[i] = f[i - 1] \o s[i] /\ s[i] \in Seq(X)
  <2>1. f[0] = <<>> /\ f[i] = f[i - 1] \o s[i]
    BY DEF IsFlattening, FlattensTo
  <2> QED
    BY <2>1
<1>3. ASSUME NEW i \in 1..Len(s), i # 1
      PROVE  h[i] = h[i - 1] \o s[i]
  BY <1>3 DEF Accumulates
<1>4. ASSUME NEW i \in 1..Len(s), i = 1
      PROVE  h[i] = f[i]
  <2>1. h[i] = s[i]
    BY <1>4 DEF Accumulates
  <2>2. i - 1 = 0
    BY <1>4
  <2>3. f[i] = <<>> \o s[i]
    BY <1>2, <2>2
  <2>4. <<>> \o s[i] = s[i]
    BY <1>2
  <2> QED
    BY <2>1, <2>3, <2>4
<1>5. ASSUME NEW i \in 1..Len(s), i # 1, h[i - 1] = f[i - 1]
      PROVE  h[i] = f[i]
  BY <1>2, <1>3, <1>5
<1> DEFINE T == {n \in Nat : n + 1 <= Len(s) => h[n + 1] = f[n + 1]}
<1>6. 0 \in T
  <2>1. 1 <= Len(s) => 1 \in 1..Len(s)
    BY <1>1
  <2>2. 1 <= Len(s) => h[1] = f[1]
    BY <1>4, <2>1
  <2> QED
    BY <2>2
<1>7. ASSUME NEW n \in Nat, n \in T
      PROVE  n + 1 \in T
  <2>1. ASSUME NEW i, i = n + 1 + 1, i <= Len(s)
        PROVE  h[i] = f[i]
    <3>1. i \in 1..Len(s) /\ i # 1 /\ i - 1 = n + 1 /\ n + 1 <= Len(s)
      BY <1>1, <2>1
    <3>2. h[i - 1] = f[i - 1]
      BY <1>7, <3>1
    <3> HIDE DEF T
    <3> QED
      BY <1>5, <3>1, <3>2
  <2>2. n + 1 \in Nat
    OBVIOUS
  <2> QED
    BY <2>1, <2>2
<1> HIDE DEF T
<1>8. Nat \subseteq T
  BY <1>6, <1>7, SetInduction
<1>9. ASSUME NEW n \in 1..Len(s)
      PROVE  h[n] = f[n]
  <2>1. n - 1 \in Nat /\ n - 1 + 1 = n /\ n <= Len(s)
    BY <1>1
  <2> QED
    BY <1>8, <2>1 DEF T
<1> QED
  BY <1>9

(* The last part of it is what FlattenSeq computes.                        *)
LEMMA FlatteningIs ==
  ASSUME NEW X, NEW s \in Seq(Seq(X)), NEW f, IsFlattening(f, s, X)
  PROVE  FlattenSeq(s) = f[Len(s)]
<1>1. Len(s) \in Nat
  OBVIOUS
<1>2. CASE Len(s) = 0
  <2>1. s = <<>>
    BY <1>2
  <2>2. FlattenSeq(s) = s
    BY <1>2 DEF FlattenSeq
  <2> QED
    BY <1>2, <2>1, <2>2 DEF IsFlattening, FlattensTo
<1>3. CASE Len(s) # 0
  <2>1. ASSUME NEW i \in 1..Len(s)
        PROVE  f[0] = <<>> /\ f[i] = f[i - 1] \o s[i] /\ s[i] \in Seq(X)
    <3>1. f[0] = <<>> /\ f[i] = f[i - 1] \o s[i]
      BY DEF IsFlattening, FlattensTo
    <3> QED
      BY <3>1
  <2> DEFINE f1 == [i \in 1..Len(s) |-> f[i]]
  <2>2. f1 = [i \in 1..Len(s) |-> IF i = 1 THEN s[i] ELSE f1[i - 1] \o s[i]]
    <3>1. ASSUME NEW i \in 1..Len(s)
          PROVE  f[i] = IF i = 1 THEN s[i] ELSE f1[i - 1] \o s[i]
      <4>2. CASE i = 1
        <5>1. <<>> \o s[i] = s[i]
          BY <2>1
        <5>2. i - 1 = 0
          BY <4>2
        <5> QED
          BY <2>1, <4>2, <5>1, <5>2
      <4>3. CASE i # 1
        <5>1. i - 1 \in 1..Len(s)
          BY <4>3, <1>1
        <5>2. f1[i - 1] = f[i - 1]
          BY <5>1
        <5> HIDE DEF f1
        <5> QED
          BY <2>1, <4>3, <5>2
      <4> QED
        BY <4>2, <4>3
    <3> QED
      BY <3>1
  <2> HIDE DEF f1
  <2> DEFINE h == CHOOSE g : g = [i \in 1..Len(s) |-> IF i = 1 THEN s[i] ELSE g[i - 1] \o s[i]]
  <2>3. FlattenSeq(s) = h[Len(s)]
    BY <1>3 DEF FlattenSeq
  <2>4. h = [i \in 1..Len(s) |-> IF i = 1 THEN s[i] ELSE h[i - 1] \o s[i]]
    BY <2>2
  <2> HIDE DEF h
  <2>5. Accumulates(h, s)
    BY <2>4 DEF Accumulates
  <2>6. \A n \in 1..Len(s) : h[n] = f[n]
    BY <2>5, FlatteningUnique
  <2>7. Len(s) \in 1..Len(s)
    BY <1>1, <1>3
  <2> QED
    BY <2>3, <2>6, <2>7
<1> QED
  BY <1>2, <1>3
-----------------------------------------------------------------------------
LEMMA FlattenEmpty == FlattenSeq(<<>>) = <<>>
BY DEF FlattenSeq

LEMMA FlattenType ==
  ASSUME NEW X, NEW s \in Seq(Seq(X))
  PROVE  FlattenSeq(s) \in Seq(X)
<1>1. PICK f : IsFlattening(f, s, X)
  BY FlatteningExists
<1>2. Len(s) \in 0..Len(s)
  <2>1. Len(s) \in Nat
    OBVIOUS
  <2> QED
    BY <2>1
<1>3. f[Len(s)] \in Seq(X)
  BY <1>1, <1>2 DEF IsFlattening, FlattensTo
<1> QED
  BY <1>1, <1>3, FlatteningIs

(* The first part comes first.                                             *)
LEMMA FlattenHead ==
  ASSUME NEW X, NEW s \in Seq(Seq(X)), s # <<>>
  PROVE  FlattenSeq(s) = s[1] \o FlattenSeq(Tail(s))
<1> DEFINE n == Len(s)
           t == Tail(s)
<1>1. /\ n \in Nat /\ n >= 1 /\ t \in Seq(Seq(X)) /\ Len(t) = n - 1 /\ s[1] \in Seq(X)
      /\ \A i \in 2..n : t[i - 1] = s[i] /\ s[i] \in Seq(X)
  <2>1. n \in Nat /\ n >= 1 /\ Len(t) = n - 1
    OBVIOUS
  <2>2. t \in Seq(Seq(X)) /\ s[1] \in Seq(X)
    BY <2>1
  <2>3. ASSUME NEW i \in 2..n
        PROVE  t[i - 1] = s[i] /\ s[i] \in Seq(X)
    <3>1. i - 1 \in 1..n - 1 /\ i - 1 + 1 = i /\ i \in 1..n
      BY <2>1
    <3> QED
      BY <2>1, <3>1
  <2> QED
    BY <2>1, <2>2, <2>3
<1>2. PICK f : IsFlattening(f, t, X)
  BY <1>1, FlatteningExists
<1> HIDE DEF n, t
<1>3. /\ f \in [0..n - 1 -> Seq(X)] /\ f[0] = <<>>
      /\ \A i \in 1..n - 1 : f[i] = f[i - 1] \o t[i]
  BY <1>1, <1>2 DEF IsFlattening, FlattensTo
<1> DEFINE g == [i \in 0..n |-> IF i = 0 THEN <<>> ELSE s[1] \o f[i - 1]]
<1>4. g[0] = <<>>
  BY <1>1
<1>5. ASSUME NEW i \in 1..n
      PROVE  i - 1 \in 0..n - 1 /\ f[i - 1] \in Seq(X) /\ g[i] = s[1] \o f[i - 1]
  <2>1. i - 1 \in 0..n - 1 /\ i \in 0..n /\ i # 0
    BY <1>1
  <2>2. f[i - 1] \in Seq(X)
    BY <1>3, <2>1
  <2> QED
    BY <2>1, <2>2
<1>6. g \in [0..n -> Seq(X)]
  <2>1. ASSUME NEW i \in 0..n
        PROVE  (IF i = 0 THEN <<>> ELSE s[1] \o f[i - 1]) \in Seq(X)
    <3>1. CASE i = 0
      BY <3>1
    <3>2. CASE i # 0
      <4>1. i \in 1..n
        BY <3>2, <1>1
      <4> QED
        BY <3>2, <4>1, <1>1, <1>5, ConcatenationType
    <3> QED
      BY <3>1, <3>2
  <2> QED
    BY <2>1
<1> HIDE DEF g
<1>7. ASSUME NEW i \in 1..n
      PROVE  g[i] = g[i - 1] \o s[i]
  <2>1. CASE i = 1
    <3>1. i - 1 = 0
      BY <2>1
    <3>2. s[1] \o <<>> = s[1] /\ <<>> \o s[1] = s[1]
      BY <1>1
    <3> QED
      BY <1>3, <1>4, <1>5, <2>1, <3>1, <3>2
  <2>2. CASE i # 1
    <3>1. i - 1 \in 1..n /\ i - 1 \in 1..n - 1 /\ i \in 2..n
      BY <1>1, <2>2
    <3>2. g[i - 1] = s[1] \o f[i - 1 - 1] /\ f[i - 1 - 1] \in Seq(X)
      BY <1>5, <3>1
    <3>3. f[i - 1] = f[i - 1 - 1] \o t[i - 1]
      BY <1>3, <3>1
    <3>4. t[i - 1] = s[i] /\ s[i] \in Seq(X)
      BY <1>1, <3>1
    <3>5. ASSUME NEW a \in Seq(X), NEW b \in Seq(X), NEW c \in Seq(X)
          PROVE  a \o (b \o c) = (a \o b) \o c
      OBVIOUS
    <3>6. s[1] \o (f[i - 1 - 1] \o s[i]) = (s[1] \o f[i - 1 - 1]) \o s[i]
      BY <1>1, <3>2, <3>4, <3>5
    <3> QED
      BY <1>5, <3>2, <3>3, <3>4, <3>6
  <2> QED
    BY <2>1, <2>2
<1>8. IsFlattening(g, s, X)
  BY <1>4, <1>6, <1>7 DEF IsFlattening, FlattensTo, n
<1>9. FlattenSeq(s) = g[n] /\ FlattenSeq(t) = f[n - 1]
  BY <1>1, <1>2, <1>8, FlatteningIs DEF n
<1>10. n \in 1..n
  BY <1>1
<1> QED
  BY <1>5, <1>9, <1>10 DEF t

(* Parts of two elements each: their elements are at odd and even places.  *)
LEMMA FlattenPairs ==
  ASSUME NEW X, NEW s \in Seq(Seq(X)), \A i \in 1..Len(s) : Len(s[i]) = 2
  PROVE  /\ Len(FlattenSeq(s)) = 2 * Len(s)
         /\ \A i \in 1..Len(s) : /\ FlattenSeq(s)[2 * i - 1] = s[i][1]
                                 /\ FlattenSeq(s)[2 * i] = s[i][2]
<1>1. PICK f : IsFlattening(f, s, X)
  BY FlatteningExists
<1>2. Len(s) \in Nat
  OBVIOUS
<1>3. f \in [0..Len(s) -> Seq(X)] /\ f[0] = <<>>
  BY <1>1 DEF IsFlattening, FlattensTo
<1>4. ASSUME NEW i \in 1..Len(s)
      PROVE  f[i] = f[i - 1] \o s[i] /\ s[i] \in Seq(X) /\ Len(s[i]) = 2
  <2>1. f[i] = f[i - 1] \o s[i]
    BY <1>1 DEF IsFlattening, FlattensTo
  <2> QED
    BY <2>1
<1> DEFINE Paired(n) == /\ Len(f[n]) = 2 * n
                        /\ \A i \in 1..n : f[n][2 * i - 1] = s[i][1] /\ f[n][2 * i] = s[i][2]
<1>5. Paired(0)
  BY <1>3
<1>6. ASSUME NEW n \in Nat, n + 1 <= Len(s), Paired(n)
      PROVE  Paired(n + 1)
  <2>1. n \in 0..Len(s) /\ n + 1 \in 1..Len(s) /\ n + 1 - 1 = n
    BY <1>2, <1>6
  <2> PICK a, b : a = f[n] /\ b = s[n + 1]
    OBVIOUS
  <2>2. a \in Seq(X) /\ b \in Seq(X) /\ Len(b) = 2 /\ f[n + 1] = a \o b
    <3>1. f[n] \in Seq(X)
      BY <1>3, <2>1
    <3>2. ASSUME NEW i \in 1..Len(s), i = n + 1
          PROVE  f[i] = f[n] \o s[i] /\ s[i] \in Seq(X) /\ Len(s[i]) = 2
      <4>1. i - 1 = n
        BY <3>2
      <4> QED
        BY <1>4, <4>1
    <3> QED
      BY <2>1, <3>1, <3>2
  <2>3. Len(a) = 2 * n /\ \A i \in 1..n : a[2 * i - 1] = s[i][1] /\ a[2 * i] = s[i][2]
    BY <1>6
  <2> HIDE DEF Paired
  <2>4. /\ Len(a \o b) = 2 * (n + 1) /\ \A j \in 1..2 * n : (a \o b)[j] = a[j]
        /\ (a \o b)[2 * n + 1] = b[1] /\ (a \o b)[2 * n + 2] = b[2]
    <3>1. 2 * n \in Nat /\ Len(a) = 2 * n /\ 2 * n + 2 = 2 * (n + 1)
      BY <2>3
    <3>2. /\ Len(a \o b) = Len(a) + Len(b)
          /\ \A i \in 1..Len(a) : (a \o b)[i] = a[i]
          /\ \A i \in 1..Len(b) : (a \o b)[Len(a) + i] = b[i]
      <4>1. a \in Seq(X) /\ b \in Seq(X)
        BY <2>2
      <4>2. ASSUME NEW p \in Seq(X), NEW q \in Seq(X)
            PROVE  /\ Len(p \o q) = Len(p) + Len(q)
                   /\ \A i \in 1..Len(p) : (p \o q)[i] = p[i]
                   /\ \A i \in 1..Len(q) : (p \o q)[Len(p) + i] = q[i]
        BY ConcatenationAt
      <4> QED
        BY <4>1, <4>2, Zenon
    <3>3. Len(a \o b) = 2 * n + 2 /\ \A j \in 1..2 * n : (a \o b)[j] = a[j]
      BY <2>2, <3>1, <3>2
    <3>4. \A i \in 1..2 : (a \o b)[2 * n + i] = b[i]
      BY <2>2, <3>1, <3>2
    <3>5. 1 \in 1..2 /\ 2 \in 1..2
      OBVIOUS
    <3> QED
      BY <3>1, <3>3, <3>4, <3>5
  <2>5. ASSUME NEW i \in 1..n + 1
        PROVE  (a \o b)[2 * i - 1] = s[i][1] /\ (a \o b)[2 * i] = s[i][2]
    <3>1. CASE i = n + 1
      <4>1. 2 * i - 1 = 2 * n + 1 /\ 2 * i = 2 * n + 2
        BY <3>1
      <4> QED
        BY <2>4, <3>1, <4>1
    <3>2. CASE i # n + 1
      <4>1. i \in 1..n /\ 2 * i - 1 \in 1..2 * n /\ 2 * i \in 1..2 * n
        BY <3>2
      <4> QED
        BY <2>3, <2>4, <4>1
    <3> QED
      BY <3>1, <3>2
  <2> QED
    BY <2>2, <2>4, <2>5 DEF Paired
<1> HIDE DEF Paired
<1> DEFINE T == {n \in Nat : n <= Len(s) => Paired(n)}
<1>7. 0 \in T
  BY <1>5
<1>8. ASSUME NEW n \in Nat, n \in T
      PROVE  n + 1 \in T
  <2>1. n + 1 <= Len(s) => n <= Len(s)
    BY <1>2
  <2> QED
    BY <1>6, <1>8, <2>1
<1> HIDE DEF T
<1>9. Nat \subseteq T
  BY <1>7, <1>8, SetInduction
<1>10. Paired(Len(s))
  BY <1>2, <1>9 DEF T
<1>11. FlattenSeq(s) = f[Len(s)]
  BY <1>1, FlatteningIs
<1> QED
  BY <1>10, <1>11 DEF Paired
=============================================================================
