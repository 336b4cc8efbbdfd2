--------------------------- MODULE SequenceLemmas ---------------------------
(***************************************************************************)
(* What the operators of SequencesExt that the modules use return, and     *)
(* that a set of numbers has a least element.                              *)
(***************************************************************************)
EXTENDS Integers, SequencesExt, SequenceTheorems, FiniteSetTheorems, WellFoundedInduction, TLAPS

Less == {pair \in Nat \X Nat : pair[1] < pair[2]}

\* A set of numbers that is not empty has a least one.
LEMMA LeastNumber ==
  ASSUME NEW T \in SUBSET Nat, T # {}
  PROVE  \E x \in T : \A y \in T : x <= y
<1>1. Less = OpToRel(<, Nat)
  BY DEF OpToRel, Less
<1>2. IsWellFoundedOn(Less, Nat)
  BY <1>1, NatLessThanWellFounded
<1>3. PICK x \in T : \A y \in T : ~(<<y, x>> \in Less)
  BY <1>2, WFMin
<1>4. \A y \in T : y < x => <<y, x>> \in Less
  BY DEF Less
<1>5. \A y \in T : ~(y < x)
  BY <1>3, <1>4
<1>6. \A y \in T : x \in Nat /\ y \in Nat
  OBVIOUS
<1>7. \A y \in T : x <= y
  BY <1>5, <1>6
<1> QED
  BY <1>7

\* What InsertAt makes of a sequence: t is s with e at k.
Inserts(t, s, k, e) ==
  /\ Len(t) = Len(s) + 1
  /\ \A j \in 1..(Len(s) + 1) : t[j] = IF j < k THEN s[j] ELSE IF j = k THEN e ELSE s[j - 1]
LEMMA InsertAtMakes ==
  ASSUME NEW S, NEW s \in Seq(S), NEW k \in 1..(Len(s) + 1), NEW e \in S
  PROVE  InsertAt(s, k, e) \in Seq(S) /\ Inserts(InsertAt(s, k, e), s, k, e)
<1> DEFINE a == SubSeq(s, 1, k - 1)
           b == SubSeq(s, k, Len(s))
           n == Len(s)
<1>1. n \in Nat /\ k \in Nat /\ 1 <= k /\ k <= n + 1
  OBVIOUS
<1>2. a \in Seq(S) /\ Len(a) = k - 1 /\ \A j \in 1..(k - 1) : a[j] = s[j]
  BY <1>1, SubSeqProperties
<1>3. b \in Seq(S) /\ Len(b) = n - k + 1 /\ \A j \in 1..(n - k + 1) : b[j] = s[k + j - 1]
  <2>1. Len(b) = IF k <= n THEN n - k + 1 ELSE 0
    BY <1>1, SubSeqProperties
  <2>2. \A j \in 1..(n - k + 1) : b[j] = s[k + j - 1]
    BY <1>1, SubSeqProperties
  <2>3. b \in Seq(S)
    BY <1>1, SubSeqProperties
  <2> HIDE DEF b, n
  <2> QED
    BY <1>1, <2>1, <2>2, <2>3
<1>4. InsertAt(s, k, e) = a \o <<e>> \o b
  BY DEF InsertAt
<1> HIDE DEF a, b
<1>5. /\ a \o <<e>> \in Seq(S) /\ Len(a \o <<e>>) = k
      /\ \A j \in 1..k : (a \o <<e>>)[j] = IF j < k THEN s[j] ELSE e
  BY <1>1, <1>2
<1> DEFINE c == a \o <<e>>
<1> HIDE DEF c, n
<1>6. c \o b \in Seq(S) /\ Len(c \o b) = n + 1
  <2>1. c \in Seq(S) /\ Len(c) = k
    BY <1>5 DEF c
  <2>2. c \o b \in Seq(S) /\ Len(c \o b) = Len(c) + Len(b)
    BY <1>3, <2>1, ConcatProperties
  <2> QED
    BY <1>1, <1>3, <2>1, <2>2
<1>7. \A j \in 1..(n + 1) :
        (c \o b)[j] = IF j < k THEN s[j] ELSE IF j = k THEN e ELSE s[j - 1]
  <2> TAKE j \in 1..(n + 1)
  <2>1. (c \o b)[j] = IF j <= k THEN c[j] ELSE b[j - k]
    <3>1. c \in Seq(S) /\ b \in Seq(S) /\ Len(c) = k
      BY <1>3, <1>5 DEF c
    <3>2. j \in 1..(Len(c) + Len(b))
      BY ONLY <1>1, <1>3, <3>1, j \in 1..(n + 1)
    <3>3. (c \o b)[j] = IF j <= Len(c) THEN c[j] ELSE b[j - Len(c)]
      BY ONLY <3>1, <3>2, ConcatProperties
    <3> QED
      BY ONLY <3>1, <3>3
  <2>2. CASE j <= k
    BY <1>1, <1>5, <2>1, <2>2 DEF c
  <2>3. CASE ~(j <= k)
    <3>1. j - k \in 1..(n - k + 1)
      BY <1>1, <2>3
    <3>2. b[j - k] = s[j - 1]
      BY <1>1, <1>3, <3>1
    <3> QED
      BY <1>1, <2>1, <2>3, <3>2
  <2> QED
    BY <2>2, <2>3
<1>8. InsertAt(s, k, e) = c \o b /\ n = Len(s)
  BY <1>4 DEF c, n
<1> QED
  BY ONLY <1>6, <1>7, <1>8 DEF Inserts

LEMMA InsertAtEntries ==
  ASSUME NEW S, NEW s \in Seq(S), NEW k \in 1..(Len(s) + 1), NEW e \in S
  PROVE  /\ InsertAt(s, k, e) \in Seq(S)
         /\ Len(InsertAt(s, k, e)) = Len(s) + 1
         /\ \A j \in 1..(Len(s) + 1) :
              InsertAt(s, k, e)[j] = IF j < k THEN s[j] ELSE IF j = k THEN e ELSE s[j - 1]
<1>1. InsertAt(s, k, e) \in Seq(S) /\ Inserts(InsertAt(s, k, e), s, k, e)
  BY ONLY s \in Seq(S), k \in 1..(Len(s) + 1), e \in S, InsertAtMakes, Zenon
<1> QED
  BY ONLY <1>1 DEF Inserts

\* What SubSeq makes of a sequence.
LEMMA SubSeqEntries ==
  ASSUME NEW S, NEW s \in Seq(S), NEW a \in Nat \ {0}, NEW b \in Nat, a <= b + 1, b <= Len(s)
  PROVE  /\ SubSeq(s, a, b) \in Seq(S)
         /\ Len(SubSeq(s, a, b)) = b - a + 1
         /\ \A j \in 1..(b - a + 1) : SubSeq(s, a, b)[j] = s[a + j - 1]
<1> DEFINE t == SubSeq(s, a, b)
<1>1. Len(s) \in Nat
  OBVIOUS
<1>2. t \in Seq(S)
  BY <1>1, SubSeqProperties
<1>3. Len(t) = IF a <= b THEN b - a + 1 ELSE 0
  BY <1>1, SubSeqProperties
<1>4. \A j \in 1..(b - a + 1) : t[j] = s[a + j - 1]
  BY <1>1, SubSeqProperties
<1> HIDE DEF t
<1>5. Len(t) = b - a + 1
  BY <1>3
<1> QED
  BY <1>2, <1>4, <1>5 DEF t

\* What one sequence after another holds.
ListOf(S, s, n) == n \in Nat /\ s \in Seq(S) /\ Len(s) = n
Followed(S, s, t, m, n) == /\ s \o t \in Seq(S) /\ Len(s \o t) = m + n
                           /\ \A i \in 1..m : (s \o t)[i] = s[i]
                           /\ \A i \in (m + 1)..(m + n) : (s \o t)[i] = t[i - m]
LEMMA ConcatEntries ==
  ASSUME NEW S, NEW s, NEW t, NEW m, NEW n, ListOf(S, s, m), ListOf(S, t, n)
  PROVE  Followed(S, s, t, m, n)
<1> DEFINE r == s \o t
<1>1. r \in Seq(S) /\ Len(r) = m + n
  BY ConcatProperties DEF ListOf
<1>2. \A i \in 1..(m + n) : r[i] = IF i <= m THEN s[i] ELSE t[i - m]
  BY ConcatProperties DEF ListOf
<1>3. m \in Nat /\ n \in Nat
  BY DEF ListOf
<1> HIDE DEF r
<1>4. \A i \in 1..m : r[i] = s[i]
  BY <1>2, <1>3
<1>5. \A i \in (m + 1)..(m + n) : r[i] = t[i - m]
  BY <1>2, <1>3
<1> QED
  BY <1>1, <1>4, <1>5 DEF r, Followed

\* What RemoveAt, Front and a new first element make of a sequence.
LEMMA RemoveAtEntries ==
  ASSUME NEW S, NEW s \in Seq(S), NEW k \in 1..Len(s)
  PROVE  /\ RemoveAt(s, k) \in Seq(S)
         /\ Len(RemoveAt(s, k)) = Len(s) - 1
         /\ \A j \in 1..Len(s) - 1 :
              RemoveAt(s, k)[j] = IF j < k THEN s[j] ELSE s[j + 1]
<1> DEFINE a == SubSeq(s, 1, k - 1)
           b == SubSeq(s, k + 1, Len(s))
<1>1. Len(s) \in Nat /\ k \in Nat /\ k >= 1 /\ k <= Len(s)
  OBVIOUS
<1>2. a \in Seq(S) /\ Len(a) = k - 1 /\ \A j \in 1..(k - 1) : a[j] = s[j]
  BY <1>1, SubSeqProperties
<1>3. b \in Seq(S) /\ Len(b) = Len(s) - k /\ \A j \in 1..(Len(s) - k) : b[j] = s[j + k]
  <2>1. Len(b) = IF k + 1 <= Len(s) THEN Len(s) - (k + 1) + 1 ELSE 0
    BY <1>1, SubSeqProperties
  <2>2. \A j \in 1..Len(s) - (k + 1) + 1 : b[j] = s[k + 1 + j - 1]
    BY <1>1, SubSeqProperties
  <2>3. b \in Seq(S)
    BY <1>1, SubSeqProperties
  <2> HIDE DEF b
  <2> QED
    BY <1>1, <2>1, <2>2, <2>3
<1>4. RemoveAt(s, k) = a \o b
  BY DEF RemoveAt
<1> HIDE DEF a, b
<1>5. a \o b \in Seq(S) /\ Len(a \o b) = Len(s) - 1
  <2>1. a \o b \in Seq(S) /\ Len(a \o b) = Len(a) + Len(b)
    BY <1>2, <1>3, ConcatProperties
  <2> QED
    BY <1>1, <1>2, <1>3, <2>1
<1>6. \A j \in 1..Len(s) - 1 : (a \o b)[j] = IF j < k THEN s[j] ELSE s[j + 1]
  <2> TAKE j \in 1..Len(s) - 1
  <2>1. (a \o b)[j] = IF j <= Len(a) THEN a[j] ELSE b[j - Len(a)]
    BY <1>1, <1>2, <1>3, <1>5, ConcatProperties
  <2>2. CASE j < k
    BY <1>1, <1>2, <2>1, <2>2
  <2>3. CASE ~(j < k)
    <3>1. j - (k - 1) \in 1..(Len(s) - k)
      BY <1>1, <2>3
    <3>2. b[j - (k - 1)] = s[j + 1]
      BY <1>1, <1>3, <3>1
    <3> QED
      BY <1>1, <1>2, <2>1, <2>3, <3>2
  <2> QED
    BY <2>2, <2>3
<1> QED
  BY <1>4, <1>5, <1>6

LEMMA FrontEntries ==
  ASSUME NEW S, NEW s \in Seq(S), Len(s) > 0
  PROVE  /\ Front(s) \in Seq(S)
         /\ Len(Front(s)) = Len(s) - 1
         /\ \A j \in 1..Len(s) - 1 : Front(s)[j] = s[j]
<1> DEFINE f == SubSeq(s, 1, Len(s) - 1)
           n == Len(s)
<1>1. n \in Nat /\ n >= 1
  OBVIOUS
<1>2. /\ f \in Seq(S)
      /\ Len(f) = IF 1 <= n - 1 THEN n - 1 - 1 + 1 ELSE 0
      /\ \A j \in 1..(n - 1) - 1 + 1 : f[j] = s[1 + j - 1]
  BY <1>1, SubSeqProperties
<1>3. Front(s) = f
  BY DEF Front
<1> HIDE DEF f, n
<1>4. Len(f) = n - 1
  BY <1>1, <1>2
<1>5. \A j \in 1..n - 1 : f[j] = s[j]
  BY <1>1, <1>2
<1> QED
  BY <1>2, <1>3, <1>4, <1>5 DEF n

LEMMA ConsEntries ==
  ASSUME NEW S, NEW s \in Seq(S), NEW e \in S
  PROVE  /\ <<e>> \o s \in Seq(S)
         /\ Len(<<e>> \o s) = Len(s) + 1
         /\ \A j \in 1..Len(s) + 1 : (<<e>> \o s)[j] = IF j = 1 THEN e ELSE s[j - 1]
  OBVIOUS
\* A sequence of sequences can be put together from left to right.
Joined(ss, f, k) == /\ f[1] = ss[1]
                    /\ \A i \in 2..k : f[i] = f[i - 1] \o ss[i]

LEMMA FlattenSeqJoins ==
  ASSUME NEW S, NEW ss \in Seq(Seq(S)), Len(ss) > 0
  PROVE  \E f \in [1..Len(ss) -> Seq(S)] : Joined(ss, f, Len(ss)) /\ FlattenSeq(ss) = f[Len(ss)]
<1> DEFINE n == Len(ss)
           Body(f) == [i \in 1..n |-> IF i = 1 THEN ss[i] ELSE f[i - 1] \o ss[i]]
           flatten == CHOOSE f : f = Body(f)
           Left == {k \in 1..n : \A f \in [1..k -> Seq(S)] : ~Joined(ss, f, k)}
<1>1. n \in Nat \ {0} /\ \A i \in 1..n : ss[i] \in Seq(S)
  OBVIOUS
<1> HIDE DEF n
<1>2. Left = {}
  <2> SUFFICES ASSUME Left # {} PROVE FALSE
    OBVIOUS
  <2>1. Left \in SUBSET Nat
    BY <1>1
  <2>2. PICK k \in Left : \A m \in Left : k <= m
    BY <2>1, LeastNumber
  <2>3. k \in 1..n /\ \A f \in [1..k -> Seq(S)] : ~Joined(ss, f, k)
    BY <2>2
  <2>4. CASE k = 1
    <3> DEFINE f == [i \in 1..1 |-> ss[1]]
    <3>1. f \in [1..1 -> Seq(S)] /\ Joined(ss, f, 1)
      BY <1>1 DEF Joined
    <3> QED
      BY <2>3, <2>4, <3>1
  <2>5. CASE k # 1
    <3>1. k - 1 \in 1..n /\ ~(k <= k - 1)
      BY <2>3, <2>5, <1>1
    <3>2. PICK f \in [1..(k - 1) -> Seq(S)] : Joined(ss, f, k - 1)
      <4>1. k - 1 \notin Left
        BY <2>2, <3>1
      <4> QED
        BY <3>1, <4>1
    <3> DEFINE g == [i \in 1..k |-> IF i = k THEN f[k - 1] \o ss[k] ELSE f[i]]
    <3>3. f[k - 1] \in Seq(S) /\ ss[k] \in Seq(S)
      BY <1>1, <2>3, <3>1
    <3>4. g \in [1..k -> Seq(S)]
      <4> SUFFICES ASSUME NEW i \in 1..k PROVE g[i] \in Seq(S)
        OBVIOUS
      <4>1. CASE i = k
        BY <3>3, <4>1
      <4>2. CASE i # k
        <5>1. i \in 1..(k - 1)
          BY <2>3, <4>2
        <5> QED
          BY <4>2, <5>1
      <4> QED
        BY <4>1, <4>2
    <3>5. Joined(ss, g, k)
      <4>1. g[1] = ss[1]
        BY <2>3, <2>5, <3>2 DEF Joined
      <4>2. ASSUME NEW i \in 2..k PROVE g[i] = g[i - 1] \o ss[i]
        <5>1. i - 1 \in 1..k /\ i - 1 # k /\ i \in 1..k /\ (i # k => i \in 2..(k - 1))
          BY <2>3
        <5>2. g[i - 1] = f[i - 1]
          BY <5>1
        <5>3. CASE i = k
          BY <5>1, <5>2, <5>3
        <5>4. CASE i # k
          BY <3>2, <5>1, <5>2, <5>4 DEF Joined
        <5> QED
          BY <5>3, <5>4
      <4> HIDE DEF g
      <4> QED
        BY <4>1, <4>2 DEF Joined
    <3> HIDE DEF g
    <3> QED
      BY <2>3, <3>4, <3>5
  <2> QED
    BY <2>4, <2>5
<1>3. PICK f \in [1..n -> Seq(S)] : Joined(ss, f, n)
  <2> HIDE DEF Left
  <2>1. n \in 1..n /\ n \notin Left
    BY <1>1, <1>2
  <2> USE DEF Left
  <2> QED
    BY <2>1
<1>4. f = Body(f)
  <2>1. ASSUME NEW i \in 1..n PROVE f[i] = IF i = 1 THEN ss[i] ELSE f[i - 1] \o ss[i]
    <3>1. i # 1 => i \in 2..n
      BY <1>1
    <3> QED
      BY <1>3, <3>1 DEF Joined
  <2> QED
    BY <1>3, <2>1
<1>5. flatten = Body(flatten)
  BY <1>4
<1> HIDE DEF flatten
<1>6. \A i \in 1..n : flatten[i] = IF i = 1 THEN ss[i] ELSE flatten[i - 1] \o ss[i]
  BY <1>5
<1>7. \A i \in 1..n : flatten[i] = f[i]
  <2> DEFINE Wrong == {i \in 1..n : flatten[i] # f[i]}
  <2> SUFFICES ASSUME Wrong # {} PROVE FALSE
    OBVIOUS
  <2>1. Wrong \in SUBSET Nat
    BY <1>1
  <2>2. PICK i \in Wrong : \A m \in Wrong : i <= m
    BY <2>1, LeastNumber
  <2>3. CASE i = 1
    BY <1>1, <1>3, <1>6, <2>2, <2>3 DEF Joined
  <2>4. CASE i # 1
    <3>1. i \in 2..n /\ i - 1 \in 1..n /\ i - 1 \notin Wrong
      BY <1>1, <2>2, <2>4
    <3>2. flatten[i - 1] = f[i - 1] /\ f[i] = f[i - 1] \o ss[i]
      BY <1>3, <3>1 DEF Joined
    <3> QED
      BY <1>6, <2>2, <2>4, <3>2
  <2> QED
    BY <2>3, <2>4
<1>8. n \in 1..n
  BY <1>1
<1>9. FlattenSeq(ss) = flatten[n]
  BY <1>1 DEF FlattenSeq, flatten, n
<1> QED
  BY <1>3, <1>7, <1>8, <1>9 DEF n

\* The elements of the result are those of the parts.
LEMMA FlattenSeqType ==
  ASSUME NEW S, NEW ss \in Seq(Seq(S)) PROVE FlattenSeq(ss) \in Seq(S)
<1>1. CASE Len(ss) = 0
  <2>1. ss = <<>> /\ FlattenSeq(ss) = ss
    BY <1>1 DEF FlattenSeq
  <2>2. <<>> \in Seq(S)
    OBVIOUS
  <2> QED
    BY ONLY <2>1, <2>2
<1>2. CASE Len(ss) > 0
  <2>1. PICK f \in [1..Len(ss) -> Seq(S)] : FlattenSeq(ss) = f[Len(ss)]
    BY <1>2, FlattenSeqJoins
  <2>2. Len(ss) \in 1..Len(ss)
    BY <1>2
  <2> QED
    BY ONLY <2>1, <2>2
<1> QED
  BY <1>1, <1>2

\* Parts of the same length follow each other at that distance.
LEMMA FlattenSeqBlocks ==
  ASSUME NEW S, NEW ss \in Seq(Seq(S)), Len(ss) > 0, NEW w \in Nat,
         \A i \in 1..Len(ss) : Len(ss[i]) = w
  PROVE  /\ Len(FlattenSeq(ss)) = Len(ss) * w
         /\ \A i \in 1..Len(ss), j \in 1..w : FlattenSeq(ss)[(i - 1) * w + j] = ss[i][j]
<1> DEFINE n == Len(ss)
           Right(k, f) == /\ Len(f[k]) = k * w
                          /\ \A i \in 1..k, j \in 1..w : f[k][(i - 1) * w + j] = ss[i][j]
<1>1. n \in Nat \ {0} /\ \A i \in 1..n : ss[i] \in Seq(S) /\ Len(ss[i]) = w
  OBVIOUS
<1>2. PICK f \in [1..n -> Seq(S)] : Joined(ss, f, n) /\ FlattenSeq(ss) = f[n]
  BY <1>1, FlattenSeqJoins
<1> HIDE DEF n
<1>3. \A k \in 1..n : Right(k, f)
  <2> DEFINE Wrong == {k \in 1..n : ~Right(k, f)}
  <2> SUFFICES ASSUME Wrong # {} PROVE FALSE
    BY DEF Right
  <2>1. Wrong \in SUBSET Nat
    BY <1>1
  <2> HIDE DEF Right
  <2>2. PICK k \in Wrong : \A m \in Wrong : k <= m
    BY <2>1, LeastNumber
  <2>3. CASE k = 1
    <3>1. f[1] = ss[1] /\ Len(ss[1]) = w
      BY <1>1, <1>2 DEF Joined
    <3>2. ASSUME NEW i \in 1..1, NEW j \in 1..w PROVE f[1][(i - 1) * w + j] = ss[i][j]
      <4>1. i = 1 /\ (i - 1) * w + j = j
        OBVIOUS
      <4> QED
        BY <3>1, <4>1
    <3>3. Right(1, f)
      BY <3>1, <3>2 DEF Right
    <3> QED
      BY <2>2, <2>3, <3>3
  <2>4. CASE k # 1
    <3>1. k \in 2..n /\ k - 1 \in 1..n /\ k - 1 \notin Wrong
      BY <1>1, <2>2, <2>4
    <3>2. Right(k - 1, f) /\ f[k] = f[k - 1] \o ss[k]
      BY <1>2, <3>1 DEF Joined
    <3> DEFINE a == f[k - 1]
               b == ss[k]
               before == (k - 1) * w
    <3>3. a \in Seq(S) /\ b \in Seq(S) /\ Len(b) = w /\ Len(a) = before
      BY <1>1, <1>2, <3>1, <3>2 DEF Right
    <3>4. before \in Nat /\ before + w = k * w
      BY <3>1
    <3>5. ASSUME NEW i \in 1..k, NEW j \in 1..w
          PROVE  (a \o b)[(i - 1) * w + j] = ss[i][j]
      <4>1. CASE i = k
        <5>1. (i - 1) * w = before
          BY <4>1
        <5> HIDE DEF a, b, before
        <5> QED
          BY SMTT(30), <3>3, <3>4, <5>1, <4>1 DEF b
      <4>2. CASE i # k
        <5>1. i \in 1..(k - 1)
          BY <3>1, <4>2
        <5>2. a[(i - 1) * w + j] = ss[i][j]
          BY <3>2, <5>1 DEF Right
        <5>3. (i - 1) * w + w = i * w /\ i * w <= before /\ (i - 1) * w \in Nat
          <6>1. k - 1 - i \in Nat
            BY <3>1, <5>1
          <6>2. (k - 1 - i) * w \in Nat /\ before = i * w + (k - 1 - i) * w
            BY <3>1, <5>1, <6>1
          <6>3. (i - 1) * w \in Nat /\ (i - 1) * w + w = i * w
            BY <5>1, <3>1
          <6> QED
            BY <6>2, <6>3
        <5> DEFINE x == (i - 1) * w
                   y == i * w
        <5>4. x + w = y /\ y <= before /\ x \in Nat /\ y \in Int
          BY <5>1, <5>3
        <5>5. x + j \in 1..before
          <6> HIDE DEF x, y, before
          <6> QED
            BY <5>4, <3>4
        <5> HIDE DEF x, a, b
        <5> QED
          BY <3>3, <5>2, <5>5 DEF x
      <4> QED
        BY <4>1, <4>2
    <3>6. Len(a \o b) = k * w
      <4>1. Len(a \o b) = Len(a) + Len(b)
        BY ONLY <3>3, ConcatProperties
      <4> HIDE DEF a, b, before
      <4> QED
        BY <3>3, <3>4, <4>1
    <3>7. Right(k, f)
      BY <3>2, <3>5, <3>6 DEF Right
    <3> QED
      BY <2>2, <3>7
  <2> QED
    BY <2>3, <2>4
<1>4. n \in 1..n
  BY <1>1
<1> QED
  BY ZenonT(60), <1>2, <1>3, <1>4 DEF n

\* A sequence of SetToSeqs and the one SetToSeq chooses have every element of the set.
LEMMA InjectionOnto ==
  ASSUME NEW S, IsFiniteSet(S), NEW q \in [1..Cardinality(S) -> S],
         \A i, j \in 1..Cardinality(S) : q[i] = q[j] => i = j
  PROVE  /\ q \in Seq(S) /\ Len(q) = Cardinality(S)
         /\ \A x \in S : \E i \in 1..Len(q) : q[i] = x
<1> DEFINE n == Cardinality(S)
<1>1. n \in Nat
  BY FS_CardinalityType
<1>2. q \in Seq(S) /\ Len(q) = n
  BY <1>1
<1>3. q \in Injection(1..n, S)
  BY DEF Injection, IsInjective
<1>4. Cardinality(1..n) = n
  BY <1>1, FS_Interval
<1>5. q \in Surjection(1..n, S)
  BY <1>3, <1>4, FS_Injection
<1> QED
  BY <1>2, <1>5 DEF Surjection

LEMMA SetToSeqsEntries ==
  ASSUME NEW S, IsFiniteSet(S), NEW q \in SetToSeqs(S)
  PROVE  /\ q \in Seq(S) /\ Len(q) = Cardinality(S)
         /\ \A x \in S : \E i \in 1..Len(q) : q[i] = x
         /\ \A i, j \in 1..Len(q) : q[i] = q[j] => i = j
<1>1. q \in [1..Cardinality(S) -> S] /\ \A i, j \in 1..Cardinality(S) : q[i] = q[j] => i = j
  BY DEF SetToSeqs
<1> QED
  BY <1>1, InjectionOnto

LEMMA SetToSeqEmpty == SetToSeq({}) = <<>>
<1>1. Cardinality({}) = 0
  BY FS_EmptySet
<1>2. \A f \in [1..0 -> {}] : f = <<>>
  OBVIOUS
<1>3. <<>> \in [1..0 -> {}] /\ IsInjective(<<>>)
  BY DEF IsInjective
<1> QED
  BY <1>1, <1>2, <1>3 DEF SetToSeq

LEMMA SetToSeqSingle == ASSUME NEW x PROVE SetToSeq({x}) = <<x>>
<1>1. Cardinality({x}) = 1
  BY FS_Singleton
<1>2. \A f \in [1..1 -> {x}] : f = <<x>>
  OBVIOUS
<1>3. <<x>> \in [1..1 -> {x}] /\ IsInjective(<<x>>)
  BY DEF IsInjective
<1> QED
  BY <1>1, <1>2, <1>3 DEF SetToSeq
=============================================================================
