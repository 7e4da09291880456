----------------------------- MODULE CommonProofs -----------------------------
(***************************************************************************)
(* Facts that the proofs share: what a remainder is, the least of some     *)
(* numbers, and what is picked from a sequence: nothing else, all of it,   *)
(* in its order.                                                           *)
(***************************************************************************)
EXTENDS Subsequences, FiniteSetTheorems, SequenceTheorems, WellFoundedInduction, TLAPS

\* What a remainder is, for any divisor.
LEMMA Divided ==
  ASSUME NEW a \in Int, NEW b \in Nat \ {0}
  PROVE  /\ a \div b \in Int /\ a % b \in 0..(b - 1)
         /\ a = b * (a \div b) + (a % b)
<1>1. a \div b \in Int
  BY SMTT(30)
<1>2. a % b \in 0..(b - 1)
  BY SMTT(30)
<1>3. a % b = a - b * (a \div b)
  BY SMTT(30)
<1> DEFINE q == a \div b
           r == a % b
<1> HIDE DEF q, r
<1>4. b * q \in Int
  BY <1>1, SMT DEF q
<1>5. a = b * q + r
  <2> DEFINE z == b * q
  <2>1. r = a - z
    BY <1>3 DEF q, r
  <2>2. z \in Int
    BY <1>4
  <2> HIDE DEF z
  <2>3. a = z + r
    BY <2>1, <2>2
  <2> QED
    BY <2>3 DEF z
<1> QED
  BY <1>1, <1>2, <1>5, Zenon DEF q, r

\* A multiple of the divisor adds nothing to a remainder.
LEMMA RemainderIs ==
  ASSUME NEW n \in Nat \ {0}, NEW q \in Int, NEW r \in 0..(n - 1)
  PROVE  (n * q + r) % n = r /\ (n * q + r) \div n = q
<1> DEFINE z == n * q + r
           p == z \div n
           s == z % n
           d == q - p
<1>1. z \in Int
  BY SMT
<1>2. p \in Int /\ s \in 0..(n - 1) /\ z = n * p + s
  BY <1>1, Divided
<1>3. n * q + r = n * p + s
  BY <1>2
<1> HIDE DEF z, p, s
<1>4. n * d = n * q - n * p /\ d \in Int
  BY <1>2, SMT
<1> HIDE DEF d
<1>5. n * d = s - r
  BY <1>2, <1>3, <1>4, SMT
<1>6. d < 1
  <2>1. SUFFICES ASSUME d >= 1 PROVE FALSE
    BY <1>4
  <2>2. n * d >= n * 1
    BY <1>4, <2>1, SMT
  <2> QED
    BY <1>2, <1>5, <2>2
<1>7. d > -1
  <2>1. SUFFICES ASSUME d <= -1 PROVE FALSE
    BY <1>4
  <2>2. n * d <= n * (-1)
    BY <1>4, <2>1, SMT
  <2>3. n * (-1) = -n
    BY SMT
  <2> QED
    BY <1>2, <1>5, <2>2, <2>3
<1>8. d = 0
  BY <1>4, <1>6, <1>7
<1>9. q = p
  BY <1>2, <1>8 DEF d
<1>10. s = r
  BY <1>2, <1>3, <1>9, SMT
<1> QED
  BY <1>9, <1>10 DEF z, p, s

-----------------------------------------------------------------------------
\* A set of natural numbers has a least one.
LEMMA LeastNat ==
  ASSUME NEW T \in SUBSET Nat, T # {}
  PROVE  \E x \in T : \A y \in T : x <= y
<1> DEFINE R == {ss \in Nat \X Nat : ss[1] < ss[2]}
<1>1. OpToRel(<, Nat) = R
  BY DEF OpToRel
<1>2. IsWellFoundedOn(R, Nat)
  BY <1>1, NatLessThanWellFounded
<1>3. \A x, y \in Nat : y < x => <<y, x>> \in R
  OBVIOUS
<1> HIDE DEF R
<1>4. \E x \in T : \A y \in T : ~ (<<y, x>> \in R)
  BY <1>2, WFMin, Zenon
<1>5. PICK x \in T : \A y \in T : ~ (<<y, x>> \in R)
  BY <1>4
<1>6. \A y \in T : ~ (y < x)
  BY <1>3, <1>5
<1> QED
  BY <1>6

\* Places are positive.
LEMMA PlaceType ==
  ASSUME NEW n \in Nat, NEW at \in SUBSET (1..n), NEW i \in at
  PROVE  i \in Nat /\ 0 < i /\ i <= n
<1>1. i \in 1..n
  OBVIOUS
<1> QED
  BY <1>1

\* How many places there are up to i.
Upto(at, i) == {j \in at : j <= i}
Rank(at, i) == Cardinality(Upto(at, i))

\* Places up to a number are finitely many, no more than there are in all.
LEMMA RankType ==
  ASSUME NEW n \in Nat, NEW at \in SUBSET (1..n), NEW i \in Nat
  PROVE  /\ IsFiniteSet(at) /\ Cardinality(at) \in 0..n
         /\ IsFiniteSet(Upto(at, i)) /\ Rank(at, i) \in 0..Cardinality(at)
<1>1. IsFiniteSet(1..n) /\ Cardinality(1..n) = n
  BY FS_Interval
<1>2. IsFiniteSet(at) /\ Cardinality(at) <= n /\ Cardinality(at) \in Nat
  BY <1>1, FS_Subset, FS_CardinalityType
<1>3. Upto(at, i) \subseteq at
  BY DEF Upto
<1>4. IsFiniteSet(Upto(at, i)) /\ Rank(at, i) <= Cardinality(at) /\ Rank(at, i) \in Nat
  BY <1>2, <1>3, FS_Subset, FS_CardinalityType DEF Rank
<1> QED
  BY <1>2, <1>4

\* The number of places grows by one at a place, and nowhere else.
LEMMA RankStep ==
  ASSUME NEW n \in Nat, NEW at \in SUBSET (1..n), NEW i \in Nat
  PROVE  Rank(at, i + 1) = IF i + 1 \in at THEN Rank(at, i) + 1 ELSE Rank(at, i)
<1>1. IsFiniteSet(Upto(at, i)) /\ i + 1 \notin Upto(at, i)
  BY RankType DEF Upto
<1>2. Upto(at, i + 1) = IF i + 1 \in at THEN Upto(at, i) \cup {i + 1} ELSE Upto(at, i)
  <2>1. \A j \in at : j \in Nat
    BY PlaceType
  <2>2. \A j \in at : j <= i + 1 <=> j <= i \/ j = i + 1
    BY <2>1
  <2> QED
    BY <2>2 DEF Upto
<1>3. Cardinality(Upto(at, i) \cup {i + 1}) = Cardinality(Upto(at, i)) + 1
  BY <1>1, FS_AddElement
<1> QED
  BY <1>2, <1>3 DEF Rank

\* A later place has a larger number of places up to it.
LEMMA RankGrows ==
  ASSUME NEW n \in Nat, NEW at \in SUBSET (1..n), NEW i \in Nat, NEW j \in at, i < j
  PROVE  Rank(at, i) < Rank(at, j)
<1>1. IsFiniteSet(Upto(at, j)) /\ Upto(at, i) \subseteq Upto(at, j) /\ j \in Upto(at, j)
      /\ j \notin Upto(at, i)
  <2>1. \A l \in at : l \in Nat
    BY PlaceType
  <2>2. j \in Nat
    BY <2>1
  <2>3. \A l \in at : l <= i => l <= j
    BY <2>1, <2>2
  <2>4. j <= j /\ ~(j <= i)
    BY <2>2
  <2>5. IsFiniteSet(Upto(at, j))
    BY <2>2, RankType
  <2> QED
    BY <2>3, <2>4, <2>5 DEF Upto
<1>2. Upto(at, i) # Upto(at, j)
  BY <1>1
<1>3. Cardinality(Upto(at, i)) < Cardinality(Upto(at, j))
  <2>1. /\ IsFiniteSet(Upto(at, i)) /\ Cardinality(Upto(at, i)) <= Cardinality(Upto(at, j))
        /\ Cardinality(Upto(at, i)) # Cardinality(Upto(at, j))
    BY <1>1, <1>2, FS_Subset
  <2>2. Cardinality(Upto(at, i)) \in Nat /\ Cardinality(Upto(at, j)) \in Nat
    BY <1>1, <2>1, FS_CardinalityType
  <2> QED
    BY <2>1, <2>2
<1> QED
  BY <1>3 DEF Rank

\* The k-th place is there.
LEMMA NthIs ==
  ASSUME NEW n \in Nat, NEW at \in SUBSET (1..n), NEW k \in 1..Cardinality(at)
  PROVE  Nth(at, k) \in at /\ Rank(at, Nth(at, k)) = k
<1> DEFINE T == {i \in Nat : Rank(at, i) >= k}
<1>0. Cardinality(at) \in Nat /\ k \in Nat
  BY RankType
<1>1. n \in T
  <2>1. Upto(at, n) = at
    BY PlaceType DEF Upto
  <2> QED
    BY <1>0, <2>1 DEF Rank
<1> HIDE DEF T
<1>2. T \in SUBSET Nat
  BY DEF T
<1>3. PICK i \in T : \A y \in T : i <= y
  BY <1>1, <1>2, LeastNat
<1>4. i \in Nat /\ Rank(at, i) >= k
  BY DEF T
<1>5. i # 0
  <2>1. \A j \in at : ~(j <= 0)
    BY PlaceType
  <2>3. Upto(at, 0) = {}
    BY <2>1 DEF Upto
  <2>2. Rank(at, 0) = 0
    BY <2>3, FS_EmptySet DEF Rank
  <2> QED
    BY <1>0, <1>4, <2>2
<1>6. i - 1 \in Nat /\ i - 1 \notin T /\ (i - 1) + 1 = i
  BY <1>3, <1>4, <1>5
<1>7. Rank(at, i - 1) < k /\ Rank(at, i - 1) \in Nat
  <2>1. Rank(at, i - 1) \in Nat
    BY <1>6, RankType
  <2> QED
    BY <1>6, <2>1 DEF T
<1>8. Rank(at, i) = IF i \in at THEN Rank(at, i - 1) + 1 ELSE Rank(at, i - 1)
  <2> DEFINE h == i - 1
  <2>1. h \in Nat /\ h + 1 = i
    BY <1>6
  <2> HIDE DEF h
  <2>2. Rank(at, h + 1) = IF h + 1 \in at THEN Rank(at, h) + 1 ELSE Rank(at, h)
    BY <2>1, RankStep
  <2> QED
    BY <2>1, <2>2 DEF h
<1>9. i \in at /\ Rank(at, i) = k
  BY <1>0, <1>4, <1>7, <1>8
<1>10. \E j \in at : Cardinality({l \in at : l <= j}) = k
  BY <1>9 DEF Rank, Upto
<1> QED
  BY <1>10 DEF Nth, Rank, Upto

\* The places come in order.
LEMMA NthGrows ==
  ASSUME NEW n \in Nat, NEW at \in SUBSET (1..n),
         NEW k \in 1..Cardinality(at), NEW l \in 1..Cardinality(at), k < l
  PROVE  Nth(at, k) < Nth(at, l)
<1>1. Nth(at, k) \in at /\ Rank(at, Nth(at, k)) = k /\ Nth(at, l) \in at
      /\ Rank(at, Nth(at, l)) = l
  BY NthIs
<1> DEFINE a == Nth(at, k)
           b == Nth(at, l)
<1>2. a \in Nat /\ b \in Nat /\ k \in Nat /\ l \in Nat
  <2>1. a \in at /\ b \in at
    BY <1>1
  <2> HIDE DEF a, b
  <2>2. a \in Nat /\ b \in Nat
    BY <2>1, PlaceType
  <2> QED
    BY <2>2
<1> HIDE DEF a, b
<1>3. ~(b < a)
  <2>1. b < a => Rank(at, b) < Rank(at, a)
    BY <1>1, <1>2, RankGrows DEF a, b
  <2> QED
    BY <1>1, <1>2, <2>1 DEF a, b
<1>4. a # b
  BY <1>1, <1>2 DEF a, b
<1> QED
  BY <1>2, <1>3, <1>4 DEF a, b

\* Every place has its number.
LEMMA NthOnto ==
  ASSUME NEW n \in Nat, NEW at \in SUBSET (1..n), NEW i \in at
  PROVE  Rank(at, i) \in 1..Cardinality(at) /\ Nth(at, Rank(at, i)) = i
<1>1. Upto(at, 0) = {} /\ i \in Nat /\ 0 < i
  <2>1. i \in Nat /\ 0 < i /\ \A j \in at : ~(j <= 0)
    BY PlaceType
  <2> QED
    BY <2>1 DEF Upto
<1>2. Rank(at, 0) = 0
  BY <1>1, FS_EmptySet DEF Rank
<1>3. Rank(at, i) \in 1..Cardinality(at)
  <2>1. Rank(at, 0) < Rank(at, i)
    BY <1>1, RankGrows
  <2>2. Rank(at, i) \in 0..Cardinality(at) /\ Cardinality(at) \in Nat
    BY <1>1, RankType, FS_CardinalityType
  <2> QED
    BY <1>2, <2>1, <2>2
<1> DEFINE j == Nth(at, Rank(at, i))
<1>4. j \in at /\ Rank(at, j) = Rank(at, i)
  BY <1>3, NthIs
<1> HIDE DEF j
<1>5. ~(i < j) /\ ~(j < i)
  <2>1. j \in Nat /\ Rank(at, i) \in Nat
    <3>1. j \in Nat
      BY <1>4, PlaceType
    <3>2. Rank(at, i) \in 0..Cardinality(at)
      BY <1>1, RankType
    <3> QED
      BY <3>1, <3>2
  <2>2. i < j => Rank(at, i) < Rank(at, j)
    BY <1>1, <1>4, RankGrows
  <2>3. j < i => Rank(at, j) < Rank(at, i)
    BY <1>4, <2>1, RankGrows
  <2> QED
    BY <1>4, <2>1, <2>2, <2>3
<1>6. j = i
  BY <1>1, <1>4, <1>5
<1> QED
  BY <1>3, <1>6 DEF j

\* What is picked is a sequence of elements of the sequence, in its order.
LEMMA PickedIs ==
  ASSUME NEW S, NEW s \in Seq(S), NEW at \in SUBSET (DOMAIN s)
  PROVE  /\ Picked(s, at) \in Seq(S)
         /\ Len(Picked(s, at)) = Cardinality(at) /\ Cardinality(at) \in 0..Len(s)
         /\ \A k \in 1..Cardinality(at) :
               Nth(at, k) \in at /\ Picked(s, at)[k] = s[Nth(at, k)]
         /\ \A k, l \in 1..Cardinality(at) : k < l => Nth(at, k) < Nth(at, l)
         /\ \A i \in at : \E k \in 1..Cardinality(at) : Nth(at, k) = i
<1>1. Len(s) \in Nat /\ DOMAIN s = 1..Len(s) /\ \A i \in 1..Len(s) : s[i] \in S
  OBVIOUS
<1>2. Cardinality(at) \in 0..Len(s)
  BY <1>1, RankType
<1>3. \A k \in 1..Cardinality(at) : Nth(at, k) \in at
  BY <1>1, NthIs
<1>4. \A k, l \in 1..Cardinality(at) : k < l => Nth(at, k) < Nth(at, l)
  BY <1>1, NthGrows
<1>5. \A i \in at : \E k \in 1..Cardinality(at) : Nth(at, k) = i
  BY <1>1, NthOnto
<1>6. \A k \in 1..Cardinality(at) : s[Nth(at, k)] \in S
  BY <1>1, <1>3
<1> DEFINE e(k) == s[Nth(at, k)]
           m == Cardinality(at)
<1>7. Picked(s, at) = [k \in 1..m |-> e(k)]
  BY DEF Picked
<1>8. m \in Nat /\ \A k \in 1..m : e(k) \in S
  BY <1>2, <1>6
<1> HIDE DEF e, m
<1>9. Picked(s, at) \in Seq(S) /\ Len(Picked(s, at)) = m
  BY <1>7, <1>8
<1>10. \A k \in 1..m : Picked(s, at)[k] = e(k)
  BY <1>7
<1> QED
  BY <1>2, <1>3, <1>4, <1>5, <1>9, <1>10 DEF e, m

\* A sequence cut in two behind place n.
LEMMA CutIs ==
  ASSUME NEW S, NEW s \in Seq(S), NEW n \in 0..Len(s)
  PROVE  /\ SubSeq(s, 1, n) \in Seq(S) /\ Len(SubSeq(s, 1, n)) = n
         /\ \A i \in 1..n : SubSeq(s, 1, n)[i] = s[i]
         /\ SubSeq(s, n + 1, Len(s)) \in Seq(S)
         /\ Len(SubSeq(s, n + 1, Len(s))) = Len(s) - n
         /\ \A i \in 1..(Len(s) - n) : SubSeq(s, n + 1, Len(s))[i] = s[i + n]
<1> DEFINE l == Len(s)
           A == SubSeq(s, 1, n)
           B == SubSeq(s, n + 1, l)
<1>1. l \in Nat /\ n \in 0..l /\ \A i \in 1..l : s[i] \in S
  BY ElementOfSeq, LenProperties
<1> HIDE DEF l
<1>2. A \in Seq(S) /\ Len(A) = (IF 1 <= n THEN n - 1 + 1 ELSE 0)
      /\ \A i \in 1..(n - 1 + 1) : A[i] = s[1 + i - 1]
  BY <1>1, SubSeqProperties
<1>3. B \in Seq(S) /\ Len(B) = (IF n + 1 <= l THEN l - (n + 1) + 1 ELSE 0)
      /\ \A i \in 1..(l - (n + 1) + 1) : B[i] = s[(n + 1) + i - 1]
  <2>1. \A i \in (n + 1)..l : s[i] \in S
    BY <1>1
  <2> QED
    BY <1>1, <2>1, SubSeqProperties
<1> HIDE DEF A, B
<1>4. Len(A) = n /\ \A i \in 1..n : A[i] = s[i]
  BY <1>1, <1>2
<1>5. Len(B) = l - n /\ \A i \in 1..(l - n) : B[i] = s[i + n]
  <2>1. l - (n + 1) + 1 = l - n /\ \A i \in 1..(l - n) : (n + 1) + i - 1 = i + n
    BY <1>1
  <2> QED
    BY <1>1, <1>3, <2>1
<1> QED
  BY <1>2, <1>3, <1>4, <1>5 DEF A, B, l

\* Of two sequences in a row the places of the second follow those of the first.
LEMMA RankConcat ==
  ASSUME NEW n \in Nat, NEW m \in Nat, NEW at \in SUBSET (1..(n + m)),
         NEW A \in SUBSET (1..n), NEW B \in SUBSET (1..m),
         \A i \in 1..n : i \in at <=> i \in A,
         \A j \in 1..m : n + j \in at <=> j \in B
  PROVE  /\ \A i \in A : Rank(at, i) = Rank(A, i)
         /\ \A j \in Nat : Rank(at, n + j) = Cardinality(A) + Rank(B, j)
<1>1. ASSUME NEW i \in 0..n PROVE Rank(at, i) = Rank(A, i)
  <2>1. ASSUME NEW j PROVE j \in Upto(at, i) <=> j \in Upto(A, i)
    <3>1. j \in at /\ j <= i => j \in 1..n
      BY <1>1, PlaceType
    <3>2. j \in A => j \in 1..n
      OBVIOUS
    <3> QED
      BY <3>1, <3>2 DEF Upto
  <2>2. Upto(at, i) = Upto(A, i)
    BY <2>1
  <2> QED
    BY <2>2 DEF Rank
<1>2. Rank(A, n) = Cardinality(A)
  <2>1. Upto(A, n) = A
    <3>1. \A i \in A : i <= n
      OBVIOUS
    <3> QED
      BY <3>1 DEF Upto
  <2> QED
    BY <2>1 DEF Rank
<1>3. Rank(B, 0) = 0
  <2>1. Upto(B, 0) = {}
    <3>1. \A j \in B : ~(j <= 0)
      OBVIOUS
    <3> QED
      BY <3>1 DEF Upto
  <2> QED
    BY <2>1, FS_EmptySet DEF Rank
<1>4. Cardinality(A) \in Nat /\ \A j \in Nat : Rank(B, j) \in Nat /\ Rank(at, n + j) \in Nat
  <2>1. Cardinality(A) \in 0..n
    BY RankType, n \in Nat
  <2>2. ASSUME NEW j \in Nat PROVE Rank(B, j) \in Nat /\ Rank(at, n + j) \in Nat
    <3>1. n + j \in Nat /\ n + m \in Nat
      OBVIOUS
    <3>2. Cardinality(B) \in 0..m /\ Rank(B, j) \in 0..Cardinality(B)
      BY RankType
    <3>3. Cardinality(at) \in 0..(n + m) /\ Rank(at, n + j) \in 0..Cardinality(at)
      BY <3>1, RankType
    <3> QED
      BY <3>1, <3>2, <3>3
  <2> QED
    BY <2>1, <2>2
<1> DEFINE T == {j \in Nat : Rank(at, n + j) # Cardinality(A) + Rank(B, j)}
<1>5. ASSUME T # {} PROVE FALSE
  <2>1. PICK x \in T : \A y \in T : x <= y
    BY <1>5, LeastNat
  <2>2. x # 0
    <3>1. Rank(at, n + 0) = Cardinality(A) + Rank(B, 0)
      <4>1. n + 0 = n /\ n \in 0..n /\ Cardinality(A) + 0 = Cardinality(A)
        BY <1>4
      <4> QED
        BY <1>1, <1>2, <1>3, <4>1
    <3> QED
      BY <3>1
  <2>3. PICK w \in Nat : x = w + 1
    <3>1. x \in Nat /\ x - 1 \in Nat /\ x = (x - 1) + 1
      BY <2>2
    <3> QED
      BY <3>1
  <2>4. Rank(at, n + w) = Cardinality(A) + Rank(B, w)
    <3>1. w \notin T
      BY <2>1, <2>3
    <3> QED
      BY <3>1
  <2>5. Rank(at, (n + w) + 1) = IF (n + w) + 1 \in at THEN Rank(at, n + w) + 1 ELSE Rank(at, n + w)
    <3>1. n + w \in Nat /\ n + m \in Nat
      OBVIOUS
    <3> QED
      BY <3>1, RankStep
  <2>6. Rank(B, w + 1) = IF w + 1 \in B THEN Rank(B, w) + 1 ELSE Rank(B, w)
    BY RankStep
  <2>7. (n + w) + 1 \in at <=> w + 1 \in B
    <3>1. (n + w) + 1 = n + (w + 1)
      OBVIOUS
    <3>2. CASE w + 1 \in 1..m
      BY <3>1, <3>2
    <3>3. CASE w + 1 \notin 1..m
      <4>1. (n + w) + 1 \notin 1..(n + m)
        BY <3>3
      <4> QED
        BY <3>3, <4>1
    <3> QED
      BY <3>2, <3>3
  <2>8. Rank(at, (n + w) + 1) = Cardinality(A) + Rank(B, w + 1)
    BY <1>4, <2>4, <2>5, <2>6, <2>7
  <2>9. n + x = (n + w) + 1
    BY <2>3
  <2> QED
    BY <2>1, <2>3, <2>8, <2>9
<1>6. \A j \in Nat : Rank(at, n + j) = Cardinality(A) + Rank(B, j)
  BY <1>5
<1>7. \A i \in A : i \in 0..n
  OBVIOUS
<1> QED
  BY <1>1, <1>6, <1>7

\* One sequence after another, place by place.
LEMMA ConcatIs ==
  ASSUME NEW S, NEW s \in Seq(S), NEW t \in Seq(S)
  PROVE  /\ s \o t \in Seq(S) /\ Len(s \o t) = Len(s) + Len(t)
         /\ DOMAIN (s \o t) = 1..Len(s) + Len(t)
         /\ \A i \in 1..Len(s) : (s \o t)[i] = s[i]
         /\ \A i \in 1..Len(t) : (s \o t)[Len(s) + i] = t[i]
<1> DEFINE n == Len(s)
           m == Len(t)
           u == s \o t
<1>1. n \in Nat /\ m \in Nat
  BY LenProperties
<1>2. /\ u \in Seq(S) /\ Len(u) = n + m
      /\ \A i \in 1..n + m : u[i] = IF i <= n THEN s[i] ELSE t[i - n]
  BY ConcatProperties
<1> HIDE DEF n, m, u
<1>3. DOMAIN u = 1..n + m
  BY <1>2, LenProperties
<1>4. \A i \in 1..n : u[i] = s[i]
  <2>1. \A i \in 1..n : i \in 1..n + m /\ i <= n
    BY <1>1
  <2> QED
    BY <1>2, <2>1
<1>5. \A i \in 1..m : u[n + i] = t[i]
  <2>1. \A i \in 1..m : n + i \in 1..n + m /\ ~(n + i <= n) /\ (n + i) - n = i
    BY <1>1
  <2> QED
    BY <1>2, <2>1
<1> QED
  BY <1>2, <1>3, <1>4, <1>5 DEF n, m, u

\* Picking from two sequences in a row.
LEMMA PickedConcat ==
  ASSUME NEW S, NEW s \in Seq(S), NEW t \in Seq(S), NEW at \in SUBSET (DOMAIN (s \o t)),
         NEW A \in SUBSET (DOMAIN s), NEW B \in SUBSET (DOMAIN t),
         \A i \in DOMAIN s : i \in at <=> i \in A,
         \A j \in DOMAIN t : Len(s) + j \in at <=> j \in B
  PROVE  Picked(s \o t, at) = Picked(s, A) \o Picked(t, B)
<1> DEFINE n == Len(s)
           m == Len(t)
           u == s \o t
           a == Cardinality(A)
           b == Cardinality(B)
<1>1. /\ n \in Nat /\ m \in Nat /\ DOMAIN s = 1..n /\ DOMAIN t = 1..m
  BY LenProperties
<1>2. /\ u \in Seq(S) /\ Len(u) = n + m /\ DOMAIN u = 1..(n + m)
      /\ \A i \in 1..(n + m) : u[i] = IF i <= n THEN s[i] ELSE t[i - n]
  BY <1>1, ConcatProperties, LenProperties
<1>3. /\ Picked(s, A) \in Seq(S) /\ Len(Picked(s, A)) = a /\ a \in Nat
      /\ \A k \in 1..a : Nth(A, k) \in A /\ Picked(s, A)[k] = s[Nth(A, k)]
  <2>1. Picked(s, A) \in Seq(S) /\ Len(Picked(s, A)) = a /\ a \in 0..n
        /\ \A k \in 1..a : Nth(A, k) \in A /\ Picked(s, A)[k] = s[Nth(A, k)]
    BY PickedIs
  <2> QED
    BY <1>1, <2>1
<1>4. /\ Picked(t, B) \in Seq(S) /\ Len(Picked(t, B)) = b /\ b \in Nat
      /\ \A k \in 1..b : Nth(B, k) \in B /\ Picked(t, B)[k] = t[Nth(B, k)]
  <2>1. Picked(t, B) \in Seq(S) /\ Len(Picked(t, B)) = b /\ b \in 0..m
        /\ \A k \in 1..b : Nth(B, k) \in B /\ Picked(t, B)[k] = t[Nth(B, k)]
    BY PickedIs
  <2> QED
    BY <1>1, <2>1
<1> HIDE DEF u
<1>5. /\ Picked(u, at) \in Seq(S) /\ Len(Picked(u, at)) = Cardinality(at)
      /\ \A k \in 1..Cardinality(at) : Picked(u, at)[k] = u[Nth(at, k)]
  <2>1. at \in SUBSET (DOMAIN u)
    BY DEF u
  <2> QED
    BY <1>2, <2>1, PickedIs
<1> HIDE DEF n, m
<1>6. /\ at \in SUBSET (1..(n + m)) /\ A \in SUBSET (1..n) /\ B \in SUBSET (1..m)
      /\ \A i \in 1..n : i \in at <=> i \in A
      /\ \A j \in 1..m : n + j \in at <=> j \in B
  <2>1. DOMAIN (s \o t) = 1..(n + m)
    BY <1>2 DEF u
  <2> QED
    BY <1>1, <2>1 DEF n
<1>7. /\ \A i \in A : Rank(at, i) = Rank(A, i)
      /\ \A j \in Nat : Rank(at, n + j) = a + Rank(B, j)
  BY <1>1, <1>6, RankConcat
<1>8. n + m \in Nat
  BY <1>1
<1>9. Cardinality(at) = a + b
  <2>1. Upto(at, n + m) = at /\ Upto(B, m) = B
    <3>1. \A i \in at : i <= n + m
      BY <1>6
    <3>2. \A i \in B : i <= m
      BY <1>6
    <3> QED
      BY <3>1, <3>2 DEF Upto
  <2> QED
    BY <1>1, <1>7, <2>1 DEF Rank
<1>10. ASSUME NEW k \in 1..a PROVE Picked(u, at)[k] = s[Nth(A, k)]
  <2>1. Nth(A, k) \in A /\ Rank(A, Nth(A, k)) = k
    BY <1>1, <1>6, NthIs
  <2>2. Nth(A, k) \in 1..n /\ Nth(A, k) \in at /\ Nth(A, k) \in 1..(n + m) /\ Nth(A, k) <= n
    BY <1>1, <1>6, <2>1
  <2>3. Nth(at, Rank(at, Nth(A, k))) = Nth(A, k)
    BY <1>6, <1>8, <2>2, NthOnto
  <2>4. Nth(at, k) = Nth(A, k)
    BY <1>7, <2>1, <2>3
  <2>5. k \in 1..Cardinality(at)
    BY <1>3, <1>4, <1>9
  <2>6. u[Nth(A, k)] = s[Nth(A, k)]
    BY <1>2, <2>2
  <2> QED
    BY <1>5, <2>4, <2>5, <2>6
<1>11. ASSUME NEW k \in 1..b PROVE Picked(u, at)[a + k] = t[Nth(B, k)]
  <2>1. Nth(B, k) \in B /\ Rank(B, Nth(B, k)) = k
    BY <1>1, <1>6, NthIs
  <2> DEFINE j == Nth(B, k)
  <2>2. j \in 1..m /\ j \in Nat /\ n + j \in at /\ n + j \in 1..(n + m) /\ ~(n + j <= n)
        /\ (n + j) - n = j
    <3>1. j \in 1..m
      BY <1>6, <2>1
    <3> HIDE DEF j
    <3> QED
      BY <1>1, <1>6, <2>1, <3>1 DEF j
  <2>3. Nth(at, Rank(at, n + j)) = n + j
    BY <1>6, <1>8, <2>2, NthOnto
  <2>4. Nth(at, a + k) = n + j
    BY <1>7, <2>1, <2>2, <2>3
  <2>5. a + k \in 1..Cardinality(at)
    BY <1>3, <1>4, <1>9
  <2>6. u[n + j] = t[j]
    BY <1>2, <2>2
  <2> QED
    BY <1>5, <2>4, <2>5, <2>6
<1> DEFINE v == Picked(s, A) \o Picked(t, B)
<1>12. /\ v \in Seq(S) /\ Len(v) = a + b
       /\ \A k \in 1..(a + b) : v[k] = IF k <= a THEN Picked(s, A)[k] ELSE Picked(t, B)[k - a]
  <2> DEFINE p == Picked(s, A)
             q == Picked(t, B)
  <2>1. p \in Seq(S) /\ q \in Seq(S) /\ Len(p) = a /\ Len(q) = b /\ v = p \o q
    BY <1>3, <1>4
  <2> HIDE DEF p, q, v, a, b
  <2>2. /\ v \in Seq(S) /\ Len(v) = Len(p) + Len(q)
        /\ \A k \in 1..(Len(p) + Len(q)) : v[k] = IF k <= Len(p) THEN p[k] ELSE q[k - Len(p)]
    BY <2>1, ConcatProperties
  <2>3. \A k \in 1..(a + b) : v[k] = IF k <= a THEN p[k] ELSE q[k - a]
    BY <2>1, <2>2
  <2> QED
    BY <2>1, <2>2, <2>3 DEF p, q
<1> HIDE DEF v, a, b
<1>13. ASSUME NEW k \in 1..(a + b) PROVE Picked(u, at)[k] = v[k]
  <2>1. CASE k <= a
    <3>1. k \in 1..a
      BY <1>3, <1>4, <2>1
    <3> QED
      BY <1>3, <1>10, <1>12, <2>1, <3>1
  <2>2. CASE ~(k <= a)
    <3>1. k - a \in 1..b /\ a + (k - a) = k
      BY <1>3, <1>4, <2>2
    <3>2. Picked(u, at)[a + (k - a)] = t[Nth(B, k - a)]
      BY <1>11, <3>1
    <3> QED
      BY <1>4, <1>12, <2>2, <3>1, <3>2
  <2> QED
    BY <2>1, <2>2
<1>14. Picked(u, at) = v
  <2>1. Len(Picked(u, at)) = Len(v) /\ Len(v) = a + b
    BY <1>5, <1>9, <1>12
  <2>2. \A k \in 1..Len(Picked(u, at)) : Picked(u, at)[k] = v[k]
    BY <1>13, <2>1
  <2> QED
    BY <1>5, <1>12, <2>1, <2>2, SeqEqual
<1> QED
  BY <1>14 DEF u, v
=============================================================================
