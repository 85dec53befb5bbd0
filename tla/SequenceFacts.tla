---------------------------- MODULE SequenceFacts ----------------------------
(***************************************************************************)
(* Facts about the operators of the community modules that the proofs of   *)
(* several components need, and that the library does not state: least     *)
(* elements, induction, what is inserted, removed, selected, joined and    *)
(* cut, and how many there are.                                            *)
(***************************************************************************)
EXTENDS Integers, Sequences, SequencesExt, FiniteSetsExt, SequenceTheorems,
        FiniteSetTheorems, WellFoundedInduction, TLAPS, Selection

\* A set of natural numbers has a least element.
LEMMA LeastExists ==
  ASSUME NEW S, S \subseteq Nat, S # {}
  PROVE  Min(S) \in S /\ \A y \in S : Min(S) <= y
<1>1. PICK x \in S : \A y \in S : <<y, x>> \notin OpToRel(<, Nat)
  BY NatLessThanWellFounded, WFMin
<1>2. \A y \in S : ~(y < x)
  BY <1>1 DEF OpToRel
<1>3. \A y \in S : x <= y
  BY <1>2
<1> QED
  BY <1>3 DEF Min

\* The lesser of two numbers.
LEMMA MinOfTwo ==
  ASSUME NEW a \in Nat, NEW b \in Nat
  PROVE  Min({a, b}) = IF a <= b THEN a ELSE b
<1>1. \E x \in {a, b} : \A y \in {a, b} : x <= y
  OBVIOUS
<1>2. Min({a, b}) \in {a, b} /\ \A y \in {a, b} : Min({a, b}) <= y
  BY <1>1 DEF Min
<1> QED
  BY <1>2

\* Where each item stands after an insertion at k.
LEMMA Inserted ==
  ASSUME NEW S, NEW q \in Seq(S), NEW t \in S, NEW k \in 1 .. Len(q) + 1
  PROVE  LET r == InsertAt(q, k, t)
         IN /\ r \in Seq(S) /\ Len(r) = Len(q) + 1
            /\ \A i \in 1 .. Len(q) + 1 :
                 r[i] = IF i < k THEN q[i] ELSE IF i = k THEN t ELSE q[i - 1]
<1> DEFINE a == SubSeq(q, 1, k - 1)  b == SubSeq(q, k, Len(q))  n == Len(q)
<1>1. n \in Nat /\ k \in 1 .. n + 1 /\ \A i \in 1 .. n : q[i] \in S
  BY LenProperties, ElementOfSeq
<1>2. /\ a \in Seq(S) /\ Len(a) = IF 1 <= k - 1 THEN k - 1 - 1 + 1 ELSE 0
      /\ \A i \in 1 .. (k - 1) - 1 + 1 : a[i] = q[1 + i - 1]
  <2>1. \A i \in 1 .. k - 1 : q[i] \in S
    BY <1>1
  <2> HIDE DEF n
  <2> QED
    BY <1>1, <2>1, SubSeqProperties
<1>3. /\ b \in Seq(S) /\ Len(b) = IF k <= n THEN n - k + 1 ELSE 0
      /\ \A i \in 1 .. n - k + 1 : b[i] = q[k + i - 1]
  <2>1. \A i \in k .. n : q[i] \in S
    BY <1>1
  <2> QED
    BY <1>1, <2>1, SubSeqProperties
<1>4. <<t>> \in Seq(S) /\ Len(<<t>>) = 1 /\ <<t>>[1] = t
  OBVIOUS
<1> DEFINE at == a \o <<t>>  r == at \o b
<1> HIDE DEF a, b, n
<1>5. /\ at \in Seq(S) /\ Len(at) = Len(a) + 1
      /\ \A i \in 1 .. Len(a) + 1 : at[i] = IF i <= Len(a) THEN a[i] ELSE <<t>>[i - Len(a)]
  BY <1>2, <1>4, ConcatProperties
<1> HIDE DEF at
<1>6. /\ r \in Seq(S) /\ Len(r) = Len(at) + Len(b)
      /\ \A i \in 1 .. Len(at) + Len(b) : r[i] = IF i <= Len(at) THEN at[i] ELSE b[i - Len(at)]
  <2>1. at \in Seq(S) /\ b \in Seq(S)
    BY <1>3, <1>5
  <2> QED
    BY <2>1, ConcatProperties
<1> HIDE DEF r
<1>7. Len(a) = k - 1 /\ Len(at) = k /\ Len(b) = n + 1 - k /\ Len(r) = n + 1
  <2>1. Len(a) = k - 1
    BY <1>1, <1>2
  <2>2. Len(b) = n + 1 - k
    BY <1>1, <1>3
  <2>3. Len(at) = k
    BY <1>1, <1>5, <2>1
  <2> QED
    BY <1>1, <1>6, <2>1, <2>2, <2>3
<1>8. ASSUME NEW i \in 1 .. n + 1
      PROVE  r[i] = IF i < k THEN q[i] ELSE IF i = k THEN t ELSE q[i - 1]
  <2>1. CASE i < k
    <3>1. i \in 1 .. k - 1 /\ 1 + i - 1 = i
      BY <1>1, <1>8, <2>1
    <3>2. a[i] = q[i] /\ at[i] = a[i] /\ r[i] = at[i]
      BY <1>1, <1>2, <1>5, <1>6, <1>7, <3>1
    <3> QED
      BY <1>1, <1>8, <2>1, <3>2
  <2>2. CASE i = k
    <3>1. Len(a) + 1 = k /\ k - Len(a) = 1 /\ ~(k <= Len(a)) /\ k \in 1 .. Len(a) + 1
      BY <1>1, <1>7
    <3>2. at[k] = t
      BY <1>4, <1>5, <3>1
    <3>3. r[k] = at[k]
      BY <1>1, <1>6, <1>7
    <3> QED
      BY <1>1, <2>2, <3>2, <3>3
  <2>3. CASE i > k
    <3>1. i - k \in 1 .. n - k + 1 /\ k + (i - k) - 1 = i - 1
      BY <1>1, <1>8, <2>3
    <3>2. b[i - k] = q[i - 1]
      BY <1>3, <3>1
    <3>3. r[i] = b[i - k]
      BY <1>1, <1>6, <1>7, <1>8, <2>3
    <3> QED
      BY <1>1, <1>8, <2>3, <3>2, <3>3
  <2> QED
    BY <1>1, <2>1, <2>2, <2>3
<1> QED
  BY <1>6, <1>7, <1>8 DEF InsertAt, r, at, a, b, n

\* Where each item stands after the removal of the k-th.
LEMMA Removed ==
  ASSUME NEW S, NEW q \in Seq(S), NEW k \in 1 .. Len(q)
  PROVE  LET r == RemoveAt(q, k)
         IN /\ r \in Seq(S) /\ Len(r) = Len(q) - 1
            /\ \A i \in 1 .. Len(q) - 1 : r[i] = IF i < k THEN q[i] ELSE q[i + 1]
<1> DEFINE a == SubSeq(q, 1, k - 1)  b == SubSeq(q, k + 1, Len(q))  n == Len(q)
<1>1. n \in Nat /\ k \in 1 .. n /\ \A i \in 1 .. n : q[i] \in S
  BY LenProperties, ElementOfSeq
<1>2. /\ a \in Seq(S) /\ Len(a) = IF 1 <= k - 1 THEN k - 1 - 1 + 1 ELSE 0
      /\ \A i \in 1 .. (k - 1) - 1 + 1 : a[i] = q[1 + i - 1]
  <2>1. \A i \in 1 .. k - 1 : q[i] \in S
    BY <1>1
  <2> HIDE DEF n
  <2> QED
    BY <1>1, <2>1, SubSeqProperties
<1>3. /\ b \in Seq(S) /\ Len(b) = IF k + 1 <= n THEN n - (k + 1) + 1 ELSE 0
      /\ \A i \in 1 .. n - (k + 1) + 1 : b[i] = q[k + 1 + i - 1]
  <2>1. \A i \in k + 1 .. n : q[i] \in S
    BY <1>1
  <2>2. k + 1 \in Int
    BY <1>1
  <2> QED
    BY <1>1, <2>1, <2>2, SubSeqProperties
<1> DEFINE r == a \o b
<1> HIDE DEF a, b, n
<1>4. /\ r \in Seq(S) /\ Len(r) = Len(a) + Len(b)
      /\ \A i \in 1 .. Len(a) + Len(b) : r[i] = IF i <= Len(a) THEN a[i] ELSE b[i - Len(a)]
  BY <1>2, <1>3, ConcatProperties
<1> HIDE DEF r
<1>5. Len(a) = k - 1 /\ Len(b) = n - k /\ Len(r) = n - 1
  BY <1>1, <1>2, <1>3, <1>4
<1>6. ASSUME NEW i \in 1 .. n - 1
      PROVE  r[i] = IF i < k THEN q[i] ELSE q[i + 1]
  <2>1. CASE i < k
    <3>1. i \in 1 .. k - 1 /\ 1 + i - 1 = i
      BY <1>1, <1>6, <2>1
    <3>2. a[i] = q[i] /\ r[i] = a[i]
      BY <1>1, <1>2, <1>4, <1>5, <3>1
    <3> QED
      BY <2>1, <3>2
  <2>2. CASE i >= k
    <3>1. /\ i - (k - 1) \in 1 .. n - (k + 1) + 1
          /\ k + 1 + (i - (k - 1)) - 1 = i + 1
      BY <1>1, <1>6, <2>2
    <3>2. b[i - (k - 1)] = q[i + 1]
      BY <1>3, <3>1
    <3>3. r[i] = b[i - (k - 1)]
      BY <1>1, <1>4, <1>5, <1>6, <2>2
    <3> QED
      BY <1>1, <1>6, <2>2, <3>2, <3>3
  <2> QED
    BY <1>1, <2>1, <2>2
<1> QED
  BY <1>4, <1>5, <1>6 DEF RemoveAt, r, a, b, n

(***************************************************************************)
(* SetToSeqs: the sequences that list a finite set, each element once.     *)
(***************************************************************************)
LEMMA ListingOfSet ==
  ASSUME NEW S, IsFiniteSet(S), NEW s \in SetToSeqs(S)
  PROVE  s \in Seq(S) /\ IsInjective(s) /\ ToSet(s) \subseteq S
<1>1. Cardinality(S) \in Nat
  BY FS_CardinalityType
<1>2. s \in [1 .. Cardinality(S) -> S] /\ \A i, j \in 1 .. Cardinality(S) : i # j => s[i] # s[j]
  BY DEF SetToSeqs
<1>3. DOMAIN s = 1 .. Cardinality(S)
  BY <1>2
<1> QED
  BY <1>1, <1>2, <1>3 DEF IsInjective, ToSet

\* The elements of a part of a sequence.
LEMMA PartOf ==
  ASSUME NEW S, NEW s \in Seq(S), NEW m \in Nat \ {0}, NEW n \in 0 .. Len(s)
  PROVE  /\ SubSeq(s, m, n) \in Seq(S)
         /\ Len(SubSeq(s, m, n)) = IF m <= n THEN n - m + 1 ELSE 0
         /\ ToSet(SubSeq(s, m, n)) = {s[i] : i \in m .. n}
         /\ ToSet(SubSeq(s, m, n)) \subseteq ToSet(s)
<1> DEFINE p == SubSeq(s, m, n)
<1>1. \A i \in m .. n : s[i] \in S
  BY LenProperties, ElementOfSeq
<1>2. /\ p \in Seq(S) /\ Len(p) = (IF m <= n THEN n - m + 1 ELSE 0)
      /\ \A i \in 1 .. n - m + 1 : p[i] = s[m + i - 1]
  <2>1. m \in Int /\ n \in Int
    BY LenProperties
  <2> QED
    BY <1>1, <2>1, SubSeqProperties
<1>3. DOMAIN p = 1 .. Len(p) /\ DOMAIN s = 1 .. Len(s) /\ Len(s) \in Nat
  BY <1>2, LenProperties
<1>4. ToSet(p) = {p[i] : i \in DOMAIN p} /\ ToSet(s) = {s[i] : i \in DOMAIN s}
  BY DEF ToSet
<1> HIDE DEF p
<1>5. ASSUME NEW i \in DOMAIN p PROVE \E j \in m .. n : p[i] = s[j]
  <2>1. i \in 1 .. n - m + 1 /\ m + i - 1 \in m .. n
    BY <1>2, <1>3
  <2> QED
    BY <1>2, <2>1
<1>6. ASSUME NEW j \in m .. n PROVE \E i \in DOMAIN p : p[i] = s[j]
  <2>1. j - m + 1 \in 1 .. n - m + 1 /\ m + (j - m + 1) - 1 = j /\ m <= n
    OBVIOUS
  <2> QED
    BY <1>2, <1>3, <2>1
<1>7. {p[i] : i \in DOMAIN p} = {s[i] : i \in m .. n}
  BY <1>5, <1>6
<1>8. {s[i] : i \in m .. n} \subseteq {s[i] : i \in DOMAIN s}
  BY <1>3
<1> QED
  BY <1>2, <1>4, <1>7, <1>8 DEF p
\* How many elements a set has after one of them may have come or gone.
LEMMA CountChanges ==
  ASSUME NEW A, IsFiniteSet(A), NEW B, NEW w, \A x : x # w => (x \in B <=> x \in A)
  PROVE  /\ IsFiniteSet(B) /\ Cardinality(A) \in Nat /\ Cardinality(B) \in Nat
         /\ Cardinality(B) + (IF w \in A THEN 1 ELSE 0) = Cardinality(A) + (IF w \in B THEN 1 ELSE 0)
<1>1. Cardinality(A) \in Nat
  BY FS_CardinalityType
<1>2. CASE w \in B
  <2>1. B = A \union {w}
    BY <1>2
  <2>2. IsFiniteSet(B) /\ Cardinality(B) = IF w \in A THEN Cardinality(A) ELSE Cardinality(A) + 1
    BY <2>1, FS_AddElement
  <2> QED
    BY <1>1, <1>2, <2>2
<1>3. CASE w \notin B
  <2>1. B = A \ {w}
    BY <1>3
  <2>2. IsFiniteSet(B) /\ Cardinality(B) = IF w \in A THEN Cardinality(A) - 1 ELSE Cardinality(A)
    BY <2>1, FS_RemoveElement
  <2>3. Cardinality(B) \in Nat
    BY <2>2, FS_CardinalityType
  <2> QED
    BY <1>1, <1>3, <2>2, <2>3
<1> QED
  BY <1>2, <1>3

(***************************************************************************)
(* How often an item stands in a sequence, before and after one is         *)
(* appended or the first is taken.                                         *)
(***************************************************************************)
Standing(s, v) == {n \in 1 .. Len(s) : s[n] = v}

LEMMA StandingIsFinite ==
  ASSUME NEW S, NEW s \in Seq(S), NEW v
  PROVE  IsFiniteSet(Standing(s, v)) /\ Cardinality(Standing(s, v)) \in Nat
<1>1. IsFiniteSet(1 .. Len(s))
  BY LenProperties, FS_Interval
<1>2. Standing(s, v) \subseteq 1 .. Len(s)
  BY DEF Standing
<1> QED
  BY <1>1, <1>2, FS_Subset, FS_CardinalityType

LEMMA StandingAppended ==
  ASSUME NEW S, NEW s \in Seq(S), NEW e \in S, NEW v
  PROVE  /\ Cardinality(Standing(s, v)) \in Nat
         /\ Cardinality(Standing(Append(s, e), v))
              = Cardinality(Standing(s, v)) + (IF e = v THEN 1 ELSE 0)
<1> DEFINE A == Standing(s, v)  B == Standing(Append(s, e), v)  w == Len(s) + 1
<1>1. /\ Len(s) \in Nat /\ Len(Append(s, e)) = w /\ Append(s, e)[w] = e
      /\ \A i \in 1 .. Len(s) : Append(s, e)[i] = s[i]
  BY LenProperties, AppendProperties
<1>2. w \notin A /\ (w \in B <=> e = v)
  BY <1>1 DEF Standing
<1>3. \A x : x # w => (x \in B <=> x \in A)
  BY <1>1 DEF Standing
<1>4. IsFiniteSet(A)
  BY StandingIsFinite
<1> HIDE DEF A, B, w
<1>5. /\ Cardinality(A) \in Nat /\ Cardinality(B) \in Nat
      /\ Cardinality(B) + (IF w \in A THEN 1 ELSE 0) = Cardinality(A) + (IF w \in B THEN 1 ELSE 0)
  BY <1>3, <1>4, CountChanges
<1>6. Cardinality(A) \in Nat /\ Cardinality(B) = Cardinality(A) + (IF e = v THEN 1 ELSE 0)
  BY <1>2, <1>5
<1> QED
  BY <1>6 DEF A, B

LEMMA StandingTaken ==
  ASSUME NEW S, NEW s \in Seq(S), s # <<>>, NEW v
  PROVE  /\ Cardinality(Standing(Tail(s), v)) \in Nat
         /\ Cardinality(Standing(s, v))
              = Cardinality(Standing(Tail(s), v)) + (IF Head(s) = v THEN 1 ELSE 0)
<1> DEFINE A == Standing(s, v)  B == A \ {1}  C == Standing(Tail(s), v)
           f == [n \in C |-> n + 1]
<1>1. /\ Len(s) \in Nat /\ Len(s) >= 1 /\ Head(s) = s[1]
      /\ Tail(s) \in Seq(S) /\ Len(Tail(s)) = Len(s) - 1
      /\ \A i \in 1 .. Len(Tail(s)) : Tail(s)[i] = s[i + 1]
  BY LenProperties, EmptySeq, HeadTailProperties
<1>2. f \in [C -> B]
  BY <1>1 DEF Standing
<1>3. \A m, n \in C : f[m] = f[n] => m = n
  BY <1>1 DEF Standing
<1>4. \A t \in B : \E n \in C : f[n] = t
  <2> SUFFICES ASSUME NEW t \in B PROVE t - 1 \in C /\ (t - 1) + 1 = t
    OBVIOUS
  <2>1. t \in 2 .. Len(s) /\ s[t] = v
    BY <1>1 DEF Standing
  <2>2. t - 1 \in 1 .. Len(Tail(s)) /\ (t - 1) + 1 = t
    BY <1>1, <2>1
  <2> QED
    BY <1>1, <2>1, <2>2 DEF Standing
<1>5. ExistsBijection(C, B)
  <2>1. f \in Bijection(C, B)
    BY <1>2, <1>3, <1>4 DEF Bijection, Injection, Surjection, IsInjective
  <2> QED
    BY <2>1 DEF ExistsBijection
<1>6. IsFiniteSet(A) /\ Cardinality(A) \in Nat /\ IsFiniteSet(C) /\ Cardinality(C) \in Nat
  BY <1>1, StandingIsFinite
<1>7. Cardinality(B) = Cardinality(C)
  BY <1>5, <1>6, FS_Bijection
<1>8. Cardinality(B) = IF 1 \in A THEN Cardinality(A) - 1 ELSE Cardinality(A)
  BY <1>6, FS_RemoveElement
<1>9. 1 \in A <=> Head(s) = v
  BY <1>1 DEF Standing
<1> HIDE DEF A, B, C
<1>10. Cardinality(C) \in Nat /\ Cardinality(A) = Cardinality(C) + (IF Head(s) = v THEN 1 ELSE 0)
  BY <1>6, <1>7, <1>8, <1>9
<1> QED
  BY <1>10 DEF A, C

-----------------------------------------------------------------------------
\* A sequence with one more element at its end, or with another last element.
LEMMA OneAdded ==
  ASSUME NEW S, NEW old \in Seq(S), NEW a \in S
  PROVE  LET bs == old \o <<a>>
         IN /\ bs \in Seq(S) /\ Len(bs) = Len(old) + 1 /\ bs # <<>>
            /\ \A i \in 1 .. Len(old) + 1 : bs[i] = IF i = Len(old) + 1 THEN a ELSE old[i]
<1> DEFINE n == Len(old)  t == <<a>>  bs == old \o t
<1>1. n \in Nat
  BY LenProperties
<1>2. t \in Seq(S) /\ Len(t) = 1 /\ t[1] = a
  OBVIOUS
<1> HIDE DEF t
<1>3. /\ bs \in Seq(S) /\ Len(bs) = n + Len(t)
      /\ \A i \in 1 .. n + Len(t) : bs[i] = IF i <= n THEN old[i] ELSE t[i - n]
  BY <1>2, ConcatProperties
<1> HIDE DEF bs, n
<1>4. Len(bs) = n + 1 /\ \A i \in 1 .. n + 1 : bs[i] = IF i <= n THEN old[i] ELSE t[i - n]
  BY <1>2, <1>3
<1>5. \A i \in 1 .. n + 1 : bs[i] = IF i = n + 1 THEN a ELSE old[i]
  <2> SUFFICES ASSUME NEW i \in 1 .. n + 1
               PROVE  bs[i] = IF i = n + 1 THEN a ELSE old[i]
    OBVIOUS
  <2>1. CASE i = n + 1
    <3>1. i - n = 1 /\ ~(i <= n)
      BY <1>1, <2>1
    <3> QED
      BY <1>2, <1>4, <2>1, <3>1
  <2>2. CASE i # n + 1
    <3>1. i <= n
      BY <1>1, <2>2
    <3> QED
      BY <1>4, <2>2, <3>1
  <2> QED
    BY <2>1, <2>2
<1>6. bs # <<>>
  <2>1. Len(bs) # 0
    BY <1>1, <1>4
  <2> QED
    BY <2>1, EmptySeq
<1> QED
  BY <1>3, <1>4, <1>5, <1>6 DEF bs, t, n

LEMMA LastReplaced ==
  ASSUME NEW S, NEW old \in Seq(S), old # <<>>, NEW a \in S
  PROVE  LET bs == Front(old) \o <<a>>
         IN /\ bs \in Seq(S) /\ Len(bs) = Len(old) /\ bs # <<>>
            /\ \A i \in 1 .. Len(old) : bs[i] = IF i = Len(old) THEN a ELSE old[i]
<1> DEFINE n == Len(old)  fs == SubSeq(old, 1, n - 1)  bs == fs \o <<a>>
<1>1. n \in Nat /\ n # 0 /\ \A i \in 1 .. n : old[i] \in S
  BY EmptySeq, LenProperties, ElementOfSeq
<1>2. fs = Front(old)
  BY DEF Front
<1> HIDE DEF n
<1>3. /\ fs \in Seq(S) /\ Len(fs) = (IF 1 <= n - 1 THEN n - 1 - 1 + 1 ELSE 0)
      /\ \A i \in 1 .. n - 1 - 1 + 1 : fs[i] = old[1 + i - 1]
  <2>1. n - 1 \in Int /\ \A i \in 1 .. n - 1 : i \in 1 .. n
    BY <1>1
  <2>2. \A i \in 1 .. n - 1 : old[i] \in S
    BY <1>1, <2>1
  <2> QED
    BY <2>1, <2>2, SubSeqProperties
<1> HIDE DEF fs
<1>4. Len(fs) = n - 1
  BY <1>1, <1>3
<1>5. \A i \in 1 .. n - 1 : fs[i] = old[i]
  <2> SUFFICES ASSUME NEW i \in 1 .. n - 1 PROVE fs[i] = old[i]
    OBVIOUS
  <2>1. i \in 1 .. n - 1 - 1 + 1 /\ 1 + i - 1 = i
    BY <1>1
  <2> QED
    BY <1>3, <2>1
<1>6. /\ bs \in Seq(S) /\ Len(bs) = Len(fs) + 1 /\ bs # <<>>
      /\ \A i \in 1 .. Len(fs) + 1 : bs[i] = IF i = Len(fs) + 1 THEN a ELSE fs[i]
  BY <1>3, OneAdded
<1> HIDE DEF bs
<1>7. Len(bs) = n
  BY <1>1, <1>4, <1>6
<1>8. \A i \in 1 .. n : bs[i] = IF i = n THEN a ELSE old[i]
  <2> SUFFICES ASSUME NEW i \in 1 .. n PROVE bs[i] = IF i = n THEN a ELSE old[i]
    OBVIOUS
  <2>1. i \in 1 .. Len(fs) + 1 /\ (i = n <=> i = Len(fs) + 1)
    BY <1>1, <1>4
  <2>2. i # n => i \in 1 .. n - 1
    BY <1>1
  <2> QED
    BY <1>5, <1>6, <2>1, <2>2
<1> QED
  BY <1>2, <1>6, <1>7, <1>8 DEF bs, n

LEMMA StillAtMost ==
  ASSUME NEW a \in Nat, NEW b \in Nat, NEW k \in Nat, NEW l \in Nat, b <= a + k, a + k <= l
  PROVE  b <= l
OBVIOUS

LEMMA OneMoreAtMost ==
  ASSUME NEW x \in Nat, NEW y \in Nat, NEW m \in Nat, NEW b \in Int, NEW c \in Nat,
         x <= y + 1, c = b + 1, y <= m + b
  PROVE  x <= m + c
OBVIOUS

-----------------------------------------------------------------------------
\* Induction over the numbers and over the sequences, said of a set.
LEMMA NumbersAll ==
  ASSUME NEW G, 0 \in G, \A n \in Nat : n \in G => n + 1 \in G
  PROVE  Nat \subseteq G
<1> DEFINE Bad == {n \in Nat : n \notin G}
<1>1. Bad = {}
  <2>1. SUFFICES ASSUME Bad # {} PROVE FALSE
    OBVIOUS
  <2>2. PICK n \in Bad : \A i \in Bad : n <= i
    BY <2>1, LeastExists
  <2>3. n # 0 /\ n - 1 \in Nat /\ n - 1 \notin Bad
    BY <2>2
  <2> QED
    BY <2>3
<1> QED
  BY <1>1

\* From a on, up to b.
LEMMA NumbersFrom ==
  ASSUME NEW a \in Nat, NEW b \in Nat, NEW G, a \in G, \A n \in a .. b - 1 : n \in G => n + 1 \in G
  PROVE  a .. b \subseteq G
<1> DEFINE Good == {j \in Nat : a + j <= b => a + j \in G}
<1>1. 0 \in Good
  OBVIOUS
<1>2. ASSUME NEW j \in Nat, j \in Good PROVE j + 1 \in Good
  <2> SUFFICES ASSUME a + (j + 1) <= b PROVE a + (j + 1) \in G
    OBVIOUS
  <2>1. a + j \in a .. b - 1 /\ a + j \in G /\ (a + j) + 1 = a + (j + 1)
    BY <1>2
  <2> QED
    BY <2>1
<1>3. Nat \subseteq Good
  <2> HIDE DEF Good
  <2> QED
    BY <1>1, <1>2, NumbersAll
<1> SUFFICES ASSUME NEW n \in a .. b PROVE n \in G
  OBVIOUS
<1>4. n - a \in Nat /\ n - a \in Good /\ a + (n - a) = n /\ n <= b
  BY <1>3
<1> QED
  BY <1>4

LEMMA SequencesAll ==
  ASSUME NEW X, NEW G, <<>> \in G, \A s \in Seq(X), x \in X : s \in G => Append(s, x) \in G
  PROVE  Seq(X) \subseteq G
<1> DEFINE H == {n \in Nat : \A s \in Seq(X) : Len(s) = n => s \in G}
<1>1. 0 \in H
  BY EmptySeq
<1>2. ASSUME NEW n \in Nat, n \in H PROVE n + 1 \in H
  <2> SUFFICES ASSUME NEW s \in Seq(X), Len(s) = n + 1 PROVE s \in G
    OBVIOUS
  <2>1. s # <<>>
    OBVIOUS
  <2>2. PICK t \in Seq(X), x \in X : s = Append(t, x)
    BY <2>1, SequenceEmptyOrAppend
  <2>3. Len(t) = n
    BY <2>2, AppendProperties, LenProperties
  <2> QED
    BY <1>2, <2>2, <2>3
<1>3. Nat \subseteq H
  <2> HIDE DEF H
  <2> QED
    BY <1>1, <1>2, NumbersAll
<1> QED
  BY <1>3, LenProperties

-----------------------------------------------------------------------------
\* Members that are selected, in their order.

\* The subsets of 1 .. n, for a fold that takes the greatest first.
LEMMA GreatestOfSome ==
  ASSUME NEW n \in Nat, NEW t \in SUBSET (1 .. n), t # {}
  PROVE  Max(t) \in t /\ (n \in t => Max(t) = n)
<1> DEFINE back == {n - i : i \in t}
<1>1. back \subseteq Nat /\ back # {}
  <2>1. \A i \in t : n - i \in Nat
    OBVIOUS
  <2>2. PICK i \in t : TRUE
    OBVIOUS
  <2>3. n - i \in back
    BY <2>2
  <2>4. back \subseteq Nat
    BY <2>1
  <2> QED
    BY <2>3, <2>4
<1>2. PICK d \in back : \A e \in back : d <= e
  <2> HIDE DEF back
  <2> QED
    BY <1>1, LeastExists
<1>3. PICK i \in t : d = n - i
  OBVIOUS
<1>4. ASSUME NEW j \in t PROVE i >= j
  <2>1. n - j \in back /\ i \in Nat /\ j \in Nat
    OBVIOUS
  <2>2. d <= n - j
    BY <1>2, <2>1
  <2> HIDE DEF back
  <2> QED
    BY <1>3, <2>1, <2>2
<1>5. Max(t) \in t /\ \A j \in t : Max(t) >= j
  BY <1>3, <1>4 DEF Max
<1>6. n \in t => Max(t) >= n
  BY <1>5
<1>7. Max(t) \in 1 .. n
  BY <1>5
<1> HIDE DEF back
<1> DEFINE m == Max(t)
<1> HIDE DEF m
<1>8. m \in 1 .. n /\ (n \in t => m >= n)
  BY <1>6, <1>7 DEF m
<1>9. n \in t => m = n
  BY <1>8
<1> QED
  BY <1>5, <1>9 DEF m

LEMMA AmongRuns ==
  ASSUME NEW X, NEW s \in Seq(X), NEW S
  PROVE  \E g : /\ g[0] = <<>> /\ g[Len(s)] = Among(s, S)
                /\ \A n \in 1 .. Len(s) : g[n] = IF s[n] \in S THEN Append(g[n - 1], s[n]) ELSE g[n - 1]
<1> DEFINE last == Len(s)
           More(n, v) == IF s[n] \in S THEN Append(v, s[n]) ELSE v
           All(n, f) == [t \in SUBSET (1 .. n) |-> IF t = {} THEN <<>> ELSE More(Max(t), f[t \ {Max(t)}])]
           Good == {n \in Nat : \E f : f = All(n, f)}
<1>1. last \in Nat /\ DOMAIN s = 1 .. last
  BY LenProperties
<1>2. Among(s, S) = (CHOOSE f : f = All(last, f))[1 .. last]
  BY <1>1 DEF Among, FoldLeft, MapThenFoldSet
<1> HIDE DEF More
<1>3. 0 \in Good
  <2> DEFINE f == [t \in SUBSET (1 .. 0) |-> <<>>]
  <2>1. \A t \in SUBSET (1 .. 0) : t = {}
    OBVIOUS
  <2>2. f = All(0, f)
    BY <2>1
  <2> QED
    BY <2>2
<1>4. ASSUME NEW n \in Nat, n \in Good PROVE n + 1 \in Good
  <2>1. PICK f : f = All(n, f)
    BY <1>4
  <2> DEFINE g == [t \in SUBSET (1 .. n + 1) |-> IF n + 1 \in t THEN More(n + 1, f[t \ {n + 1}]) ELSE f[t]]
             h == All(n + 1, g)
  <2>2. ASSUME NEW t \in SUBSET (1 .. n + 1) PROVE g[t] = h[t]
    <3>1. h[t] = IF t = {} THEN <<>> ELSE More(Max(t), g[t \ {Max(t)}])
      OBVIOUS
    <3>2. g[t] = IF n + 1 \in t THEN More(n + 1, f[t \ {n + 1}]) ELSE f[t]
      OBVIOUS
    <3>3. \A u \in SUBSET (1 .. n + 1) : n + 1 \notin u => u \in SUBSET (1 .. n) /\ g[u] = f[u]
      OBVIOUS
    <3> HIDE DEF g, h
    <3>4. CASE n + 1 \in t
      <4>1. Max(t) = n + 1
        BY <3>4, GreatestOfSome
      <4>2. g[t \ {n + 1}] = f[t \ {n + 1}]
        BY <3>3
      <4> QED
        BY <3>1, <3>2, <3>4, <4>1, <4>2
    <3>5. CASE n + 1 \notin t /\ t # {}
      <4>1. t \in SUBSET (1 .. n)
        BY <3>3, <3>5
      <4>2. g[t \ {Max(t)}] = f[t \ {Max(t)}]
        BY <3>3, <3>5
      <4>3. f[t] = More(Max(t), f[t \ {Max(t)}])
        BY <2>1, <3>5, <4>1
      <4> QED
        BY <3>1, <3>2, <3>5, <4>2, <4>3
    <3>6. CASE t = {}
      <4>1. f[t] = <<>>
        BY <2>1, <3>6
      <4> QED
        BY <3>1, <3>2, <3>6, <4>1
    <3> QED
      BY <3>4, <3>5, <3>6
  <2>3. g = h
    BY <2>2
  <2>4. \E k : k = All(n + 1, k)
    BY <2>3
  <2> HIDE DEF All
  <2> QED
    BY <2>4
<1>5. last \in Good
  <2> HIDE DEF Good
  <2> QED
    BY <1>1, <1>3, <1>4, NumbersAll
<1> DEFINE f == CHOOSE f : f = All(last, f)
           g == [n \in 0 .. last |-> f[1 .. n]]
<1>6. f = All(last, f)
  <2>1. \E k : k = All(last, k)
    BY <1>5
  <2> QED
    BY <2>1
<1> HIDE DEF f
<1>7. g[0] = <<>>
  <2>1. 1 .. 0 = {} /\ 1 .. 0 \in SUBSET (1 .. last) /\ 0 \in 0 .. last
    BY <1>1
  <2> QED
    BY <1>6, <2>1
<1>8. ASSUME NEW n \in 1 .. last PROVE g[n] = More(n, g[n - 1])
  <2>1. /\ 1 .. n \in SUBSET (1 .. last) /\ 1 .. n # {} /\ n \in Nat
        /\ 1 .. n \in SUBSET (1 .. n) /\ n \in 1 .. n
        /\ (1 .. n) \ {n} = 1 .. n - 1 /\ n - 1 \in 0 .. last /\ n \in 0 .. last
    <3>1. n \in 1 .. last /\ last \in Nat
      BY <1>1
    <3> HIDE DEF last
    <3>2. 1 .. n \in SUBSET (1 .. last)
      BY <3>1
    <3>3. (1 .. n) \ {n} = 1 .. n - 1
      BY <3>1
    <3>4. n \in Nat /\ n \in 1 .. n /\ n - 1 \in 0 .. last /\ n \in 0 .. last
      BY <3>1
    <3>5. 1 .. n # {}
      BY <3>4
    <3> QED
      BY <3>2, <3>3, <3>4, <3>5
  <2>2. Max(1 .. n) = n
    BY <2>1, GreatestOfSome
  <2>3. f[1 .. n] = More(n, f[1 .. n - 1])
    <3>1. f[1 .. n] = More(Max(1 .. n), f[(1 .. n) \ {Max(1 .. n)}])
      BY <1>6, <2>1
    <3> QED
      BY <2>1, <2>2, <3>1
  <2> QED
    BY <2>1, <2>3
<1>9. g[last] = Among(s, S)
  BY <1>1, <1>2 DEF f
<1> HIDE DEF g, last
<1>10. /\ g[0] = <<>> /\ g[last] = Among(s, S)
       /\ \A n \in 1 .. last : g[n] = IF s[n] \in S THEN Append(g[n - 1], s[n]) ELSE g[n - 1]
  BY <1>7, <1>8, <1>9 DEF More
<1> QED
  BY <1>10 DEF last

LEMMA AmongIs ==
  ASSUME NEW X, NEW s \in Seq(X), NEW S, NEW g, g[0] = <<>>,
         \A n \in 1 .. Len(s) : g[n] = IF s[n] \in S THEN Append(g[n - 1], s[n]) ELSE g[n - 1]
  PROVE  Among(s, S) = g[Len(s)]
<1>1. PICK k : /\ k[0] = <<>> /\ k[Len(s)] = Among(s, S)
               /\ \A n \in 1 .. Len(s) : k[n] = IF s[n] \in S THEN Append(k[n - 1], s[n]) ELSE k[n - 1]
  BY AmongRuns
<1> DEFINE Good == {n \in Nat : n <= Len(s) => k[n] = g[n]}
<1>2. 0 \in Good
  BY <1>1
<1>3. ASSUME NEW n \in Nat, n \in Good PROVE n + 1 \in Good
  <2> SUFFICES ASSUME n + 1 <= Len(s) PROVE k[n + 1] = g[n + 1]
    OBVIOUS
  <2>1. Len(s) \in Nat
    BY LenProperties
  <2>2. n + 1 \in 1 .. Len(s) /\ (n + 1) - 1 = n /\ n <= Len(s)
    BY <2>1
  <2>3. k[n] = g[n]
    BY <1>3, <2>2
  <2>4. k[n + 1] = IF s[n + 1] \in S THEN Append(k[n], s[n + 1]) ELSE k[n]
    BY <1>1, <2>2
  <2>5. g[n + 1] = IF s[n + 1] \in S THEN Append(g[n], s[n + 1]) ELSE g[n]
    BY <2>2
  <2> QED
    BY <2>3, <2>4, <2>5
<1>4. Nat \subseteq Good
  <2> HIDE DEF Good
  <2> QED
    BY <1>2, <1>3, NumbersAll
<1> QED
  BY <1>1, <1>4, LenProperties

LEMMA AmongNone == ASSUME NEW S PROVE Among(<<>>, S) = <<>>
<1> DEFINE e == <<>>
<1>1. e \in Seq({}) /\ Len(e) = 0
  OBVIOUS
<1> HIDE DEF e
<1>2. PICK g : /\ g[0] = <<>> /\ g[Len(e)] = Among(e, S)
               /\ \A n \in 1 .. Len(e) : g[n] = IF e[n] \in S THEN Append(g[n - 1], e[n]) ELSE g[n - 1]
  <2> DEFINE none == {}
  <2>1. e \in Seq(none)
    BY <1>1
  <2> HIDE DEF none
  <2> QED
    BY <2>1, AmongRuns
<1> QED
  BY <1>1, <1>2 DEF e

LEMMA AmongAppend ==
  ASSUME NEW X, NEW s \in Seq(X), NEW x \in X, NEW S
  PROVE  Among(Append(s, x), S) = IF x \in S THEN Append(Among(s, S), x) ELSE Among(s, S)
<1> DEFINE t == Append(s, x)  last == Len(s)
<1>1. /\ t \in Seq(X) /\ Len(t) = last + 1 /\ last \in Nat
      /\ t[last + 1] = x /\ \A n \in 1 .. last : t[n] = s[n]
  BY AppendProperties, LenProperties
<1> HIDE DEF t, last
<1>2. PICK g : /\ g[0] = <<>> /\ g[Len(t)] = Among(t, S)
               /\ \A n \in 1 .. Len(t) : g[n] = IF t[n] \in S THEN Append(g[n - 1], t[n]) ELSE g[n - 1]
  BY <1>1, AmongRuns
<1>3. \A n \in 1 .. last : g[n] = IF s[n] \in S THEN Append(g[n - 1], s[n]) ELSE g[n - 1]
  <2>1. \A n \in 1 .. last : n \in 1 .. Len(t)
    BY <1>1
  <2> QED
    BY <1>1, <1>2, <2>1
<1>4. Among(s, S) = g[last]
  BY <1>2, <1>3, AmongIs DEF last
<1>5. last + 1 \in 1 .. Len(t) /\ (last + 1) - 1 = last
  BY <1>1
<1>6. g[last + 1] = IF x \in S THEN Append(g[last], x) ELSE g[last]
  BY <1>1, <1>2, <1>5
<1> QED
  BY <1>1, <1>2, <1>4, <1>6 DEF t

\* What is left are members of both, no more than there were.
LEMMA AmongMembers ==
  ASSUME NEW X, NEW s \in Seq(X), NEW S
  PROVE  Among(s, S) \in Seq(X \intersect S) /\ Len(Among(s, S)) <= Len(s)
<1> DEFINE Good == {r \in Seq(X) : Among(r, S) \in Seq(X \intersect S) /\ Len(Among(r, S)) <= Len(r)}
<1>1. <<>> \in Good
  <2>1. /\ Among(<<>>, S) = <<>> /\ <<>> \in Seq(X) /\ <<>> \in Seq(X \intersect S)
        /\ Len(<<>>) <= Len(<<>>)
    BY AmongNone
  <2> QED
    BY <2>1
<1>2. ASSUME NEW r \in Seq(X), NEW x \in X, r \in Good PROVE Append(r, x) \in Good
  <2> DEFINE a == Among(r, S)  b == Among(Append(r, x), S)
  <2>1. b = IF x \in S THEN Append(a, x) ELSE a
    BY AmongAppend
  <2>2. a \in Seq(X \intersect S) /\ Len(a) <= Len(r) /\ Len(r) \in Nat /\ Len(a) \in Nat
    BY <1>2, LenProperties
  <2>3. Append(r, x) \in Seq(X) /\ Len(Append(r, x)) = Len(r) + 1
    BY AppendProperties
  <2> HIDE DEF a
  <2>4. CASE x \in S
    <3>1. Append(a, x) \in Seq(X \intersect S) /\ Len(Append(a, x)) = Len(a) + 1
      BY <2>2, <2>4, AppendProperties
    <3> HIDE DEF b
    <3>2. b \in Seq(X \intersect S) /\ Len(b) <= Len(Append(r, x))
      BY <2>1, <2>2, <2>3, <2>4, <3>1
    <3> QED
      BY <2>3, <3>2 DEF b
  <2>5. CASE x \notin S
    <3> HIDE DEF b
    <3>1. b \in Seq(X \intersect S) /\ Len(b) <= Len(Append(r, x))
      BY <2>1, <2>2, <2>3, <2>5
    <3> QED
      BY <2>3, <3>1 DEF b
  <2> QED
    BY <2>4, <2>5
<1>3. Seq(X) \subseteq Good
  <2> HIDE DEF Good
  <2> QED
    BY <1>1, <1>2, SequencesAll
<1> QED
  BY <1>3

\* Only what s has counts of S.
LEMMA AmongSame ==
  ASSUME NEW X, NEW s \in Seq(X), NEW S, NEW T, \A x \in ToSet(s) : x \in S <=> x \in T
  PROVE  Among(s, S) = Among(s, T)
<1> DEFINE Good == {r \in Seq(X) : (\A x \in ToSet(r) : x \in S <=> x \in T) => Among(r, S) = Among(r, T)}
<1>1. <<>> \in Good
  BY AmongNone
<1>2. ASSUME NEW r \in Seq(X), NEW x \in X, r \in Good PROVE Append(r, x) \in Good
  <2> DEFINE t == Append(r, x)
  <2>1. t \in Seq(X) /\ Len(t) = Len(r) + 1 /\ t[Len(r) + 1] = x /\ \A i \in 1 .. Len(r) : t[i] = r[i]
    BY AppendProperties
  <2>2. Len(r) \in Nat /\ DOMAIN r = 1 .. Len(r) /\ DOMAIN t = 1 .. Len(t)
    BY <2>1, LenProperties
  <2> SUFFICES ASSUME \A y \in ToSet(t) : y \in S <=> y \in T PROVE Among(t, S) = Among(t, T)
    BY <2>1
  <2>3. x \in ToSet(t)
    <3>1. Len(r) + 1 \in DOMAIN t
      BY <2>1, <2>2
    <3> QED
      BY <2>1, <3>1 DEF ToSet
  <2>4. ToSet(r) \subseteq ToSet(t)
    <3>1. \A i \in DOMAIN r : i \in DOMAIN t
      BY <2>1, <2>2
    <3> HIDE DEF t
    <3> QED
      BY <2>1, <2>2, <3>1 DEF ToSet
  <2>5. Among(r, S) = Among(r, T)
    BY <1>2, <2>4
  <2> HIDE DEF Good
  <2>6. /\ Among(t, S) = IF x \in S THEN Append(Among(r, S), x) ELSE Among(r, S)
        /\ Among(t, T) = IF x \in T THEN Append(Among(r, T), x) ELSE Among(r, T)
    BY AmongAppend
  <2> HIDE DEF t
  <2> QED
    BY <2>3, <2>5, <2>6
<1>3. Seq(X) \subseteq Good
  <2> HIDE DEF Good
  <2> QED
    BY <1>1, <1>2, SequencesAll
<1> QED
  BY <1>3

\* What meets one condition and then another meets both.
LEMMA AmongTwice ==
  ASSUME NEW X, NEW s \in Seq(X), NEW S, NEW T, NEW b, b = S \intersect T
  PROVE  Among(Among(s, S), T) = Among(s, b)
<1> DEFINE Good == {r \in Seq(X) : Among(Among(r, S), T) = Among(r, b)}
<1>1. <<>> \in Good
  BY AmongNone
<1>2. ASSUME NEW r \in Seq(X), NEW x \in X, r \in Good PROVE Append(r, x) \in Good
  <2> DEFINE a == Among(r, S)
  <2>1. a \in Seq(X)
    <3>1. a \in Seq(X \intersect S) /\ X \intersect S \subseteq X
      BY AmongMembers
    <3> QED
      BY <3>1, SeqMonotonic
  <2>2. Among(a, T) = Among(r, b)
    BY <1>2
  <2>3. Among(Append(r, x), S) = IF x \in S THEN Append(a, x) ELSE a
    BY AmongAppend
  <2>4. Among(Append(r, x), b) = IF x \in b THEN Append(Among(r, b), x) ELSE Among(r, b)
    BY AmongAppend
  <2> HIDE DEF a
  <2>5. Among(Append(a, x), T) = IF x \in T THEN Append(Among(a, T), x) ELSE Among(a, T)
    BY <2>1, AmongAppend
  <2>6. x \in b <=> x \in S /\ x \in T
    OBVIOUS
  <2>7. Among(Among(Append(r, x), S), T) = Among(Append(r, x), b)
    BY <2>2, <2>3, <2>4, <2>5, <2>6
  <2> QED
    BY <2>7, AppendProperties
<1>3. Seq(X) \subseteq Good
  <2> HIDE DEF Good
  <2> QED
    BY <1>1, <1>2, SequencesAll
<1> QED
  BY <1>3

\* Nothing that meets the condition is lost.
LEMMA AmongKeeps ==
  ASSUME NEW X, NEW s \in Seq(X), NEW S, NEW y \in S, y \in ToSet(s)
  PROVE  y \in ToSet(Among(s, S))
<1> DEFINE Good == {r \in Seq(X) : y \in ToSet(r) => y \in ToSet(Among(r, S))}
<1>1. <<>> \in Good
  <2>1. ToSet(<<>>) = {} /\ <<>> \in Seq(X)
    BY DEF ToSet
  <2> QED
    BY <2>1
<1>2. ASSUME NEW r \in Seq(X), NEW x \in X, r \in Good PROVE Append(r, x) \in Good
  <2> DEFINE t == Append(r, x)  a == Among(r, S)  b == Append(a, x)
  <2>1. /\ t \in Seq(X) /\ Len(t) = Len(r) + 1 /\ t[Len(r) + 1] = x /\ Len(r) \in Nat
        /\ \A i \in 1 .. Len(r) : t[i] = r[i]
    BY AppendProperties, LenProperties
  <2>2. a \in Seq(X \intersect S)
    BY AmongMembers
  <2>3. Among(t, S) = IF x \in S THEN b ELSE a
    BY AmongAppend
  <2> HIDE DEF t, a
  <2>4. ASSUME x \in S
        PROVE  /\ Len(b) = Len(a) + 1 /\ b[Len(a) + 1] = x /\ Len(a) \in Nat
               /\ \A i \in 1 .. Len(a) : b[i] = a[i]
               /\ DOMAIN b = 1 .. Len(a) + 1 /\ DOMAIN a = 1 .. Len(a)
    <3> DEFINE Y == X \intersect S
    <3>1. x \in Y /\ a \in Seq(Y)
      BY <2>2, <2>4
    <3> HIDE DEF Y
    <3> QED
      BY <3>1, AppendProperties, LenProperties
  <2> HIDE DEF b
  <2>5. SUFFICES ASSUME y \in ToSet(t) PROVE y \in ToSet(Among(t, S))
    BY <2>1 DEF t
  <2>6. PICK i \in 1 .. Len(r) + 1 : t[i] = y
    <3>1. DOMAIN t = 1 .. Len(r) + 1
      BY <2>1, LenProperties
    <3> QED
      BY <2>5, <3>1 DEF ToSet
  <2>7. CASE i = Len(r) + 1
    <3>1. x = y /\ x \in S
      BY <2>1, <2>6, <2>7
    <3>2. Len(a) + 1 \in DOMAIN b /\ b[Len(a) + 1] = y
      BY <2>4, <3>1
    <3>3. y \in ToSet(b)
      BY <3>2 DEF ToSet
    <3> QED
      BY <2>3, <3>1, <3>3
  <2>8. CASE i # Len(r) + 1
    <3>1. i \in 1 .. Len(r) /\ r[i] = y
      BY <2>1, <2>6, <2>8
    <3>2. DOMAIN r = 1 .. Len(r)
      BY LenProperties
    <3>3. y \in ToSet(r)
      BY <3>1, <3>2 DEF ToSet
    <3>4. y \in ToSet(a)
      BY <1>2, <3>3 DEF a
    <3>5. x \in S => y \in ToSet(b)
      BY <2>4, <3>4 DEF ToSet
    <3> QED
      BY <2>3, <3>4, <3>5
  <2> QED
    BY <2>7, <2>8
<1>3. Seq(X) \subseteq Good
  <2> HIDE DEF Good
  <2> QED
    BY <1>1, <1>2, SequencesAll
<1> QED
  BY <1>3

-----------------------------------------------------------------------------
\* Sequences that are put together and cut, and how many things are counted.
Regrouped(s, t, u) == (s \o t) \o u = s \o (t \o u)

LEMMA OneItem ==
  ASSUME NEW S, NEW x \in S
  PROVE  <<x>> \in Seq(S) /\ Len(<<x>>) = 1 /\ <<x>>[1] = x
OBVIOUS

LEMMA HeadIsFirst == ASSUME NEW S, NEW s \in Seq(S), s # <<>> PROVE Head(s) = s[1]
OBVIOUS

LEMMA MembersOf == ASSUME NEW X, NEW s \in Seq(X) PROVE ToSet(s) \subseteq X
BY LenProperties, ElementOfSeq DEF ToSet

\* Places of which each is before the next.
LEMMA PlacesRise ==
  ASSUME NEW m \in Nat, NEW e, \A k \in 0 .. m : e[k] \in Int, \A k \in 1 .. m : e[k - 1] < e[k]
  PROVE  \A j, k \in 0 .. m : j <= k => e[j] <= e[k] /\ (j < k => e[j] < e[k])
<1> SUFFICES ASSUME NEW j \in 0 .. m PROVE \A k \in 0 .. m : j <= k => e[j] <= e[k] /\ (j < k => e[j] < e[k])
  OBVIOUS
<1> DEFINE Good == {k \in Nat : k <= m /\ j <= k => e[j] <= e[k] /\ (j < k => e[j] < e[k])}
<1>1. 0 \in Good
  <2> SUFFICES ASSUME j <= 0 PROVE e[j] <= e[0] /\ (j < 0 => e[j] < e[0])
    OBVIOUS
  <2>1. j = 0 /\ 0 \in 0 .. m
    OBVIOUS
  <2> QED
    BY <2>1
<1>2. ASSUME NEW k \in Nat, k \in Good PROVE k + 1 \in Good
  <2> SUFFICES ASSUME k + 1 <= m, j <= k + 1
               PROVE  e[j] <= e[k + 1] /\ (j < k + 1 => e[j] < e[k + 1])
    OBVIOUS
  <2>1. k + 1 \in 1 .. m /\ (k + 1) - 1 = k /\ k \in 0 .. m /\ k + 1 \in 0 .. m
    OBVIOUS
  <2>2. e[k] < e[k + 1] /\ e[k] \in Int /\ e[k + 1] \in Int /\ e[j] \in Int
    BY <2>1
  <2>3. CASE j = k + 1
    BY <2>2, <2>3
  <2>4. CASE j # k + 1
    <3>1. j <= k
      BY <2>4
    <3>2. e[j] <= e[k]
      BY <1>2, <2>1, <3>1
    <3> QED
      BY <2>2, <3>2
  <2> QED
    BY <2>3, <2>4
<1>3. Nat \subseteq Good
  <2> HIDE DEF Good
  <2> QED
    BY <1>1, <1>2, NumbersAll
<1> QED
  BY <1>3

Odd(S) == Cardinality(S) % 2 = 1

LEMMA OneMoreFlips ==
  ASSUME NEW S, IsFiniteSet(S), NEW x, x \notin S
  PROVE  Odd(S \union {x}) <=> ~Odd(S)
<1>1. Cardinality(S) \in Nat /\ Cardinality(S \union {x}) = Cardinality(S) + 1
  BY FS_CardinalityType, FS_AddElement
<1> DEFINE c == Cardinality(S)  d == Cardinality(S \union {x})
<1>2. c \in Nat /\ d = c + 1
  BY <1>1
<1> HIDE DEF c, d
<1>3. (d % 2 = 1) <=> ~(c % 2 = 1)
  BY <1>2
<1> QED
  BY <1>3 DEF Odd, c, d

LEMMA NoneIsEven == ~Odd({})
BY FS_EmptySet DEF Odd

LEMMA EvenOrOdd ==
  ASSUME NEW S, IsFiniteSet(S)
  PROVE  Cardinality(S) % 2 = 0 <=> ~Odd(S)
<1> DEFINE c == Cardinality(S)
<1>1. c \in Nat
  BY FS_CardinalityType
<1> HIDE DEF c
<1>2. (c % 2 = 0) <=> ~(c % 2 = 1)
  BY <1>1
<1> QED
  BY <1>2 DEF Odd, c

\* t is what s is from a to b.
IsPiece(t, s, a, b) == Len(t) = b - a + 1 /\ \A i \in 1 .. b - a + 1 : t[i] = s[a + i - 1]

LEMMA PieceIn ==
  ASSUME NEW X, NEW s \in Seq(X), NEW a \in Int, NEW b \in Int, 1 <= a, a <= b + 1, b <= Len(s)
  PROVE  SubSeq(s, a, b) \in Seq(X) /\ IsPiece(SubSeq(s, a, b), s, a, b)
<1>1. Len(s) \in Nat /\ \A i \in 1 .. Len(s) : s[i] \in X
  BY LenProperties, ElementOfSeq
<1>2. \A i \in a .. b : s[i] \in X
  BY <1>1
<1>3. /\ SubSeq(s, a, b) \in Seq(X)
      /\ Len(SubSeq(s, a, b)) = IF a <= b THEN b - a + 1 ELSE 0
      /\ \A i \in 1 .. b - a + 1 : SubSeq(s, a, b)[i] = s[a + i - 1]
  BY <1>2, SubSeqProperties
<1> DEFINE t == SubSeq(s, a, b)
<1> HIDE DEF t
<1>4. ~(a <= b) => b - a + 1 = 0
  OBVIOUS
<1>5. Len(t) = b - a + 1
  BY <1>3, <1>4 DEF t
<1> QED
  BY <1>3, <1>5 DEF IsPiece, t

LEMMA SameTexts ==
  ASSUME NEW X, NEW s \in Seq(X), NEW t \in Seq(X), NEW n, Len(s) = n, Len(t) = n,
         \A i \in 1 .. n : s[i] = t[i]
  PROVE  s = t
BY SeqEqual

LEMMA PieceOfPiece ==
  ASSUME NEW X, NEW s \in Seq(X), NEW a \in Int, NEW b \in Int, 1 <= a, a <= b + 1, b <= Len(s),
         NEW c \in Int, NEW d \in Int, 1 <= c, c <= d + 1, d <= b - a + 1
  PROVE  SubSeq(SubSeq(s, a, b), c, d) = SubSeq(s, a + c - 1, a + d - 1)
<1> DEFINE r == SubSeq(s, a, b)  t == SubSeq(r, c, d)  e == a + c - 1  f == a + d - 1  u == SubSeq(s, e, f)
<1>0. Len(s) \in Nat
  BY LenProperties
<1>1. r \in Seq(X) /\ Len(r) = b - a + 1 /\ \A i \in 1 .. b - a + 1 : r[i] = s[a + i - 1]
  BY PieceIn DEF IsPiece
<1> HIDE DEF r
<1>2. t \in Seq(X) /\ Len(t) = d - c + 1 /\ \A i \in 1 .. d - c + 1 : t[i] = r[c + i - 1]
  <2>1. d <= Len(r)
    BY <1>1
  <2> QED
    BY <1>1, <2>1, PieceIn DEF IsPiece
<1>3. e \in Int /\ f \in Int /\ 1 <= e /\ e <= f + 1 /\ f <= Len(s) /\ f - e + 1 = d - c + 1
  BY <1>0
<1>4. u \in Seq(X) /\ Len(u) = d - c + 1 /\ \A i \in 1 .. d - c + 1 : u[i] = s[e + i - 1]
  <2> HIDE DEF e, f
  <2>1. u \in Seq(X) /\ Len(u) = f - e + 1 /\ \A i \in 1 .. f - e + 1 : u[i] = s[e + i - 1]
    BY <1>3, PieceIn DEF IsPiece
  <2> QED
    BY <1>3, <2>1
<1>5. ASSUME NEW i \in 1 .. d - c + 1 PROVE t[i] = u[i]
  <2>1. c + i - 1 \in 1 .. b - a + 1 /\ a + (c + i - 1) - 1 = e + i - 1
    OBVIOUS
  <2> HIDE DEF t, u, e
  <2> QED
    BY <1>1, <1>2, <1>4, <2>1
<1> HIDE DEF t, u
<1>6. t = u
  BY <1>2, <1>4, <1>5, SeqEqual
<1> QED
  BY <1>6 DEF t, r, u

\* r is s, and t after it.
IsBoth(r, s, t, X) ==
  /\ r \in Seq(X) /\ Len(r) = Len(s) + Len(t) /\ Len(s) \in Nat /\ Len(t) \in Nat
  /\ \A i \in 1 .. Len(s) : r[i] = s[i]
  /\ \A i \in 1 .. Len(t) : r[Len(s) + i] = t[i]

LEMMA BothIn ==
  ASSUME NEW X, NEW s \in Seq(X), NEW t \in Seq(X)
  PROVE  IsBoth(s \o t, s, t, X)
<1> DEFINE r == s \o t
<1>1. /\ r \in Seq(X) /\ Len(r) = Len(s) + Len(t)
      /\ \A i \in 1 .. Len(s) + Len(t) : r[i] = IF i <= Len(s) THEN s[i] ELSE t[i - Len(s)]
  BY ConcatProperties
<1>2. Len(s) \in Nat /\ Len(t) \in Nat
  BY LenProperties
<1> DEFINE m == Len(s)  n == Len(t)
<1>3. /\ r \in Seq(X) /\ Len(r) = m + n /\ m \in Nat /\ n \in Nat
      /\ \A i \in 1 .. m + n : r[i] = IF i <= m THEN s[i] ELSE t[i - m]
  BY <1>1, <1>2
<1> HIDE DEF r, m, n
<1>4. ASSUME NEW i \in 1 .. m PROVE r[i] = s[i]
  BY <1>3
<1>5. ASSUME NEW i \in 1 .. n PROVE r[m + i] = t[i]
  <2>1. m + i \in 1 .. m + n /\ ~(m + i <= m) /\ (m + i) - m = i
    BY <1>3
  <2> QED
    BY <1>3, <2>1
<1> QED
  BY <1>3, <1>4, <1>5 DEF IsBoth, r, m, n

LEMMA WholePiece ==
  ASSUME NEW X, NEW s \in Seq(X)
  PROVE  SubSeq(s, 1, Len(s)) = s
<1> DEFINE t == SubSeq(s, 1, Len(s))
<1>0. Len(s) \in Nat /\ 1 \in Int /\ 1 <= 1
  BY LenProperties
<1>1. 1 <= Len(s) + 1 /\ Len(s) <= Len(s) /\ Len(s) \in Int
  BY <1>0
<1>2. t \in Seq(X) /\ IsPiece(t, s, 1, Len(s))
  BY <1>0, <1>1, PieceIn
<1> HIDE DEF t
<1>3. Len(s) - 1 + 1 = Len(s) /\ \A i \in 1 .. Len(s) : 1 + i - 1 = i
  BY <1>0
<1>4. Len(t) = Len(s) /\ \A i \in 1 .. Len(s) : t[i] = s[i]
  BY <1>2, <1>3 DEF IsPiece
<1>5. t = s
  BY <1>2, <1>4, SeqEqual
<1> QED
  BY <1>5 DEF t

LEMMA SeqWider == ASSUME NEW X, NEW Y, X \subseteq Y, NEW s \in Seq(X) PROVE s \in Seq(Y)
<1>1. Len(s) \in Nat /\ DOMAIN s = 1 .. Len(s) /\ \A i \in 1 .. Len(s) : s[i] \in Y
  BY LenProperties, ElementOfSeq
<1>2. s = [i \in 1 .. Len(s) |-> s[i]]
  BY <1>1
<1>3. [i \in 1 .. Len(s) |-> s[i]] \in Seq(Y)
  BY <1>1, IsASeq
<1> QED
  BY <1>2, <1>3

LEMMA ThePiece ==
  ASSUME NEW X, NEW s \in Seq(X), NEW Y, NEW t \in Seq(Y), NEW a \in 1 .. Len(s), NEW b \in 1 .. Len(s), a <= b,
         IsPiece(t, s, a, b)
  PROVE  SubSeq(s, a, b) = t
<1> DEFINE u == SubSeq(s, a, b)
<1>0. Len(s) \in Nat
  BY LenProperties
<1>1. a \in Int /\ b \in Int /\ 1 <= a /\ a <= b + 1 /\ b <= Len(s)
  BY <1>0
<1>2. u \in Seq(X) /\ IsPiece(u, s, a, b)
  BY <1>1, PieceIn
<1> HIDE DEF u
<1>3. Len(u) = Len(t) /\ \A i \in 1 .. Len(t) : u[i] = t[i]
  BY <1>2 DEF IsPiece
<1>4. u = t
  BY <1>2, <1>3, SeqEqual
<1> QED
  BY <1>4 DEF u

LEMMA SamePiece ==
  ASSUME NEW X, NEW s \in Seq(X), NEW t \in Seq(X), NEW k \in Nat, k <= Len(s), k <= Len(t),
         \A i \in 1 .. k : s[i] = t[i], NEW l \in 1 .. k, NEW r \in 1 .. k, l <= r
  PROVE  SubSeq(s, l, r) = SubSeq(t, l, r)
<1> DEFINE u == SubSeq(s, l, r)  v == SubSeq(t, l, r)
<1>0. Len(s) \in Nat /\ Len(t) \in Nat
  BY LenProperties
<1>1. l \in Int /\ r \in Int /\ 1 <= l /\ l <= r + 1 /\ r <= Len(s) /\ r <= Len(t)
  BY <1>0
<1>2. u \in Seq(X) /\ IsPiece(u, s, l, r) /\ v \in Seq(X) /\ IsPiece(v, t, l, r)
  BY <1>1, PieceIn
<1> HIDE DEF u, v
<1>3. \A i \in 1 .. r - l + 1 : l + i - 1 \in 1 .. k
  OBVIOUS
<1>4. Len(u) = r - l + 1 /\ Len(v) = r - l + 1 /\ \A i \in 1 .. r - l + 1 : u[i] = v[i]
  BY <1>2, <1>3 DEF IsPiece
<1>5. u = v
  BY <1>2, <1>4, SeqEqual
<1> QED
  BY <1>5 DEF u, v

\* w is u, t and v, one after another.
Laid(w, u, t, v, X) ==
  /\ w \in Seq(X) /\ u \in Seq(X) /\ v \in Seq(X) /\ Len(u) \in Nat /\ Len(t) \in Nat /\ Len(v) \in Nat
  /\ Len(w) = Len(u) + Len(t) + Len(v)
  /\ \A i \in 1 .. Len(u) : w[i] = u[i]
  /\ \A i \in 1 .. Len(t) : w[Len(u) + i] = t[i]
  /\ \A i \in 1 .. Len(v) : w[Len(u) + Len(t) + i] = v[i]

LEMMA LaidOut ==
  ASSUME NEW X, NEW u \in Seq(X), NEW t \in Seq(X), NEW v \in Seq(X)
  PROVE  Laid((u \o t) \o v, u, t, v, X)
<1> DEFINE ut == u \o t  w == ut \o v  a == Len(u)  b == Len(t)  c == Len(v)
<1>1. IsBoth(ut, u, t, X)
  BY BothIn
<1>2. ut \in Seq(X)
  BY <1>1 DEF IsBoth
<1> HIDE DEF ut
<1>3. IsBoth(w, ut, v, X)
  BY <1>2, BothIn
<1> HIDE DEF w
<1>4. /\ a \in Nat /\ b \in Nat /\ c \in Nat /\ Len(ut) = a + b /\ w \in Seq(X) /\ Len(w) = (a + b) + c
      /\ (\A i \in 1 .. a : ut[i] = u[i]) /\ (\A i \in 1 .. b : ut[a + i] = t[i])
      /\ (\A i \in 1 .. a + b : w[i] = ut[i]) /\ \A i \in 1 .. c : w[(a + b) + i] = v[i]
  BY <1>1, <1>3 DEF IsBoth
<1> HIDE DEF a, b, c
<1>5. ASSUME NEW i \in 1 .. a PROVE w[i] = u[i]
  BY <1>4
<1>6. ASSUME NEW i \in 1 .. b PROVE w[a + i] = t[i]
  <2>1. a + i \in 1 .. a + b
    BY <1>4
  <2> QED
    BY <1>4, <2>1
<1>7. ASSUME NEW i \in 1 .. c PROVE w[a + b + i] = v[i]
  BY <1>4
<1>8. Laid(w, u, t, v, X)
  BY <1>4, <1>5, <1>6, <1>7 DEF Laid, a, b, c
<1> QED
  BY <1>8 DEF w, ut

LEMMA RegroupedIn ==
  ASSUME NEW X, NEW s \in Seq(X), NEW t \in Seq(X), NEW u \in Seq(X)
  PROVE  Regrouped(s, t, u)
BY ConcatAssociative DEF Regrouped

LEMMA NothingAdded == ASSUME NEW X, NEW s \in Seq(X), NEW e, e \in Seq(X), Len(e) = 0 PROVE s \o e = s
<1> DEFINE r == s \o e
<1>1. IsBoth(r, s, e, X)
  BY BothIn
<1> HIDE DEF r
<1>2. r \in Seq(X) /\ Len(r) = Len(s) /\ \A i \in 1 .. Len(s) : r[i] = s[i]
  BY <1>1 DEF IsBoth
<1>3. r = s
  BY <1>2, SeqEqual
<1> QED
  BY <1>3 DEF r

LEMMA OneMoreAtMostIn ==
  ASSUME NEW S, IsFiniteSet(S), NEW k \in Nat, Cardinality(S) <= k, NEW x, NEW T, T = S \union {x}
  PROVE  IsFiniteSet(T) /\ Cardinality(T) <= k + 1
<1> DEFINE c == Cardinality(S)  d == Cardinality(T)
<1>1. c \in Nat
  BY FS_CardinalityType
<1>2. IsFiniteSet(T) /\ d = IF x \in S THEN c ELSE c + 1
  BY FS_AddElement
<1>3. c <= k
  OBVIOUS
<1> HIDE DEF c, d
<1>4. d <= k + 1
  BY <1>1, <1>2, <1>3
<1> QED
  BY <1>2, <1>4 DEF d

LEMMA JustOne ==
  ASSUME NEW n \in Nat, n >= 1
  PROVE  n <= 1 <=> n = 1
OBVIOUS

-----------------------------------------------------------------------------
\* Sequences of sequences, one after the other.

\* Where the members of S stand in s.
PlacesOf(s, S) == {i \in DOMAIN s : s[i] \in S}

LEMMA AtIsFinite ==
  ASSUME NEW X, NEW s \in Seq(X), NEW S
  PROVE  /\ IsFiniteSet(PlacesOf(s, S)) /\ Cardinality(PlacesOf(s, S)) \in Nat
         /\ PlacesOf(s, S) \subseteq 1 .. Len(s)
<1>1. DOMAIN s = 1 .. Len(s) /\ Len(s) \in Nat
  BY LenProperties
<1>2. PlacesOf(s, S) \subseteq 1 .. Len(s) /\ IsFiniteSet(1 .. Len(s))
  BY <1>1, FS_Interval DEF PlacesOf
<1> QED
  BY <1>2, FS_Subset, FS_CardinalityType

\* As many as there are: all of them.
LEMMA AtAll ==
  ASSUME NEW X, NEW s \in Seq(X)
  PROVE  Cardinality(PlacesOf(s, X)) = Len(s)
<1>1. DOMAIN s = 1 .. Len(s) /\ Len(s) \in Nat /\ \A i \in 1 .. Len(s) : s[i] \in X
  BY LenProperties, ElementOfSeq
<1>2. PlacesOf(s, X) = 1 .. Len(s)
  BY <1>1 DEF PlacesOf
<1>3. Cardinality(1 .. Len(s)) = IF 1 > Len(s) THEN 0 ELSE Len(s) - 1 + 1
  BY <1>1, FS_Interval
<1> QED
  BY <1>1, <1>2, <1>3

IsJoined(r, s, t) == r = s \o t

LEMMA AtJoined ==
  ASSUME NEW X, NEW s \in Seq(X), NEW t \in Seq(X), NEW S, NEW r, IsJoined(r, s, t)
  PROVE  Cardinality(PlacesOf(r, S)) = Cardinality(PlacesOf(s, S)) + Cardinality(PlacesOf(t, S))
<1>1. /\ r \in Seq(X) /\ Len(r) = Len(s) + Len(t)
      /\ \A i \in 1 .. Len(s) + Len(t) : r[i] = IF i <= Len(s) THEN s[i] ELSE t[i - Len(s)]
  BY ConcatProperties DEF IsJoined
<1>2. /\ DOMAIN s = 1 .. Len(s) /\ DOMAIN t = 1 .. Len(t) /\ DOMAIN r = 1 .. Len(r)
      /\ Len(s) \in Nat /\ Len(t) \in Nat
  BY <1>1, LenProperties
<1> DEFINE m == Len(s)  A == PlacesOf(s, S)  B == PlacesOf(t, S)  C == PlacesOf(r, S) \ A  shift == [i \in B |-> i + m]
<1>3. A \subseteq PlacesOf(r, S) /\ \A i \in PlacesOf(r, S) : i \in A <=> i <= m
  BY <1>1, <1>2 DEF PlacesOf
<1>4. \A i \in B : i + m \in C
  BY <1>1, <1>2, <1>3 DEF PlacesOf
<1>5. \A i \in C : i - m \in B /\ (i - m) + m = i
  <2> SUFFICES ASSUME NEW i \in C PROVE i - m \in B /\ (i - m) + m = i
    OBVIOUS
  <2>1. i \in DOMAIN r /\ r[i] \in S /\ ~(i <= m)
    BY <1>3 DEF PlacesOf
  <2>2. i \in 1 .. m + Len(t)
    BY <1>1, <1>2, <2>1
  <2>3. i - m \in 1 .. Len(t) /\ (i - m) + m = i
    BY <1>2, <2>1, <2>2
  <2>4. r[i] = t[i - m]
    BY <1>1, <2>1, <2>2
  <2> QED
    BY <1>2, <2>1, <2>3, <2>4 DEF PlacesOf
<1>6. B \subseteq Int /\ m \in Int
  BY <1>2 DEF PlacesOf
<1>7. shift \in Bijection(B, C)
  <2> HIDE DEF B, C, m
  <2>1. shift \in [B -> C]
    BY <1>4
  <2>2. \A i, k \in B : shift[i] = shift[k] => i = k
    BY <1>6
  <2>3. \A c \in C : \E i \in B : shift[i] = c
    BY <1>5
  <2> HIDE DEF shift
  <2> QED
    BY <2>1, <2>2, <2>3 DEF Bijection, Injection, Surjection, IsInjective
<1>8. IsFiniteSet(A) /\ IsFiniteSet(B) /\ Cardinality(A) \in Nat /\ Cardinality(B) \in Nat
  BY AtIsFinite
<1>9. IsFiniteSet(C) /\ Cardinality(C) = Cardinality(B)
  <2>1. ExistsBijection(B, C)
    BY <1>7 DEF ExistsBijection
  <2> HIDE DEF B, C
  <2> QED
    BY <1>8, <2>1, FS_Bijection
<1>10. PlacesOf(r, S) = A \union C /\ A \intersect C = {}
  BY <1>3
<1> HIDE DEF A, B, C
<1>11. Cardinality(A \union C) = Cardinality(A) + Cardinality(C) - Cardinality(A \intersect C)
  BY <1>8, <1>9, FS_Union
<1>12. Cardinality(A \intersect C) = 0
  BY <1>10, FS_EmptySet
<1> QED
  BY <1>8, <1>9, <1>10, <1>11, <1>12 DEF A, B

\* FlattenSeq joins one sequence after the other.
LEMMA FlattenRuns ==
  ASSUME NEW Y, NEW parts \in Seq(Y), Len(parts) # 0
  PROVE  \E g : /\ g[1] = parts[1] /\ g[Len(parts)] = FlattenSeq(parts)
                /\ \A n \in 2 .. Len(parts) : g[n] = g[n - 1] \o parts[n]
<1> DEFINE last == Len(parts)
           More(n, v) == v \o parts[n]
           Follows(f, n) == f = [i \in 1 .. n |-> IF i = 1 THEN parts[i] ELSE More(i, f[i - 1])]
           Good == {n \in Nat : \E f : Follows(f, n)}
<1>1. last \in Nat /\ last # 0
  BY LenProperties
<1>2. FlattenSeq(parts) = (CHOOSE f : Follows(f, last))[last]
  BY <1>1 DEF FlattenSeq
<1> HIDE DEF More
<1>3. 0 \in Good
  <2> DEFINE f == [i \in 1 .. 0 |-> parts[i]]
  <2>1. Follows(f, 0)
    OBVIOUS
  <2> HIDE DEF Follows
  <2> QED
    BY <2>1
<1>4. ASSUME NEW n \in Nat, n \in Good PROVE n + 1 \in Good
  <2>1. PICK f : Follows(f, n)
    BY <1>4
  <2> DEFINE g == [i \in 1 .. n + 1 |-> IF i <= n THEN f[i] ELSE IF i = 1 THEN parts[i] ELSE More(i, f[n])]
             h == [i \in 1 .. n + 1 |-> IF i = 1 THEN parts[i] ELSE More(i, g[i - 1])]
  <2>2. ASSUME NEW i \in 1 .. n + 1 PROVE g[i] = h[i]
    <3>1. CASE i <= n
      <4>1. g[i] = f[i] /\ i \in 1 .. n /\ (i # 1 => g[i - 1] = f[i - 1])
        BY <3>1
      <4>2. f[i] = IF i = 1 THEN parts[i] ELSE More(i, f[i - 1])
        BY <2>1, <4>1
      <4> QED
        BY <4>1, <4>2
    <3>2. CASE ~(i <= n)
      <4>1. i = n + 1 /\ (i # 1 => i - 1 \in 1 .. n + 1 /\ i - 1 <= n /\ i - 1 = n)
        BY <3>2
      <4>2. g[i] = (IF i = 1 THEN parts[i] ELSE More(i, f[n])) /\ (i # 1 => g[i - 1] = f[n])
        BY <3>2, <4>1
      <4> QED
        BY <4>2
    <3> QED
      BY <3>1, <3>2
  <2>3. g = h
    BY <2>2
  <2>4. Follows(g, n + 1)
    BY <2>3
  <2> HIDE DEF Follows, g
  <2> QED
    BY <2>4
<1>5. last \in Good
  <2> HIDE DEF Good
  <2> QED
    BY <1>1, <1>3, <1>4, NumbersAll
<1> DEFINE g == CHOOSE f : Follows(f, last)
<1>6. Follows(g, last)
  <2>1. \E f : Follows(f, last)
    BY <1>5
  <2> HIDE DEF Follows
  <2> QED
    BY <2>1
<1> HIDE DEF g
<1>7. g[1] = parts[1] /\ \A n \in 2 .. last : g[n] = More(n, g[n - 1])
  <2>1. \A i \in 1 .. last : g[i] = IF i = 1 THEN parts[i] ELSE More(i, g[i - 1])
    BY <1>6
  <2>2. 1 \in 1 .. last /\ \A n \in 2 .. last : n \in 1 .. last /\ n # 1
    BY <1>1
  <2> HIDE DEF last
  <2> QED
    BY <2>1, <2>2
<1>8. g[last] = FlattenSeq(parts)
  BY <1>2 DEF g
<1> QED
  BY <1>7, <1>8 DEF More

\* What is in the parts is in the whole, as often; the parts have names that
\* tell them apart.
Shares(parts, names, S, n) == UNION {{names[k]} \X PlacesOf(parts[k], S) : k \in 1 .. n}

LEMMA FlattenCounts ==
  ASSUME NEW X, NEW parts \in Seq(Seq(X)), NEW names, NEW S,
         \A j, k \in DOMAIN parts : names[j] = names[k] => j = k
  PROVE  /\ FlattenSeq(parts) \in Seq(X)
         /\ Cardinality(PlacesOf(FlattenSeq(parts), S)) = Cardinality(Shares(parts, names, S, Len(parts)))
         /\ IsFiniteSet(Shares(parts, names, S, Len(parts)))
<1> DEFINE last == Len(parts)  Part(n) == {names[n]} \X PlacesOf(parts[n], S)
           All(n) == Shares(parts, names, S, n)
<1>1. last \in Nat /\ DOMAIN parts = 1 .. last /\ \A k \in 1 .. last : parts[k] \in Seq(X)
  BY LenProperties, ElementOfSeq
<1>2. \A k \in 1 .. last : IsFiniteSet(PlacesOf(parts[k], S)) /\ Cardinality(PlacesOf(parts[k], S)) \in Nat
  BY <1>1, AtIsFinite
<1>3. ASSUME NEW n \in 1 .. last
      PROVE  IsFiniteSet(Part(n)) /\ Cardinality(Part(n)) = Cardinality(PlacesOf(parts[n], S))
  <2> DEFINE one == {names[n]}  A == PlacesOf(parts[n], S)
  <2>1. IsFiniteSet(one) /\ Cardinality(one) = 1
    BY FS_Singleton
  <2>2. IsFiniteSet(A) /\ Cardinality(A) \in Nat
    BY <1>2
  <2> HIDE DEF one, A
  <2>3. IsFiniteSet(one \X A) /\ Cardinality(one \X A) = Cardinality(one) * Cardinality(A)
    BY <2>1, <2>2, FS_Product
  <2> QED
    BY <2>1, <2>2, <2>3 DEF one, A
<1>4. ASSUME NEW n \in Nat, n + 1 \in 1 .. last
      PROVE  All(n + 1) = All(n) \union Part(n + 1) /\ All(n) \intersect Part(n + 1) = {}
  <2>1. 1 .. n + 1 = (1 .. n) \union {n + 1}
    BY <1>4
  <2>2. All(n + 1) = UNION {Part(k) : k \in 1 .. n + 1} /\ All(n) = UNION {Part(k) : k \in 1 .. n}
    BY DEF Shares
  <2>3. ASSUME NEW p \in All(n), p \in Part(n + 1) PROVE FALSE
    <3>1. PICK k \in 1 .. n : p \in Part(k)
      BY <2>2
    <3>2. p[1] = names[k] /\ p[1] = names[n + 1]
      BY <2>3, <3>1
    <3>3. k \in 1 .. last /\ k # n + 1
      BY <1>1, <1>4
    <3> QED
      BY <1>1, <1>4, <3>2, <3>3
  <2>4. UNION {Part(k) : k \in 1 .. n + 1} = (UNION {Part(k) : k \in 1 .. n}) \union Part(n + 1)
    <3> HIDE DEF Part
    <3> QED
      BY <2>1
  <2> HIDE DEF Part, All
  <2> QED
    BY <2>2, <2>3, <2>4
<1>5. CASE last = 0
  <2>1. parts = <<>>
    BY <1>5, EmptySeq
  <2>2. FlattenSeq(parts) = <<>> /\ <<>> \in Seq(X)
    BY <1>5, <2>1 DEF FlattenSeq
  <2>3. 1 .. 0 = {}
    OBVIOUS
  <2>4. All(0) = {} /\ PlacesOf(<<>>, S) = {}
    BY <2>3 DEF Shares, PlacesOf
  <2> QED
    BY <1>5, <2>2, <2>4, FS_EmptySet
<1>6. CASE last # 0
  <2>1. PICK g : /\ g[1] = parts[1] /\ g[last] = FlattenSeq(parts)
                 /\ \A n \in 2 .. last : g[n] = g[n - 1] \o parts[n]
    BY <1>6, FlattenRuns
  <2> DEFINE Fine(n) == /\ g[n] \in Seq(X) /\ IsFiniteSet(All(n))
                        /\ Cardinality(PlacesOf(g[n], S)) = Cardinality(All(n))
             Good == {n \in Nat : n + 1 \in 1 .. last => Fine(n + 1)}
  <2>2. All(0) = {} /\ IsFiniteSet(All(0))
    <3>1. 1 .. 0 = {}
      OBVIOUS
    <3>2. All(0) = {}
      BY <3>1 DEF Shares
    <3> QED
      BY <3>2, FS_EmptySet
  <2> HIDE DEF Part, All, last
  <2>3. 0 \in Good
    <3> SUFFICES ASSUME 1 \in 1 .. last PROVE Fine(1)
      BY DEF All
    <3>1. 0 \in Nat /\ 0 + 1 = 1 /\ 0 + 1 \in 1 .. last
      OBVIOUS
    <3>2. All(0 + 1) = All(0) \union Part(0 + 1)
      BY <1>4, <3>1
    <3>3. All(1) = Part(1)
      BY <2>2, <3>1, <3>2
    <3> QED
      BY <1>1, <1>3, <2>1, <3>1, <3>3
  <2>4. ASSUME NEW n \in Nat, n \in Good PROVE n + 1 \in Good
    <3> SUFFICES ASSUME n + 2 \in 1 .. last PROVE Fine(n + 2)
      <4>1. (n + 1) + 1 = n + 2
        OBVIOUS
      <4> HIDE DEF Fine
      <4> QED
        BY <4>1
    <3> DEFINE m == n + 2
    <3>1. /\ n + 1 \in 1 .. last /\ n + 1 \in Nat /\ m \in 2 .. last /\ m \in 1 .. last
          /\ m - 1 = n + 1 /\ (n + 1) + 1 = m
      BY <1>1
    <3>2. Fine(n + 1)
      BY <2>4, <3>1
    <3> HIDE DEF m
    <3>3. g[m] = g[n + 1] \o parts[m]
      BY <2>1, <3>1
    <3>4. parts[m] \in Seq(X)
      BY <1>1, <3>1
    <3>5. g[m] \in Seq(X)
      BY <3>2, <3>3, <3>4, ConcatProperties
    <3>6. Cardinality(PlacesOf(g[m], S)) = Cardinality(PlacesOf(g[n + 1], S)) + Cardinality(PlacesOf(parts[m], S))
      <4> DEFINE r == g[m]  s == g[n + 1]  t == parts[m]
      <4>1. s \in Seq(X) /\ t \in Seq(X) /\ IsJoined(r, s, t)
        BY <3>2, <3>3, <3>4 DEF IsJoined
      <4> HIDE DEF r, s, t
      <4>2. Cardinality(PlacesOf(r, S)) = Cardinality(PlacesOf(s, S)) + Cardinality(PlacesOf(t, S))
        BY <4>1, AtJoined
      <4> QED
        BY <4>2 DEF r, s, t
    <3>7. All(m) = All(n + 1) \union Part(m) /\ All(n + 1) \intersect Part(m) = {}
      BY <1>4, <3>1
    <3>8. IsFiniteSet(Part(m)) /\ Cardinality(Part(m)) = Cardinality(PlacesOf(parts[m], S))
      BY <1>3, <3>1
    <3>9. /\ IsFiniteSet(All(m))
          /\ Cardinality(All(m)) = Cardinality(All(n + 1)) + Cardinality(Part(m))
      <4> DEFINE A == All(n + 1)  B == Part(m)
      <4>1. IsFiniteSet(A) /\ IsFiniteSet(B) /\ A \intersect B = {}
        BY <3>2, <3>7, <3>8
      <4> HIDE DEF A, B
      <4>2. IsFiniteSet(A \union B)
            /\ Cardinality(A \union B) = Cardinality(A) + Cardinality(B) - Cardinality(A \intersect B)
        BY <4>1, FS_Union
      <4>3. Cardinality(A \intersect B) = 0 /\ Cardinality(A) \in Nat /\ Cardinality(B) \in Nat
        BY <4>1, FS_EmptySet, FS_CardinalityType
      <4>4. Cardinality(A \union B) = Cardinality(A) + Cardinality(B)
        BY <4>2, <4>3
      <4> QED
        BY <3>7, <4>2, <4>4 DEF A, B
    <3>10. Fine(m)
      BY <3>2, <3>5, <3>6, <3>8, <3>9
    <3> QED
      BY <3>10 DEF m
  <2>5. Nat \subseteq Good
    <3> HIDE DEF Good
    <3> QED
      BY <2>3, <2>4, NumbersAll
  <2>6. last - 1 \in Nat /\ (last - 1) + 1 = last /\ last \in 1 .. last
    BY <1>1, <1>6
  <2>7. Fine(last)
    <3>1. last - 1 \in Good
      BY <2>5, <2>6
    <3> HIDE DEF Fine
    <3> QED
      BY <2>6, <3>1
  <2> QED
    BY <2>1, <2>7 DEF last, All
<1> QED
  BY <1>5, <1>6

=============================================================================
