----------------------------- MODULE AgentProofs -----------------------------
(***************************************************************************)
(* Proofs about AgentExecutor for any finite set of tasks, any plan and    *)
(* dependencies over it, and any number of attempts: Kahn's algorithm      *)
(* accepts exactly the plans that can be ordered, and the loop over its    *)
(* result respects that order.                                             *)
(***************************************************************************)
EXTENDS AgentExecutor, FiniteSetTheorems, SequenceTheorems, TLAPS

Img(s) == {s[i] : i \in 1 .. Len(s)}
Inj(s) == \A i, j \in 1 .. Len(s) : s[i] = s[j] => i = j

(***************************************************************************)
(* Sequences without repetition.                                           *)
(***************************************************************************)
LEMMA ImgType ==
  ASSUME NEW S, NEW s \in Seq(S)
  PROVE  Img(s) \subseteq S
BY ElementOfSeq DEF Img

LEMMA InjectiveCardinality ==
  ASSUME NEW S, NEW s \in Seq(S), Inj(s)
  PROVE  IsFiniteSet(Img(s)) /\ Cardinality(Img(s)) = Len(s)
<1>1. Len(s) \in Nat /\ s \in [1 .. Len(s) -> S]
  BY LenProperties
<1>2. s \in Bijection(1 .. Len(s), Img(s))
  BY <1>1 DEF Img, Inj, Bijection, Injection, Surjection, IsInjective
<1>3. ExistsBijection(1 .. Len(s), Img(s))
  BY <1>2 DEF ExistsBijection
<1> QED
  BY <1>1, <1>3, FS_CountingElements, FS_NatBijection

LEMMA SetToSeqsProperties ==
  ASSUME NEW S, IsFiniteSet(S), NEW s \in SetToSeqs(S)
  PROVE  s \in Seq(S) /\ Inj(s) /\ Img(s) = S
<1> DEFINE n == Cardinality(S)
<1>1. n \in Nat
  BY FS_CardinalityType
<1> HIDE DEF n
<1>2. s \in [1 .. n -> S] /\ \A i, j \in 1 .. n : i # j => s[i] # s[j]
  BY DEF SetToSeqs, n
<1>3. s \in Seq(S) /\ Len(s) = n
  BY <1>1, <1>2, SeqDef, LenProperties
<1>4. Inj(s)
  BY <1>2, <1>3 DEF Inj
<1>5. Cardinality(Img(s)) = n
  BY <1>3, <1>4, InjectiveCardinality
<1>6. Img(s) \in SUBSET S
  BY <1>3, ImgType
<1> QED
  BY <1>3, <1>4, <1>5, <1>6, FS_Subset DEF n

LEMMA AppendImage ==
  ASSUME NEW S, NEW s \in Seq(S), NEW t \in S
  PROVE  /\ Img(Append(s, t)) = Img(s) \union {t}
         /\ Inj(s) /\ t \notin Img(s) => Inj(Append(s, t))
<1> DEFINE a == Append(s, t)
<1>1. /\ Len(s) \in Nat /\ Len(a) = Len(s) + 1
      /\ a[Len(s) + 1] = t /\ \A i \in 1 .. Len(s) : a[i] = s[i]
  BY LenProperties, AppendProperties
<1> HIDE DEF a
<1>2. Img(a) = Img(s) \union {t} /\ (Inj(s) /\ t \notin Img(s) => Inj(a))
  BY <1>1 DEF Img, Inj
<1> QED
  BY <1>2 DEF a

LEMMA HeadTailImage ==
  ASSUME NEW S, NEW s \in Seq(S), s # <<>>, Inj(s)
  PROVE  /\ Head(s) \in Img(s) /\ Inj(Tail(s))
         /\ Img(Tail(s)) = Img(s) \ {Head(s)}
<1> DEFINE r == Tail(s)
<1>1. /\ Len(s) \in Nat /\ Len(s) >= 1 /\ Head(s) = s[1]
      /\ Len(r) = Len(s) - 1 /\ \A i \in 1 .. Len(r) : r[i] = s[i + 1]
  BY LenProperties, HeadTailProperties, EmptySeq
<1> HIDE DEF r
<1>2. Head(s) \in Img(s)
  BY <1>1 DEF Img
<1>3. Inj(r)
  BY <1>1 DEF Inj
<1>4. ASSUME NEW x \in Img(r) PROVE x \in Img(s) /\ x # Head(s)
  <2>1. PICK i \in 1 .. Len(r) : x = r[i]
    BY DEF Img
  <2>2. i + 1 \in 1 .. Len(s) /\ x = s[i + 1] /\ i + 1 # 1 /\ 1 \in 1 .. Len(s)
    BY <1>1, <2>1
  <2> QED
    BY <1>1, <2>2 DEF Img, Inj
<1>5. ASSUME NEW x \in Img(s), x # Head(s) PROVE x \in Img(r)
  <2>1. PICK i \in 1 .. Len(s) : x = s[i]
    BY DEF Img
  <2>2. i - 1 \in 1 .. Len(r) /\ x = r[i - 1]
    BY <1>1, <1>5, <2>1
  <2> QED
    BY <2>2 DEF Img
<1> QED
  BY <1>2, <1>3, <1>4, <1>5 DEF r

LEMMA ConcatImage ==
  ASSUME NEW S, NEW s \in Seq(S), NEW r \in Seq(S)
  PROVE  /\ Img(s \o r) = Img(s) \union Img(r)
         /\ Inj(s) /\ Inj(r) /\ Img(s) \intersect Img(r) = {} => Inj(s \o r)
<1> DEFINE c == s \o r
           m == Len(s)
           n == Len(r)
<1>1. m \in Nat /\ n \in Nat
  BY LenProperties
<1>2. /\ Len(c) = m + n
      /\ \A i \in 1 .. m + n : c[i] = IF i <= m THEN s[i] ELSE r[i - m]
  BY ConcatProperties
<1> HIDE DEF c, m, n
<1>3. ASSUME NEW i \in 1 .. Len(c)
      PROVE  \/ i \in 1 .. m /\ c[i] = s[i] /\ c[i] \in Img(s)
             \/ i - m \in 1 .. n /\ c[i] = r[i - m] /\ c[i] \in Img(r)
  BY <1>1, <1>2 DEF Img, m, n
<1>4. ASSUME NEW i \in 1 .. m PROVE i \in 1 .. Len(c) /\ c[i] = s[i]
  BY <1>1, <1>2
<1>5. ASSUME NEW i \in 1 .. n PROVE i + m \in 1 .. Len(c) /\ c[i + m] = r[i]
  BY <1>1, <1>2
<1>6. Img(c) \subseteq Img(s) \union Img(r)
  BY <1>3 DEF Img
<1>7. Img(s) \subseteq Img(c)
  BY <1>4 DEF Img, m
<1>8. Img(r) \subseteq Img(c)
  BY <1>5 DEF Img, n
<1>9. ASSUME Inj(s), Inj(r), Img(s) \intersect Img(r) = {} PROVE Inj(c)
  <2> SUFFICES ASSUME NEW i \in 1 .. Len(c), NEW j \in 1 .. Len(c), c[i] = c[j]
               PROVE  i = j
    BY DEF Inj
  <2>1. CASE i \in 1 .. m /\ c[i] = s[i] /\ c[i] \in Img(s)
    <3>1. j \in 1 .. m /\ c[j] = s[j]
      BY <1>3, <1>9, <2>1
    <3> QED
      BY <1>9, <2>1, <3>1 DEF Inj, m
  <2>2. CASE i - m \in 1 .. n /\ c[i] = r[i - m] /\ c[i] \in Img(r)
    <3>1. j - m \in 1 .. n /\ c[j] = r[j - m]
      BY <1>3, <1>9, <2>2
    <3>2. i - m = j - m
      BY <1>9, <2>2, <3>1 DEF Inj, n
    <3>3. i \in Int /\ j \in Int
      OBVIOUS
    <3> QED
      BY <1>1, <3>2, <3>3
  <2> QED
    BY <1>3, <2>1, <2>2
<1> QED
  BY <1>6, <1>7, <1>8, <1>9 DEF c

-----------------------------------------------------------------------------
(***************************************************************************)
(* Kahn's algorithm, for a queue q, an order o and in-degrees d: q and o   *)
(* hold, without repetition, exactly the tasks whose dependencies are all  *)
(* in o; d counts those that are missing; o is in order, and therefore no  *)
(* part of it depends on itself.                                           *)
(***************************************************************************)
InputOK == plan \in SUBSET Tasks /\ deps \in [plan -> SUBSET Tasks]

NoCycleIn(T) == \A S \in SUBSET T : S # {} => \E t \in S : deps[t] \intersect S = {}

KahnTypes(q, o, d) ==
  /\ q \in Seq(plan) /\ o \in Seq(plan) /\ d \in [plan -> Nat]
  /\ Inj(q) /\ Inj(o) /\ Img(q) \intersect Img(o) = {}

InOrderSoFar(o) == \A m \in 1 .. Len(o) : deps[o[m]] \subseteq {o[n] : n \in 1 .. m - 1}

KahnInv(q, o, d) ==
  /\ KahnTypes(q, o, d)
  /\ \A c \in plan : d[c] = Cardinality(deps[c] \ Img(o))
  /\ \A c \in plan : c \in Img(q) \union Img(o) <=> deps[c] \subseteq Img(o)
  /\ NoCycleIn(Img(o))
  /\ InOrderSoFar(o)

LEMMA MissingIsFinite ==
  ASSUME InputOK, NEW c \in plan, NEW T
  PROVE  /\ IsFiniteSet(plan) /\ IsFiniteSet(deps[c] \ T)
         /\ Cardinality(deps[c] \ T) \in Nat
<1>1. plan \in SUBSET Tasks /\ deps[c] \ T \in SUBSET Tasks /\ IsFiniteSet(Tasks)
  BY AgentAssumption DEF InputOK
<1>2. IsFiniteSet(plan) /\ IsFiniteSet(deps[c] \ T)
  BY <1>1, FS_Subset
<1> QED
  BY <1>2, FS_CardinalityType

LEMMA PlanIsFinite == InputOK => IsFiniteSet(plan) /\ Cardinality(plan) \in Nat
BY AgentAssumption, FS_Subset, FS_CardinalityType DEF InputOK

LEMMA KahnStart ==
  ASSUME InputOK, NEW q \in SetToSeqs({t \in plan : deps[t] = {}})
  PROVE  KahnInv(q, <<>>, [t \in plan |-> Cardinality(deps[t])])
<1> DEFINE R == {t \in plan : deps[t] = {}}
           d == [t \in plan |-> Cardinality(deps[t])]
<1>1. IsFiniteSet(R)
  <2>1. R \in SUBSET plan
    OBVIOUS
  <2> HIDE DEF R
  <2> QED
    BY <2>1, PlanIsFinite, FS_Subset
<1>2. q \in Seq(R) /\ Inj(q) /\ Img(q) = R
  <2> HIDE DEF R
  <2>1. q \in SetToSeqs(R)
    BY DEF R
  <2> QED
    BY <1>1, <2>1, SetToSeqsProperties
<1>3. q \in Seq(plan)
  BY <1>2, SeqMonotonic
<1>4. <<>> \in Seq(plan) /\ Img(<<>>) = {} /\ Inj(<<>>) /\ InOrderSoFar(<<>>)
  BY EmptySeq DEF Img, Inj, InOrderSoFar
<1>5. \A c \in plan : Cardinality(deps[c]) \in Nat /\ deps[c] \ {} = deps[c]
  <2> TAKE c \in plan
  <2>1. deps[c] \ {} = deps[c]
    OBVIOUS
  <2> QED
    BY <2>1, MissingIsFinite
<1>6. d \in [plan -> Nat]
  BY <1>5
<1>7. KahnTypes(q, <<>>, d)
  BY <1>2, <1>3, <1>4, <1>6 DEF KahnTypes
<1>8. \A c \in plan : d[c] = Cardinality(deps[c] \ Img(<<>>))
  BY <1>4, <1>5
<1>9. \A c \in plan : c \in Img(q) \union Img(<<>>) <=> deps[c] \subseteq Img(<<>>)
  BY <1>2, <1>4
<1>10. NoCycleIn(Img(<<>>))
  BY <1>4 DEF NoCycleIn
<1> HIDE DEF d
<1> QED
  BY <1>4, <1>7, <1>8, <1>9, <1>10 DEF KahnInv, d

LEMMA KahnStep ==
  ASSUME InputOK, NEW q, NEW o, NEW d, KahnInv(q, o, d), q # <<>>,
         NEW r \in SetToSeqs({c \in Children(Head(q)) : d[c] = 1})
  PROVE  KahnInv(Tail(q) \o r, Append(o, Head(q)),
           [c \in plan |-> d[c] - (IF c \in Children(Head(q)) THEN 1 ELSE 0)])
<1> DEFINE t == Head(q)
           R == {c \in Children(t) : d[c] = 1}
           e == [c \in plan |-> d[c] - (IF c \in Children(t) THEN 1 ELSE 0)]
           p == Tail(q) \o r
           a == Append(o, t)
<1>1. /\ q \in Seq(plan) /\ o \in Seq(plan) /\ d \in [plan -> Nat]
      /\ Inj(q) /\ Inj(o) /\ Img(q) \intersect Img(o) = {}
  BY DEF KahnInv, KahnTypes
<1>2. /\ t \in plan /\ t \in Img(q) /\ t \notin Img(o)
      /\ Tail(q) \in Seq(plan) /\ Inj(Tail(q)) /\ Img(Tail(q)) = Img(q) \ {t}
  BY <1>1, HeadTailImage, HeadTailProperties
<1>3. R \subseteq plan /\ \A c \in R : t \in deps[c] /\ d[c] = 1
  BY DEF Children
<1>4. \A c \in plan : c \in Children(t) <=> t \in deps[c]
  BY DEF Children
<1>5. IsFiniteSet(R)
  <2> HIDE DEF R
  <2> QED
    BY <1>3, PlanIsFinite, FS_Subset
<1>6. r \in Seq(plan) /\ Inj(r) /\ Img(r) = R
  <2>1. r \in SetToSeqs(R)
    OBVIOUS
  <2> HIDE DEF R
  <2>2. r \in Seq(R) /\ Inj(r) /\ Img(r) = R
    BY <1>5, <2>1, SetToSeqsProperties
  <2> QED
    BY <1>3, <2>2, SeqMonotonic
<1>7. /\ a \in Seq(plan) /\ Len(a) = Len(o) + 1 /\ a[Len(o) + 1] = t /\ Len(o) \in Nat
      /\ \A i \in 1 .. Len(o) : a[i] = o[i]
      /\ Img(a) = Img(o) \union {t} /\ Inj(a)
  BY <1>1, <1>2, AppendProperties, AppendImage, LenProperties
<1>8. ASSUME NEW c \in plan
      PROVE  c \in R <=> deps[c] \ Img(o) = {t}
  <2>1. IsFiniteSet(deps[c] \ Img(o)) /\ d[c] = Cardinality(deps[c] \ Img(o))
    BY MissingIsFinite DEF KahnInv
  <2>2. d[c] = 1 <=> \E x : deps[c] \ Img(o) = {x}
    BY <2>1, FS_Singleton
  <2>3. c \in R <=> t \in deps[c] /\ d[c] = 1
    BY <1>4
  <2> HIDE DEF R, t
  <2> QED
    BY <1>2, <2>2, <2>3
<1>9. \A c \in plan : c \in Img(q) \union Img(o) <=> deps[c] \subseteq Img(o)
  BY DEF KahnInv
<1> HIDE DEF R, t, p, a, e
<1>10. R \intersect (Img(q) \union Img(o)) = {}
  BY <1>3, <1>8, <1>9
<1>11. p \in Seq(plan) /\ Inj(p) /\ Img(p) = (Img(q) \ {t}) \union R
  <2>1. Img(Tail(q)) \intersect Img(r) = {}
    BY <1>2, <1>6, <1>10
  <2>2. p \in Seq(plan)
    BY <1>2, <1>6, ConcatProperties DEF p
  <2>3. /\ Img(p) = Img(Tail(q)) \union Img(r)
        /\ Inj(Tail(q)) /\ Inj(r) /\ Img(Tail(q)) \intersect Img(r) = {} => Inj(p)
    BY <1>2, <1>6, ConcatImage DEF p
  <2> QED
    BY <1>2, <1>6, <2>1, <2>2, <2>3
<1>12. ASSUME NEW c \in plan
       PROVE  e[c] \in Nat /\ e[c] = Cardinality(deps[c] \ Img(a))
  <2> DEFINE K == deps[c] \ Img(o)
  <2>1. d[c] = Cardinality(K) /\ d[c] \in Nat
    BY <1>1 DEF KahnInv
  <2>2. e[c] = d[c] - (IF t \in deps[c] THEN 1 ELSE 0)
    BY <1>4 DEF e
  <2>3. deps[c] \ Img(a) = K \ {t} /\ (t \in K <=> t \in deps[c])
    BY <1>2, <1>7
  <2>4. IsFiniteSet(K)
    BY MissingIsFinite
  <2> HIDE DEF K
  <2>5. Cardinality(K \ {t}) = IF t \in K THEN Cardinality(K) - 1 ELSE Cardinality(K)
    BY <2>4, FS_RemoveElement
  <2>6. ASSUME t \in K PROVE e[c] = Cardinality(K \ {t})
    BY <2>1, <2>2, <2>3, <2>5, <2>6
  <2>7. ASSUME t \notin K PROVE e[c] = Cardinality(K \ {t})
    <3>1. e[c] = d[c] /\ Cardinality(K \ {t}) = Cardinality(K)
      BY <2>1, <2>2, <2>3, <2>5, <2>7
    <3> QED
      BY <2>1, <3>1
  <2>8. e[c] = Cardinality(deps[c] \ Img(a))
    BY <2>3, <2>6, <2>7
  <2> QED
    BY <2>8, MissingIsFinite
<1>13. e \in [plan -> Nat]
  BY <1>12 DEF e
<1>14. KahnTypes(p, a, e)
  <2>1. Img(p) \intersect Img(a) = {}
    BY <1>1, <1>2, <1>7, <1>10, <1>11
  <2> QED
    BY <1>7, <1>11, <1>13, <2>1 DEF KahnTypes
<1>15. ASSUME NEW c \in plan
       PROVE  c \in Img(p) \union Img(a) <=> deps[c] \subseteq Img(a)
  <2>1. c \in Img(p) \union Img(a) <=> c \in Img(q) \union Img(o) \/ c \in R
    BY <1>2, <1>7, <1>11
  <2>2. deps[c] \subseteq Img(a) <=> deps[c] \subseteq Img(o) \/ deps[c] \ Img(o) = {t}
    BY <1>7
  <2> QED
    BY <1>8, <1>9, <2>1, <2>2
<1>16. deps[t] \subseteq Img(o)
  BY <1>2, <1>9
<1>17. NoCycleIn(Img(a))
  <2> SUFFICES ASSUME NEW S \in SUBSET (Img(o) \union {t}), S # {}
               PROVE  \E u \in S : deps[u] \intersect S = {}
    BY <1>7 DEF NoCycleIn
  <2>1. CASE S = {t}
    BY <1>2, <1>16, <2>1
  <2>2. CASE S # {t}
    <3>1. S \ {t} \in SUBSET Img(o) /\ S \ {t} # {}
      BY <2>2
    <3>2. PICK u \in S \ {t} : deps[u] \intersect (S \ {t}) = {}
      BY <3>1 DEF KahnInv, NoCycleIn
    <3>3. u \in Img(o) /\ u \in plan
      BY <1>1, <3>1, <3>2, ImgType
    <3>4. t \notin deps[u]
      BY <1>2, <1>9, <3>3
    <3> QED
      BY <3>2, <3>4
  <2> QED
    BY <2>1, <2>2
<1>18. InOrderSoFar(a)
  <2> SUFFICES ASSUME NEW m \in 1 .. Len(o) + 1
               PROVE  deps[a[m]] \subseteq {a[n] : n \in 1 .. m - 1}
    BY <1>7 DEF InOrderSoFar
  <2>1. m \in Nat /\ \A n \in 1 .. m - 1 : n \in 1 .. Len(o) /\ a[n] = o[n]
    BY <1>7
  <2>2. {a[n] : n \in 1 .. m - 1} = {o[n] : n \in 1 .. m - 1}
    BY <2>1
  <2>3. CASE m \in 1 .. Len(o)
    <3>1. a[m] = o[m] /\ deps[o[m]] \subseteq {o[n] : n \in 1 .. m - 1}
      BY <1>7, <2>3 DEF KahnInv, InOrderSoFar
    <3> QED
      BY <2>2, <3>1
  <2>4. CASE m = Len(o) + 1
    <3>1. a[m] = t /\ {o[n] : n \in 1 .. m - 1} = Img(o)
      BY <1>7, <2>4 DEF Img
    <3> QED
      BY <1>16, <2>2, <3>1
  <2> QED
    BY <1>7, <2>3, <2>4
<1> QED
  BY <1>12, <1>14, <1>15, <1>17, <1>18 DEF KahnInv, p, a, e, t

-----------------------------------------------------------------------------
(***************************************************************************)
(* The invariant of the sorting phase, and what remains of it afterwards.  *)
(***************************************************************************)
Ready == {"run", "evaluate", "done"}

SortInv ==
  /\ InputOK /\ phase \in Ready \union {"call", "sort", "rejected"}
  /\ queue \in Seq(plan) /\ out \in Seq(plan) /\ inDeg \in [plan -> Nat]
  /\ phase = "rejected" => ~(Acceptable /\ Acyclic)
  /\ phase = "call" => out = <<>>
  /\ phase = "sort" => Acceptable /\ KahnInv(queue, out, inDeg)
  /\ phase \in Ready => Acceptable /\ KahnInv(queue, out, inDeg) /\ Img(out) = plan

LEMMA SortStarts == Init => SortInv
<1> SUFFICES ASSUME Init PROVE SortInv
  OBVIOUS
<1>1. queue \in Seq(plan) /\ out \in Seq(plan)
  BY EmptySeq DEF Init
<1>2. inDeg \in [plan -> Nat]
  BY DEF Init
<1> QED
  BY <1>1, <1>2 DEF Init, SortInv, InputOK, Ready

LEMMA SortedDecides ==
  ASSUME SortInv, phase = "sort", queue = <<>>
  PROVE  /\ Len(out) = Cardinality(plan) => Img(out) = plan
         /\ Len(out) # Cardinality(plan) => ~Acyclic
<1>1. /\ KahnInv(queue, out, inDeg) /\ KahnTypes(queue, out, inDeg)
      /\ out \in Seq(plan) /\ Inj(out) /\ Acceptable /\ InputOK
  BY DEF SortInv, KahnInv, KahnTypes
<1>2. Img(out) \in SUBSET plan /\ Cardinality(Img(out)) = Len(out) /\ IsFiniteSet(plan)
  BY <1>1, ImgType, InjectiveCardinality, PlanIsFinite
<1>3. Len(out) = Cardinality(plan) => Img(out) = plan
  BY <1>2, FS_Subset
<1>4. \A c \in plan : deps[c] \subseteq Img(out) => c \in Img(out)
  <2>1. Img(queue) = {}
    BY EmptySeq DEF Img
  <2> QED
    BY <1>1, <2>1 DEF KahnInv
<1>5. ASSUME Len(out) # Cardinality(plan), Acyclic PROVE FALSE
  <2> DEFINE S == plan \ Img(out)
  <2>1. Img(out) # plan
    BY <1>2, <1>5
  <2>2. S \in SUBSET plan /\ S # {}
    BY <1>2, <2>1
  <2>3. PICK t \in S : deps[t] \intersect S = {}
    BY <1>5, <2>2 DEF Acyclic
  <2>4. deps[t] \subseteq plan
    BY <1>1, <2>3 DEF Acceptable
  <2> QED
    BY <1>4, <2>3, <2>4
<1> QED
  BY <1>3, <1>5

LEMMA SortGoesOn == SortInv /\ [Next]_vars => SortInv'
<1> SUFFICES ASSUME SortInv, [Next]_vars PROVE SortInv'
  OBVIOUS
<1>1. ASSUME UNCHANGED inputVars
      PROVE  /\ plan' = plan /\ deps' = deps /\ InputOK'
             /\ Acceptable' = Acceptable /\ Acyclic' = Acyclic
  BY <1>1 DEF inputVars, SortInv, InputOK, Acceptable, Acyclic
<1>2. ASSUME UNCHANGED inputVars, KahnInv(queue', out', inDeg')
      PROVE  /\ KahnInv(queue, out, inDeg)'
             /\ (queue \in Seq(plan) /\ out \in Seq(plan) /\ inDeg \in [plan -> Nat])'
  <2>1. plan' = plan /\ deps' = deps
    BY <1>1, <1>2
  <2>2. Img(out') = Img(out)' /\ Img(queue') = Img(queue)'
    BY DEF Img
  <2>3. KahnTypes(queue, out, inDeg)'
    BY <1>2, <2>1, <2>2 DEF KahnInv, KahnTypes, Inj
  <2>4. (\A c \in plan : inDeg[c] = Cardinality(deps[c] \ Img(out)))'
    BY <1>2, <2>1, <2>2 DEF KahnInv
  <2>5. (\A c \in plan : c \in Img(queue) \union Img(out) <=> deps[c] \subseteq Img(out))'
    BY <1>2, <2>1, <2>2 DEF KahnInv
  <2>6. NoCycleIn(Img(out))'
    BY <1>2, <2>1, <2>2 DEF KahnInv, NoCycleIn
  <2>7. InOrderSoFar(out)'
    BY <1>2, <2>1 DEF KahnInv, InOrderSoFar
  <2> QED
    BY <2>3, <2>4, <2>5, <2>6, <2>7 DEF KahnInv, KahnTypes
<1>3. CASE Reject
  BY <1>1, <1>3 DEF Reject, SortInv, sortVars, Ready
<1>4. CASE Count
  <2>1. /\ phase = "call" /\ phase' = "sort" /\ out' = <<>> /\ Acceptable
        /\ UNCHANGED inputVars
        /\ queue' \in SetToSeqs({t \in plan : deps[t] = {}})
        /\ inDeg' = [t \in plan |-> Cardinality(deps[t])]
    BY <1>4 DEF Count, SortInv
  <2>2. KahnInv(queue', out', inDeg')
    BY <2>1, KahnStart DEF SortInv
  <2>3. /\ KahnInv(queue, out, inDeg)'
        /\ (queue \in Seq(plan) /\ out \in Seq(plan) /\ inDeg \in [plan -> Nat])'
    BY <1>2, <2>1, <2>2
  <2> QED
    BY <1>1, <2>1, <2>3 DEF SortInv, Ready
<1>5. CASE TakeReady
  <2>1. /\ phase = "sort" /\ phase' = "sort" /\ UNCHANGED inputVars
        /\ Acceptable /\ KahnInv(queue, out, inDeg) /\ InputOK
    BY <1>5 DEF TakeReady, SortInv
  <2>2. KahnInv(queue', out', inDeg')
    BY <1>5, <2>1, KahnStep DEF TakeReady
  <2>3. /\ KahnInv(queue, out, inDeg)'
        /\ (queue \in Seq(plan) /\ out \in Seq(plan) /\ inDeg \in [plan -> Nat])'
    BY <1>2, <2>1, <2>2
  <2> QED
    BY <1>1, <2>1, <2>3 DEF SortInv, Ready
<1>6. CASE Sorted
  <2>1. /\ phase = "sort" /\ queue = <<>> /\ UNCHANGED inputVars /\ UNCHANGED sortVars
        /\ phase' \in {"rejected", "done", "run"}
        /\ phase' = "rejected" <=> Len(out) # Cardinality(plan)
    BY <1>6 DEF Sorted
  <2>2. queue' = queue /\ out' = out /\ inDeg' = inDeg
    BY <2>1 DEF sortVars
  <2>3. Acceptable /\ KahnInv(queue, out, inDeg)
    BY <2>1 DEF SortInv
  <2>4. KahnInv(queue, out, inDeg)'
    BY <1>2, <2>1, <2>2, <2>3
  <2>5. phase' = "rejected" => ~(Acceptable' /\ Acyclic')
    BY <1>1, <2>1, SortedDecides
  <2>6. phase' \in Ready => Img(out)' = plan'
    BY <1>1, <2>1, <2>2, SortedDecides DEF Ready, Img
  <2>7. (queue \in Seq(plan) /\ out \in Seq(plan) /\ inDeg \in [plan -> Nat])'
    BY <2>4 DEF KahnInv, KahnTypes
  <2> QED
    BY <1>1, <2>1, <2>3, <2>4, <2>5, <2>6, <2>7 DEF SortInv, Ready
<1>7. CASE RunTask \/ Evaluate \/ UNCHANGED vars
  <2>1. /\ UNCHANGED inputVars /\ UNCHANGED sortVars
        /\ phase' = phase \/ (phase \in Ready /\ phase' \in Ready)
    <3>1. CASE RunTask
      BY <3>1 DEF RunTask, Fail, Succeed, Report, Ready
    <3>2. CASE Evaluate
      BY <3>2 DEF Evaluate, Fail, Succeed, Report, RejectOutput, Ready
    <3> QED
      BY <1>7, <3>1, <3>2 DEF vars
  <2>2. queue' = queue /\ out' = out /\ inDeg' = inDeg
    BY <2>1 DEF sortVars
  <2>3. KahnInv(queue, out, inDeg) => KahnInv(queue, out, inDeg)'
    BY <1>2, <2>1, <2>2
  <2>4. Img(out)' = Img(out)
    BY <2>2 DEF Img
  <2> QED
    BY <1>1, <2>1, <2>2, <2>3, <2>4 DEF SortInv, Ready
<1> QED
  BY <1>3, <1>4, <1>5, <1>6, <1>7 DEF Next

LEMMA SortInvariant == Spec => []SortInv
BY SortStarts, SortGoesOn, PTL DEF Spec

(***************************************************************************)
(* KahnAccepts: Run rejects a plan exactly when it is too large,           *)
(* malformed, or cannot be ordered, whatever the order of Go's maps.       *)
(***************************************************************************)
THEOREM KahnAccepts == Spec => []AcceptsExactly
<1>1. SortInv => AcceptsExactly
  <2> SUFFICES ASSUME SortInv, phase \in Ready PROVE Acyclic
    BY DEF SortInv, AcceptsExactly, Ready
  <2>1. NoCycleIn(plan)
    BY DEF SortInv, KahnInv
  <2> QED
    BY <2>1 DEF NoCycleIn, Acyclic
<1> QED
  BY <1>1, SortInvariant, PTL

-----------------------------------------------------------------------------
(***************************************************************************)
(* The loop over the ordered tasks: what has been reported is a beginning  *)
(* of out, outputs and feedback agree with it.                             *)
(***************************************************************************)
ReportLine == [task : plan, status : {"succeeded", "failed"}]

ReportSoFar ==
  /\ results \in Seq(ReportLine) /\ Len(results) <= Len(out)
  /\ \A n \in 1 .. Len(results) : results[n].task = out[n]
  /\ phase \in {"call", "sort"} => results = <<>>
  /\ phase \in {"run", "evaluate"} => Len(results) < Len(out)
  /\ phase = "done" => \/ Len(results) = Len(out)
                       \/ stopOnError /\ Last(results).status = "failed"

StateSoFar ==
  /\ outputs \subseteq plan /\ feedback \subseteq plan /\ approved \subseteq plan
  /\ outputs = Succeeded /\ feedback \intersect Succeeded = {}

AttemptsSoFar ==
  /\ attempts \in 0 .. MaxAttempts
  /\ phase \in {"call", "sort"} => attempts = 0
  /\ phase = "run" => attempts < MaxAttempts /\ (attempts > 0 => Current \in feedback)

RunInv == ReportSoFar /\ StateSoFar /\ AttemptsSoFar

LEMMA RunStarts == Init => RunInv
<1> SUFFICES ASSUME Init PROVE RunInv
  OBVIOUS
<1>1. results = <<>> /\ results \in Seq(ReportLine) /\ Len(results) = 0 /\ out = <<>>
  BY EmptySeq DEF Init
<1>2. Succeeded = {}
  BY <1>1 DEF Succeeded
<1> QED
  BY <1>1, <1>2, AgentAssumption DEF Init, RunInv, ReportSoFar, StateSoFar, AttemptsSoFar

LEMMA CurrentIsNew ==
  ASSUME SortInv, RunInv, phase \in {"run", "evaluate"}
  PROVE  /\ Current \in plan /\ Current \notin Reported /\ Current \notin Succeeded
         /\ Reported = {out[n] : n \in 1 .. Len(results)}
<1>1. /\ Len(results) \in Nat /\ Len(out) \in Nat /\ Len(results) < Len(out)
      /\ out \in Seq(plan) /\ Inj(out)
  BY LenProperties DEF SortInv, KahnInv, KahnTypes, Ready, RunInv, ReportSoFar
<1>2. Len(results) + 1 \in 1 .. Len(out) /\ 1 .. Len(results) \subseteq 1 .. Len(out)
  BY <1>1
<1>3. Current \in plan
  BY <1>1, <1>2, ElementOfSeq DEF Current
<1>4. Reported = {out[n] : n \in 1 .. Len(results)}
  BY DEF Reported, RunInv, ReportSoFar
<1>5. ASSUME NEW n \in 1 .. Len(results) PROVE out[n] # Current
  <2>1. n # Len(results) + 1
    BY <1>1
  <2> QED
    BY <1>1, <1>2, <2>1 DEF Current, Inj
<1>6. Succeeded \subseteq Reported
  BY DEF Succeeded, Reported
<1> QED
  BY <1>3, <1>4, <1>5, <1>6

(***************************************************************************)
(* One more line in the report.                                            *)
(***************************************************************************)
LEMMA ReportGrows ==
  ASSUME SortInv, RunInv, phase \in {"run", "evaluate"},
         NEW status \in {"succeeded", "failed"}, NEW stop,
         Report(status, stop), UNCHANGED <<inputVars, sortVars>>,
         stop => stopOnError /\ status = "failed"
  PROVE  /\ ReportSoFar' /\ AttemptsSoFar'
         /\ Succeeded' = IF status = "succeeded" THEN Succeeded \union {Current}
                                                 ELSE Succeeded
<1> DEFINE line == [task |-> Current, status |-> status]
           old == results
<1>1. /\ old \in Seq(ReportLine) /\ Len(old) \in Nat /\ Len(old) < Len(out) /\ Len(out) \in Nat
      /\ line \in ReportLine
  BY CurrentIsNew, LenProperties DEF RunInv, ReportSoFar, SortInv, ReportLine
<1>2. /\ results' = Append(old, line) /\ attempts' = 0
      /\ phase' \in {"run", "done"}
      /\ phase' = "done" <=> stop \/ Len(old) + 1 = Len(out)
      /\ plan' = plan /\ out' = out /\ stopOnError' = stopOnError
  BY DEF Report, inputVars, sortVars
<1>3. /\ results' \in Seq(ReportLine) /\ Len(results') = Len(old) + 1
      /\ results'[Len(old) + 1] = line
      /\ \A n \in 1 .. Len(old) : results'[n] = old[n]
  BY <1>1, <1>2, AppendProperties
<1>4. \A n \in 1 .. Len(old) + 1 : results'[n].task = out[n]
  <2> TAKE n \in 1 .. Len(old) + 1
  <2>1. CASE n \in 1 .. Len(old)
    BY <1>3, <2>1 DEF RunInv, ReportSoFar
  <2>2. CASE n = Len(old) + 1
    BY <1>3, <2>2 DEF Current
  <2> QED
    BY <1>1, <2>1, <2>2
<1>5. ReportSoFar'
  <2>1. ReportLine' = ReportLine
    BY <1>2 DEF ReportLine
  <2>2. phase' = "run" => Len(results') < Len(out)
    BY <1>1, <1>2, <1>3
  <2>3. phase' = "done" => \/ Len(results') = Len(out)
                           \/ stopOnError /\ results'[Len(results')].status = "failed"
    BY <1>1, <1>2, <1>3
  <2> QED
    BY <1>1, <1>2, <1>3, <1>4, <2>1, <2>2, <2>3 DEF ReportSoFar, Last
<1>6. AttemptsSoFar'
  BY <1>2, AgentAssumption DEF AttemptsSoFar
<1> DEFINE A == {m \in 1 .. Len(old) : old[m].status = "succeeded"}
           B == {m \in 1 .. Len(old) + 1 : results'[m].status = "succeeded"}
<1>7. /\ Succeeded = {old[n].task : n \in A}
      /\ Succeeded' = {results'[n].task : n \in B}
      /\ \A n \in A : results'[n] = old[n]
      /\ results'[Len(old) + 1].task = Current
  BY <1>3 DEF Succeeded
<1>8. B = IF status = "succeeded" THEN A \union {Len(old) + 1} ELSE A
  BY <1>1, <1>3
<1> HIDE DEF A, B
<1>9. Succeeded' = IF status = "succeeded" THEN Succeeded \union {Current} ELSE Succeeded
  BY <1>7, <1>8
<1> QED
  BY <1>5, <1>6, <1>9

LEMMA FailKeeps ==
  ASSUME SortInv, RunInv, phase \in {"run", "evaluate"}, Fail,
         UNCHANGED <<inputVars, sortVars, approved>>
  PROVE  RunInv'
<1>1. ReportSoFar' /\ AttemptsSoFar' /\ Succeeded' = Succeeded
  BY ReportGrows DEF Fail
<1>2. StateSoFar'
  BY <1>1 DEF Fail, RunInv, StateSoFar, inputVars
<1> QED
  BY <1>1, <1>2 DEF RunInv

LEMMA SucceedKeeps ==
  ASSUME SortInv, RunInv, phase \in {"run", "evaluate"}, Succeed,
         UNCHANGED <<inputVars, sortVars>>, approved' \subseteq approved \union {Current}
  PROVE  RunInv'
<1>1. ReportSoFar' /\ AttemptsSoFar' /\ Succeeded' = Succeeded \union {Current}
  BY ReportGrows DEF Succeed
<1>2. StateSoFar'
  BY <1>1, CurrentIsNew DEF Succeed, RunInv, StateSoFar, inputVars
<1> QED
  BY <1>1, <1>2 DEF RunInv

LEMMA RunGoesOn == SortInv /\ RunInv /\ [Next]_vars => RunInv'
<1> SUFFICES ASSUME SortInv, RunInv, [Next]_vars PROVE RunInv'
  OBVIOUS
<1>1. ASSUME UNCHANGED <<inputVars, runVars>>, out' = out,
             phase \in {"call", "sort"}, phase' \in {"sort", "rejected", "run", "done"},
             phase' = "run" => Len(out) > 0, phase' = "done" => Len(out) = 0
      PROVE  RunInv'
  <2>1. /\ results = <<>> /\ Len(results) = 0 /\ attempts = 0 /\ results' = results
        /\ attempts' = 0
    BY <1>1, EmptySeq DEF RunInv, ReportSoFar, AttemptsSoFar, runVars
  <2>2. ReportSoFar'
    BY <1>1, <2>1 DEF RunInv, ReportSoFar, ReportLine, inputVars
  <2>3. Succeeded' = Succeeded
    BY <2>1 DEF Succeeded
  <2>4. StateSoFar'
    BY <1>1, <2>3 DEF RunInv, StateSoFar, inputVars, runVars
  <2>5. AttemptsSoFar'
    BY <1>1, <2>1, AgentAssumption DEF AttemptsSoFar
  <2> QED
    BY <2>2, <2>4, <2>5 DEF RunInv
<1>2. CASE Reject \/ Count
  BY <1>1, <1>2 DEF Reject, Count, sortVars
<1>3. CASE TakeReady
  <2>1. /\ phase = "sort" /\ phase' = "sort" /\ UNCHANGED <<inputVars, runVars>>
        /\ results = <<>> /\ Len(results) = 0 /\ results' = results
    BY <1>3, EmptySeq DEF TakeReady, RunInv, ReportSoFar, runVars
  <2>2. Len(out') \in Nat
    BY SortGoesOn, LenProperties DEF SortInv
  <2>3. Succeeded' = Succeeded
    BY <2>1 DEF Succeeded
  <2>4. ReportSoFar'
    BY <2>1, <2>2 DEF RunInv, ReportSoFar, ReportLine, inputVars
  <2>5. StateSoFar' /\ AttemptsSoFar'
    BY <2>1, <2>3 DEF RunInv, StateSoFar, AttemptsSoFar, inputVars, runVars
  <2> QED
    BY <2>4, <2>5 DEF RunInv
<1>4. CASE Sorted
  <2>1. out = <<>> <=> Len(out) = 0
    BY EmptySeq DEF SortInv
  <2>2. Len(out) \in Nat
    BY LenProperties DEF SortInv
  <2> QED
    BY <1>1, <1>4, <2>1, <2>2 DEF Sorted, sortVars
<1>5. ASSUME phase \in {"run", "evaluate"}, phase' \in {"run", "evaluate"},
             UNCHANGED <<inputVars, sortVars, outputs, approved, results>>,
             feedback' \subseteq feedback \union {Current}, AttemptsSoFar'
      PROVE  RunInv'
  <2>1. Succeeded' = Succeeded /\ out' = out /\ plan' = plan
    BY <1>5 DEF Succeeded, sortVars, inputVars
  <2>2. ReportSoFar'
    BY <1>5, <2>1 DEF RunInv, ReportSoFar, ReportLine
  <2>3. StateSoFar'
    BY <1>5, <2>1, CurrentIsNew DEF RunInv, StateSoFar
  <2> QED
    BY <1>5, <2>2, <2>3 DEF RunInv
<1>6. CASE RunTask
  <2>1. phase = "run" /\ UNCHANGED <<inputVars, sortVars>>
    BY <1>6 DEF RunTask
  <2>2. CASE Fail /\ UNCHANGED approved
    BY <2>1, <2>2, FailKeeps
  <2>3. CASE Succeed /\ approved' = approved \union {Current}
    BY <2>1, <2>3, SucceedKeeps
  <2>4. CASE /\ phase' = "evaluate" /\ attempts' = attempts + 1
             /\ UNCHANGED <<outputs, feedback, approved, results>>
    <3>1. AttemptsSoFar'
      BY <2>1, <2>4, AgentAssumption DEF RunInv, AttemptsSoFar
    <3> QED
      BY <1>5, <2>1, <2>4, <3>1
  <2> QED
    BY <1>6, <2>2, <2>3, <2>4 DEF RunTask
<1>7. CASE Evaluate
  <2>1. phase = "evaluate" /\ UNCHANGED <<inputVars, sortVars>>
    BY <1>7 DEF Evaluate
  <2>2. CASE Fail /\ UNCHANGED approved
    BY <2>1, <2>2, FailKeeps
  <2>3. CASE Succeed /\ approved' \subseteq approved \union {Current}
    BY <2>1, <2>3, SucceedKeeps
  <2>4. CASE /\ attempts < MaxAttempts /\ feedback' = feedback \union {Current}
             /\ phase' = "run" /\ UNCHANGED <<attempts, outputs, results, approved>>
    <3>1. Current' = Current
      BY <2>1, <2>4 DEF Current, sortVars
    <3>2. AttemptsSoFar'
      BY <2>1, <2>4, <3>1 DEF RunInv, AttemptsSoFar
    <3> QED
      BY <1>5, <2>1, <2>4, <3>2
  <2> QED
    BY <1>7, <2>2, <2>3, <2>4 DEF Evaluate, RejectOutput
<1>8. CASE UNCHANGED vars
  BY <1>8 DEF vars, inputVars, sortVars, runVars, RunInv, ReportSoFar, StateSoFar,
              AttemptsSoFar, ReportLine, Succeeded, Current
<1> QED
  BY <1>2, <1>3, <1>4, <1>6, <1>7, <1>8 DEF Next

LEMMA RunInvariant == Spec => [](SortInv /\ RunInv)
BY SortInvariant, RunStarts, RunGoesOn, PTL DEF Spec

(***************************************************************************)
(* AgentTypes: every variable of Run keeps its type; in particular a task  *)
(* is attempted at most MaxAttempts times.                                 *)
(***************************************************************************)
THEOREM AgentTypes == Spec => []AgentTypeOK
<1>1. SortInv /\ RunInv => AgentTypeOK
  BY DEF SortInv, RunInv, ReportSoFar, StateSoFar, AttemptsSoFar, ReportLine,
         AgentTypeOK, Ready
<1> QED
  BY <1>1, RunInvariant, PTL

(***************************************************************************)
(* DependenciesFirst: no task is attempted before all of its dependencies  *)
(* have been reported, and none is attempted again once it is reported.    *)
(***************************************************************************)
THEOREM DependenciesFirst == Spec => []DepsFirst
<1>1. SortInv /\ RunInv => DepsFirst
  <2> SUFFICES ASSUME SortInv, RunInv, phase \in {"run", "evaluate"}
               PROVE  /\ Current \notin Reported /\ deps[Current] \subseteq Reported
                      /\ phase = "run" /\ attempts > 0 => Current \in feedback
    BY DEF DepsFirst
  <2>1. InOrderSoFar(out) /\ Len(results) + 1 \in 1 .. Len(out) /\ Len(results) \in Nat
    BY LenProperties DEF SortInv, KahnInv, Ready, RunInv, ReportSoFar
  <2>2. Len(results) + 1 - 1 = Len(results)
    BY <2>1
  <2>3. deps[Current] \subseteq {out[n] : n \in 1 .. Len(results)}
    BY <2>1, <2>2 DEF InOrderSoFar, Current
  <2> QED
    BY <2>3, CurrentIsNew DEF RunInv, AttemptsSoFar
<1> QED
  BY <1>1, RunInvariant, PTL

(***************************************************************************)
(* ReportAgrees: the report follows the order, agrees with outputs and     *)
(* feedback, and is complete unless StopOnError cut it off.                *)
(***************************************************************************)
THEOREM ReportAgrees == Spec => []ReportMatchesState
<1>1. RunInv => ReportMatchesState
  BY DEF RunInv, ReportSoFar, StateSoFar, ReportMatchesState
<1> QED
  BY <1>1, RunInvariant, PTL
=============================================================================
