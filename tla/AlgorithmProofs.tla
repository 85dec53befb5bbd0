-------------------------- MODULE AlgorithmProofs --------------------------
(***************************************************************************)
(* Proofs about the pure algorithms, for every input: the pairing of a     *)
(* captcha's clicks, the filter that a self-query is translated to, the    *)
(* one line that a rewritten query is cut to, the messages of a prompt,    *)
(* the query of a search request, the terms of an expanded query, and the  *)
(* values, the objects and the chunks of JSON that are read in an answer.  *)
(***************************************************************************)
EXTENDS Algorithms, SequenceFacts

-----------------------------------------------------------------------------
(***************************************************************************)
(* The clicks of a captcha.                                                *)
(***************************************************************************)
LEMMA DistanceIsNat ==
  ASSUME NEW p \in Points, NEW q \in Points
  PROVE  Distance(p, q) \in Nat
<1>1. \A x \in Int : x * x \in Nat
  OBVIOUS
<1>2. p[1] - q[1] \in Int /\ p[2] - q[2] \in Int
  BY DEF Points
<1> DEFINE dx == p[1] - q[1]  dy == p[2] - q[2]
<1>3. dx * dx \in Nat /\ dy * dy \in Nat
  BY <1>1, <1>2
<1>4. Distance(p, q) = dx * dx + dy * dy
  BY DEF Distance
<1> HIDE DEF dx, dy
<1> QED
  BY <1>3, <1>4

\* While an answer is left there is a nearest one.
LEMMA BestIsLeft ==
  ASSUME NEW answers \in Seq(Points), NEW point \in Points,
         NEW left, left \subseteq DOMAIN answers, left # {}
  PROVE  bestMatch(point, answers, left) \in left
<1> DEFINE Far(k) == Distance(answers[k], point)
           all == {Far(k) : k \in left}
<1>1. \A k \in left : k \in Nat /\ Far(k) \in Nat
  <2> SUFFICES ASSUME NEW k \in left PROVE k \in Nat /\ Far(k) \in Nat
    OBVIOUS
  <2>1. k \in 1 .. Len(answers) /\ Len(answers) \in Nat
    BY LenProperties
  <2>2. answers[k] \in Points
    BY <2>1, ElementOfSeq
  <2>3. Distance(answers[k], point) \in Nat
    BY <2>2, DistanceIsNat, Zenon
  <2>4. k \in Nat
    BY <2>1
  <2> QED
    BY <2>3, <2>4
<1> HIDE DEF Far
<1>2. all \subseteq Nat /\ all # {}
  BY <1>1
<1>3. PICK d \in all : \A e \in all : d <= e
  <2> HIDE DEF all
  <2> QED
    BY <1>2, LeastExists
<1> DEFINE nearest == {k \in left : Far(k) = d}
<1>4. nearest \subseteq Nat /\ nearest # {}
  BY <1>1
<1>5. PICK j \in nearest : \A k \in nearest : j <= k
  <2> HIDE DEF nearest
  <2> QED
    BY <1>4, LeastExists
<1>6. \A k \in left : Far(j) < Far(k) \/ (Far(j) = Far(k) /\ j <= k)
  <2> SUFFICES ASSUME NEW k \in left PROVE Far(j) < Far(k) \/ (Far(j) = Far(k) /\ j <= k)
    OBVIOUS
  <2>1. Far(j) = d /\ Far(j) \in Nat /\ Far(k) \in Nat
    BY <1>1, <1>5
  <2>2. d <= Far(k)
    BY <1>3
  <2>3. CASE Far(k) = d
    <3>1. k \in nearest
      BY <2>3
    <3> QED
      BY <1>5, <2>1, <2>3, <3>1
  <2> QED
    BY <2>1, <2>2, <2>3
<1>7. \E i \in left : \A k \in left :
        \/ Distance(answers[i], point) < Distance(answers[k], point)
        \/ Distance(answers[i], point) = Distance(answers[k], point) /\ i <= k
  BY <1>5, <1>6 DEF Far
<1> QED
  BY <1>7 DEF bestMatch

\* The recursive function that goes through the points exists.
LEMMA TakenSteps ==
  ASSUME NEW stored \in Seq(Points), NEW answers \in Seq(Points), NEW tolerance \in Nat
  PROVE  /\ Taken(stored, answers, tolerance)[0] = {}
         /\ \A n \in 1 .. Len(stored) :
              Taken(stored, answers, tolerance)[n] = Taken(stored, answers, tolerance)[n - 1] \union
                {bestMatch(stored[n], answers,
                   Left(stored[n], answers, tolerance, Taken(stored, answers, tolerance)[n - 1]))}
<1> DEFINE last == Len(stored)
           More(n, t) == t \union {bestMatch(stored[n], answers, Left(stored[n], answers, tolerance, t))}
           Follows(f, n) == f = [m \in 0 .. n |-> IF m = 0 THEN {} ELSE More(m, f[m - 1])]
           Bad == {n \in Nat : ~\E f : Follows(f, n)}
<1>1. Bad = {}
  <2>1. SUFFICES ASSUME Bad # {} PROVE FALSE
    OBVIOUS
  <2>2. PICK n \in Bad : \A i \in Bad : n <= i
    BY <2>1, LeastExists
  <2>3. CASE n = 0
    <3> DEFINE f == [m \in 0 .. 0 |-> {}]
    <3>1. f = [m \in 0 .. 0 |-> IF m = 0 THEN {} ELSE More(m, f[m - 1])]
      OBVIOUS
    <3> QED
      BY <2>2, <2>3, <3>1
  <2>4. CASE n # 0
    <3>1. n - 1 \in Nat /\ n - 1 \notin Bad /\ n \in Nat
      <4>1. n \in Nat /\ n - 1 \in Nat
        BY <2>4
      <4> HIDE DEF Bad
      <4> QED
        BY <2>2, <4>1
    <3>2. PICK f : Follows(f, n - 1)
      BY <3>1
    <3> DEFINE g == [m \in 0 .. n |-> IF m < n THEN f[m] ELSE More(n, f[n - 1])]
               h == [m \in 0 .. n |-> IF m = 0 THEN {} ELSE More(m, g[m - 1])]
    <3> HIDE DEF More
    <3>3. \A m \in 0 .. n : g[m] = h[m]
      <4> SUFFICES ASSUME NEW m \in 0 .. n PROVE g[m] = h[m]
        OBVIOUS
      <4>1. CASE m = n
        <5>1. g[m] = More(n, f[n - 1]) /\ g[m - 1] = f[n - 1]
          BY <3>1, <2>4, <4>1
        <5> QED
          BY <2>4, <4>1, <5>1
      <4>2. CASE m # n
        <5>1. g[m] = f[m] /\ m \in 0 .. n - 1 /\ (m # 0 => g[m - 1] = f[m - 1])
          BY <3>1, <4>2
        <5>2. f[m] = IF m = 0 THEN {} ELSE More(m, f[m - 1])
          BY <3>2, <5>1
        <5> QED
          BY <5>1, <5>2
      <4> QED
        BY <4>1, <4>2
    <3>4. g = h
      BY <3>3
    <3>5. Follows(g, n)
      BY <3>4
    <3> HIDE DEF Follows, g
    <3> QED
      BY <2>2, <3>5
  <2> QED
    BY <2>3, <2>4
<1>2. last \in Nat
  BY LenProperties
<1>3. \E f : Follows(f, last)
  BY <1>1, <1>2
<1> DEFINE taken == CHOOSE f : Follows(f, last)
<1>4. Follows(taken, last)
  <2> HIDE DEF Follows
  <2> QED
    BY <1>3
<1>5. Taken(stored, answers, tolerance) = taken
  BY DEF Taken
<1> HIDE DEF taken
<1>6. taken[0] = {} /\ \A n \in 1 .. last : taken[n] = More(n, taken[n - 1])
  <2> HIDE DEF More
  <2>1. \A m \in 0 .. last : taken[m] = IF m = 0 THEN {} ELSE More(m, taken[m - 1])
    BY <1>4
  <2> HIDE DEF last, Follows
  <2>2. 0 \in 0 .. last /\ \A n \in 1 .. last : n \in 0 .. last /\ n # 0
    BY <1>2
  <2> QED
    BY <2>1, <2>2
<1> QED
  BY <1>5, <1>6

\* What is taken stays taken, and is near a point that has had its turn; the 0
\* of a point that found nothing is no answer.
LEMMA TakenGrows ==
  ASSUME NEW stored \in Seq(Points), NEW answers \in Seq(Points), NEW tolerance \in Nat,
         NEW n \in 0 .. Len(stored)
  PROVE  LET taken == Taken(stored, answers, tolerance) IN
         /\ \A i \in 0 .. n : taken[i] \subseteq taken[n]
         /\ \A j \in taken[n] : j = 0 \/ \E i \in 1 .. n : j \in Near(stored[i], answers, tolerance)
<1> DEFINE taken == Taken(stored, answers, tolerance)
           last == Len(stored)
           Close(i) == Near(stored[i], answers, tolerance)
           Rest(i) == Left(stored[i], answers, tolerance, taken[i - 1])
           Best(i) == bestMatch(stored[i], answers, Rest(i))
           Fine(m) == /\ \A i \in 0 .. m : taken[i] \subseteq taken[m]
                      /\ \A j \in taken[m] : j = 0 \/ \E i \in 1 .. m : j \in Close(i)
           Bad == {m \in 0 .. last : ~Fine(m)}
<1>1. last \in Nat /\ \A i \in 1 .. last : stored[i] \in Points
  BY LenProperties, ElementOfSeq
<1>2. taken[0] = {} /\ \A m \in 1 .. last : taken[m] = taken[m - 1] \union {Best(m)}
  BY TakenSteps
<1>3. \A i \in 1 .. last : Best(i) = 0 \/ Best(i) \in Close(i)
  <2> SUFFICES ASSUME NEW i \in 1 .. last PROVE Best(i) = 0 \/ Best(i) \in Close(i)
    OBVIOUS
  <2>1. Rest(i) \subseteq DOMAIN answers /\ Rest(i) \subseteq Close(i)
    BY DEF Near, Left
  <2>2. CASE Rest(i) = {}
    BY <2>2 DEF bestMatch
  <2>3. CASE Rest(i) # {}
    <3> HIDE DEF Rest, Close, taken
    <3> QED
      BY <1>1, <2>1, <2>3, BestIsLeft
  <2> QED
    BY <2>2, <2>3
<1> HIDE DEF taken, Close, Rest, Best, last
<1>4. Bad = {}
  <2>1. SUFFICES ASSUME Bad # {} PROVE FALSE
    OBVIOUS
  <2>2. Bad \subseteq Nat
    BY <1>1
  <2>3. PICK m \in Bad : \A i \in Bad : m <= i
    <3> HIDE DEF Bad
    <3> QED
      BY <2>1, <2>2, LeastExists
  <2>4. m \in 0 .. last /\ ~Fine(m)
    OBVIOUS
  <2>5. CASE m = 0
    <3>1. Fine(0)
      BY <1>2
    <3> QED
      BY <2>4, <2>5, <3>1
  <2>6. CASE m # 0
    <3>1. m - 1 \in 0 .. last /\ m \in 1 .. last /\ ~(m <= m - 1)
      BY <1>1, <2>4, <2>6
    <3>2. Fine(m - 1)
      BY <2>3, <3>1
    <3>3. taken[m] = taken[m - 1] \union {Best(m)} /\ (Best(m) = 0 \/ Best(m) \in Close(m))
      BY <1>2, <1>3, <3>1
    <3>4. \A i \in 0 .. m : i \in 0 .. m - 1 \/ i = m
      BY <3>1
    <3>5. \A i \in 1 .. m - 1 : i \in 1 .. m
      BY <3>1
    <3>6. \A i \in 0 .. m : taken[i] \subseteq taken[m]
      BY <3>2, <3>3, <3>4
    <3>7. m \in 1 .. m
      BY <3>1
    <3>8. \A j \in taken[m] : j = 0 \/ \E i \in 1 .. m : j \in Close(i)
      BY <3>2, <3>3, <3>5, <3>7
    <3> QED
      BY <2>4, <3>6, <3>8
  <2> QED
    BY <2>5, <2>6
<1>5. n \in 0 .. last
  BY DEF last
<1>6. Fine(n)
  BY <1>4, <1>5
<1> QED
  BY <1>6 DEF taken, Close

(***************************************************************************)
(* ClicksAreMatched (ClickCaptcha.Verify of click.go): for every answer,   *)
(* not just those TLC has asked about, the greedy pairing accepts only     *)
(* what can be paired one to one within the tolerance, and all of it when  *)
(* no click is near two points.                                            *)
(***************************************************************************)
THEOREM ClicksPair ==
  ASSUME NEW stored \in Seq(Points), NEW answers \in Seq(Points), NEW tolerance \in Nat
  PROVE  ClicksAreMatched(stored, answers, tolerance)
<1> DEFINE taken == Taken(stored, answers, tolerance)
           last == Len(stored)
           Close(i) == Near(stored[i], answers, tolerance)
           Rest(i) == Left(stored[i], answers, tolerance, taken[i - 1])
           Best(i) == bestMatch(stored[i], answers, Rest(i))
           Pairs(pair) == /\ \A i, k \in 1 .. last : pair[i] = pair[k] => i = k
                          /\ \A i \in 1 .. last : pair[i] \in Close(i)
           paired == Len(stored) = Len(answers) /\ \E pair \in [1 .. last -> DOMAIN answers] : Pairs(pair)
           apart == \A i, k \in 1 .. last : Close(i) \intersect Close(k) # {} => i = k
           accepted == /\ Len(stored) = Len(answers)
                       /\ \A i \in 1 .. last : Close(i) # {}
                       /\ \A i \in 1 .. last : Rest(i) # {}
<1>1. last \in Nat /\ DOMAIN stored = 1 .. last /\ \A i \in 1 .. last : stored[i] \in Points
  BY LenProperties, ElementOfSeq
<1>2. \A m \in 1 .. last : taken[m] = taken[m - 1] \union {Best(m)}
  BY TakenSteps
<1>3. \A n \in 0 .. last :
        /\ \A i \in 0 .. n : taken[i] \subseteq taken[n]
        /\ \A j \in taken[n] : j = 0 \/ \E i \in 1 .. n : j \in Close(i)
  BY TakenGrows
<1>4. \A i \in 1 .. last : Rest(i) # {} => Best(i) \in Rest(i)
  <2> SUFFICES ASSUME NEW i \in 1 .. last, Rest(i) # {} PROVE Best(i) \in Rest(i)
    OBVIOUS
  <2>1. Rest(i) \subseteq DOMAIN answers
    BY DEF Near, Left
  <2> HIDE DEF Rest, Close, taken
  <2> QED
    BY <1>1, <2>1, BestIsLeft
<1>5. \A i \in 1 .. last : Close(i) \subseteq DOMAIN answers /\ 0 \notin Close(i)
  <2>1. 0 \notin DOMAIN answers
    BY LenProperties
  <2> QED
    BY <2>1 DEF Near
<1>6. \A i \in 1 .. last : Rest(i) = Close(i) \ taken[i - 1]
  BY DEF Left
<1>7. Verify(stored, answers, tolerance) <=> accepted
  BY <1>1 DEF Verify
<1>8. ClicksAreMatched(stored, answers, tolerance) <=> (accepted => paired) /\ (paired /\ apart => accepted)
  <2> HIDE DEF Rest, Close, taken
  <2>1. /\ DOMAIN stored = 1 .. last
        /\ Verify(stored, answers, tolerance) <=> accepted
    BY <1>1, <1>7
  <2> QED
    BY <2>1 DEF ClicksAreMatched, Close
<1> HIDE DEF taken, Close, Rest, Best, last
<1>9. ASSUME accepted PROVE paired
  <2> DEFINE pair == [i \in 1 .. last |-> Best(i)]
  <2>1. \A i \in 1 .. last : Best(i) \in Close(i) /\ Best(i) \notin taken[i - 1] /\ Best(i) \in taken[i]
    BY <1>2, <1>4, <1>6, <1>9
  <2>2. pair \in [1 .. last -> DOMAIN answers]
    BY <1>5, <2>1
  <2>3. \A i, k \in 1 .. last : i < k => Best(i) # Best(k)
    <3> SUFFICES ASSUME NEW i \in 1 .. last, NEW k \in 1 .. last, i < k PROVE Best(i) # Best(k)
      OBVIOUS
    <3>1. k - 1 \in 0 .. last /\ i \in 0 .. k - 1
      BY <1>1
    <3>2. taken[i] \subseteq taken[k - 1]
      BY <1>3, <3>1
    <3> QED
      BY <2>1, <3>2
  <2>4. \A i, k \in 1 .. last : Best(i) = Best(k) => i = k
    <3>1. \A i, k \in 1 .. last : i < k \/ k < i \/ i = k
      BY <1>1
    <3> QED
      BY <2>3, <3>1
  <2>5. Pairs(pair)
    BY <2>1, <2>4
  <2> HIDE DEF pair, Pairs
  <2> QED
    BY <1>9, <2>2, <2>5
<1>10. ASSUME paired, apart PROVE accepted
  <2>1. PICK pair \in [1 .. last -> DOMAIN answers] : Pairs(pair)
    BY <1>10
  <2>2. \A i \in 1 .. last : pair[i] \in Close(i)
    BY <2>1
  <2>3. ASSUME NEW i \in 1 .. last PROVE pair[i] \notin taken[i - 1]
    <3>1. i - 1 \in 0 .. last /\ \A k \in 1 .. i - 1 : k \in 1 .. last /\ k # i
      <4> HIDE DEF Pairs, paired, apart, accepted
      <4> QED
        BY <1>1
    <3>2. pair[i] \in Close(i) /\ pair[i] # 0
      BY <1>5, <2>2
    <3>3. \A k \in 1 .. i - 1 : pair[i] \notin Close(k)
      BY <1>10, <3>1, <3>2
    <3> QED
      BY <1>3, <3>1, <3>2, <3>3
  <2>4. Len(stored) = Len(answers)
    BY <1>10
  <2> QED
    BY <1>6, <2>2, <2>3, <2>4
<1> QED
  BY <1>8, <1>9, <1>10

-----------------------------------------------------------------------------
LEMMA MeetsOne ==
  ASSUME NEW doc, NEW field, NEW values
  PROVE  Meets(doc, ConditionAny(field, values)) <=> \E v \in values : v \in doc[field]
BY DEF Meets, ConditionAny

(***************************************************************************)
(* FilterMeansSpec (selfQuerySpecToQdrantFilter of selfquery.go): for      *)
(* every self-query and every document, the filter admits the document     *)
(* exactly if the self-query's words do.                                   *)
(***************************************************************************)
THEOREM FilterIsMeant == ASSUME NEW spec, NEW doc PROVE FilterMeansSpec(spec, doc)
<1> DEFINE given == Given(spec)
           Values(f) == ToSet(spec[f]) \ {""}
           Wanted(f) == IF f \in Scalars THEN {spec[f]} ELSE Values(f)
           Tells(f, v) == \/ f = "tags" /\ v \in doc["tags"]
                          \/ f \in {"years", "dates"} /\ v \in doc[f]
                          \/ f \in DOMAIN TagPrefix /\ TagOf(f, v) \in doc["tags"]
           vague == given \ {"namespace", "source"}
           placed == given \intersect {"doc_type", "location"}
           listed == given \intersect Lists
           dated == given \intersect {"years", "dates"}
           OfPlace(f) == ConditionAny("tags", {TagOf(f, spec[f])})
           OfList(f) == ConditionAny(f, Values(f))
           OfDate(f) == ConditionAny("tags", {TagOf(f, v) : v \in Values(f)})
           must == {ConditionMust(f, spec[f]) : f \in given \intersect Scalars}
           should == {OfPlace(f) : f \in placed} \union {OfList(f) : f \in listed}
                       \union {OfDate(f) : f \in dated}
<1>1. /\ selfQuerySpecToQdrantFilter(spec).must = must
      /\ selfQuerySpecToQdrantFilter(spec).should = should
  BY DEF selfQuerySpecToQdrantFilter, selfQueryDedupStrings
<1>2. Passes(doc, selfQuerySpecToQdrantFilter(spec)) <=>
        /\ \A c \in must : Meets(doc, c)
        /\ should # {} => \E c \in should : Meets(doc, c)
  <2> HIDE DEF must, should
  <2> QED
    BY <1>1 DEF Passes
<1>3. \A f \in given : f \in Scalars => spec[f] # ""
  BY DEF Given, Scalars, Lists
<1>4. \A f \in Scalars : spec[f] # "" => f \in given
  BY DEF Given
<1>5. (\A c \in must : Meets(doc, c)) <=> \A f \in Scalars : spec[f] # "" => spec[f] \in doc[f]
  <2>1. \A f : Meets(doc, ConditionMust(f, spec[f])) <=> spec[f] \in doc[f]
    BY DEF Meets, ConditionMust
  <2> HIDE DEF given
  <2> QED
    BY <1>3, <1>4, <2>1
<1>6. vague = placed \union listed /\ dated \subseteq listed /\ given \subseteq Scalars \union Lists
  BY DEF Given, Scalars, Lists
<1>7. should # {} <=> vague # {}
  <2> HIDE DEF given, OfPlace, OfList, OfDate
  <2> QED
    BY <1>6
<1>8. \A f \in placed : Meets(doc, OfPlace(f)) <=> \E v \in Wanted(f) : Tells(f, v)
  <2> SUFFICES ASSUME NEW f \in placed
               PROVE  Meets(doc, OfPlace(f)) <=> \E v \in Wanted(f) : Tells(f, v)
    OBVIOUS
  <2>1. Meets(doc, OfPlace(f)) <=> TagOf(f, spec[f]) \in doc["tags"]
    BY MeetsOne
  <2>2. f \in Scalars /\ f \in DOMAIN TagPrefix /\ f # "tags" /\ f \notin {"years", "dates"}
    BY DEF Scalars, TagPrefix
  <2> QED
    BY <2>1, <2>2
<1>9. \A f \in listed : (\E v \in Wanted(f) : Tells(f, v)) <=>
                          Meets(doc, OfList(f)) \/ (f \in dated /\ Meets(doc, OfDate(f)))
  <2> SUFFICES ASSUME NEW f \in listed
               PROVE  (\E v \in Wanted(f) : Tells(f, v)) <=>
                        Meets(doc, OfList(f)) \/ (f \in dated /\ Meets(doc, OfDate(f)))
    OBVIOUS
  <2>1. Meets(doc, OfList(f)) <=> \E v \in Values(f) : v \in doc[f]
    BY MeetsOne
  <2>2. Meets(doc, OfDate(f)) <=> \E v \in Values(f) : TagOf(f, v) \in doc["tags"]
    <3> DEFINE tags == {TagOf(f, v) : v \in Values(f)}
    <3>1. ASSUME NEW values
          PROVE  Meets(doc, ConditionAny("tags", values)) <=> \E t \in values : t \in doc["tags"]
      BY MeetsOne
    <3>2. (\E t \in tags : t \in doc["tags"]) <=> \E v \in Values(f) : TagOf(f, v) \in doc["tags"]
      OBVIOUS
    <3>3. OfDate(f) = ConditionAny("tags", tags)
      OBVIOUS
    <3> HIDE DEF tags, OfDate
    <3> QED
      BY <3>1, <3>2, <3>3
  <2>3. f \notin Scalars /\ (f = "tags" \/ f \in {"years", "dates"})
    BY DEF Scalars, Lists
  <2>4. f \in DOMAIN TagPrefix <=> f \in {"years", "dates"}
    BY <2>3 DEF TagPrefix
  <2>5. f \in dated <=> f \in {"years", "dates"}
    OBVIOUS
  <2> HIDE DEF Values, OfList, OfDate, dated, listed
  <2> QED
    BY <2>1, <2>2, <2>3, <2>4, <2>5
<1>10. (\E c \in should : Meets(doc, c)) <=> \E f \in vague : \E v \in Wanted(f) : Tells(f, v)
  <2> HIDE DEF given, placed, listed, dated, vague, OfPlace, OfList, OfDate, Wanted, Tells
  <2> QED
    BY <1>6, <1>8, <1>9
<1>11. FilterMeansSpec(spec, doc) <=>
         (Passes(doc, selfQuerySpecToQdrantFilter(spec)) <=>
            /\ \A f \in Scalars : spec[f] # "" => spec[f] \in doc[f]
            /\ vague # {} => \E f \in vague : \E v \in Wanted(f) : Tells(f, v))
  BY DEF FilterMeansSpec
<1> HIDE DEF must, should, vague, Wanted, Tells
<1> QED
  BY <1>2, <1>5, <1>7, <1>10, <1>11

-----------------------------------------------------------------------------
\* r stands somewhere in s.
IsWithin(r, s) ==
  \E a \in Nat : a + Len(r) <= Len(s) /\ \A k \in 1 .. Len(r) : r[k] = s[a + k]

Trimmed(s) == TrimSpace(s) = s

\* The first and the last place of s that are not blank.
Between(s, a, b) ==
  /\ a \in 1 .. Len(s) /\ b \in 1 .. Len(s) /\ a <= b
  /\ s[a] \notin Blanks /\ s[b] \notin Blanks
  /\ \A i \in 1 .. Len(s) : s[i] \notin Blanks => a <= i /\ i <= b

LEMMA PieceOf ==
  ASSUME NEW s \in Text, NEW a \in Int, NEW b \in Int, 1 <= a, a <= b + 1, b <= Len(s)
  PROVE  /\ SubSeq(s, a, b) \in Text /\ Len(SubSeq(s, a, b)) = b - a + 1
         /\ \A i \in 1 .. b - a + 1 : SubSeq(s, a, b)[i] = s[a + i - 1]
<1>1. Len(s) \in Nat
  BY LenProperties DEF Text
<1>2. a \in 1 .. Len(s) + 1 /\ b \in a - 1 .. Len(s)
  BY <1>1
<1>3. \A i \in 1 .. Len(s) : s[i] \in Symbols
  BY ElementOfSeq DEF Text
<1>4. /\ DOMAIN SubSeq(s, a, b) = 1 .. b - a + 1
      /\ \A i \in 1 .. b - a + 1 : SubSeq(s, a, b)[i] = s[a + i - 1]
      /\ SubSeq(s, a, b) \in Seq(Symbols) /\ Len(SubSeq(s, a, b)) = b - a + 1
  <2>1. \A i \in a .. b : s[i] \in Symbols
    BY <1>1, <1>3
  <2> QED
    BY <1>1, <1>2, <2>1, SubSeqProperties DEF Text
<1> QED
  BY <1>4 DEF Text

LEMMA PieceWithin ==
  ASSUME NEW s \in Text, NEW a \in Int, NEW b \in Int, 1 <= a, a <= b + 1, b <= Len(s)
  PROVE  IsWithin(SubSeq(s, a, b), s)
<1> DEFINE r == SubSeq(s, a, b)
<1>1. Len(s) \in Nat
  BY LenProperties DEF Text
<1>2. Len(r) = b - a + 1 /\ \A i \in 1 .. b - a + 1 : r[i] = s[a + i - 1]
  BY PieceOf
<1> HIDE DEF r
<1>3. a - 1 \in Nat /\ (a - 1) + Len(r) <= Len(s)
  BY <1>1, <1>2
<1>4. \A k \in 1 .. Len(r) : r[k] = s[(a - 1) + k]
  <2> SUFFICES ASSUME NEW k \in 1 .. Len(r) PROVE r[k] = s[(a - 1) + k]
    OBVIOUS
  <2>1. k \in 1 .. b - a + 1 /\ a + k - 1 = (a - 1) + k
    BY <1>2
  <2> QED
    BY <1>2, <2>1
<1> QED
  BY <1>3, <1>4 DEF IsWithin, r

LEMMA WithinWithin ==
  ASSUME NEW r \in Text, NEW s \in Text, NEW t \in Text, IsWithin(r, s), IsWithin(s, t)
  PROVE  IsWithin(r, t)
<1>1. Len(r) \in Nat /\ Len(s) \in Nat /\ Len(t) \in Nat
  BY LenProperties DEF Text
<1>2. PICK a \in Nat : a + Len(r) <= Len(s) /\ \A k \in 1 .. Len(r) : r[k] = s[a + k]
  BY DEF IsWithin
<1>3. PICK b \in Nat : b + Len(s) <= Len(t) /\ \A k \in 1 .. Len(s) : s[k] = t[b + k]
  BY DEF IsWithin
<1>4. a + b \in Nat /\ (a + b) + Len(r) <= Len(t)
  BY <1>1, <1>2, <1>3
<1>5. \A k \in 1 .. Len(r) : r[k] = t[(a + b) + k]
  <2> SUFFICES ASSUME NEW k \in 1 .. Len(r) PROVE r[k] = t[(a + b) + k]
    OBVIOUS
  <2>1. a + k \in 1 .. Len(s) /\ b + (a + k) = (a + b) + k
    BY <1>1, <1>2
  <2> QED
    BY <1>2, <1>3, <2>1
<1> QED
  BY <1>4, <1>5 DEF IsWithin

LEMMA WithinItself == ASSUME NEW s \in Text PROVE IsWithin(s, s)
<1>1. Len(s) \in Nat
  BY LenProperties DEF Text
<1>2. 0 \in Nat /\ 0 + Len(s) <= Len(s) /\ \A k \in 1 .. Len(s) : s[k] = s[0 + k]
  BY <1>1
<1> QED
  BY <1>2 DEF IsWithin

\* Nothing comes into a part that is not in the whole.
LEMMA WithinHas ==
  ASSUME NEW r \in Text, NEW s \in Text, IsWithin(r, s), NEW k \in 1 .. Len(r)
  PROVE  \E i \in 1 .. Len(s) : s[i] = r[k]
<1>1. Len(r) \in Nat /\ Len(s) \in Nat
  BY LenProperties DEF Text
<1>2. PICK a \in Nat : a + Len(r) <= Len(s) /\ \A i \in 1 .. Len(r) : r[i] = s[a + i]
  BY DEF IsWithin
<1>3. a + k \in 1 .. Len(s)
  BY <1>1, <1>2
<1> QED
  BY <1>2, <1>3

LEMMA NothingWithin == ASSUME NEW s \in Text PROVE <<>> \in Text /\ IsWithin(<<>>, s)
<1>1. Len(s) \in Nat
  BY LenProperties DEF Text
<1>2. Len(<<>>) = 0 /\ <<>> \in Text
  BY DEF Text
<1>3. 0 \in Nat /\ 0 + Len(<<>>) <= Len(s) /\ \A k \in 1 .. Len(<<>>) : FALSE
  BY <1>1, <1>2
<1> QED
  BY <1>2, <1>3 DEF IsWithin

-----------------------------------------------------------------------------
\* What TrimSpace takes off.
LEMMA TrimIsBetween ==
  ASSUME NEW s \in Text, NEW a, NEW b, Between(s, a, b)
  PROVE  TrimSpace(s) = SubSeq(s, a, b)
<1> DEFINE kept == {i \in DOMAIN s : s[i] \notin Blanks}
<1>1. Len(s) \in Nat /\ DOMAIN s = 1 .. Len(s)
  BY LenProperties DEF Text
<1>2. a \in kept /\ b \in kept /\ kept \subseteq Int /\ \A i \in kept : a <= i /\ i <= b
  BY <1>1 DEF Between
<1>3. TrimSpace(s) = IF kept = {} THEN <<>> ELSE SubSeq(s, LeastOf(kept), GreatestOf(kept))
  BY DEF TrimSpace, TrimSymbols
<1> HIDE DEF kept
<1>4. LeastOf(kept) = a
  <2>1. LeastOf(kept) \in kept /\ \A i \in kept : LeastOf(kept) <= i
    BY <1>2 DEF LeastOf
  <2>2. LeastOf(kept) \in Int /\ a \in Int /\ LeastOf(kept) <= a /\ a <= LeastOf(kept)
    BY <1>2, <2>1
  <2> QED
    BY <2>2
<1>5. GreatestOf(kept) = b
  <2>1. GreatestOf(kept) \in kept /\ \A i \in kept : GreatestOf(kept) >= i
    BY <1>2 DEF GreatestOf
  <2>2. GreatestOf(kept) \in Int /\ b \in Int /\ GreatestOf(kept) <= b /\ b <= GreatestOf(kept)
    BY <1>2, <2>1
  <2> QED
    BY <2>2
<1> QED
  BY <1>2, <1>3, <1>4, <1>5

LEMMA AllBlank ==
  ASSUME NEW s \in Text, \A i \in 1 .. Len(s) : s[i] \in Blanks
  PROVE  TrimSpace(s) = <<>>
<1>1. DOMAIN s = 1 .. Len(s)
  BY LenProperties DEF Text
<1> QED
  BY <1>1 DEF TrimSpace, TrimSymbols

LEMMA BetweenExists ==
  ASSUME NEW s \in Text
  PROVE  (\A i \in 1 .. Len(s) : s[i] \in Blanks) \/ \E a, b \in 1 .. Len(s) : Between(s, a, b)
<1> DEFINE kept == {i \in 1 .. Len(s) : s[i] \notin Blanks}
           back == {Len(s) - i : i \in kept}
<1>1. Len(s) \in Nat
  BY LenProperties DEF Text
<1>2. CASE kept = {}
  BY <1>2
<1>3. CASE kept # {}
  <2>1. kept \subseteq Nat /\ back \subseteq Nat /\ back # {}
    BY <1>1, <1>3
  <2>2. PICK a \in kept : \A i \in kept : a <= i
    <3> HIDE DEF kept, back
    <3> QED
      BY <1>3, <2>1, LeastExists
  <2>3. PICK c \in back : \A i \in back : c <= i
    <3> HIDE DEF kept, back
    <3> QED
      BY <2>1, LeastExists
  <2>4. PICK b \in kept : c = Len(s) - b
    BY <2>3
  <2>5. \A i \in kept : i <= b
    <3> SUFFICES ASSUME NEW i \in kept PROVE i <= b
      OBVIOUS
    <3>1. Len(s) - b <= Len(s) - i
      BY <2>3, <2>4
    <3> QED
      BY <1>1, <3>1
  <2>6. Between(s, a, b)
    BY <2>2, <2>4, <2>5 DEF Between
  <2> QED
    BY <2>6
<1> QED
  BY <1>2, <1>3

LEMMA Trims ==
  ASSUME NEW s \in Text
  PROVE  TrimSpace(s) \in Text /\ IsWithin(TrimSpace(s), s) /\ Trimmed(TrimSpace(s))
<1>1. Len(s) \in Nat
  BY LenProperties DEF Text
<1>2. CASE \A i \in 1 .. Len(s) : s[i] \in Blanks
  <2>1. TrimSpace(s) = <<>>
    BY <1>2, AllBlank
  <2>2. <<>> \in Text /\ \A i \in 1 .. Len(<<>>) : <<>>[i] \in Blanks
    BY DEF Text
  <2>3. TrimSpace(<<>>) = <<>>
    BY <2>2, AllBlank
  <2> QED
    BY <2>1, <2>3, NothingWithin DEF Trimmed
<1>3. CASE \E a, b \in 1 .. Len(s) : Between(s, a, b)
  <2>1. PICK a, b \in 1 .. Len(s) : Between(s, a, b)
    BY <1>3
  <2> DEFINE r == SubSeq(s, a, b)
  <2>2. TrimSpace(s) = r
    BY <2>1, TrimIsBetween
  <2>3. a \in Int /\ b \in Int /\ 1 <= a /\ a <= b /\ b <= Len(s)
    BY <1>1, <2>1 DEF Between
  <2>4. a <= b + 1
    BY <2>3
  <2>5. r \in Text /\ Len(r) = b - a + 1 /\ \A i \in 1 .. b - a + 1 : r[i] = s[a + i - 1]
    BY <2>3, <2>4, PieceOf
  <2>6. IsWithin(r, s)
    BY <2>3, <2>4, PieceWithin
  <2> HIDE DEF r
  <2>7. Between(r, 1, Len(r))
    <3>1. 1 \in 1 .. Len(r) /\ Len(r) \in 1 .. Len(r) /\ 1 <= Len(r)
      BY <2>3, <2>5
    <3>2. r[1] = s[a + 1 - 1] /\ r[Len(r)] = s[a + Len(r) - 1]
      BY <2>5, <3>1
    <3>3. a + 1 - 1 = a /\ a + Len(r) - 1 = b
      BY <2>3, <2>5
    <3>4. \A i \in 1 .. Len(r) : 1 <= i /\ i <= Len(r)
      BY <2>3, <2>5
    <3> QED
      BY <2>1, <3>1, <3>2, <3>3, <3>4 DEF Between
  <2>8. TrimSpace(r) = SubSeq(r, 1, Len(r))
    BY <2>5, <2>7, TrimIsBetween
  <2>9. SubSeq(r, 1, Len(r)) = r
    BY <2>5, SubSeqFull DEF Text
  <2> QED
    BY <2>2, <2>5, <2>6, <2>8, <2>9 DEF Trimmed
<1> QED
  BY <1>2, <1>3, BetweenExists
-----------------------------------------------------------------------------
\* Up to the first of the symbols.
FirstAt(s, symbols, i) ==
  /\ i \in 1 .. Len(s) /\ s[i] \in symbols
  /\ \A j \in 1 .. Len(s) : s[j] \in symbols => i <= j

LEMMA CutsAtFirst ==
  ASSUME NEW s \in Text, NEW symbols, NEW i, FirstAt(s, symbols, i)
  PROVE  CutAt(s, symbols) = TrimSpace(Before(s, i))
<1> DEFINE places == {j \in 1 .. Len(s) : s[j] \in symbols}
<1>1. Len(s) \in Nat
  BY LenProperties DEF Text
<1>2. i \in places /\ places \subseteq Int /\ \A j \in places : i <= j
  BY <1>1 DEF FirstAt
<1>3. CutAt(s, symbols) = LET k == IF places # {} THEN Min(places) ELSE 0
                          IN IF k = 0 THEN s ELSE TrimSpace(Before(s, k))
  BY DEF CutAt, SelectInSeq
<1> HIDE DEF places
<1>4. Min(places) = i
  <2>1. Min(places) \in places /\ \A j \in places : Min(places) <= j
    BY <1>2 DEF Min
  <2>2. Min(places) \in Int /\ i \in Int /\ Min(places) <= i /\ i <= Min(places)
    BY <1>2, <2>1
  <2> QED
    BY <2>2
<1>5. i # 0
  BY DEF FirstAt
<1> QED
  BY <1>2, <1>3, <1>4, <1>5

LEMMA CutsNothing ==
  ASSUME NEW s \in Text, NEW symbols, \A i \in 1 .. Len(s) : s[i] \notin symbols
  PROVE  CutAt(s, symbols) = s
BY DEF CutAt, SelectInSeq

LEMMA FirstExists ==
  ASSUME NEW s \in Text, NEW symbols
  PROVE  (\A i \in 1 .. Len(s) : s[i] \notin symbols) \/ \E i \in 1 .. Len(s) : FirstAt(s, symbols, i)
<1> DEFINE places == {j \in 1 .. Len(s) : s[j] \in symbols}
<1>1. Len(s) \in Nat /\ places \subseteq Nat
  BY LenProperties DEF Text
<1>2. CASE places = {}
  BY <1>2
<1>3. CASE places # {}
  <2>1. PICK i \in places : \A j \in places : i <= j
    <3> HIDE DEF places
    <3> QED
      BY <1>1, <1>3, LeastExists
  <2> QED
    BY <2>1 DEF FirstAt
<1> QED
  BY <1>2, <1>3

LEMMA Cuts ==
  ASSUME NEW s \in Text, NEW symbols, Trimmed(s)
  PROVE  /\ CutAt(s, symbols) \in Text /\ IsWithin(CutAt(s, symbols), s)
         /\ Trimmed(CutAt(s, symbols))
         /\ \A i \in 1 .. Len(CutAt(s, symbols)) : CutAt(s, symbols)[i] \notin symbols
<1>1. Len(s) \in Nat
  BY LenProperties DEF Text
<1>2. CASE \A i \in 1 .. Len(s) : s[i] \notin symbols
  BY <1>2, CutsNothing, WithinItself
<1>3. CASE \E i \in 1 .. Len(s) : FirstAt(s, symbols, i)
  <2>1. PICK i \in 1 .. Len(s) : FirstAt(s, symbols, i)
    BY <1>3
  <2> DEFINE r == Before(s, i)  c == CutAt(s, symbols)  e == i - 1
  <2>2. c = TrimSpace(r)
    BY <2>1, CutsAtFirst
  <2>3. 1 <= 1 /\ 1 <= (i - 1) + 1 /\ i - 1 <= Len(s) /\ i - 1 \in Int
    BY <1>1
  <2>4. r = SubSeq(s, 1, i - 1)
    BY DEF Before
  <2>5. r \in Text /\ Len(r) = i - 1 /\ \A k \in 1 .. i - 1 : r[k] = s[k]
    <3> HIDE DEF r
    <3>1. 1 <= 1 /\ 1 \in Int /\ 1 <= e + 1 /\ e <= Len(s) /\ e \in Int /\ r = SubSeq(s, 1, e)
      BY <2>3, <2>4
    <3> HIDE DEF e
    <3>2. r \in Text /\ Len(r) = e - 1 + 1 /\ \A k \in 1 .. e - 1 + 1 : r[k] = s[1 + k - 1]
      BY <3>1, PieceOf
    <3>3. e - 1 + 1 = e /\ \A k \in 1 .. e : 1 + k - 1 = k
      BY <3>1
    <3> QED
      BY <3>2, <3>3 DEF e
  <2>6. IsWithin(r, s)
    BY <2>3, <2>4, PieceWithin
  <2> HIDE DEF r
  <2>7. \A k \in 1 .. Len(r) : r[k] \notin symbols
    <3> SUFFICES ASSUME NEW k \in 1 .. Len(r), r[k] \in symbols PROVE FALSE
      OBVIOUS
    <3>1. k \in 1 .. Len(s) /\ s[k] \in symbols /\ ~(i <= k)
      BY <1>1, <2>5
    <3> QED
      BY <2>1, <3>1 DEF FirstAt
  <2>8. c \in Text /\ IsWithin(c, r) /\ Trimmed(c)
    BY <2>2, <2>5, Trims
  <2> HIDE DEF c
  <2>9. \A k \in 1 .. Len(c) : c[k] \notin symbols
    BY <2>5, <2>7, <2>8, WithinHas
  <2>10. IsWithin(c, s)
    BY <2>5, <2>6, <2>8, WithinWithin
  <2> QED
    BY <2>8, <2>9, <2>10 DEF c
<1> QED
  BY <1>2, <1>3, FirstExists

LEMMA TailWithin ==
  ASSUME NEW s \in Text, s # <<>>
  PROVE  Tail(s) \in Text /\ IsWithin(Tail(s), s)
<1>1. Len(s) \in Nat /\ Len(s) >= 1
  BY LenProperties, EmptySeq DEF Text
<1>2. Tail(s) = SubSeq(s, 2, Len(s))
  BY TailIsSubSeq DEF Text
<1>3. 1 <= 2 /\ 2 <= Len(s) + 1 /\ Len(s) <= Len(s) /\ Len(s) \in Int
  BY <1>1
<1>4. SubSeq(s, 2, Len(s)) \in Text
  BY <1>3, PieceOf
<1>5. IsWithin(SubSeq(s, 2, Len(s)), s)
  BY <1>3, PieceWithin
<1> QED
  BY <1>2, <1>4, <1>5

LEMMA PrefixWithin ==
  ASSUME NEW s \in Text, NEW symbol
  PROVE  TrimPrefix(s, symbol) \in Text /\ IsWithin(TrimPrefix(s, symbol), s)
BY TailWithin, WithinItself DEF TrimPrefix

LEMMA UnfencedWithin ==
  ASSUME NEW s \in Text, Trimmed(s)
  PROVE  Unfenced(s) \in Text /\ IsWithin(Unfenced(s), s) /\ Trimmed(Unfenced(s))
<1>1. CASE s = <<>> \/ Head(s) # "fence"
  <2>1. Unfenced(s) = s
    BY <1>1 DEF Unfenced
  <2> QED
    BY <2>1, WithinItself
<1>2. CASE s # <<>> /\ Head(s) = "fence"
  <2> DEFINE tail == Tail(s)  first == TrimPrefix(tail, "plaintext")  second == TrimPrefix(first, "text")
             inner == TrimSpace(second)
  <2>1. Unfenced(s) = CutAt(inner, {"fence"})
    BY <1>2 DEF Unfenced
  <2>2. tail \in Text /\ IsWithin(tail, s)
    BY <1>2, TailWithin
  <2> HIDE DEF tail
  <2>3. first \in Text /\ IsWithin(first, tail)
    BY <2>2, PrefixWithin
  <2> HIDE DEF first
  <2>4. second \in Text /\ IsWithin(second, first)
    BY <2>3, PrefixWithin
  <2> HIDE DEF second
  <2>5. inner \in Text /\ IsWithin(inner, second) /\ Trimmed(inner)
    BY <2>4, Trims
  <2> HIDE DEF inner
  <2>6. IsWithin(first, s)
    BY <2>2, <2>3, WithinWithin
  <2>7. IsWithin(second, s)
    BY <2>3, <2>4, <2>6, WithinWithin
  <2>8. IsWithin(inner, s)
    BY <2>4, <2>5, <2>7, WithinWithin
  <2>9. /\ CutAt(inner, {"fence"}) \in Text /\ IsWithin(CutAt(inner, {"fence"}), inner)
        /\ Trimmed(CutAt(inner, {"fence"}))
    BY <2>5, Cuts
  <2>10. IsWithin(CutAt(inner, {"fence"}), s)
    BY <2>5, <2>8, <2>9, WithinWithin
  <2> QED
    BY <2>1, <2>9, <2>10
<1> QED
  BY <1>1, <1>2

LEMMA RewrittenLine ==
  ASSUME NEW answer \in Text
  PROVE  LET query == NormalizeRewrittenQuery(answer) IN
         /\ query \in Text /\ IsWithin(query, answer) /\ Trimmed(query)
         /\ \A i \in 1 .. Len(query) : query[i] # "newline"
<1> DEFINE trim == TrimSpace(answer)  open == Unfenced(trim)  line == CutAt(open, {"newline"})
           query == NormalizeRewrittenQuery(answer)
<1>1. trim \in Text /\ IsWithin(trim, answer) /\ Trimmed(trim)
  BY Trims
<1> HIDE DEF trim
<1>2. open \in Text /\ IsWithin(open, trim) /\ Trimmed(open)
  BY <1>1, UnfencedWithin
<1> HIDE DEF open
<1>3. /\ line \in Text /\ IsWithin(line, open) /\ Trimmed(line)
      /\ \A i \in 1 .. Len(line) : line[i] \notin {"newline"}
  BY <1>2, Cuts
<1>4. query = IF Len(line) >= 2 /\ <<Head(line), Last(line)>> \in QuotePairs
              THEN TrimSpace(SubSeq(line, 2, Len(line) - 1)) ELSE line
  BY DEF NormalizeRewrittenQuery, line, open, trim
<1> HIDE DEF line, query
<1>5. IsWithin(open, answer)
  BY <1>1, <1>2, WithinWithin
<1>6. IsWithin(line, answer)
  BY <1>2, <1>3, <1>5, WithinWithin
<1>7. CASE Len(line) >= 2 /\ <<Head(line), Last(line)>> \in QuotePairs
  <2> DEFINE inner == SubSeq(line, 2, Len(line) - 1)
  <2>1. Len(line) \in Nat
    BY <1>3, LenProperties DEF Text
  <2>2. 1 <= 2 /\ 2 <= (Len(line) - 1) + 1 /\ Len(line) - 1 <= Len(line) /\ Len(line) - 1 \in Int
    BY <1>7, <2>1
  <2>3. inner \in Text /\ IsWithin(inner, line)
    BY <1>3, <2>2, PieceOf, PieceWithin
  <2>4. query = TrimSpace(inner)
    BY <1>4, <1>7
  <2> HIDE DEF inner
  <2>5. query \in Text /\ IsWithin(query, inner) /\ Trimmed(query)
    BY <2>3, <2>4, Trims
  <2>6. IsWithin(query, line)
    BY <1>3, <2>3, <2>5, WithinWithin
  <2>7. IsWithin(query, answer)
    BY <1>3, <1>6, <2>5, <2>6, WithinWithin
  <2>8. \A i \in 1 .. Len(query) : query[i] # "newline"
    BY <1>3, <2>5, <2>6, WithinHas
  <2> QED
    BY <2>5, <2>7, <2>8 DEF query
<1>8. CASE ~(Len(line) >= 2 /\ <<Head(line), Last(line)>> \in QuotePairs)
  BY <1>3, <1>4, <1>6, <1>8 DEF query
<1> QED
  BY <1>7, <1>8

-----------------------------------------------------------------------------
\* Texts that are put together.
LEMMA Joined ==
  ASSUME NEW s \in Text, NEW t \in Text
  PROVE  /\ s \o t \in Text /\ Len(s \o t) = Len(s) + Len(t)
         /\ Len(s) \in Nat /\ Len(t) \in Nat
         /\ \A i \in 1 .. Len(s) : (s \o t)[i] = s[i]
         /\ \A i \in 1 .. Len(t) : (s \o t)[Len(s) + i] = t[i]
         /\ s \o <<>> = s /\ <<>> \o s = s
<1>1. Len(s) \in Nat /\ Len(t) \in Nat
  BY LenProperties DEF Text
<1>2. /\ s \o t \in Text /\ Len(s \o t) = Len(s) + Len(t)
      /\ \A i \in 1 .. Len(s) + Len(t) : (s \o t)[i] = IF i <= Len(s) THEN s[i] ELSE t[i - Len(s)]
  BY ConcatProperties DEF Text
<1>3. \A i \in 1 .. Len(s) : i \in 1 .. Len(s) + Len(t) /\ i <= Len(s)
  BY <1>1
<1>4. \A i \in 1 .. Len(t) : /\ Len(s) + i \in 1 .. Len(s) + Len(t) /\ ~(Len(s) + i <= Len(s))
                             /\ (Len(s) + i) - Len(s) = i
  BY <1>1
<1>5. s \o <<>> = s /\ <<>> \o s = s
  BY ConcatEmptySeq DEF Text
<1>6. \A i \in 1 .. Len(s) : (s \o t)[i] = s[i]
  BY <1>2, <1>3
<1>7. \A i \in 1 .. Len(t) : (s \o t)[Len(s) + i] = t[i]
  BY <1>2, <1>4
<1> QED
  BY <1>1, <1>2, <1>5, <1>6, <1>7

LEMMA JoinedAgain ==
  ASSUME NEW s \in Text, NEW t \in Text, NEW u \in Text
  PROVE  Regrouped(s, t, u)
BY ConcatAssociative DEF Text, Regrouped

\* A symbol put before a text.
LEMMA SymbolBefore ==
  ASSUME NEW x \in Symbols, NEW s \in Text
  PROVE  /\ <<x>> \in Text /\ <<x>> \o s \in Text /\ Len(<<x>> \o s) = 1 + Len(s) /\ Len(s) \in Nat
         /\ (<<x>> \o s)[1] = x
         /\ \A i \in 1 .. Len(s) : (<<x>> \o s)[1 + i] = s[i]
<1> DEFINE one == <<x>>
<1>1. one \in Text /\ Len(one) = 1 /\ one[1] = x
  BY OneItem DEF Text
<1> HIDE DEF one
<1>2. 1 \in 1 .. Len(one)
  BY <1>1
<1>3. /\ one \o s \in Text /\ Len(one \o s) = Len(one) + Len(s) /\ Len(s) \in Nat
      /\ \A i \in 1 .. Len(one) : (one \o s)[i] = one[i]
      /\ \A i \in 1 .. Len(s) : (one \o s)[Len(one) + i] = s[i]
  BY <1>1, Joined
<1>4. (one \o s)[1] = x
  BY <1>1, <1>2, <1>3
<1> QED
  BY <1>1, <1>3, <1>4 DEF one

LEMMA FirstOff ==
  ASSUME NEW x \in Symbols, NEW s \in Text
  PROVE  /\ <<x>> \o s \in Text /\ <<x>> \o s # <<>>
         /\ Head(<<x>> \o s) = x /\ Tail(<<x>> \o s) = s
<1>1. /\ <<x>> \o s \in Text /\ Len(<<x>> \o s) = 1 + Len(s) /\ Len(s) \in Nat
      /\ (<<x>> \o s)[1] = x
      /\ \A i \in 1 .. Len(s) : (<<x>> \o s)[1 + i] = s[i]
  BY SymbolBefore
<1> DEFINE w == <<x>> \o s
<1> HIDE DEF w
<1>2. w \in Text /\ Len(w) = 1 + Len(s) /\ w[1] = x /\ \A i \in 1 .. Len(s) : w[1 + i] = s[i]
  BY <1>1 DEF w
<1>3. w # <<>>
  BY <1>1, <1>2
<1>4. Head(w) = x
  BY <1>2, <1>3, HeadIsFirst DEF Text
<1>5. Tail(w) = SubSeq(w, 2, Len(w)) /\ Tail(w) \in Text
  BY <1>2, <1>3, TailIsSubSeq, TailWithin DEF Text
<1>6. /\ Len(SubSeq(w, 2, Len(w))) = Len(w) - 2 + 1
      /\ \A i \in 1 .. Len(w) - 2 + 1 : SubSeq(w, 2, Len(w))[i] = w[2 + i - 1]
  <2>1. 1 <= 2 /\ 2 <= Len(w) + 1 /\ Len(w) <= Len(w) /\ Len(w) \in Int
    BY <1>1, <1>2
  <2> QED
    BY <1>2, <2>1, PieceOf
<1>7. Len(w) - 2 + 1 = Len(s) /\ \A i \in 1 .. Len(s) : 2 + i - 1 = 1 + i
  BY <1>1, <1>2
<1>8. Len(Tail(w)) = Len(s) /\ \A i \in 1 .. Len(s) : Tail(w)[i] = s[i]
  BY <1>2, <1>5, <1>6, <1>7
<1>9. Tail(w) = s
  BY <1>5, <1>8, SeqEqual DEF Text
<1> QED
  BY <1>2, <1>3, <1>4, <1>9 DEF w

\* Texts of blanks, and texts with something else at both ends.
Void(s) == s \in Text /\ \A i \in 1 .. Len(s) : s[i] \in Blanks
EndsSolid(s) == s \in Text /\ Len(s) >= 1 /\ s[1] \notin Blanks /\ s[Len(s)] \notin Blanks

LEMMA VoidsJoined == ASSUME NEW s, NEW t, Void(s), Void(t) PROVE Void(s \o t)
<1>1. /\ s \o t \in Text /\ Len(s \o t) = Len(s) + Len(t) /\ Len(s) \in Nat /\ Len(t) \in Nat
      /\ \A i \in 1 .. Len(s) : (s \o t)[i] = s[i]
      /\ \A i \in 1 .. Len(t) : (s \o t)[Len(s) + i] = t[i]
  BY Joined DEF Void
<1>2. ASSUME NEW i \in 1 .. Len(s \o t) PROVE (s \o t)[i] \in Blanks
  <2>1. CASE i <= Len(s)
    <3>1. i \in 1 .. Len(s)
      BY <1>1, <2>1
    <3> QED
      BY <1>1, <3>1 DEF Void
  <2>2. CASE ~(i <= Len(s))
    <3>1. i - Len(s) \in 1 .. Len(t) /\ i = Len(s) + (i - Len(s))
      BY <1>1, <2>2
    <3> QED
      BY <1>1, <3>1 DEF Void
  <2> QED
    BY <2>1, <2>2
<1> QED
  BY <1>1, <1>2 DEF Void

LEMMA EndedIsTrimmed == ASSUME NEW s, EndsSolid(s) PROVE TrimSpace(s) = s
<1>1. s \in Text /\ Len(s) \in Nat /\ Len(s) >= 1
  BY LenProperties DEF EndsSolid, Text
<1>2. Between(s, 1, Len(s))
  BY <1>1 DEF EndsSolid, Between
<1>3. TrimSpace(s) = SubSeq(s, 1, Len(s))
  BY <1>1, <1>2, TrimIsBetween
<1> QED
  BY <1>1, <1>3, SubSeqFull DEF Text

\* Blanks before and after go.
LEMMA BlanksGo ==
  ASSUME NEW a, NEW m, NEW c, Void(a), EndsSolid(m), Void(c)
  PROVE  TrimSpace(a \o (m \o c)) = m
<1> DEFINE w == a \o (m \o c)  p == Len(a) + 1  q == Len(a) + Len(m)
<1>1. a \in Text /\ m \in Text /\ c \in Text
  BY DEF Void, EndsSolid
<1>2. /\ m \o c \in Text /\ Len(m \o c) = Len(m) + Len(c) /\ Len(m) \in Nat /\ Len(c) \in Nat
      /\ \A i \in 1 .. Len(m) : (m \o c)[i] = m[i]
      /\ \A i \in 1 .. Len(c) : (m \o c)[Len(m) + i] = c[i]
  BY <1>1, Joined
<1>3. /\ w \in Text /\ Len(w) = Len(a) + Len(m \o c) /\ Len(a) \in Nat
      /\ \A i \in 1 .. Len(a) : w[i] = a[i]
      /\ \A i \in 1 .. Len(m \o c) : w[Len(a) + i] = (m \o c)[i]
  BY <1>1, <1>2, Joined
<1> HIDE DEF w
<1>4. Len(w) = Len(a) + Len(m) + Len(c) /\ Len(m) >= 1
  BY <1>2, <1>3 DEF EndsSolid
<1>5. \A i \in 1 .. Len(m) : w[Len(a) + i] = m[i]
  <2>1. \A i \in 1 .. Len(m) : i \in 1 .. Len(m \o c)
    BY <1>2
  <2> QED
    BY <1>2, <1>3, <2>1
<1>6. \A i \in 1 .. Len(c) : w[Len(a) + Len(m) + i] = c[i]
  <2>1. \A i \in 1 .. Len(c) : Len(m) + i \in 1 .. Len(m \o c) /\ Len(a) + (Len(m) + i) = Len(a) + Len(m) + i
    BY <1>2, <1>3
  <2> QED
    BY <1>2, <1>3, <2>1
<1>7. /\ p \in 1 .. Len(w) /\ q \in 1 .. Len(w) /\ p <= q
      /\ 1 \in 1 .. Len(m) /\ Len(m) \in 1 .. Len(m)
  BY <1>2, <1>3, <1>4
<1>8. w[p] \notin Blanks /\ w[q] \notin Blanks
  BY <1>5, <1>7 DEF EndsSolid
<1>9. ASSUME NEW i \in 1 .. Len(w), w[i] \notin Blanks PROVE p <= i /\ i <= q
  <2>1. i \notin 1 .. Len(a)
    BY <1>3, <1>9 DEF Void
  <2>2. i - q \notin 1 .. Len(c)
    <3> SUFFICES ASSUME i - q \in 1 .. Len(c) PROVE FALSE
      OBVIOUS
    <3>1. Len(a) + Len(m) + (i - q) = i
      BY <1>2, <1>3
    <3>2. w[Len(a) + Len(m) + (i - q)] = c[i - q]
      BY <1>6
    <3> QED
      BY <1>9, <3>1, <3>2 DEF Void
  <2> QED
    BY <1>2, <1>3, <1>4, <2>1, <2>2
<1>10. Between(w, p, q)
  BY <1>7, <1>8, <1>9 DEF Between
<1>11. TrimSpace(w) = SubSeq(w, p, q)
  BY <1>3, <1>10, TrimIsBetween
<1>12. /\ SubSeq(w, p, q) \in Text /\ Len(SubSeq(w, p, q)) = q - p + 1
       /\ \A i \in 1 .. q - p + 1 : SubSeq(w, p, q)[i] = w[p + i - 1]
  <2>1. p \in Int /\ q \in Int /\ 1 <= p /\ p <= q + 1 /\ q <= Len(w)
    BY <1>2, <1>3, <1>4
  <2> HIDE DEF p, q
  <2> QED
    BY <1>3, <2>1, PieceOf
<1>13. q - p + 1 = Len(m) /\ \A i \in 1 .. Len(m) : p + i - 1 = Len(a) + i
  BY <1>2, <1>3
<1> HIDE DEF p, q
<1>14. SubSeq(w, p, q) = m
  <2>1. \A i \in 1 .. Len(m) : SubSeq(w, p, q)[i] = m[i]
    BY <1>5, <1>12, <1>13
  <2> QED
    BY <1>1, <1>12, <1>13, <2>1, SeqEqual DEF Text
<1> QED
  BY <1>11, <1>14 DEF w

\* Blanks and one of the symbols after a text end it.
LEMMA CutBack ==
  ASSUME NEW m, NEW c, NEW x \in Symbols, NEW r \in Text, NEW symbols, EndsSolid(m), Void(c), x \in symbols,
         \A i \in 1 .. Len(m) : m[i] \notin symbols, \A i \in 1 .. Len(c) : c[i] \notin symbols
  PROVE  CutAt(m \o (c \o (<<x>> \o r)), symbols) = m
<1> DEFINE mc == m \o c  w == mc \o (<<x>> \o r)  k == Len(mc) + 1
<1>1. m \in Text /\ c \in Text
  BY DEF Void, EndsSolid
<1>2. /\ <<x>> \o r \in Text /\ Len(<<x>> \o r) = 1 + Len(r) /\ Len(r) \in Nat /\ (<<x>> \o r)[1] = x
  BY SymbolBefore
<1>3. /\ mc \in Text /\ Len(mc) = Len(m) + Len(c) /\ Len(m) \in Nat /\ Len(c) \in Nat
      /\ \A i \in 1 .. Len(m) : mc[i] = m[i]
      /\ \A i \in 1 .. Len(c) : mc[Len(m) + i] = c[i]
  BY <1>1, Joined
<1>4. m \o (c \o (<<x>> \o r)) = w
  <2>1. Regrouped(m, c, <<x>> \o r)
    BY <1>1, <1>2, JoinedAgain
  <2> QED
    BY <2>1 DEF Regrouped
<1>5. \A i \in 1 .. Len(mc) : mc[i] \notin symbols
  <2> HIDE DEF mc
  <2> SUFFICES ASSUME NEW i \in 1 .. Len(mc) PROVE mc[i] \notin symbols
    OBVIOUS
  <2>1. CASE i <= Len(m)
    <3>1. i \in 1 .. Len(m)
      BY <1>3, <2>1
    <3> QED
      BY <1>3, <3>1
  <2>2. CASE ~(i <= Len(m))
    <3>1. i - Len(m) \in 1 .. Len(c) /\ Len(m) + (i - Len(m)) = i
      BY <1>3, <2>2
    <3>2. mc[Len(m) + (i - Len(m))] = c[i - Len(m)]
      BY <1>3, <3>1
    <3> QED
      BY <3>1, <3>2
  <2> QED
    BY <2>1, <2>2
<1>6. TrimSpace(mc) = m
  <2>1. Void(<<>>) /\ <<>> \o (m \o c) = m \o c
    BY <1>3, Joined, NothingWithin DEF Void
  <2> QED
    BY <2>1, BlanksGo
<1> HIDE DEF mc
<1>7. /\ w \in Text /\ Len(w) = Len(mc) + (1 + Len(r)) /\ Len(mc) \in Nat
      /\ \A i \in 1 .. Len(mc) : w[i] = mc[i]
      /\ \A i \in 1 .. 1 + Len(r) : w[Len(mc) + i] = (<<x>> \o r)[i]
  <2> DEFINE u == <<x>> \o r
  <2> HIDE DEF u
  <2>1. u \in Text /\ Len(u) = 1 + Len(r)
    BY <1>2 DEF u
  <2>2. /\ mc \o u \in Text /\ Len(mc \o u) = Len(mc) + Len(u) /\ Len(mc) \in Nat
        /\ \A i \in 1 .. Len(mc) : (mc \o u)[i] = mc[i]
        /\ \A i \in 1 .. Len(u) : (mc \o u)[Len(mc) + i] = u[i]
    BY <1>3, <2>1, Joined
  <2> QED
    BY <2>1, <2>2 DEF u
<1> HIDE DEF w
<1>8. 1 \in 1 .. 1 + Len(r) /\ k \in 1 .. Len(w)
  BY <1>2, <1>7
<1>9. w[k] = x
  BY <1>2, <1>7, <1>8
<1>10. \A j \in 1 .. Len(w) : w[j] \in symbols => k <= j
  <2> SUFFICES ASSUME NEW j \in 1 .. Len(w), w[j] \in symbols, ~(k <= j) PROVE FALSE
    OBVIOUS
  <2>1. j \in 1 .. Len(mc)
    BY <1>7
  <2> QED
    BY <1>5, <1>7, <2>1
<1>11. FirstAt(w, symbols, k)
  BY <1>8, <1>9, <1>10 DEF FirstAt
<1>12. CutAt(w, symbols) = TrimSpace(Before(w, k))
  BY <1>7, <1>11, CutsAtFirst
<1>13. Before(w, k) = mc
  <2>1. Before(w, k) = SubSeq(w, 1, k - 1) /\ k - 1 = Len(mc)
    BY <1>7 DEF Before
  <2>2. /\ SubSeq(w, 1, k - 1) \in Text /\ Len(SubSeq(w, 1, k - 1)) = (k - 1) - 1 + 1
        /\ \A i \in 1 .. (k - 1) - 1 + 1 : SubSeq(w, 1, k - 1)[i] = w[1 + i - 1]
    <3>1. k - 1 \in Int /\ 1 <= 1 /\ 1 <= (k - 1) + 1 /\ k - 1 <= Len(w)
      BY <1>7, <1>8
    <3> HIDE DEF k
    <3> QED
      BY <1>7, <3>1, PieceOf
  <2>3. (k - 1) - 1 + 1 = Len(mc) /\ \A i \in 1 .. Len(mc) : 1 + i - 1 = i
    BY <1>7
  <2> HIDE DEF k
  <2>4. \A i \in 1 .. Len(mc) : SubSeq(w, 1, k - 1)[i] = mc[i]
    BY <1>7, <2>2, <2>3
  <2> QED
    BY <1>3, <2>1, <2>2, <2>3, <2>4, SeqEqual DEF Text
<1> QED
  BY <1>4, <1>6, <1>12, <1>13

-----------------------------------------------------------------------------
\* A query of plain words, and what may be put around it.
Plain(q) == EndsSolid(q) /\ \A i \in 1 .. Len(q) : q[i] \in {"word", "blank"}
Pairs == {<< <<>>, <<>> >>} \union {<< <<p[1]>>, <<p[2]>> >> : p \in QuotePairs}
Core(q, pair) == pair[1] \o (q \o pair[2])
Unmarked(s) == /\ EndsSolid(s) /\ Head(s) # "fence" /\ Head(s) = s[1]
               /\ \A i \in 1 .. Len(s) : s[i] \notin {"newline", "fence"}
Bare(line) == IF Len(line) >= 2 /\ <<Head(line), Last(line)>> \in QuotePairs
              THEN TrimSpace(SubSeq(line, 2, Len(line) - 1)) ELSE line

LEMMA PairKinds ==
  ASSUME NEW pair \in Pairs
  PROVE  \/ pair[1] = <<>> /\ pair[2] = <<>>
         \/ \E x, y \in {"quote", "apostrophe", "left", "right"} :
              <<x, y>> \in QuotePairs /\ pair[1] = <<x>> /\ pair[2] = <<y>>
<1>1. CASE pair = << <<>>, <<>> >>
  BY <1>1
<1>2. CASE pair \in {<< <<p[1]>>, <<p[2]>> >> : p \in QuotePairs}
  <2>1. PICK p \in QuotePairs : pair = << <<p[1]>>, <<p[2]>> >>
    BY <1>2
  <2>2. CASE p = <<"quote", "quote">>
    BY <2>1, <2>2 DEF QuotePairs
  <2>3. CASE p = <<"apostrophe", "apostrophe">>
    BY <2>1, <2>3 DEF QuotePairs
  <2>4. CASE p = <<"left", "right">>
    BY <2>1, <2>4 DEF QuotePairs
  <2> QED
    BY <2>1, <2>2, <2>3, <2>4 DEF QuotePairs
<1> QED
  BY <1>1, <1>2 DEF Pairs

\* The last symbol of a text that one was added to.
LEMMA OneLast ==
  ASSUME NEW s \in Text, NEW y \in Symbols
  PROVE  /\ s \o <<y>> \in Text /\ Len(s \o <<y>>) = Len(s) + 1 /\ Len(s) \in Nat
         /\ (s \o <<y>>)[Len(s) + 1] = y
         /\ \A i \in 1 .. Len(s) : (s \o <<y>>)[i] = s[i]
<1> DEFINE one == <<y>>
<1>1. one \in Text /\ Len(one) = 1 /\ one[1] = y
  BY OneItem DEF Text
<1> HIDE DEF one
<1>2. 1 \in 1 .. Len(one)
  BY <1>1
<1>3. /\ s \o one \in Text /\ Len(s \o one) = Len(s) + Len(one) /\ Len(s) \in Nat
      /\ \A i \in 1 .. Len(s) : (s \o one)[i] = s[i]
      /\ \A i \in 1 .. Len(one) : (s \o one)[Len(s) + i] = one[i]
  BY <1>1, Joined
<1>4. (s \o one)[Len(s) + 1] = y
  BY <1>1, <1>2, <1>3
<1> QED
  BY <1>1, <1>3, <1>4 DEF one

LEMMA EndedFacts ==
  ASSUME NEW s, EndsSolid(s)
  PROVE  s \in Text /\ Len(s) \in Nat /\ Len(s) >= 1 /\ s # <<>> /\ Head(s) = s[1]
<1>1. s \in Text /\ Len(s) \in Nat /\ Len(s) >= 1
  BY LenProperties DEF EndsSolid, Text
<1>2. s # <<>>
  BY <1>1
<1>3. Head(s) = s[1]
  BY <1>1, <1>2, HeadIsFirst DEF Text
<1> QED
  BY <1>1, <1>2, <1>3

\* One pair of quotes goes.
LEMMA QuotesGo ==
  ASSUME NEW q, Plain(q), NEW pair \in Pairs
  PROVE  Unmarked(Core(q, pair)) /\ Bare(Core(q, pair)) = q
<1>1. /\ q \in Text /\ Len(q) \in Nat /\ Len(q) >= 1 /\ Head(q) = q[1] /\ TrimSpace(q) = q
      /\ \A i \in 1 .. Len(q) : q[i] \in {"word", "blank"}
  BY EndedFacts, EndedIsTrimmed DEF Plain
<1>2. CASE pair[1] = <<>> /\ pair[2] = <<>>
  <2>1. Core(q, pair) = q
    BY <1>1, <1>2, Joined DEF Core
  <2>2. 1 \in 1 .. Len(q)
    BY <1>1
  <2>3. q[1] = "word"
    BY <1>1, <2>2 DEF Plain, EndsSolid, Blanks
  <2>4. Unmarked(q)
    BY <1>1, <2>3 DEF Plain, Unmarked
  <2>5. <<Head(q), Last(q)>> \notin QuotePairs
    BY <1>1, <2>3 DEF QuotePairs
  <2> QED
    BY <2>1, <2>4, <2>5 DEF Bare
<1>3. CASE \E x, y \in {"quote", "apostrophe", "left", "right"} :
             <<x, y>> \in QuotePairs /\ pair[1] = <<x>> /\ pair[2] = <<y>>
  <2>1. PICK x, y \in {"quote", "apostrophe", "left", "right"} :
          <<x, y>> \in QuotePairs /\ pair[1] = <<x>> /\ pair[2] = <<y>>
    BY <1>3
  <2> DEFINE u == q \o <<y>>  core == <<x>> \o u
  <2>2. Core(q, pair) = core
    BY <2>1 DEF Core
  <2>3. /\ u \in Text /\ Len(u) = Len(q) + 1 /\ u[Len(q) + 1] = y
        /\ \A i \in 1 .. Len(q) : u[i] = q[i]
    <3>1. y \in Symbols
      BY DEF Symbols
    <3> QED
      BY <1>1, <3>1, OneLast
  <2> HIDE DEF u
  <2>4. /\ core \in Text /\ Len(core) = 1 + Len(u) /\ core[1] = x
        /\ \A i \in 1 .. Len(u) : core[1 + i] = u[i]
    <3>1. x \in Symbols
      BY DEF Symbols
    <3> QED
      BY <2>3, <3>1, SymbolBefore
  <2> HIDE DEF core
  <2>5. Len(core) = Len(q) + 2 /\ Len(core) >= 2 /\ Len(core) \in Nat
    BY <1>1, <2>3, <2>4
  <2>6. \A i \in 1 .. Len(q) : core[1 + i] = q[i]
    <3>1. \A i \in 1 .. Len(q) : i \in 1 .. Len(u)
      BY <1>1, <2>3
    <3> QED
      BY <2>3, <2>4, <3>1
  <2>7. core[Len(core)] = y
    <3>1. Len(q) + 1 \in 1 .. Len(u) /\ 1 + (Len(q) + 1) = Len(core)
      BY <1>1, <2>3, <2>5
    <3>2. core[1 + (Len(q) + 1)] = u[Len(q) + 1]
      BY <2>4, <3>1
    <3> QED
      BY <2>3, <3>1, <3>2
  <2>8. EndsSolid(core)
    BY <2>4, <2>5, <2>7 DEF EndsSolid, Blanks
  <2>9. \A i \in 1 .. Len(core) : core[i] \notin {"newline", "fence"}
    <3> SUFFICES ASSUME NEW i \in 1 .. Len(core) PROVE core[i] \notin {"newline", "fence"}
      OBVIOUS
    <3>1. CASE i = 1
      BY <2>4, <3>1
    <3>2. CASE i = Len(core)
      BY <2>7, <3>2
    <3>3. CASE i # 1 /\ i # Len(core)
      <4>1. i - 1 \in 1 .. Len(q) /\ 1 + (i - 1) = i
        BY <1>1, <2>5, <3>3
      <4>2. core[1 + (i - 1)] = q[i - 1]
        BY <2>6, <4>1
      <4> QED
        BY <1>1, <4>1, <4>2
    <3> QED
      BY <3>1, <3>2, <3>3
  <2>10. Head(core) = x /\ Last(core) = y
    BY <2>4, <2>7, <2>8, EndedFacts DEF Last
  <2>11. Unmarked(core)
    BY <2>4, <2>8, <2>9, <2>10 DEF Unmarked
  <2>12. SubSeq(core, 2, Len(core) - 1) = q
    <3> DEFINE last == Len(core) - 1
    <3>1. last \in Int /\ 1 <= 2 /\ 2 <= last + 1 /\ last <= Len(core) /\ last - 2 + 1 = Len(q)
      BY <1>1, <2>5
    <3>2. \A i \in 1 .. Len(q) : 2 + i - 1 = 1 + i
      BY <1>1
    <3> HIDE DEF last
    <3>3. /\ SubSeq(core, 2, last) \in Text /\ Len(SubSeq(core, 2, last)) = last - 2 + 1
          /\ \A i \in 1 .. last - 2 + 1 : SubSeq(core, 2, last)[i] = core[2 + i - 1]
      BY <2>4, <3>1, PieceOf
    <3>4. \A i \in 1 .. Len(q) : SubSeq(core, 2, last)[i] = q[i]
      BY <2>6, <3>1, <3>2, <3>3
    <3>5. SubSeq(core, 2, last) = q
      BY <1>1, <3>1, <3>3, <3>4, SeqEqual DEF Text
    <3> QED
      BY <3>5 DEF last
  <2>13. Bare(core) = q
    BY <1>1, <2>1, <2>5, <2>10, <2>12 DEF Bare
  <2> QED
    BY <2>2, <2>11, <2>13
<1> QED
  BY <1>2, <1>3, PairKinds

-----------------------------------------------------------------------------
\* What is around it, from outside in.
Line(core, blank) == blank \o (core \o blank)

LEMMA RewriteOf ==
  ASSUME NEW w, NEW q, NEW core, Bare(core) = q,
         CutAt(Unfenced(TrimSpace(w)), {"newline"}) = core
  PROVE  NormalizeRewrittenQuery(w) = q
BY DEF NormalizeRewrittenQuery, Bare

LEMMA UnmarkedFacts ==
  ASSUME NEW core, Unmarked(core)
  PROVE  /\ core \in Text /\ EndsSolid(core) /\ Unfenced(core) = core
         /\ CutAt(core, {"newline"}) = core
<1>1. core \in Text /\ Head(core) # "fence" /\ \A i \in 1 .. Len(core) : core[i] \notin {"newline"}
  BY DEF Unmarked, EndsSolid
<1>2. CutAt(core, {"newline"}) = core
  BY <1>1, CutsNothing
<1> QED
  BY <1>1, <1>2 DEF Unmarked, Unfenced

\* Without a fence, and nothing after it.
LEMMA BareLine ==
  ASSUME NEW core, Unmarked(core), NEW blank, Void(blank)
  PROVE  CutAt(Unfenced(TrimSpace(Line(core, blank))), {"newline"}) = core
<1>1. TrimSpace(Line(core, blank)) = core
  BY BlanksGo, UnmarkedFacts DEF Line
<1> QED
  BY <1>1, UnmarkedFacts

\* A text that goes on to a symbol that is not blank.
LEMMA EndedAround ==
  ASSUME NEW m, EndsSolid(m), NEW c \in Text, NEW r \in Text, Len(r) >= 1, r[Len(r)] \notin Blanks
  PROVE  /\ c \o r \in Text /\ m \o (c \o r) \in Text /\ EndsSolid(m \o (c \o r))
         /\ (m \o (c \o r))[1] = m[1]
<1> DEFINE after == c \o r  w == m \o after
<1>1. m \in Text /\ Len(m) \in Nat /\ Len(m) >= 1 /\ m[1] \notin Blanks
  BY EndedFacts DEF EndsSolid
<1>2. /\ after \in Text /\ Len(after) = Len(c) + Len(r) /\ Len(c) \in Nat /\ Len(r) \in Nat
      /\ \A i \in 1 .. Len(r) : after[Len(c) + i] = r[i]
  BY Joined
<1> HIDE DEF after
<1>3. /\ w \in Text /\ Len(w) = Len(m) + Len(after) /\ Len(after) \in Nat
      /\ \A i \in 1 .. Len(m) : w[i] = m[i]
      /\ \A i \in 1 .. Len(after) : w[Len(m) + i] = after[i]
  BY <1>1, <1>2, Joined
<1> HIDE DEF w
<1>4. /\ 1 \in 1 .. Len(m) /\ Len(after) \in 1 .. Len(after) /\ Len(r) \in 1 .. Len(r)
      /\ Len(w) >= 1
  BY <1>1, <1>2, <1>3
<1>5. w[1] = m[1] /\ w[Len(w)] = after[Len(after)] /\ after[Len(after)] = r[Len(r)]
  BY <1>2, <1>3, <1>4
<1>6. EndsSolid(w)
  BY <1>1, <1>3, <1>4, <1>5 DEF EndsSolid
<1> QED
  BY <1>2, <1>3, <1>5, <1>6 DEF w, after

\* Another line after it.
LEMMA FirstLine ==
  ASSUME NEW core, Unmarked(core), NEW blank, Void(blank),
         \A i \in 1 .. Len(blank) : blank[i] # "newline"
  PROVE  CutAt(Unfenced(TrimSpace(Line(core, blank) \o <<"newline", "word">>)), {"newline"}) = core
<1> DEFINE nl == <<"newline">>  word == <<"word">>  rest == nl \o word
           m == core \o (blank \o rest)
<1>1. core \in Text /\ blank \in Text /\ nl \in Text /\ word \in Text /\ Len(word) = 1 /\ word[1] = "word"
  <2>1. "newline" \in Symbols /\ "word" \in Symbols
    BY DEF Symbols
  <2>2. core \in Text /\ blank \in Text
    BY UnmarkedFacts DEF Void
  <2>3. nl \in Text
    BY <2>1, OneItem DEF Text
  <2>4. word \in Text /\ Len(word) = 1 /\ word[1] = "word"
    BY <2>1, OneItem DEF Text
  <2> QED
    BY <2>2, <2>3, <2>4
<1>2. <<"newline", "word">> = rest
  OBVIOUS
<1>3. rest \in Text /\ Len(rest) = 2 /\ rest[2] = "word"
  <2>1. Len(nl) = 1 /\ Len(nl) + 1 = 2 /\ 1 + 1 = 2
    BY OneItem
  <2>2. rest \in Text /\ Len(rest) = Len(nl) + 1 /\ rest[Len(nl) + 1] = "word"
    <3>1. "word" \in Symbols
      BY DEF Symbols
    <3> HIDE DEF nl
    <3> QED
      BY <1>1, <3>1, OneLast
  <2> QED
    BY <2>1, <2>2
<1> HIDE DEF rest
<1>4. blank \o rest \in Text /\ core \o blank \in Text /\ m \in Text
  BY <1>1, <1>3, Joined
<1>5. Line(core, blank) \o rest = blank \o (m \o <<>>)
  <2>1. Line(core, blank) \o rest = blank \o ((core \o blank) \o rest)
    <3> DEFINE both == core \o blank
    <3>1. both \in Text
      BY <1>4
    <3> HIDE DEF both
    <3>2. (blank \o both) \o rest = blank \o (both \o rest)
      <4>1. Regrouped(blank, both, rest)
        BY <1>1, <1>3, <3>1, JoinedAgain
      <4> QED
        BY <4>1 DEF Regrouped
    <3> QED
      BY <3>2 DEF Line, both
  <2>2. (core \o blank) \o rest = m
    <3>1. Regrouped(core, blank, rest)
      BY <1>1, <1>3, JoinedAgain
    <3> QED
      BY <3>1 DEF Regrouped
  <2>3. m \o <<>> = m
    BY <1>4, Joined
  <2> QED
    BY <2>1, <2>2, <2>3
<1>6. EndsSolid(m) /\ m[1] = core[1]
  <2>1. EndsSolid(core) /\ Len(rest) >= 1 /\ rest[Len(rest)] \notin Blanks
    BY <1>3 DEF Unmarked, Blanks
  <2> QED
    BY <1>1, <1>3, <2>1, EndedAround
<1>7. TrimSpace(Line(core, blank) \o rest) = m
  <2>1. Void(<<>>)
    BY NothingWithin DEF Void
  <2> HIDE DEF m
  <2> QED
    BY <1>5, <1>6, <2>1, BlanksGo
<1>8. Unfenced(m) = m
  <2>1. Head(m) = core[1]
    BY <1>6, EndedFacts
  <2>2. Head(m) # "fence"
    BY <2>1 DEF Unmarked
  <2> QED
    BY <2>2 DEF Unfenced
<1>9. CutAt(m, {"newline"}) = core
  <2>1. \A i \in 1 .. Len(core) : core[i] \notin {"newline"}
    BY DEF Unmarked
  <2>2. EndsSolid(core) /\ \A i \in 1 .. Len(blank) : blank[i] \notin {"newline"}
    BY DEF Unmarked
  <2>3. CutAt(core \o (blank \o (<<"newline">> \o word)), {"newline"}) = core
    <3>1. "newline" \in {"newline"} /\ "newline" \in Symbols
      BY DEF Symbols
    <3> HIDE DEF word
    <3> QED
      BY <1>1, <2>1, <2>2, <3>1, CutBack
  <2> QED
    BY <2>3 DEF rest
<1> QED
  BY <1>2, <1>7, <1>8, <1>9

\* Between fences: the lines inside.
LEMMA InsideFence ==
  ASSUME NEW core, Unmarked(core), NEW blank, Void(blank), NEW n, Void(n),
         \A i \in 1 .. Len(blank) : blank[i] # "fence", \A i \in 1 .. Len(n) : n[i] # "fence"
  PROVE  CutAt(TrimSpace(<<"newline">> \o (Line(core, blank) \o (n \o <<"fence">>))), {"fence"}) = core
<1> DEFINE nl == <<"newline">>  fence == <<"fence">>  z == n \o fence  c == blank \o n
           m == core \o (blank \o z)
<1>1. core \in Text /\ blank \in Text /\ n \in Text /\ EndsSolid(core)
  BY UnmarkedFacts DEF Void
<1>2. "newline" \in Symbols /\ "fence" \in Symbols /\ <<>> \in Text
  BY NothingWithin, <1>1 DEF Symbols
<1>3. fence \in Text /\ z \in Text /\ Len(z) >= 1 /\ z[Len(z)] = "fence"
  <2>1. fence \in Text
    BY <1>2, OneItem DEF Text
  <2>2. z \in Text /\ Len(z) = Len(n) + 1 /\ Len(n) \in Nat /\ z[Len(n) + 1] = "fence"
    BY <1>1, <1>2, OneLast
  <2> QED
    BY <2>1, <2>2
<1>4. nl \in Text /\ Void(nl)
  <2>1. nl \in Text /\ Len(nl) = 1 /\ nl[1] = "newline"
    BY <1>2, OneItem DEF Text
  <2>2. \A i \in 1 .. Len(nl) : i = 1
    BY <2>1
  <2> HIDE DEF nl
  <2> QED
    BY <2>1, <2>2 DEF Void, Blanks
<1>5. EndsSolid(m) /\ blank \o z \in Text /\ m \in Text
  <2>1. z[Len(z)] \notin Blanks
    BY <1>3 DEF Blanks
  <2> HIDE DEF z
  <2> QED
    BY <1>1, <1>3, <2>1, EndedAround
<1>6. core \o (c \o (fence \o <<>>)) = m
  <2>1. fence \o <<>> = fence
    BY <1>3, Joined
  <2>2. (blank \o n) \o fence = blank \o (n \o fence)
    <3>1. Regrouped(blank, n, fence)
      BY <1>1, <1>3, JoinedAgain
    <3> QED
      BY <3>1 DEF Regrouped
  <2> QED
    BY <2>1, <2>2
<1>7. Line(core, blank) \o z = blank \o m
  <2> DEFINE both == core \o blank
  <2>1. both \in Text
    BY <1>1, Joined
  <2>2. both \o z = m
    <3>1. Regrouped(core, blank, z)
      BY <1>1, <1>3, JoinedAgain
    <3> QED
      BY <3>1 DEF Regrouped
  <2> HIDE DEF both, m, z
  <2>3. (blank \o both) \o z = blank \o (both \o z)
    <3>1. Regrouped(blank, both, z)
      BY <1>1, <1>3, <2>1, JoinedAgain
    <3> QED
      BY <3>1 DEF Regrouped
  <2> QED
    BY <2>2, <2>3 DEF Line, both
<1> HIDE DEF m, z, nl
<1>8. nl \o (Line(core, blank) \o z) = (nl \o blank) \o (m \o <<>>)
  <2>1. nl \o (blank \o m) = (nl \o blank) \o m
    <3>1. Regrouped(nl, blank, m)
      BY <1>1, <1>4, <1>5, JoinedAgain
    <3> QED
      BY <3>1 DEF Regrouped
  <2>2. m \o <<>> = m
    BY <1>5, Joined
  <2> QED
    BY <1>7, <2>1, <2>2
<1>9. TrimSpace(nl \o (Line(core, blank) \o z)) = m
  <2> DEFINE a == nl \o blank
  <2>1. Void(a)
    BY <1>4, VoidsJoined
  <2>2. Void(<<>>)
    BY <1>2 DEF Void
  <2> HIDE DEF a
  <2>3. TrimSpace(a \o (m \o <<>>)) = m
    BY <1>5, <2>1, <2>2, BlanksGo
  <2> QED
    BY <1>8, <2>3 DEF a
<1>10. CutAt(core \o (c \o (fence \o <<>>)), {"fence"}) = core
  <2>1. Void(c)
    BY VoidsJoined
  <2>2. \A i \in 1 .. Len(core) : core[i] \notin {"fence"}
    BY DEF Unmarked
  <2>3. \A i \in 1 .. Len(c) : c[i] \notin {"fence"}
    <3>1. c \in Text /\ \A i \in 1 .. Len(c) : c[i] \in Blanks
      BY <2>1 DEF Void
    <3> HIDE DEF c
    <3> QED
      BY <3>1 DEF Blanks
  <2> DEFINE none == <<>>
  <2>4. "fence" \in {"fence"} /\ none \in Text
    BY <1>2
  <2> HIDE DEF c, none
  <2>5. CutAt(core \o (c \o (<<"fence">> \o none)), {"fence"}) = core
    BY <1>1, <1>2, <2>1, <2>2, <2>3, <2>4, CutBack
  <2> QED
    BY <2>5 DEF none
<1> QED
  BY <1>6, <1>9, <1>10 DEF nl, z

\* What is read after a fence.
LEMMA UnfencedOf ==
  ASSUME NEW u \in Text
  PROVE  Unfenced(<<"fence">> \o u)
           = CutAt(TrimSpace(TrimPrefix(TrimPrefix(u, "plaintext"), "text")), {"fence"})
<1>1. "fence" \in Symbols
  BY DEF Symbols
<1>2. <<"fence">> \o u # <<>> /\ Head(<<"fence">> \o u) = "fence" /\ Tail(<<"fence">> \o u) = u
  BY <1>1, FirstOff
<1> DEFINE s == <<"fence">> \o u
<1> HIDE DEF s
<1>3. s # <<>> /\ Head(s) = "fence" /\ Tail(s) = u
  BY <1>2 DEF s
<1>4. Unfenced(s) = CutAt(TrimSpace(TrimPrefix(TrimPrefix(u, "plaintext"), "text")), {"fence"})
  BY <1>3 DEF Unfenced
<1> QED
  BY <1>4 DEF s

Tags == {<<>>, <<"plaintext">>, <<"text">>}

LEMMA TagsGo ==
  ASSUME NEW tag \in Tags, NEW v \in Text
  PROVE  TrimPrefix(TrimPrefix(tag \o (<<"newline">> \o v), "plaintext"), "text") = <<"newline">> \o v
<1> DEFINE w == <<"newline">> \o v
<1>1. /\ "newline" \in Symbols /\ "plaintext" \in Symbols /\ "text" \in Symbols
  BY DEF Symbols
<1>2. w \in Text /\ w # <<>> /\ Head(w) = "newline"
  BY <1>1, FirstOff
<1> HIDE DEF w
<1>3. TrimPrefix(w, "plaintext") = w /\ TrimPrefix(w, "text") = w
  BY <1>2 DEF TrimPrefix
<1>4. CASE tag = <<>>
  <2>1. <<>> \o w = w
    BY <1>2, Joined
  <2> QED
    BY <1>3, <1>4, <2>1 DEF w
<1>5. CASE tag = <<"plaintext">>
  <2> DEFINE u == <<"plaintext">> \o w
  <2>1. u # <<>> /\ Head(u) = "plaintext" /\ Tail(u) = w
    BY <1>1, <1>2, FirstOff
  <2> HIDE DEF u
  <2>2. TrimPrefix(u, "plaintext") = w
    BY <2>1 DEF TrimPrefix
  <2> QED
    BY <1>3, <1>5, <2>2 DEF w, u
<1>6. CASE tag = <<"text">>
  <2> DEFINE u == <<"text">> \o w
  <2>1. u # <<>> /\ Head(u) = "text" /\ Tail(u) = w
    BY <1>1, <1>2, FirstOff
  <2> HIDE DEF u
  <2>2. TrimPrefix(u, "plaintext") = u /\ TrimPrefix(u, "text") = w
    BY <2>1 DEF TrimPrefix
  <2> QED
    BY <1>6, <2>2 DEF w, u
<1> QED
  BY <1>4, <1>5, <1>6 DEF Tags

FencedText(tag, core, blank, n) ==
  <<"fence">> \o (tag \o (<<"newline">> \o (Line(core, blank) \o (n \o <<"fence">>))))

LEMMA FencedLine ==
  ASSUME NEW core, Unmarked(core), NEW blank, Void(blank), NEW n, Void(n), NEW tag \in Tags,
         \A i \in 1 .. Len(blank) : blank[i] # "fence", \A i \in 1 .. Len(n) : n[i] # "fence"
  PROVE  CutAt(Unfenced(TrimSpace(FencedText(tag, core, blank, n))), {"newline"}) = core
<1> DEFINE fence == <<"fence">>  nl == <<"newline">>  z == n \o fence  l == Line(core, blank)
           v == l \o z  u == tag \o (nl \o v)  w == fence \o u
<1>1. "newline" \in Symbols /\ "fence" \in Symbols /\ "plaintext" \in Symbols /\ "text" \in Symbols
  BY DEF Symbols
<1>2. core \in Text /\ blank \in Text /\ n \in Text
  BY UnmarkedFacts DEF Void
<1>3. z \in Text /\ Len(z) >= 1 /\ z[Len(z)] = "fence"
  <2>1. z \in Text /\ Len(z) = Len(n) + 1 /\ Len(n) \in Nat /\ z[Len(n) + 1] = "fence"
    BY <1>1, <1>2, OneLast
  <2> QED
    BY <2>1
<1>4. nl \in Text /\ fence \in Text /\ Len(fence) = 1 /\ fence[1] = "fence"
  <2>1. nl \in Text
    BY <1>1, OneItem DEF Text
  <2>2. fence \in Text /\ Len(fence) = 1 /\ fence[1] = "fence"
    BY <1>1, OneItem DEF Text
  <2> QED
    BY <2>1, <2>2
<1>5. tag \in Text
  <2>1. <<>> \in Text
    BY <1>2, NothingWithin
  <2>2. <<"plaintext">> \in Text /\ <<"text">> \in Text
    <3>1. <<"plaintext">> \in Text
      BY <1>1, OneItem DEF Text
    <3>2. <<"text">> \in Text
      BY <1>1, OneItem DEF Text
    <3> QED
      BY <3>1, <3>2
  <2> QED
    BY <2>1, <2>2 DEF Tags
<1>6. l \in Text
  <2>1. core \o blank \in Text
    BY <1>2, Joined
  <2> DEFINE both == core \o blank
  <2> HIDE DEF both
  <2>2. blank \o both \in Text
    BY <1>2, <2>1, Joined DEF both
  <2> QED
    BY <2>2 DEF Line, both
<1>7. CutAt(TrimSpace(nl \o v), {"fence"}) = core
  BY InsideFence
<1> HIDE DEF z, l, fence, nl
<1>8. v \in Text /\ nl \o l \in Text
  BY <1>3, <1>4, <1>6, Joined
<1>9. u = (tag \o (nl \o l)) \o z
  <2>1. nl \o (l \o z) = (nl \o l) \o z
    <3>1. Regrouped(nl, l, z)
      BY <1>3, <1>4, <1>6, JoinedAgain
    <3> QED
      BY <3>1 DEF Regrouped
  <2> DEFINE nll == nl \o l
  <2>2. nll \in Text
    BY <1>8
  <2> HIDE DEF nll
  <2>3. Regrouped(tag, nll, z)
    BY <1>3, <1>5, <2>2, JoinedAgain
  <2>4. tag \o (nll \o z) = (tag \o nll) \o z
    BY <2>3 DEF Regrouped
  <2> QED
    BY <2>1, <2>4 DEF nll
<1>10. EndsSolid(w) /\ u \in Text
  <2> DEFINE c == tag \o (nl \o l)
  <2>1. c \in Text
    <3> DEFINE nll == nl \o l
    <3> HIDE DEF nll
    <3>1. tag \o nll \in Text
      BY <1>5, <1>8, Joined DEF nll
    <3> QED
      BY <3>1 DEF nll
  <2>2. EndsSolid(fence) /\ z[Len(z)] \notin Blanks
    BY <1>3, <1>4 DEF EndsSolid, Blanks
  <2> HIDE DEF c
  <2>3. c \o z \in Text /\ EndsSolid(fence \o (c \o z))
    BY <1>3, <2>1, <2>2, EndedAround
  <2> QED
    BY <1>9, <2>3 DEF c
<1>11. TrimSpace(w) = w
  BY <1>10, EndedIsTrimmed
<1>12. Unfenced(w) = CutAt(TrimSpace(TrimPrefix(TrimPrefix(u, "plaintext"), "text")), {"fence"})
  BY <1>10, UnfencedOf DEF fence
<1>13. TrimPrefix(TrimPrefix(u, "plaintext"), "text") = nl \o v
  BY <1>8, TagsGo DEF nl
<1>14. Unfenced(w) = core
  BY <1>7, <1>12, <1>13
<1>15. CutAt(Unfenced(TrimSpace(w)), {"newline"}) = core
  BY <1>11, <1>14, UnmarkedFacts
<1> QED
  BY <1>15 DEF w, u, v, l, z, fence, nl, FencedText

LEMMA JoinedFive ==
  ASSUME NEW a \in Text, NEW p \in Text, NEW q \in Text, NEW r \in Text, NEW z \in Text
  PROVE  /\ a \o p \o q \o r \o z = a \o ((p \o (q \o r)) \o z)
         /\ a \o ((p \o (q \o r)) \o z) \in Text
<1> DEFINE ap == a \o p  qr == q \o r
<1>1. ap \in Text
  BY Joined
<1>2. qr \in Text
  BY Joined
<1> HIDE DEF ap, qr
<1>3. (ap \o q) \o r = ap \o (q \o r)
  <2>1. Regrouped(ap, q, r)
    BY <1>1, JoinedAgain
  <2> QED
    BY <2>1 DEF Regrouped
<1>4. (a \o p) \o qr = a \o (p \o qr)
  <2>1. Regrouped(a, p, qr)
    BY <1>2, JoinedAgain
  <2> QED
    BY <2>1 DEF Regrouped
<1> DEFINE core == p \o qr
<1>5. core \in Text
  BY <1>2, Joined
<1>6. (ap \o q) \o r = a \o core
  BY <1>3, <1>4 DEF ap, qr
<1> HIDE DEF core
<1>7. (a \o core) \o z = a \o (core \o z)
  <2>1. Regrouped(a, core, z)
    BY <1>5, JoinedAgain
  <2> QED
    BY <2>1 DEF Regrouped
<1> DEFINE both == core \o z
<1>8. both \in Text
  BY <1>5, Joined
<1>9. ((ap \o q) \o r) \o z = a \o both
  BY <1>6, <1>7
<1> HIDE DEF both
<1>10. a \o both \in Text
  BY <1>8, Joined
<1> QED
  BY <1>9, <1>10 DEF both, core, qr, ap

LEMMA WrappedIs ==
  ASSUME NEW q \in Text, NEW pair \in Pairs, NEW blank \in {<<>>, <<"blank">>},
         NEW fence \in {"none", "rest", "fence", "plaintext", "text"}
  PROVE  LET line == Line(Core(q, pair), blank)
             Fenced(tag, n) == FencedText(tag, Core(q, pair), blank, n)
         IN /\ fence = "none" => Wrapped(q, fence, pair, blank) = line
            /\ fence = "rest" => Wrapped(q, fence, pair, blank) = line \o <<"newline", "word">>
            /\ fence = "fence" => Wrapped(q, fence, pair, blank) = Fenced(<<>>, <<"newline">>)
            /\ fence = "plaintext" => Wrapped(q, fence, pair, blank) = Fenced(<<"plaintext">>, <<>>)
            /\ fence = "text" => Wrapped(q, fence, pair, blank) = Fenced(<<"text">>, <<>>)
<1> DEFINE line == Line(Core(q, pair), blank)
           flat == blank \o pair[1] \o q \o pair[2] \o blank
           nl == <<"newline">>  mark == <<"fence">>  none == <<>>
<1>1. /\ "newline" \in Symbols /\ "fence" \in Symbols /\ "blank" \in Symbols /\ "text" \in Symbols
      /\ "plaintext" \in Symbols
      /\ \A x \in {"quote", "apostrophe", "left", "right"} : x \in Symbols
  BY DEF Symbols
<1>2. nl \in Text /\ mark \in Text /\ none \in Text
  <2>1. nl \in Text
    BY <1>1, OneItem DEF Text
  <2>2. mark \in Text
    BY <1>1, OneItem DEF Text
  <2> QED
    BY <2>1, <2>2, NothingWithin
<1>3. blank \in Text
  <2>1. <<"blank">> \in Text
    BY <1>1, OneItem DEF Text
  <2> QED
    BY <1>2, <2>1
<1>4. pair[1] \in Text /\ pair[2] \in Text
  <2>1. CASE pair[1] = <<>> /\ pair[2] = <<>>
    BY <1>2, <2>1
  <2>2. CASE \E x, y \in {"quote", "apostrophe", "left", "right"} :
               <<x, y>> \in QuotePairs /\ pair[1] = <<x>> /\ pair[2] = <<y>>
    <3>1. PICK x, y \in {"quote", "apostrophe", "left", "right"} :
            pair[1] = <<x>> /\ pair[2] = <<y>>
      BY <2>2
    <3>2. x \in Symbols /\ y \in Symbols
      BY <1>1
    <3>3. <<x>> \in Text
      BY <3>2, OneItem DEF Text
    <3>4. <<y>> \in Text
      BY <3>2, OneItem DEF Text
    <3> QED
      BY <3>1, <3>3, <3>4
  <2> QED
    BY <2>1, <2>2, PairKinds
<1>5. flat = line /\ line \in Text
  <2> DEFINE p == pair[1]  r == pair[2]
  <2>1. p \in Text /\ r \in Text
    BY <1>4
  <2> HIDE DEF p, r
  <2>2. /\ blank \o p \o q \o r \o blank = blank \o ((p \o (q \o r)) \o blank)
        /\ blank \o ((p \o (q \o r)) \o blank) \in Text
    BY <1>3, <2>1, JoinedFive
  <2> QED
    BY <2>2 DEF Line, Core, p, r
<1>6. /\ <<"newline", "fence">> = nl \o mark /\ <<"fence", "newline">> = mark \o nl
      /\ <<"fence", "plaintext", "newline">> = mark \o (<<"plaintext">> \o nl)
      /\ <<"fence", "text", "newline">> = mark \o (<<"text">> \o nl)
  OBVIOUS
<1>7. /\ Wrapped(q, "none", pair, blank) = line
      /\ Wrapped(q, "rest", pair, blank) = line \o <<"newline", "word">>
      /\ Wrapped(q, "fence", pair, blank) = (mark \o nl) \o line \o (nl \o mark)
      /\ Wrapped(q, "plaintext", pair, blank) = (mark \o (<<"plaintext">> \o nl)) \o line \o mark
      /\ Wrapped(q, "text", pair, blank) = (mark \o (<<"text">> \o nl)) \o line \o mark
  <2>1. \A f : Wrapped(q, f, pair, blank) =
                 CASE f = "none" -> flat
                   [] f = "rest" -> flat \o <<"newline", "word">>
                   [] f = "fence" -> <<"fence", "newline">> \o flat \o <<"newline", "fence">>
                   [] OTHER -> <<"fence", f, "newline">> \o flat \o <<"fence">>
    BY DEF Wrapped
  <2> HIDE DEF flat, line
  <2>2. Wrapped(q, "none", pair, blank) = line
    BY <1>5, <2>1
  <2>3. Wrapped(q, "rest", pair, blank) = line \o <<"newline", "word">>
    BY <1>5, <2>1
  <2>4. Wrapped(q, "fence", pair, blank) = <<"fence", "newline">> \o line \o <<"newline", "fence">>
    BY <1>5, <2>1
  <2>5. Wrapped(q, "plaintext", pair, blank) = <<"fence", "plaintext", "newline">> \o line \o <<"fence">>
    BY <1>5, <2>1
  <2>6. Wrapped(q, "text", pair, blank) = <<"fence", "text", "newline">> \o line \o <<"fence">>
    BY <1>5, <2>1
  <2> QED
    BY <1>6, <2>2, <2>3, <2>4, <2>5, <2>6
<1> HIDE DEF line, flat, nl, mark, none
<1>8. ASSUME NEW tag \in Text, NEW n \in Text
      PROVE  (mark \o (tag \o nl)) \o line \o (n \o mark)
               = mark \o (tag \o (nl \o (line \o (n \o mark))))
  <2> DEFINE z == n \o mark  lz == line \o z  tn == tag \o nl
  <2>1. z \in Text /\ tn \in Text
    BY <1>2, Joined
  <2> HIDE DEF z
  <2>2. lz \in Text
    BY <1>5, <2>1, Joined
  <2> HIDE DEF tn
  <2>3. mark \o tn \in Text /\ ((mark \o tn) \o line) \o z = (mark \o tn) \o (line \o z)
    <3> DEFINE mt == mark \o tn
    <3>1. mt \in Text
      BY <1>2, <2>1, Joined
    <3> HIDE DEF mt
    <3>2. (mt \o line) \o z = mt \o (line \o z)
      <4>1. Regrouped(mt, line, z)
        BY <1>5, <2>1, <3>1, JoinedAgain
      <4> QED
        BY <4>1 DEF Regrouped
    <3> QED
      BY <3>1, <3>2 DEF mt
  <2> HIDE DEF lz
  <2>4. (mark \o tn) \o lz = mark \o (tn \o lz)
    <3>1. Regrouped(mark, tn, lz)
      BY <1>2, <2>1, <2>2, JoinedAgain
    <3> QED
      BY <3>1 DEF Regrouped
  <2>5. (tag \o nl) \o lz = tag \o (nl \o lz)
    <3>1. Regrouped(tag, nl, lz)
      BY <1>2, <1>8, <2>2, JoinedAgain
    <3> QED
      BY <3>1 DEF Regrouped
  <2> QED
    BY <2>3, <2>4, <2>5 DEF z, lz, tn
<1>9. none \o nl = nl /\ none \o mark = mark
  BY <1>2, Joined DEF none
<1>10. CASE fence = "none" \/ fence = "rest"
  BY <1>7, <1>10 DEF line
<1>11. CASE fence = "fence"
  <2>1. (mark \o (none \o nl)) \o line \o (nl \o mark) = mark \o (none \o (nl \o (line \o (nl \o mark))))
    BY <1>2, <1>8
  <2> QED
    BY <1>7, <1>9, <1>11, <2>1 DEF line, nl, mark, none, FencedText
<1>12. CASE fence = "plaintext"
  <2>1. <<"plaintext">> \in Text
    BY <1>1, OneItem DEF Text
  <2> DEFINE tag == <<"plaintext">>
  <2> HIDE DEF tag
  <2>2. (mark \o (tag \o nl)) \o line \o (none \o mark) = mark \o (tag \o (nl \o (line \o (none \o mark))))
    BY <1>2, <1>8, <2>1 DEF tag
  <2> QED
    BY <1>7, <1>9, <1>12, <2>2 DEF line, nl, mark, none, tag, FencedText
<1>13. CASE fence = "text"
  <2>1. <<"text">> \in Text
    BY <1>1, OneItem DEF Text
  <2> DEFINE tag == <<"text">>
  <2> HIDE DEF tag
  <2>2. (mark \o (tag \o nl)) \o line \o (none \o mark) = mark \o (tag \o (nl \o (line \o (none \o mark))))
    BY <1>2, <1>8, <2>1 DEF tag
  <2> QED
    BY <1>7, <1>9, <1>13, <2>2 DEF line, nl, mark, none, tag, FencedText
<1> QED
  BY <1>10, <1>11, <1>12, <1>13

(***************************************************************************)
(* RewriteIsOneLine (NormalizeRewrittenQuery of query_rewrite.go): for     *)
(* every answer, of any length, the rewritten query is one line of it      *)
(* without blanks around, and a query of plain words comes back out of     *)
(* every wrapping that the function knows.                                 *)
(***************************************************************************)
THEOREM RewritesAreLines == ASSUME NEW answer \in Text PROVE RewriteIsOneLine(answer)
<1> DEFINE query == NormalizeRewrittenQuery(answer)  q == TrimSpace(answer)
<1>1. /\ query \in Text /\ IsWithin(query, answer) /\ Trimmed(query)
      /\ \A i \in 1 .. Len(query) : query[i] # "newline"
  BY RewrittenLine
<1> HIDE DEF query
<1>2. Len(query) \in Nat /\ Len(answer) \in Nat /\ DOMAIN query = 1 .. Len(query)
  BY <1>1, LenProperties DEF Text
<1>3. ~Contains(query, "newline")
  BY <1>1, <1>2 DEF Contains
<1>4. \E i \in 1 .. Len(answer) + 1 : SubSeq(answer, i, i + Len(query) - 1) = query
  <2>1. PICK a \in Nat : a + Len(query) <= Len(answer) /\ \A k \in 1 .. Len(query) : query[k] = answer[a + k]
    BY <1>1 DEF IsWithin
  <2> DEFINE i == a + 1  j == i + Len(query) - 1
  <2>2. /\ i \in 1 .. Len(answer) + 1 /\ i \in Int /\ j \in Int /\ 1 <= i /\ i <= j + 1 /\ j <= Len(answer)
        /\ j - i + 1 = Len(query) /\ \A k \in 1 .. Len(query) : i + k - 1 = a + k
    BY <1>2, <2>1
  <2> HIDE DEF j, i
  <2>3. /\ SubSeq(answer, i, j) \in Text /\ Len(SubSeq(answer, i, j)) = j - i + 1
        /\ \A k \in 1 .. j - i + 1 : SubSeq(answer, i, j)[k] = answer[i + k - 1]
    BY <2>2, PieceOf
  <2>4. \A k \in 1 .. Len(query) : SubSeq(answer, i, j)[k] = query[k]
    BY <2>1, <2>2, <2>3
  <2>5. SubSeq(answer, i, j) = query
    BY <1>1, <2>2, <2>3, <2>4, SeqEqual DEF Text
  <2> QED
    BY <2>2, <2>5 DEF j
<1>5. ASSUME ToSet(answer) \subseteq {"word", "blank"}, q # <<>>,
             NEW fence \in {"none", "rest", "fence", "plaintext", "text"},
             NEW blank \in {<<>>, <<"blank">>}, NEW pair \in Pairs
      PROVE  NormalizeRewrittenQuery(Wrapped(q, fence, pair, blank)) = q
  <2> DEFINE core == Core(q, pair)  w == Wrapped(q, fence, pair, blank)
  <2>1. q \in Text /\ IsWithin(q, answer)
    BY Trims
  <2>2. Plain(q)
    <3>1. \A i \in 1 .. Len(answer) : answer[i] \in {"word", "blank"}
      <4>1. DOMAIN answer = 1 .. Len(answer)
        BY LenProperties DEF Text
      <4> QED
        BY <1>5, <4>1 DEF ToSet
    <3>2. \A i \in 1 .. Len(q) : q[i] \in {"word", "blank"}
      <4> HIDE DEF q
      <4> QED
        BY <2>1, <3>1, WithinHas
    <3>3. PICK a, b \in 1 .. Len(answer) : Between(answer, a, b)
      BY <1>5, AllBlank, BetweenExists
    <3>4. q = SubSeq(answer, a, b)
      BY <3>3, TrimIsBetween
    <3>5. /\ a \in Int /\ b \in Int /\ 1 <= a /\ a <= b /\ a <= b + 1 /\ b <= Len(answer)
          /\ answer[a] \notin Blanks /\ answer[b] \notin Blanks
      BY <1>2, <3>3 DEF Between
    <3> HIDE DEF q
    <3>6. Len(q) = b - a + 1 /\ \A i \in 1 .. b - a + 1 : q[i] = answer[a + i - 1]
      BY <3>4, <3>5, PieceOf
    <3>7. /\ 1 \in 1 .. b - a + 1 /\ b - a + 1 \in 1 .. b - a + 1 /\ Len(q) >= 1
          /\ a + 1 - 1 = a /\ a + (b - a + 1) - 1 = b
      BY <3>5, <3>6
    <3>8. q[1] = answer[a] /\ q[Len(q)] = answer[b]
      BY <3>6, <3>7
    <3> QED
      BY <2>1, <3>2, <3>5, <3>7, <3>8 DEF Plain, EndsSolid
  <2> HIDE DEF q
  <2>3. Unmarked(core) /\ Bare(core) = q
    BY <2>2, QuotesGo
  <2>4. Void(blank) /\ \A i \in 1 .. Len(blank) : blank[i] = "blank"
    <3>1. Void(<<>>) /\ \A i \in 1 .. Len(<<>>) : <<>>[i] = "blank"
      BY <2>1, NothingWithin DEF Void
    <3>2. <<"blank">> \in Text
      <4>1. "blank" \in Symbols
        BY DEF Symbols
      <4> QED
        BY <4>1, OneItem DEF Text
    <3>3. Void(<<"blank">>) /\ \A i \in 1 .. Len(<<"blank">>) : <<"blank">>[i] = "blank"
      BY <3>2 DEF Void, Blanks
    <3> QED
      BY <3>1, <3>3
  <2>5. \A i \in 1 .. Len(blank) : blank[i] # "newline" /\ blank[i] # "fence"
    BY <2>4
  <2>6. Void(<<>>) /\ Void(<<"newline">>)
    <3>1. Void(<<>>)
      BY <2>1, NothingWithin DEF Void
    <3>2. <<"newline">> \in Text
      <4>1. "newline" \in Symbols
        BY DEF Symbols
      <4> QED
        BY <4>1, OneItem DEF Text
    <3>3. Void(<<"newline">>)
      BY <3>2 DEF Void, Blanks
    <3> QED
      BY <3>1, <3>3
  <2>7. /\ \A i \in 1 .. Len(<<>>) : <<>>[i] # "fence"
        /\ \A i \in 1 .. Len(<<"newline">>) : <<"newline">>[i] # "fence"
    OBVIOUS
  <2> HIDE DEF core
  <2>8. CASE fence = "none"
    <3>1. w = Line(core, blank)
      BY <2>1, <2>8, WrappedIs DEF core
    <3> QED
      BY <2>3, <2>4, <3>1, BareLine, RewriteOf
  <2>9. CASE fence = "rest"
    <3>1. w = Line(core, blank) \o <<"newline", "word">>
      BY <2>1, <2>9, WrappedIs DEF core
    <3> QED
      BY <2>3, <2>4, <2>5, <3>1, FirstLine, RewriteOf
  <2>10. CASE fence = "fence"
    <3> DEFINE tag == <<>>  n == <<"newline">>
    <3>1. w = FencedText(tag, core, blank, n)
      BY <2>1, <2>10, WrappedIs DEF core
    <3>2. tag \in Tags /\ Void(n) /\ \A i \in 1 .. Len(n) : n[i] # "fence"
      BY <2>6, <2>7 DEF Tags
    <3> HIDE DEF tag, n, w
    <3>3. CutAt(Unfenced(TrimSpace(w)), {"newline"}) = core
      BY <2>3, <2>4, <2>5, <3>1, <3>2, FencedLine
    <3> QED
      BY <2>3, <3>3, RewriteOf DEF w
  <2>11. CASE fence = "plaintext" \/ fence = "text"
    <3> DEFINE tag == IF fence = "text" THEN <<"text">> ELSE <<"plaintext">>  n == <<>>
    <3>1. w = FencedText(tag, core, blank, n)
      <4>1. CASE fence = "plaintext"
        BY <2>1, <4>1, WrappedIs DEF core
      <4>2. CASE fence = "text"
        BY <2>1, <4>2, WrappedIs DEF core
      <4> QED
        BY <2>11, <4>1, <4>2
    <3>2. tag \in Tags /\ Void(n) /\ \A i \in 1 .. Len(n) : n[i] # "fence"
      BY <2>6, <2>7 DEF Tags
    <3> HIDE DEF tag, n, w
    <3>3. CutAt(Unfenced(TrimSpace(w)), {"newline"}) = core
      BY <2>3, <2>4, <2>5, <3>1, <3>2, FencedLine
    <3> QED
      BY <2>3, <3>3, RewriteOf DEF w
  <2> QED
    BY <2>8, <2>9, <2>10, <2>11
<1>6. query = TrimSpace(query)
  BY <1>1 DEF Trimmed
<1> HIDE DEF q
<1> QED
  BY <1>3, <1>4, <1>5, <1>6 DEF RewriteIsOneLine, query, q, Pairs

-----------------------------------------------------------------------------
(***************************************************************************)
(* The messages of a prompt.                                               *)
(***************************************************************************)
\* Of some messages, those of a role and those for a provider without the
\* system role.
WithRole(S, role) == {m \in S : m.role = role}
NoSystem(S) == {m \in S : m.role # "system"}

LEMMA RolesOf ==
  ASSUME NEW X, NEW ms \in Seq(X), NEW role
  PROVE  OfRole(ms, role) = Among(ms, WithRole(X, role))
<1>1. \A m \in ToSet(ms) : m \in WithRole(ToSet(ms), role) <=> m \in WithRole(X, role)
  BY MembersOf DEF WithRole
<1>2. OfRole(ms, role) = Among(ms, WithRole(ToSet(ms), role))
  BY DEF Filtered, OfRole, WithRole
<1>3. Among(ms, WithRole(ToSet(ms), role)) = Among(ms, WithRole(X, role))
  BY <1>1, AmongSame
<1> QED
  BY <1>2, <1>3

LEMMA AnthropicOf ==
  ASSUME NEW X, NEW ms \in Seq(X)
  PROVE  chatMessagesToAnthropic(ms) = Among(ms, NoSystem(X))
<1>1. \A m \in ToSet(ms) : m \in NoSystem(ToSet(ms)) <=> m \in NoSystem(X)
  BY MembersOf DEF NoSystem
<1>2. chatMessagesToAnthropic(ms) = Among(ms, NoSystem(ToSet(ms)))
  BY DEF Filtered, chatMessagesToAnthropic, NoSystem
<1>3. Among(ms, NoSystem(ToSet(ms))) = Among(ms, NoSystem(X))
  BY <1>1, AmongSame
<1> QED
  BY <1>2, <1>3

\* A message that does not meet the condition leaves no trace.
LEMMA AskedAmong ==
  ASSUME NEW X, NEW ms \in Seq(X), NEW text, ChatMessage("user", text) \in X, NEW S,
         ChatMessage("user", text) \notin S
  PROVE  Among(Ask(ms, text), S) = Among(ms, S)
<1>1. CASE Ask(ms, text) = ms
  BY <1>1
<1>2. CASE Ask(ms, text) = Append(ms, ChatMessage("user", text))
  BY <1>2, AmongAppend
<1> QED
  BY <1>1, <1>2 DEF Ask

\* What Ask gives.
IsBlank(text) == text = ""

LEMMA Asked ==
  ASSUME NEW X, NEW ms \in Seq(X), NEW text, NEW new \in X, new = ChatMessage("user", text),
         NEW built, built = Ask(ms, text)
  PROVE  /\ built \in Seq(X)
         /\ IsPrefix(ms, built)
         /\ ~IsBlank(text) => Last(built) = new
         /\ ~IsBlank(text) => (Len(built) = Len(ms) <=> ms # <<>> /\ Last(ms) = new)
         /\ Len(built) <= Len(ms) + 1
<1> DEFINE more == Append(ms, new)  doubled == ms # <<>> /\ Last(ms) = new
<1>1. /\ more \in Seq(X) /\ Len(more) = Len(ms) + 1 /\ more[Len(ms) + 1] = new
      /\ Len(ms) \in Nat /\ \A i \in 1 .. Len(ms) : more[i] = ms[i]
  BY AppendProperties, LenProperties
<1>2. built = IF IsBlank(text) \/ doubled THEN ms ELSE more
  BY DEF Ask, IsBlank
<1> HIDE DEF more
<1>3. SubSeq(more, 1, Len(ms)) = SubSeq(ms, 1, Len(ms))
  <2> DEFINE a == SubSeq(more, 1, Len(ms))  b == SubSeq(ms, 1, Len(ms))
  <2>1. \A i \in 1 .. Len(ms) : ms[i] \in X /\ more[i] \in X
    BY <1>1, ElementOfSeq
  <2>2. /\ a \in Seq(X) /\ Len(a) = (IF 1 <= Len(ms) THEN Len(ms) - 1 + 1 ELSE 0)
        /\ \A i \in 1 .. Len(ms) - 1 + 1 : a[i] = more[1 + i - 1]
    BY <1>1, <2>1, SubSeqProperties
  <2>3. /\ b \in Seq(X) /\ Len(b) = (IF 1 <= Len(ms) THEN Len(ms) - 1 + 1 ELSE 0)
        /\ \A i \in 1 .. Len(ms) - 1 + 1 : b[i] = ms[1 + i - 1]
    BY <1>1, <2>1, SubSeqProperties
  <2> HIDE DEF a, b
  <2>4. Len(a) = Len(ms) /\ Len(b) = Len(ms)
    BY <1>1, <2>2, <2>3
  <2>5. \A i \in 1 .. Len(ms) : a[i] = b[i]
    <3> SUFFICES ASSUME NEW i \in 1 .. Len(ms) PROVE a[i] = b[i]
      OBVIOUS
    <3>1. i \in 1 .. Len(ms) - 1 + 1 /\ 1 + i - 1 = i
      BY <1>1
    <3> QED
      BY <1>1, <2>2, <2>3, <3>1
  <2>6. a = b
    BY <2>2, <2>3, <2>4, <2>5, SeqEqual
  <2> QED
    BY <2>6 DEF a, b
<1>4. IsPrefix(ms, more) /\ IsPrefix(ms, ms)
  BY <1>1, <1>3 DEF IsPrefix
<1>5. Last(more) = new
  BY <1>1 DEF Last
<1>6. Len(more) # Len(ms) /\ Len(more) <= Len(ms) + 1 /\ Len(ms) <= Len(ms) + 1
  BY <1>1
<1>7. /\ built \in Seq(X) /\ IsPrefix(ms, built)
      /\ ~IsBlank(text) => Last(built) = new
      /\ ~IsBlank(text) => (Len(built) = Len(ms) <=> doubled)
      /\ Len(built) <= Len(ms) + 1
  BY <1>1, <1>2, <1>4, <1>5, <1>6
<1> QED
  BY <1>7

(***************************************************************************)
(* NothingIsLost (buildShortTermMessages and the providers' forms of it in *)
(* messages.go, coze.go): for all messages, whatever roles and contents    *)
(* they have, and every text and prompt.                                   *)
(***************************************************************************)
THEOREM MessagesReachProviders ==
  ASSUME NEW M, NEW messages \in Seq(M), NEW text, NEW base
  PROVE  NothingIsLost(text, messages, base)
<1> DEFINE new    == ChatMessage("user", text)
           X      == M \union {new}
           K      == {m \in X : m.role \in Roles /\ m.content # ""}
           Of(role) == WithRole(X, role)
           N      == NoSystem(X)
           passed == Among(messages, K)
           built  == Ask(passed, text)
           doubled == passed # <<>> /\ Last(passed) = new
           own    == IF base = "" THEN <<>> ELSE <<base>>
           Said(ms, role) == Contents(Among(ms, Of(role)))
           anthropic == Among(built, N)
           prompt == own \o Said(built, "system")
           first  == IF prompt = <<>> THEN <<>> ELSE <<ChatMessage("user", <<"System: ", prompt>>)>>
<1>1. messages \in Seq(X) /\ new \in X /\ ToSet(messages) \subseteq X
  <2>1. messages \in Seq(X) /\ new \in X
    BY SeqMonotonic
  <2> HIDE DEF X
  <2> QED
    BY <2>1, MembersOf
<1>2. /\ Among(messages, {m \in ToSet(messages) : m.role \in Roles /\ m.content # ""}) = passed
      /\ buildShortTermMessages(text, messages) = built
  <2> DEFINE S == {m \in ToSet(messages) : m.role \in Roles /\ m.content # ""}
             T == {m \in ToSet(messages) : m.content # "" /\ m.role \in Roles}
  <2>1. \A m \in ToSet(messages) : (m \in S <=> m \in K) /\ (m \in T <=> m \in K)
    BY <1>1
  <2>2. /\ buildShortTermMessages(text, messages) = Ask(Among(messages, T), text)
    BY DEF Filtered, buildShortTermMessages
  <2> HIDE DEF S, T, K, X
  <2>3. Among(messages, S) = Among(messages, K) /\ Among(messages, T) = Among(messages, K)
    BY <1>1, <2>1, AmongSame
  <2> QED
    BY <2>2, <2>3 DEF S
<1>3. passed \in Seq(X)
  <2>1. passed \in Seq(X \intersect K) /\ X \intersect K \subseteq X
    <3> HIDE DEF X, K
    <3> QED
      BY <1>1, AmongMembers
  <2> HIDE DEF X, K, passed
  <2> QED
    BY <2>1, SeqMonotonic
<1>4. /\ built \in Seq(X) /\ IsPrefix(passed, built)
      /\ ~IsBlank(text) => Last(built) = new
      /\ ~IsBlank(text) => (Len(built) = Len(passed) <=> doubled)
      /\ Len(built) <= Len(passed) + 1
  <2> HIDE DEF X, passed
  <2>1. new \in X
    BY <1>1
  <2> QED
    <3>1. built = Ask(passed, text) /\ new = ChatMessage("user", text)
      OBVIOUS
    <3> HIDE DEF built, new
    <3> QED
      BY <1>3, <2>1, <3>1, Asked
<1>5. \A ms \in Seq(X) :
        /\ chatMessagesToAnthropic(ms) = Among(ms, N)
        /\ \A role : OfRole(ms, role) = Among(ms, Of(role))
  <2> HIDE DEF X
  <2> QED
    BY RolesOf, AnthropicOf
<1>6. new \notin Of("system")
  BY DEF ChatMessage, WithRole
<1>7. Said(built, "system") = Said(passed, "system")
  <2> DEFINE S == Of("system")
  <2>1. new \notin S
    BY <1>6
  <2> HIDE DEF X, S, passed
  <2>2. Among(built, S) = Among(passed, S)
    BY <1>1, <1>3, <2>1, AskedAmong
  <2> QED
    BY <2>2 DEF S
<1>8. anthropic \in Seq(X)
  <2> HIDE DEF X, N, built
  <2>1. anthropic \in Seq(X \intersect N) /\ X \intersect N \subseteq X
    BY <1>4, AmongMembers
  <2> HIDE DEF anthropic
  <2> QED
    BY <2>1, SeqMonotonic
<1>9. ASSUME NEW role \in {"user", "assistant"} PROVE Said(anthropic, role) = Said(built, role)
  <2> DEFINE S == Of(role)
  <2>1. S = N \intersect S
    BY <1>9 DEF WithRole, NoSystem
  <2> HIDE DEF X, N, S, built
  <2>2. Among(Among(built, N), S) = Among(built, S)
    <3>1. built \in Seq(X)
      BY <1>4
    <3> QED
      BY <2>1, <3>1, AmongTwice
  <2> QED
    BY <2>2 DEF S
<1>10. mergedSystemPrompt(base, built) = prompt
  <2>1. OfRole(built, "system") = Among(built, Of("system"))
    BY <1>4, <1>5
  <2> HIDE DEF X, built, Of
  <2> QED
    BY <2>1 DEF mergedSystemPrompt, Contents
<1>11. cozeMessagesForChat(base, built) = first \o anthropic
  <2>1. chatMessagesToAnthropic(built) = anthropic
    BY <1>4, <1>5
  <2> HIDE DEF X, built, anthropic, prompt
  <2> QED
    BY <1>10, <2>1 DEF cozeMessagesForChat
<1>12. Len(first \o anthropic)
         = Len(anthropic) + IF base = "" /\ Said(passed, "system") = <<>> THEN 0 ELSE 1
  <2> DEFINE said == Said(built, "system")
  <2>1. \E Y : said \in Seq(Y) /\ own \in Seq(Y)
    <3> DEFINE a == Among(built, Of("system"))
               Y == {base} \union {a[i].content : i \in DOMAIN a}
    <3>1. a \in Seq(X)
      <4> DEFINE S == Of("system")
      <4> HIDE DEF X, S, built
      <4>1. Among(built, S) \in Seq(X \intersect S) /\ X \intersect S \subseteq X
        BY <1>4, AmongMembers
      <4>2. Among(built, S) \in Seq(X)
        BY <4>1, SeqMonotonic
      <4> QED
        BY <4>2 DEF S
    <3> HIDE DEF a
    <3>2. Len(a) \in Nat /\ DOMAIN a = 1 .. Len(a)
      BY <3>1, LenProperties
    <3>3. [i \in 1 .. Len(a) |-> a[i].content] \in Seq(Y)
      <4>1. \A i \in 1 .. Len(a) : a[i].content \in Y
        BY <3>2
      <4> HIDE DEF Y
      <4> QED
        BY <3>2, <4>1, IsASeq
    <3>4. said = [i \in 1 .. Len(a) |-> a[i].content]
      BY <3>2 DEF Contents, a
    <3>5. own \in Seq(Y)
      <4>1. base \in Y
        OBVIOUS
      <4> HIDE DEF Y
      <4>2. <<>> \in Seq(Y) /\ <<base>> \in Seq(Y)
        BY <4>1
      <4> QED
        BY <4>2
    <3> HIDE DEF Y, own, said
    <3> QED
      BY <3>3, <3>4, <3>5
  <2>2. PICK Y : said \in Seq(Y) /\ own \in Seq(Y)
    BY <2>1
  <2>3. prompt = own \o said
    OBVIOUS
  <2>4. own = <<>> <=> base = ""
    OBVIOUS
  <2>5. said = <<>> <=> Said(passed, "system") = <<>>
    BY <1>7
  <2> HIDE DEF own, said
  <2>6. prompt = <<>> <=> own = <<>> /\ said = <<>>
    <3>1. own \o said = <<>> <=> own = <<>> /\ said = <<>>
      BY <2>2, ConcatEqualIffEmpty
    <3> HIDE DEF prompt
    <3> QED
      BY <2>3, <3>1
  <2> HIDE DEF prompt, anthropic, Said
  <2>7. prompt = <<>> <=> base = "" /\ Said(passed, "system") = <<>>
    BY <2>4, <2>5, <2>6
  <2> DEFINE say == ChatMessage("user", <<"System: ", prompt>>)  Z == X \union {say}
  <2>8. anthropic \in Seq(Z) /\ say \in Z
    BY <1>8, SeqMonotonic
  <2>9. first \in Seq(Z) /\ Len(first) = IF prompt = <<>> THEN 0 ELSE 1
    <3>1. first = IF prompt = <<>> THEN <<>> ELSE <<say>>
      OBVIOUS
    <3> HIDE DEF say, Z, first
    <3>2. <<>> \in Seq(Z) /\ Len(<<>>) = 0 /\ <<say>> \in Seq(Z) /\ Len(<<say>>) = 1
      BY <2>8
    <3> QED
      BY <3>1, <3>2
  <2> HIDE DEF Z, first, X
  <2>10. Len(first \o anthropic) = Len(first) + Len(anthropic) /\ Len(anthropic) \in Nat
    BY <2>8, <2>9, ConcatProperties, LenProperties
  <2>11. Len(first) = IF base = "" /\ Said(passed, "system") = <<>> THEN 0 ELSE 1
    BY <2>7, <2>9
  <2> HIDE DEF passed, own
  <2> DEFINE none == base = "" /\ Said(passed, "system") = <<>>
             more == first \o anthropic
  <2>12. Len(first) = (IF none THEN 0 ELSE 1) /\ Len(more) = Len(first) + Len(anthropic)
    BY <2>10, <2>11
  <2> HIDE DEF none, more
  <2>13. Len(more) = Len(anthropic) + IF none THEN 0 ELSE 1
    BY <2>10, <2>12
  <2> QED
    BY <2>13 DEF none, more
<1>13. /\ chatMessagesToAnthropic(built) = anthropic
       /\ OfRole(passed, "system") = Among(passed, Of("system"))
       /\ \A role : /\ OfRole(built, role) = Among(built, Of(role))
                    /\ OfRole(anthropic, role) = Among(anthropic, Of(role))
  <2> HIDE DEF X, N, Of, built, passed
  <2> QED
    BY <1>3, <1>4, <1>5, <1>8
<1> HIDE DEF X, K, N, Of, passed, built, anthropic, prompt, first, own
<1> QED
  BY <1>2, <1>4, <1>7, <1>9, <1>10, <1>11, <1>12, <1>13 DEF NothingIsLost, Filtered, IsBlank, own, prompt

-----------------------------------------------------------------------------
(***************************************************************************)
(* The conditions of a search request.  A map of fields to terms becomes a *)
(* list of lists, one after the other in an order that nothing determines: *)
(* what is asked of it is counted, and a count does not tell orders apart. *)
(***************************************************************************)
-----------------------------------------------------------------------------
\* SetToSeq lists a finite set, each member once.
LEMMA ListedOnce ==
  ASSUME NEW F, IsFiniteSet(F)
  PROVE  /\ SetToSeq(F) \in [1 .. Cardinality(F) -> F] /\ SetToSeq(F) \in Seq(F)
         /\ Cardinality(F) \in Nat
         /\ Len(SetToSeq(F)) = Cardinality(F) /\ DOMAIN SetToSeq(F) = 1 .. Cardinality(F)
         /\ \A j, k \in 1 .. Cardinality(F) : SetToSeq(F)[j] = SetToSeq(F)[k] => j = k
         /\ \A f \in F : \E j \in 1 .. Cardinality(F) : SetToSeq(F)[j] = f
<1> DEFINE n == Cardinality(F)  Listed(f) == f \in [1 .. n -> F] /\ IsInjective(f)
<1>1. n \in Nat /\ ExistsBijection(1 .. n, F)
  BY FS_CardinalityType
<1>2. PICK b : b \in Bijection(1 .. n, F)
  BY <1>1 DEF ExistsBijection
<1>3. b \in [1 .. n -> F] /\ \A j, k \in 1 .. n : b[j] = b[k] => j = k
  BY <1>2 DEF Bijection, Injection, IsInjective
<1>4. Listed(b)
  BY <1>3 DEF IsInjective
<1>5. SetToSeq(F) = CHOOSE f : Listed(f)
  BY DEF SetToSeq
<1> DEFINE e == SetToSeq(F)
<1>6. Listed(e)
  <2> HIDE DEF Listed
  <2> QED
    BY <1>4, <1>5
<1> HIDE DEF e
<1>7. e \in [1 .. n -> F] /\ \A j, k \in 1 .. n : e[j] = e[k] => j = k
  BY <1>6 DEF IsInjective
<1>8. e \in Seq(F) /\ Len(e) = n /\ DOMAIN e = 1 .. n
  BY <1>1, <1>7, IsASeq
<1>9. \A f \in F : \E j \in 1 .. n : e[j] = f
  <2>1. e \in Injection(1 .. n, F)
    BY <1>7 DEF Injection, IsInjective
  <2>2. IsFiniteSet(1 .. n) /\ Cardinality(1 .. n) = n
    BY <1>1, FS_Interval
  <2>3. e \in Surjection(1 .. n, F)
    BY <1>1, <2>1, <2>2, FS_Injection
  <2> QED
    BY <2>3 DEF Surjection
<1> QED
  BY <1>1, <1>7, <1>8, <1>9 DEF e

\* A list of lists, one for each of a finite set of fields: all of them, and
\* where the members of S stand in them.
Spread(G) == LET fields == SetToSeq(DOMAIN G) IN FlattenSeq([i \in DOMAIN fields |-> G[fields[i]]])
Joint(G, S) == UNION {{f} \X PlacesOf(G[f], S) : f \in DOMAIN G}

CountsJoint(flat, G, X, S) ==
  /\ flat \in Seq(X) /\ IsFiniteSet(Joint(G, S))
  /\ Cardinality(PlacesOf(flat, S)) = Cardinality(Joint(G, S))

LEMMA SpreadIs ==
  ASSUME NEW F, IsFiniteSet(F), NEW X, NEW G \in [F -> Seq(X)], NEW S
  PROVE  CountsJoint(Spread(G), G, X, S)
<1> DEFINE fields == SetToSeq(F)  n == Cardinality(F)  parts == [i \in 1 .. n |-> G[fields[i]]]
<1>1. /\ n \in Nat /\ DOMAIN fields = 1 .. n
      /\ \A i \in 1 .. n : fields[i] \in F
      /\ \A j, k \in 1 .. n : fields[j] = fields[k] => j = k
      /\ \A f \in F : \E j \in 1 .. n : fields[j] = f
  BY ListedOnce
<1>2. Spread(G) = FlattenSeq(parts)
  BY <1>1 DEF Spread
<1> HIDE DEF fields, n
<1>3. \A i \in 1 .. n : G[fields[i]] \in Seq(X)
  BY <1>1
<1>4. parts \in Seq(Seq(X)) /\ DOMAIN parts = 1 .. n /\ Len(parts) = n
  BY <1>1, <1>3, IsASeq
<1>5. \A i \in 1 .. n : parts[i] = G[fields[i]]
  OBVIOUS
<1> HIDE DEF parts
<1>6. /\ FlattenSeq(parts) \in Seq(X)
      /\ Cardinality(PlacesOf(FlattenSeq(parts), S)) = Cardinality(Shares(parts, fields, S, n))
      /\ IsFiniteSet(Shares(parts, fields, S, n))
  BY <1>1, <1>4, FlattenCounts
<1>7. Shares(parts, fields, S, n) = Joint(G, S)
  <2>1. ASSUME NEW p \in Shares(parts, fields, S, n) PROVE p \in Joint(G, S)
    <3>1. PICK k \in 1 .. n : p \in {fields[k]} \X PlacesOf(parts[k], S)
      BY DEF Shares
    <3>2. p \in {fields[k]} \X PlacesOf(G[fields[k]], S) /\ fields[k] \in DOMAIN G
      BY <1>1, <1>5, <3>1
    <3> QED
      BY <3>2 DEF Joint
  <2>2. ASSUME NEW p \in Joint(G, S) PROVE p \in Shares(parts, fields, S, n)
    <3>1. PICK f \in F : p \in {f} \X PlacesOf(G[f], S)
      BY DEF Joint
    <3>2. PICK k \in 1 .. n : fields[k] = f
      BY <1>1
    <3>3. p \in {fields[k]} \X PlacesOf(parts[k], S)
      BY <1>5, <3>1, <3>2
    <3> QED
      BY <3>3 DEF Shares
  <2> QED
    BY <2>1, <2>2
<1> QED
  BY <1>2, <1>6, <1>7 DEF CountsJoint

\* None of all of them is in S exactly if none of each is.
LEMMA SpreadHasNone ==
  ASSUME NEW F, IsFiniteSet(F), NEW X, NEW G \in [F -> Seq(X)], NEW S
  PROVE  (\A i \in DOMAIN Spread(G) : Spread(G)[i] \notin S)
           <=> \A f \in F : \A i \in DOMAIN G[f] : G[f][i] \notin S
<1> DEFINE flat == Spread(G)  A == PlacesOf(flat, S)  B == Joint(G, S)
<1>1. flat \in Seq(X) /\ IsFiniteSet(B) /\ Cardinality(A) = Cardinality(B)
  BY SpreadIs DEF CountsJoint
<1>2. IsFiniteSet(A)
  BY <1>1, AtIsFinite
<1>3. A = {} <=> B = {}
  <2> HIDE DEF A, B
  <2> QED
    BY <1>1, <1>2, FS_EmptySet
<1>4. A = {} <=> \A i \in DOMAIN flat : flat[i] \notin S
  BY DEF PlacesOf
<1>5. B = {} <=> \A f \in F : \A i \in DOMAIN G[f] : G[f][i] \notin S
  <2>1. ASSUME NEW f \in F, NEW i \in DOMAIN G[f], G[f][i] \in S PROVE <<f, i>> \in B
    <3>1. <<f, i>> \in {f} \X PlacesOf(G[f], S) /\ f \in DOMAIN G
      BY <2>1 DEF PlacesOf
    <3> QED
      BY <3>1 DEF Joint
  <2>2. ASSUME NEW p \in B PROVE \E f \in F : \E i \in DOMAIN G[f] : G[f][i] \in S
    <3>1. PICK f \in F : p \in {f} \X PlacesOf(G[f], S)
      BY DEF Joint
    <3>2. p[2] \in PlacesOf(G[f], S)
      BY <3>1
    <3> QED
      BY <3>2 DEF PlacesOf
  <2> HIDE DEF B
  <2> QED
    BY <2>1, <2>2
<1> QED
  BY <1>3, <1>4, <1>5

LEMMA SpreadIsEmpty ==
  ASSUME NEW F, IsFiniteSet(F), NEW X, NEW G \in [F -> Seq(X)]
  PROVE  Spread(G) = <<>> <=> \A f \in F : G[f] = <<>>
<1> DEFINE flat == Spread(G)
<1>1. flat \in Seq(X) /\ \A f \in F : G[f] \in Seq(X)
  <2>1. CountsJoint(flat, G, X, {})
    BY SpreadIs
  <2> QED
    BY <2>1 DEF CountsJoint
<1>2. (\A i \in DOMAIN flat : flat[i] \notin X)
         <=> \A f \in F : \A i \in DOMAIN G[f] : G[f][i] \notin X
  BY SpreadHasNone
<1> HIDE DEF flat
<1>3. ASSUME NEW s \in Seq(X) PROVE (\A i \in DOMAIN s : s[i] \notin X) <=> s = <<>>
  <2>1. /\ DOMAIN s = 1 .. Len(s) /\ Len(s) \in Nat /\ \A i \in 1 .. Len(s) : s[i] \in X
    BY LenProperties, ElementOfSeq
  <2>2. s = <<>> <=> Len(s) = 0
    BY EmptySeq
  <2> QED
    BY <2>1, <2>2
<1> QED
  BY <1>1, <1>2, <1>3 DEF flat

-----------------------------------------------------------------------------
\* What a condition on a field asks of a document.
HasTerm(doc, f, t) == IF f = "" THEN \E g \in DOMAIN doc.fields : t \in doc.fields[g] ELSE t \in doc.fields[f]

\* The conditions a caller can state are what a match query can be about.
LEMMA ConditionsAre == ASSUME NEW F, NEW W PROVE Conditions(F, W) = {On(f, w) : f \in F, w \in W}
<1>1. ASSUME NEW c \in Conditions(F, W) PROVE c = On(c.field, c.what) /\ c.field \in F /\ c.what \in W
  BY DEF Conditions, On
<1>2. ASSUME NEW f \in F, NEW w \in W PROVE On(f, w) \in Conditions(F, W)
  BY DEF Conditions, On
<1> QED
  BY <1>1, <1>2

AllHit(doc, s) == \A i \in DOMAIN s : Hits(doc, s[i])
IsSequence(s) == \E X : s \in Seq(X)

LEMMA OnHits ==
  ASSUME NEW f, NEW w, NEW doc
  PROVE  /\ HitsOne(doc, On(f, w)) <=> HasTerm(doc, f, w)
         /\ Hits(doc, On(f, w)) <=> HasTerm(doc, f, w)
         /\ On(f, w).field = f /\ On(f, w).what = w
<1>1. On(f, w).kind = "on" /\ On(f, w).field = f /\ On(f, w).what = w
  BY DEF On
<1> QED
  BY <1>1 DEF HitsOne, Hits, HitsField, HasTerm

LEMMA SlicesJoined ==
  ASSUME NEW s, NEW t, IsSequence(s), IsSequence(t), NEW doc
  PROVE  /\ IsSequence(s \o t)
         /\ AllHit(doc, s \o t) <=> AllHit(doc, s) /\ AllHit(doc, t)
         /\ s \o t = <<>> <=> s = <<>> /\ t = <<>>
<1>1. PICK X : s \in Seq(X)
  BY DEF IsSequence
<1>2. PICK Y : t \in Seq(Y)
  BY DEF IsSequence
<1> DEFINE Z == X \union Y
<1>3. /\ DOMAIN s = 1 .. Len(s) /\ Len(s) \in Nat /\ \A i \in 1 .. Len(s) : s[i] \in X
      /\ DOMAIN t = 1 .. Len(t) /\ Len(t) \in Nat /\ \A i \in 1 .. Len(t) : t[i] \in Y
  BY <1>1, <1>2, LenProperties, ElementOfSeq
<1>4. s \in Seq(Z) /\ t \in Seq(Z)
  BY <1>1, <1>2
<1> HIDE DEF Z
<1>5. /\ s \o t \in Seq(Z) /\ Len(s \o t) = Len(s) + Len(t)
      /\ \A i \in 1 .. Len(s) + Len(t) : (s \o t)[i] = IF i <= Len(s) THEN s[i] ELSE t[i - Len(s)]
  BY <1>4, ConcatProperties
<1>6. DOMAIN (s \o t) = 1 .. Len(s) + Len(t)
  BY <1>5, LenProperties
<1>7. ASSUME AllHit(doc, s \o t) PROVE AllHit(doc, s) /\ AllHit(doc, t)
  <2>1. ASSUME NEW i \in 1 .. Len(s) PROVE Hits(doc, s[i])
    <3>1. i \in 1 .. Len(s) + Len(t) /\ i <= Len(s)
      BY <1>3
    <3> QED
      BY <1>5, <1>6, <1>7, <3>1 DEF AllHit
  <2>2. ASSUME NEW i \in 1 .. Len(t) PROVE Hits(doc, t[i])
    <3>1. i + Len(s) \in 1 .. Len(s) + Len(t) /\ ~(i + Len(s) <= Len(s)) /\ (i + Len(s)) - Len(s) = i
      BY <1>3
    <3>2. (s \o t)[i + Len(s)] = t[i]
      BY <1>5, <3>1
    <3> QED
      BY <1>6, <1>7, <3>1, <3>2 DEF AllHit
  <2> QED
    BY <1>3, <2>1, <2>2 DEF AllHit
<1>8. ASSUME AllHit(doc, s), AllHit(doc, t) PROVE AllHit(doc, s \o t)
  <2>1. ASSUME NEW i \in 1 .. Len(s) + Len(t) PROVE Hits(doc, (s \o t)[i])
    <3>1. CASE i <= Len(s)
      <4>1. i \in DOMAIN s /\ (s \o t)[i] = s[i]
        BY <1>3, <1>5, <3>1
      <4> QED
        BY <1>8, <4>1 DEF AllHit
    <3>2. CASE ~(i <= Len(s))
      <4>1. i - Len(s) \in DOMAIN t /\ (s \o t)[i] = t[i - Len(s)]
        BY <1>3, <1>5, <3>2
      <4> QED
        BY <1>8, <4>1 DEF AllHit
    <3> QED
      BY <3>1, <3>2
  <2> QED
    BY <1>6, <2>1 DEF AllHit
<1>9. /\ s \o t = <<>> <=> Len(s \o t) = 0
      /\ s = <<>> <=> Len(s) = 0
      /\ t = <<>> <=> Len(t) = 0
  BY <1>4, <1>5, EmptySeq
<1> QED
  BY <1>3, <1>5, <1>7, <1>8, <1>9 DEF IsSequence

AskTerms(cs, f, terms, C) ==
  /\ cs \in Seq(C) /\ Len(cs) = Len(terms) /\ DOMAIN cs = DOMAIN terms
  /\ \A i \in DOMAIN terms : cs[i] = On(f, terms[i])

LEMMA TermClausesAre ==
  ASSUME NEW F, NEW W, NEW f \in F, NEW terms \in Seq(W)
  PROVE  AskTerms(TermClauses(f, terms), f, terms, Conditions(F, W))
<1>1. DOMAIN terms = 1 .. Len(terms) /\ Len(terms) \in Nat /\ \A i \in 1 .. Len(terms) : terms[i] \in W
  BY LenProperties, ElementOfSeq
<1>2. \A i \in 1 .. Len(terms) : On(f, terms[i]) \in Conditions(F, W)
  BY <1>1, ConditionsAre
<1> DEFINE n == Len(terms)  T == [i \in 1 .. n |-> On(f, terms[i])]  C == Conditions(F, W)
<1>3. TermClauses(f, terms) = T
  BY <1>1 DEF TermClauses
<1>4. T \in Seq(C) /\ Len(T) = n
  <2> HIDE DEF C, n
  <2> QED
    BY <1>1, <1>2, IsASeq DEF C, n
<1>5. DOMAIN T = DOMAIN terms /\ \A i \in DOMAIN terms : T[i] = On(f, terms[i])
  BY <1>1
<1> HIDE DEF T, C
<1> QED
  BY <1>3, <1>4, <1>5 DEF AskTerms, C

\* At least one of some conditions.
LEMMA OneHits ==
  ASSUME NEW X, NEW cs \in Seq(X), NEW doc
  PROVE  Hits(doc, AtLeast(cs, 1)) <=> \E i \in DOMAIN cs : HitsOne(doc, cs[i])
<1> DEFINE H == {i \in DOMAIN cs : HitsOne(doc, cs[i])}
<1>1. /\ AtLeast(cs, 1).kind = "atLeast" /\ AtLeast(cs, 1).clauses = cs
      /\ AtLeast(cs, 1).min = 1
  BY DEF AtLeast
<1>2. Hits(doc, AtLeast(cs, 1)) <=> Cardinality(H) >= 1
  BY <1>1 DEF Hits
<1>3. DOMAIN cs = 1 .. Len(cs) /\ Len(cs) \in Nat
  BY LenProperties
<1>4. H \subseteq 1 .. Len(cs) /\ IsFiniteSet(1 .. Len(cs))
  BY <1>3, FS_Interval
<1>5. IsFiniteSet(H)
  BY <1>4, FS_Subset
<1>6. Cardinality(H) \in Nat /\ (Cardinality(H) = 0 <=> H = {})
  <2> HIDE DEF H
  <2> QED
    BY <1>5, FS_CardinalityType, FS_EmptySet
<1> QED
  BY <1>2, <1>6

\* What each of the fields' terms becomes.
LEMMA MustClausesAre ==
  ASSUME NEW F, NEW W, NEW f \in F, NEW terms \in Seq(W), NEW doc
  PROVE  /\ IsSequence(MustClauses(f, terms))
         /\ MustClauses(f, terms) = <<>> <=> terms = <<>>
         /\ AllHit(doc, MustClauses(f, terms))
              <=> (terms # <<>> => \E t \in ToSet(terms) : HasTerm(doc, f, t))
<1> DEFINE T == TermClauses(f, terms)  M == MustClauses(f, terms)
           Asks == terms # <<>> => \E t \in ToSet(terms) : HasTerm(doc, f, t)
<1>1. /\ T \in Seq(Conditions(F, W)) /\ Len(T) = Len(terms) /\ DOMAIN T = DOMAIN terms
      /\ \A i \in DOMAIN terms : T[i] = On(f, terms[i])
  <2>1. AskTerms(T, f, terms, Conditions(F, W))
    BY TermClausesAre
  <2> QED
    BY <2>1 DEF AskTerms
<1>2. /\ DOMAIN terms = 1 .. Len(terms) /\ Len(terms) \in Nat
      /\ terms = <<>> <=> Len(terms) = 0
  BY LenProperties, EmptySeq
<1>3. \A i \in DOMAIN terms : /\ Hits(doc, T[i]) <=> HasTerm(doc, f, terms[i])
                              /\ HitsOne(doc, T[i]) <=> HasTerm(doc, f, terms[i])
  BY <1>1, OnHits
<1>4. (\E t \in ToSet(terms) : HasTerm(doc, f, t)) <=> \E i \in DOMAIN terms : HasTerm(doc, f, terms[i])
  BY DEF ToSet
<1>5. CASE Len(terms) = 0
  <2>1. M = <<>>
    BY <1>5 DEF MustClauses
  <2>2. <<>> \in Seq(W) /\ DOMAIN <<>> = {}
    OBVIOUS
  <2>3. IsSequence(<<>>) /\ AllHit(doc, <<>>)
    BY <2>2 DEF IsSequence, AllHit
  <2> QED
    BY <1>2, <1>5, <2>1, <2>3
<1>6. CASE Len(terms) = 1
  <2>1. M = T
    BY <1>6 DEF MustClauses
  <2>2. IsSequence(T) /\ T # <<>> /\ DOMAIN T = 1 .. 1
    BY <1>1, <1>2, <1>6, EmptySeq DEF IsSequence
  <2> HIDE DEF T, M
  <2>3. AllHit(doc, T) <=> HasTerm(doc, f, terms[1])
    BY <1>1, <1>3, <2>2 DEF AllHit
  <2>4. Asks <=> HasTerm(doc, f, terms[1])
    BY <1>1, <1>2, <1>4, <1>6, <2>2
  <2> QED
    BY <1>2, <1>6, <2>1, <2>2, <2>3, <2>4 DEF M
<1>7. CASE Len(terms) > 1
  <2> DEFINE c == AtLeast(T, 1)
  <2>1. M = <<c>>
    BY <1>2, <1>7 DEF MustClauses
  <2>2. Hits(doc, c) <=> \E i \in DOMAIN terms : HasTerm(doc, f, terms[i])
    <3>1. Hits(doc, c) <=> \E i \in DOMAIN T : HitsOne(doc, T[i])
      BY <1>1, OneHits
    <3> QED
      BY <1>1, <1>3, <3>1
  <2> HIDE DEF c, M
  <2>3. <<c>> \in Seq({c}) /\ DOMAIN <<c>> = 1 .. 1 /\ <<c>>[1] = c /\ <<c>> # <<>>
    OBVIOUS
  <2> DEFINE one == <<c>>
  <2>31. one \in Seq({c}) /\ DOMAIN one = 1 .. 1 /\ one[1] = c
    BY <2>3
  <2> HIDE DEF one
  <2>32. IsSequence(one)
    BY <2>31 DEF IsSequence
  <2>33. AllHit(doc, one) <=> Hits(doc, c)
    BY <2>31 DEF AllHit
  <2>4. IsSequence(<<c>>) /\ (AllHit(doc, <<c>>) <=> Hits(doc, c))
    BY <2>32, <2>33 DEF one
  <2>5. Asks <=> Hits(doc, c)
    BY <1>2, <1>4, <1>7, <2>2
  <2>6. terms # <<>>
    BY <1>2, <1>7
  <2> QED
    BY <2>1, <2>3, <2>4, <2>5, <2>6 DEF M
<1> QED
  BY <1>2, <1>5, <1>6, <1>7

\* A request's fields with their terms.
LEMMA FieldsSpread ==
  ASSUME NEW map, IsFiniteSet(DOMAIN map)
  PROVE  /\ FieldClauses(map, FALSE) = Spread([f \in DOMAIN map |-> TermClauses(f, map[f])])
         /\ FieldClauses(map, TRUE) = Spread([f \in DOMAIN map |-> MustClauses(f, map[f])])
<1> DEFINE D == DOMAIN map  fields == SetToSeq(D)
           G == [f \in D |-> TermClauses(f, map[f])]  H == [f \in D |-> MustClauses(f, map[f])]
           g == [i \in DOMAIN fields |-> TermClauses(fields[i], map[fields[i]])]
           h == [i \in DOMAIN fields |-> MustClauses(fields[i], map[fields[i]])]
<1>1. DOMAIN G = D /\ DOMAIN H = D
  OBVIOUS
<1>2. \A i \in DOMAIN fields : fields[i] \in D
  BY ListedOnce
<1>3. FieldClauses(map, FALSE) = FlattenSeq(g) /\ FieldClauses(map, TRUE) = FlattenSeq(h)
  BY DEF FieldClauses
<1>4. Spread(G) = FlattenSeq([i \in DOMAIN fields |-> G[fields[i]]])
  BY <1>1 DEF Spread
<1>5. Spread(H) = FlattenSeq([i \in DOMAIN fields |-> H[fields[i]]])
  BY <1>1 DEF Spread
<1> HIDE DEF fields, D
<1>6. \A i \in DOMAIN fields : /\ G[fields[i]] = TermClauses(fields[i], map[fields[i]])
                               /\ H[fields[i]] = MustClauses(fields[i], map[fields[i]])
  BY <1>2
<1>7. g = [i \in DOMAIN fields |-> G[fields[i]]]
  BY <1>6
<1>8. h = [i \in DOMAIN fields |-> H[fields[i]]]
  BY <1>6
<1> HIDE DEF G, H, g, h
<1>9. FieldClauses(map, FALSE) = Spread(G)
  BY <1>3, <1>4, <1>7
<1>10. FieldClauses(map, TRUE) = Spread(H)
  BY <1>3, <1>5, <1>8
<1> QED
  BY <1>9, <1>10 DEF G, H, D

LEMMA MustFields ==
  ASSUME NEW F, NEW W, NEW map, IsTerms(map, F, W), NEW doc
  PROVE  /\ IsSequence(FieldClauses(map, TRUE))
         /\ FieldClauses(map, TRUE) = <<>> <=> \A f \in DOMAIN map : map[f] = <<>>
         /\ AllHit(doc, FieldClauses(map, TRUE))
              <=> \A f \in DOMAIN map :
                    map[f] # <<>> => \E t \in ToSet(map[f]) : HasTerm(doc, f, t)
<1> DEFINE D == DOMAIN map  H == [f \in D |-> MustClauses(f, map[f])]
           All == UNION {ToSet(H[f]) : f \in D}
           Missed == {c \in All : ~Hits(doc, c)}
<1>1. IsFiniteSet(D) /\ \A f \in D : f \in F /\ map[f] \in Seq(W)
  BY DEF IsTerms
<1>2. ASSUME NEW f \in D
      PROVE  /\ H[f] = <<>> <=> map[f] = <<>>
             /\ IsSequence(H[f])
             /\ AllHit(doc, H[f]) <=> (map[f] # <<>> => \E t \in ToSet(map[f]) : HasTerm(doc, f, t))
  <2> DEFINE terms == map[f]
  <2>1. f \in F /\ terms \in Seq(W) /\ H[f] = MustClauses(f, terms)
    BY <1>1
  <2> HIDE DEF terms
  <2> QED
    BY <2>1, MustClausesAre DEF terms
<1>3. H \in [D -> Seq(All)]
  <2>1. ASSUME NEW f \in D PROVE H[f] \in Seq(All)
    <3>1. ToSet(H[f]) \subseteq All
      OBVIOUS
    <3> DEFINE s == H[f]
    <3>2. PICK X : s \in Seq(X)
      BY <1>2 DEF IsSequence
    <3> HIDE DEF s, All
    <3>3. DOMAIN s = 1 .. Len(s) /\ Len(s) \in Nat
      BY <3>2, LenProperties
    <3>4. \A i \in 1 .. Len(s) : s[i] \in All
      BY <3>1, <3>3 DEF s, ToSet
    <3>5. s = [i \in 1 .. Len(s) |-> s[i]]
      BY <3>2, <3>3
    <3>6. [i \in 1 .. Len(s) |-> s[i]] \in Seq(All)
      BY <3>3, <3>4, IsASeq
    <3> QED
      BY <3>5, <3>6 DEF s
  <2> HIDE DEF All
  <2> QED
    BY <2>1
<1>4. FieldClauses(map, TRUE) = Spread(H)
  BY <1>1, FieldsSpread
<1> HIDE DEF H, All
<1>5. Spread(H) \in Seq(All)
  <2>1. CountsJoint(Spread(H), H, All, {})
    BY <1>1, <1>3, SpreadIs
  <2> QED
    BY <2>1 DEF CountsJoint
<1>6. Spread(H) = <<>> <=> \A f \in D : H[f] = <<>>
  BY <1>1, <1>3, SpreadIsEmpty
<1> DEFINE flat == Spread(H)
<1>7. (\A i \in DOMAIN flat : flat[i] \notin Missed)
        <=> \A f \in D : \A i \in DOMAIN H[f] : H[f][i] \notin Missed
  <2> HIDE DEF Missed
  <2> QED
    BY <1>1, <1>3, SpreadHasNone
<1> HIDE DEF flat
<1>8. ASSUME NEW s \in Seq(All)
      PROVE  AllHit(doc, s) <=> \A i \in DOMAIN s : s[i] \notin Missed
  <2>1. \A i \in DOMAIN s : s[i] \in All
    BY ElementOfSeq, LenProperties
  <2> QED
    BY <2>1 DEF AllHit
<1>9. AllHit(doc, flat) <=> \A f \in D : AllHit(doc, H[f])
  <2> HIDE DEF Missed
  <2>1. flat \in Seq(All) /\ \A f \in D : H[f] \in Seq(All)
    BY <1>3, <1>5 DEF flat
  <2> QED
    BY <1>7, <1>8, <2>1
<1> QED
  BY <1>2, <1>4, <1>5, <1>6, <1>9 DEF IsSequence, flat

\* The terms of all fields, and those that make a condition of S.
TermPairs(map) == UNION {{f} \X DOMAIN map[f] : f \in DOMAIN map}
MeantPairs(map, S) == {p \in TermPairs(map) : On(p[1], map[p[1]][p[2]]) \in S}

\* The clauses that may hit, and those that must not.
MeansTerms(clauses, map, F, W, S) ==
  /\ clauses \in Seq(Conditions(F, W))
  /\ clauses = <<>> <=> \A f \in DOMAIN map : map[f] = <<>>
  /\ Cardinality(PlacesOf(clauses, S)) = Cardinality(MeantPairs(map, S))
  /\ (\A i \in DOMAIN clauses : clauses[i] \notin S)
       <=> \A f \in DOMAIN map : \A i \in DOMAIN map[f] : On(f, map[f][i]) \notin S

LEMMA MayFields ==
  ASSUME NEW F, NEW W, NEW map, IsTerms(map, F, W), NEW S
  PROVE  MeansTerms(FieldClauses(map, FALSE), map, F, W, S)
<1> DEFINE D == DOMAIN map  G == [f \in D |-> TermClauses(f, map[f])]  C == Conditions(F, W)
           Meant == MeantPairs(map, S)
<1>1. IsFiniteSet(D) /\ \A f \in D : f \in F /\ map[f] \in Seq(W)
  BY DEF IsTerms
<1>2. ASSUME NEW f \in D
      PROVE  /\ G[f] \in Seq(C) /\ Len(G[f]) = Len(map[f]) /\ DOMAIN G[f] = DOMAIN map[f]
             /\ \A i \in DOMAIN map[f] : G[f][i] = On(f, map[f][i])
             /\ G[f] = <<>> <=> map[f] = <<>>
  <2> DEFINE terms == map[f]
  <2>1. f \in F /\ terms \in Seq(W) /\ G[f] = TermClauses(f, terms)
    BY <1>1
  <2> HIDE DEF terms, G
  <2>2. /\ G[f] \in Seq(C) /\ Len(G[f]) = Len(terms) /\ DOMAIN G[f] = DOMAIN terms
        /\ \A i \in DOMAIN terms : G[f][i] = On(f, terms[i])
    <3>1. AskTerms(G[f], f, terms, C)
      BY <2>1, TermClausesAre
    <3> HIDE DEF C
    <3> QED
      BY <3>1 DEF AskTerms
  <2>3. G[f] = <<>> <=> terms = <<>>
    BY <2>1, <2>2, EmptySeq
  <2> QED
    BY <2>2, <2>3 DEF terms
<1>3. G \in [D -> Seq(C)]
  <2> HIDE DEF C
  <2> QED
    BY <1>2
<1>4. FieldClauses(map, FALSE) = Spread(G)
  BY <1>1, FieldsSpread
<1> HIDE DEF G, C
<1>5. /\ Spread(G) \in Seq(C)
      /\ Cardinality(PlacesOf(Spread(G), S)) = Cardinality(Joint(G, S))
  <2>1. CountsJoint(Spread(G), G, C, S)
    BY <1>1, <1>3, SpreadIs
  <2> QED
    BY <2>1 DEF CountsJoint
<1>6. Spread(G) = <<>> <=> \A f \in D : G[f] = <<>>
  BY <1>1, <1>3, SpreadIsEmpty
<1>7. (\A i \in DOMAIN Spread(G) : Spread(G)[i] \notin S)
        <=> \A f \in D : \A i \in DOMAIN G[f] : G[f][i] \notin S
  BY <1>1, <1>3, SpreadHasNone
<1>8. Joint(G, S) = Meant
  <2>1. ASSUME NEW p \in Joint(G, S) PROVE p \in Meant
    <3>1. PICK f \in D : p \in {f} \X PlacesOf(G[f], S)
      BY <1>3 DEF Joint
    <3>2. p = <<f, p[2]>> /\ p[1] = f /\ p[2] \in DOMAIN map[f] /\ G[f][p[2]] \in S
      BY <1>2, <3>1 DEF PlacesOf
    <3>3. p \in {f} \X DOMAIN map[f]
      BY <3>1, <3>2
    <3>4. p \in TermPairs(map)
      BY <3>3 DEF TermPairs
    <3>5. On(p[1], map[p[1]][p[2]]) \in S
      BY <1>2, <3>2
    <3> QED
      BY <3>4, <3>5 DEF MeantPairs
  <2>2. ASSUME NEW p \in Meant PROVE p \in Joint(G, S)
    <3>1. PICK f \in D : p \in {f} \X DOMAIN map[f]
      BY DEF MeantPairs, TermPairs
    <3>2. p[1] = f /\ p[2] \in DOMAIN map[f] /\ On(f, map[f][p[2]]) \in S
      BY <3>1 DEF MeantPairs
    <3>3. p[2] \in PlacesOf(G[f], S)
      BY <1>2, <3>2 DEF PlacesOf
    <3>4. p \in {f} \X PlacesOf(G[f], S) /\ f \in DOMAIN G
      BY <1>3, <3>1, <3>3
    <3> QED
      BY <3>4 DEF Joint
  <2> QED
    BY <2>1, <2>2
<1>9. Spread(G) = <<>> <=> \A f \in D : map[f] = <<>>
  BY <1>2, <1>6
<1>10. (\A f \in D : \A i \in DOMAIN G[f] : G[f][i] \notin S)
         <=> \A f \in D : \A i \in DOMAIN map[f] : On(f, map[f][i]) \notin S
  BY <1>2
<1>11. (\A i \in DOMAIN Spread(G) : Spread(G)[i] \notin S)
         <=> \A f \in D : \A i \in DOMAIN map[f] : On(f, map[f][i]) \notin S
  BY <1>7, <1>10
<1>12. Cardinality(PlacesOf(Spread(G), S)) = Cardinality(Meant)
  BY <1>5, <1>8
<1> HIDE DEF Meant, D
<1> QED
  BY <1>4, <1>5, <1>9, <1>11, <1>12 DEF C, Meant, D, MeansTerms

-----------------------------------------------------------------------------
\* The fields a keyword is looked for in.
Inside(fields) == IF ToSet(fields) \subseteq {""} THEN {""} ELSE ToSet(fields) \ {""}
Searched(req, defaultFields) == IF req.searchFields = <<>> THEN defaultFields ELSE req.searchFields

LEMMA KeywordAsks ==
  ASSUME NEW F, NEW req, NEW defaultFields, NEW doc,
         NEW fields \in Seq(F), fields = Searched(req, defaultFields)
  PROVE  /\ IsSequence(KeywordClause(req, defaultFields))
         /\ KeywordClause(req, defaultFields) = <<>> <=> IsBlank(req.keyword)
         /\ AllHit(doc, KeywordClause(req, defaultFields))
              <=> (~IsBlank(req.keyword) => \E f \in Inside(fields) : HasTerm(doc, f, req.keyword))
<1> DEFINE word  == req.keyword
           Real  == {f \in ToSet(fields) : f # ""}
           named == Among(fields, Real)
           any   == On("", word)
           T     == [i \in DOMAIN named |-> On(named[i], word)]
           c     == AtLeast(T, 1)
           K     == KeywordClause(req, defaultFields)
<1>1. K = IF IsBlank(word) THEN <<>> ELSE IF named = <<>> THEN <<any>> ELSE <<c>>
  BY DEF KeywordClause, Filtered, Searched, IsBlank
<1>2. named \in Seq(F \intersect Real)
  BY AmongMembers
<1>3. \A f \in Real : f \in ToSet(named)
  <2> HIDE DEF Real
  <2>1. \A f \in Real : f \in ToSet(fields)
    BY DEF Real
  <2> QED
    BY <2>1, AmongKeeps
<1> HIDE DEF named
<1>4. /\ DOMAIN named = 1 .. Len(named) /\ Len(named) \in Nat
      /\ \A i \in 1 .. Len(named) : named[i] \in Real
      /\ named = <<>> <=> Len(named) = 0
  <2> DEFINE Y == F \intersect Real
  <2>1. named \in Seq(Y)
    BY <1>2
  <2>2. \A f \in Y : f \in Real
    OBVIOUS
  <2> HIDE DEF Y, Real
  <2> QED
    BY <2>1, <2>2, LenProperties, ElementOfSeq, EmptySeq
<1>5. ToSet(named) = Real
  <2> HIDE DEF Real
  <2> QED
    BY <1>3, <1>4 DEF ToSet
<1>6. named = <<>> <=> Real = {}
  <2> HIDE DEF Real
  <2> QED
    BY <1>4, <1>5 DEF ToSet
<1>7. Inside(fields) = IF Real = {} THEN {""} ELSE Real
  BY DEF Inside
<1>8. T \in Seq(ToSet(T))
  <2> DEFINE n == Len(named)  X == ToSet(T)
  <2>1. T = [i \in 1 .. n |-> On(named[i], word)] /\ n \in Nat /\ DOMAIN T = 1 .. n
    BY <1>4
  <2>2. \A i \in 1 .. n : On(named[i], word) \in X
    BY <1>4 DEF ToSet
  <2> HIDE DEF n, X, T
  <2>3. [i \in 1 .. n |-> On(named[i], word)] \in Seq(X)
    BY <2>1, <2>2, IsASeq
  <2> QED
    BY <2>1, <2>3 DEF X
<1>9. Hits(doc, c) <=> \E f \in Real : HasTerm(doc, f, word)
  <2>1. Hits(doc, c) <=> \E i \in DOMAIN T : HitsOne(doc, T[i])
    <3> DEFINE X == ToSet(T)
    <3>1. T \in Seq(X)
      BY <1>8
    <3> HIDE DEF T, X
    <3> QED
      BY <3>1, OneHits
  <2>2. DOMAIN T = DOMAIN named /\ \A i \in DOMAIN named : T[i] = On(named[i], word)
    OBVIOUS
  <2> HIDE DEF T, c, word
  <2>3. \A i \in DOMAIN named : HitsOne(doc, T[i]) <=> HasTerm(doc, named[i], word)
    BY <2>2, OnHits
  <2>4. (\E f \in ToSet(named) : HasTerm(doc, f, word)) <=> \E i \in DOMAIN named : HasTerm(doc, named[i], word)
    BY DEF ToSet
  <2> HIDE DEF Real
  <2> QED
    BY <1>5, <2>1, <2>2, <2>3, <2>4
<1>10. Hits(doc, any) <=> HasTerm(doc, "", word)
  BY OnHits
<1> HIDE DEF c, any, T, K, Real
<1>11. ASSUME NEW d
       PROVE  IsSequence(<<d>>) /\ <<d>> # <<>> /\ (AllHit(doc, <<d>>) <=> Hits(doc, d))
  <2> DEFINE one == <<d>>
  <2>1. one \in Seq({d}) /\ DOMAIN one = 1 .. 1 /\ one[1] = d /\ one # <<>>
    OBVIOUS
  <2> HIDE DEF one
  <2>2. IsSequence(one)
    BY <2>1 DEF IsSequence
  <2>3. AllHit(doc, one) <=> Hits(doc, d)
    BY <2>1 DEF AllHit
  <2> QED
    BY <2>1, <2>2, <2>3 DEF one
<1>12. IsSequence(<<>>) /\ AllHit(doc, <<>>)
  <2>1. <<>> \in Seq(F) /\ DOMAIN <<>> = {}
    OBVIOUS
  <2> QED
    BY <2>1 DEF IsSequence, AllHit
<1> HIDE DEF word
<1>13. CASE IsBlank(word)
  BY <1>1, <1>12, <1>13 DEF K, word
<1>14. CASE ~IsBlank(word) /\ named = <<>>
  <2>1. K = <<any>> /\ Inside(fields) = {""}
    BY <1>1, <1>6, <1>7, <1>14
  <2>2. IsSequence(K) /\ K # <<>> /\ (AllHit(doc, K) <=> HasTerm(doc, "", word))
    BY <1>10, <1>11, <2>1
  <2>3. (\E f \in {""} : HasTerm(doc, f, word)) <=> HasTerm(doc, "", word)
    OBVIOUS
  <2> QED
    BY <1>14, <2>1, <2>2, <2>3 DEF K, word
<1>15. CASE ~IsBlank(word) /\ named # <<>>
  <2>1. K = <<c>> /\ Inside(fields) = Real
    BY <1>1, <1>6, <1>7, <1>15
  <2>2. IsSequence(K) /\ K # <<>> /\ (AllHit(doc, K) <=> \E f \in Real : HasTerm(doc, f, word))
    BY <1>9, <1>11, <2>1
  <2> QED
    BY <1>15, <2>1, <2>2 DEF K, word
<1> QED
  BY <1>13, <1>14, <1>15

-----------------------------------------------------------------------------
OutOfRange(doc, r) == \/ (r.GT # None /\ doc.number < r.GT) \/ (r.GTE # None /\ doc.number < r.GTE)
                   \/ (r.LT # None /\ doc.number >= r.LT) \/ (r.LTE # None /\ doc.number >= r.LTE)
Untimely(doc, r) == \/ r.From # None /\ (doc.number < r.From \/ (doc.number = r.From /\ ~r.IncFrom))
                    \/ r.To # None /\ (doc.number > r.To \/ (doc.number = r.To /\ ~r.IncTo))

LEMMA RangeHits ==
  ASSUME NEW range, NEW inMin, NEW inMax, NEW doc
  PROVE  Hits(doc, InRange(range, inMin, inMax)) <=>
           /\ range.min # None => doc.number > range.min \/ (inMin /\ doc.number = range.min)
           /\ range.max # None => doc.number < range.max \/ (inMax /\ doc.number = range.max)
<1> DEFINE c == InRange(range, inMin, inMax)
<1>1. c.kind = "range" /\ c.range = range /\ c.inMin = inMin /\ c.inMax = inMax
  BY DEF InRange
<1>2. Hits(doc, c) <=> HitsRange(doc, c)
  BY <1>1 DEF Hits, HitsOne
<1> HIDE DEF c
<1>3. HitsRange(doc, c) <=>
           /\ range.min # None => doc.number > range.min \/ (inMin /\ doc.number = range.min)
           /\ range.max # None => doc.number < range.max \/ (inMax /\ doc.number = range.max)
  BY <1>1 DEF HitsRange
<1> QED
  BY <1>2, <1>3 DEF c

LEMMA NumericHits ==
  ASSUME NEW ranges \in Seq(NumericBounds), NEW doc, doc.number \in Int
  PROVE  /\ IsSequence(NumericClauses(ranges))
         /\ NumericClauses(ranges) = <<>> <=> ranges = <<>>
         /\ AllHit(doc, NumericClauses(ranges)) <=> \A i \in DOMAIN ranges : ~OutOfRange(doc, ranges[i])
<1> DEFINE e(i) == InRange([min |-> rMin(ranges[i]), max |-> rMax(ranges[i])], TRUE, FALSE)
           n == Len(ranges)  N == [i \in 1 .. n |-> e(i)]  X == {e(i) : i \in 1 .. n}
<1>1. /\ DOMAIN ranges = 1 .. n /\ n \in Nat /\ \A i \in 1 .. n : ranges[i] \in NumericBounds
      /\ ranges = <<>> <=> n = 0
  BY LenProperties, ElementOfSeq, EmptySeq
<1>2. NumericClauses(ranges) = N
  BY <1>1 DEF NumericClauses
<1> HIDE DEF n
<1>3. N \in Seq(X) /\ Len(N) = n /\ DOMAIN N = 1 .. n
  <2>1. \A i \in 1 .. n : e(i) \in X
    OBVIOUS
  <2> HIDE DEF e, X
  <2> QED
    BY <1>1, <2>1, IsASeq
<1>4. \A i \in 1 .. n : N[i] = e(i)
  OBVIOUS
<1> HIDE DEF N, X
<1>5. N = <<>> <=> n = 0
  BY <1>3, EmptySeq
<1>6. ASSUME NEW i \in 1 .. n
      PROVE  Hits(doc, N[i]) <=> ~OutOfRange(doc, ranges[i])
  <2> DEFINE r == ranges[i]  lo == rMin(r)  hi == rMax(r)  both == [min |-> lo, max |-> hi]
  <2>1. /\ r.GT \in Int /\ r.GTE \in Int /\ r.LT \in Int /\ r.LTE \in Int
        /\ r.GT = None \/ r.GTE = None
        /\ r.LT = None \/ r.LTE = None
    BY <1>1 DEF NumericBounds
  <2>2. /\ lo = IF r.GT # None THEN r.GT ELSE r.GTE
        /\ hi = IF r.LT # None THEN r.LT ELSE r.LTE
    BY DEF rMin, rMax
  <2>3. N[i] = InRange(both, TRUE, FALSE) /\ both.min = lo /\ both.max = hi
    BY <1>4
  <2> HIDE DEF both, lo, hi, r
  <2>4. Hits(doc, N[i]) <=>
           /\ lo # None => doc.number > lo \/ doc.number = lo
           /\ hi # None => doc.number < hi
    BY <2>3, RangeHits
  <2>5. None \in Int
    BY DEF None
  <2>6. OutOfRange(doc, r) <=> \/ (r.GT # None /\ doc.number < r.GT) \/ (r.GTE # None /\ doc.number < r.GTE)
                            \/ (r.LT # None /\ doc.number >= r.LT) \/ (r.LTE # None /\ doc.number >= r.LTE)
    BY DEF OutOfRange
  <2> QED
    BY <2>1, <2>2, <2>4, <2>5, <2>6 DEF r
<1>7. AllHit(doc, N) <=> \A i \in DOMAIN ranges : ~OutOfRange(doc, ranges[i])
  BY <1>1, <1>3, <1>6 DEF AllHit
<1> QED
  BY <1>1, <1>2, <1>3, <1>5, <1>7 DEF IsSequence

LEMMA TimeHits ==
  ASSUME NEW ranges \in Seq(TimeBounds), NEW doc, doc.number \in Int
  PROVE  /\ IsSequence(TimeClauses(ranges))
         /\ TimeClauses(ranges) = <<>> <=> ranges = <<>>
         /\ AllHit(doc, TimeClauses(ranges)) <=> \A i \in DOMAIN ranges : ~Untimely(doc, ranges[i])
<1> DEFINE e(i) == InRange([min |-> ranges[i].From, max |-> ranges[i].To], ranges[i].IncFrom, ranges[i].IncTo)
           n == Len(ranges)  N == [i \in 1 .. n |-> e(i)]  X == {e(i) : i \in 1 .. n}
<1>1. /\ DOMAIN ranges = 1 .. n /\ n \in Nat /\ \A i \in 1 .. n : ranges[i] \in TimeBounds
      /\ ranges = <<>> <=> n = 0
  BY LenProperties, ElementOfSeq, EmptySeq
<1>2. TimeClauses(ranges) = N
  BY <1>1 DEF TimeClauses
<1> HIDE DEF n
<1>3. N \in Seq(X) /\ Len(N) = n /\ DOMAIN N = 1 .. n
  <2>1. \A i \in 1 .. n : e(i) \in X
    OBVIOUS
  <2> HIDE DEF e, X
  <2> QED
    BY <1>1, <2>1, IsASeq
<1>4. \A i \in 1 .. n : N[i] = e(i)
  OBVIOUS
<1> HIDE DEF N, X
<1>5. N = <<>> <=> n = 0
  BY <1>3, EmptySeq
<1>6. ASSUME NEW i \in 1 .. n
      PROVE  Hits(doc, N[i]) <=> ~Untimely(doc, ranges[i])
  <2> DEFINE r == ranges[i]  both == [min |-> r.From, max |-> r.To]
  <2>1. r.From \in Int /\ r.To \in Int /\ r.IncFrom \in BOOLEAN /\ r.IncTo \in BOOLEAN
    BY <1>1 DEF TimeBounds
  <2>2. N[i] = InRange(both, r.IncFrom, r.IncTo) /\ both.min = r.From /\ both.max = r.To
    BY <1>4
  <2> HIDE DEF both, r
  <2>3. Hits(doc, N[i]) <=>
           /\ r.From # None => doc.number > r.From \/ (r.IncFrom /\ doc.number = r.From)
           /\ r.To # None => doc.number < r.To \/ (r.IncTo /\ doc.number = r.To)
    BY <2>2, RangeHits
  <2>4. None \in Int
    BY DEF None
  <2>5. Untimely(doc, r) <=>
           \/ r.From # None /\ (doc.number < r.From \/ (doc.number = r.From /\ ~r.IncFrom))
           \/ r.To # None /\ (doc.number > r.To \/ (doc.number = r.To /\ ~r.IncTo))
    BY DEF Untimely
  <2> QED
    BY <2>1, <2>3, <2>4, <2>5 DEF r
<1>7. AllHit(doc, N) <=> \A i \in DOMAIN ranges : ~Untimely(doc, ranges[i])
  BY <1>1, <1>3, <1>6 DEF AllHit
<1> QED
  BY <1>1, <1>2, <1>3, <1>5, <1>7 DEF IsSequence

LEMMA AppendedHits ==
  ASSUME NEW s, IsSequence(s), NEW c, NEW doc
  PROVE  Append(s, c) # <<>> /\ (AllHit(doc, Append(s, c)) <=> AllHit(doc, s) /\ Hits(doc, c))
<1>1. PICK X : s \in Seq(X)
  BY DEF IsSequence
<1> DEFINE Y == X \union {c}  t == Append(s, c)
<1>2. s \in Seq(Y) /\ c \in Y
  BY <1>1
<1> HIDE DEF Y
<1>3. /\ t \in Seq(Y) /\ Len(t) = Len(s) + 1 /\ t[Len(s) + 1] = c /\ Len(s) \in Nat
      /\ \A i \in 1 .. Len(s) : t[i] = s[i]
      /\ DOMAIN t = 1 .. Len(s) + 1 /\ DOMAIN s = 1 .. Len(s)
  BY <1>2, AppendProperties, LenProperties
<1> HIDE DEF t
<1>4. t # <<>>
  BY <1>3, EmptySeq
<1>5. AllHit(doc, t) <=> AllHit(doc, s) /\ Hits(doc, c)
  BY <1>3 DEF AllHit
<1> QED
  BY <1>4, <1>5 DEF t

\* The conditions that the document meets.
Met(doc, F, W) == {c \in Conditions(F, W) : HitsOne(doc, c)}

LEMMA MetIs ==
  ASSUME NEW doc, NEW F, NEW W
  PROVE  /\ \A f \in F, w \in W : On(f, w) \in Met(doc, F, W) <=> HasTerm(doc, f, w)
         /\ \A c \in Conditions(F, W) : /\ c \in Met(doc, F, W) <=> Hits(doc, c)
                                        /\ c \in Met(doc, F, W) <=> HitsOne(doc, c)
                                        /\ c \in Met(doc, F, W) <=> HasTerm(doc, c.field, c.what)
<1>1. ASSUME NEW f \in F, NEW w \in W
      PROVE  On(f, w) \in Conditions(F, W) /\ (On(f, w) \in Met(doc, F, W) <=> HasTerm(doc, f, w))
  <2>1. On(f, w) \in Conditions(F, W)
    BY ConditionsAre
  <2> QED
    BY <2>1, OnHits DEF Met
<1>2. ASSUME NEW c \in Conditions(F, W)
      PROVE  /\ c \in Met(doc, F, W) <=> Hits(doc, c)
             /\ c \in Met(doc, F, W) <=> HitsOne(doc, c)
             /\ c \in Met(doc, F, W) <=> HasTerm(doc, c.field, c.what)
  <2>1. PICK f \in F, w \in W : c = On(f, w)
    BY ConditionsAre
  <2> QED
    BY <1>1, <2>1, OnHits
<1> QED
  BY <1>1, <1>2

\* How many optional conditions the document meets.
Chosen(req, doc) == {i \in DOMAIN req.clauses : HasTerm(doc, req.clauses[i].field, req.clauses[i].what)}
ChosenTerms(req, doc) ==
  {p \in TermPairs(req.shouldTerms) : HasTerm(doc, p[1], req.shouldTerms[p[1]][p[2]])}
Options(req) == Len(req.clauses) + Cardinality(TermPairs(req.shouldTerms))

CountsOptions(should, req, doc, F, W) ==
  /\ should \in Seq(Conditions(F, W)) /\ Len(should) = Options(req)
  /\ Cardinality(PlacesOf(should, Met(doc, F, W)))
       = Cardinality(Chosen(req, doc)) + Cardinality(ChosenTerms(req, doc))

LEMMA OptionsCount ==
  ASSUME NEW F, NEW W, NEW req, NEW doc, req.clauses \in Seq(Conditions(F, W)),
         IsTerms(req.shouldTerms, F, W),
         NEW should, IsJoined(should, req.clauses, FieldClauses(req.shouldTerms, FALSE))
  PROVE  CountsOptions(should, req, doc, F, W)
<1> DEFINE map == req.shouldTerms  one == req.clauses  two == FieldClauses(map, FALSE)
           C == Conditions(F, W)  M == Met(doc, F, W)
<1>0. IsTerms(map, F, W)
  OBVIOUS
<1>1. one \in Seq(C) /\ two \in Seq(C)
  <2>1. MeansTerms(two, map, F, W, M)
    BY <1>0, MayFields
  <2> QED
    BY <2>1 DEF MeansTerms
<1>2. /\ Cardinality(PlacesOf(two, M)) = Cardinality(MeantPairs(map, M))
      /\ Cardinality(PlacesOf(two, C)) = Cardinality(MeantPairs(map, C))
  <2> HIDE DEF map, C, M
  <2>1. \A S : Cardinality(PlacesOf(two, S)) = Cardinality(MeantPairs(map, S))
    <3> SUFFICES ASSUME NEW S PROVE Cardinality(PlacesOf(two, S)) = Cardinality(MeantPairs(map, S))
      OBVIOUS
    <3>1. MeansTerms(two, map, F, W, S)
      BY <1>0, MayFields
    <3> QED
      BY <3>1 DEF MeansTerms
  <2> HIDE DEF two
  <2> QED
    BY <2>1
<1>3. IsJoined(should, one, two)
  BY DEF IsJoined
<1>4. \A p \in TermPairs(map) : p[1] \in F /\ map[p[1]][p[2]] \in W
  <2> SUFFICES ASSUME NEW p \in TermPairs(map) PROVE p[1] \in F /\ map[p[1]][p[2]] \in W
    OBVIOUS
  <2>1. PICK f \in DOMAIN map : p \in {f} \X DOMAIN map[f]
    BY DEF TermPairs
  <2>2. p[1] = f /\ p[2] \in DOMAIN map[f] /\ f \in F /\ map[f] \in Seq(W)
    BY <2>1 DEF IsTerms
  <2> QED
    BY <2>2, LenProperties, ElementOfSeq
<1>5. MeantPairs(map, C) = TermPairs(map)
  <2>1. \A p \in TermPairs(map) : On(p[1], map[p[1]][p[2]]) \in C
    BY <1>4, ConditionsAre
  <2> QED
    BY <2>1 DEF MeantPairs
<1>6. MeantPairs(map, M) = ChosenTerms(req, doc)
  <2>1. \A p \in TermPairs(map) : On(p[1], map[p[1]][p[2]]) \in M <=> HasTerm(doc, p[1], map[p[1]][p[2]])
    BY <1>4, MetIs
  <2> QED
    BY <2>1 DEF MeantPairs, ChosenTerms
<1>7. PlacesOf(one, M) = Chosen(req, doc)
  <2>1. \A i \in DOMAIN one : one[i] \in C
    BY <1>1, LenProperties, ElementOfSeq
  <2>2. \A i \in DOMAIN one : one[i] \in M <=> HasTerm(doc, one[i].field, one[i].what)
    BY <2>1, MetIs
  <2> QED
    BY <2>2 DEF PlacesOf, Chosen
<1> HIDE DEF map, one, two, C, M
<1>8. Cardinality(PlacesOf(should, M)) = Cardinality(PlacesOf(one, M)) + Cardinality(PlacesOf(two, M))
  BY <1>1, <1>3, AtJoined
<1>9. Cardinality(PlacesOf(should, C)) = Cardinality(PlacesOf(one, C)) + Cardinality(PlacesOf(two, C))
  BY <1>1, <1>3, AtJoined
<1>10. should \in Seq(C)
  BY <1>1, <1>3, ConcatProperties DEF IsJoined
<1>11. Cardinality(PlacesOf(should, C)) = Len(should) /\ Cardinality(PlacesOf(one, C)) = Len(one)
  BY <1>1, <1>10, AtAll
<1>12. Len(should) = Options(req)
  BY <1>2, <1>5, <1>9, <1>11 DEF Options, one, map
<1> QED
  BY <1>2, <1>6, <1>7, <1>8, <1>10, <1>12 DEF C, M, CountsOptions

\* That some of them, or enough of them, hit.
LEMMA OptionsHit ==
  ASSUME NEW F, NEW W, NEW doc, NEW should \in Seq(Conditions(F, W)), NEW min,
         NEW count, count = Cardinality(PlacesOf(should, Met(doc, F, W)))
  PROVE  /\ Hits(doc, AtLeast(should, min)) <=> count >= min
         /\ (\E i \in DOMAIN should : Hits(doc, should[i])) <=> count >= 1
         /\ count \in Nat
<1> DEFINE C == Conditions(F, W)  M == Met(doc, F, W)  A == PlacesOf(should, M)
<1>1. \A i \in DOMAIN should : should[i] \in C
  BY LenProperties, ElementOfSeq
<1>2. \A i \in DOMAIN should : /\ should[i] \in M <=> HitsOne(doc, should[i])
                               /\ should[i] \in M <=> Hits(doc, should[i])
  BY <1>1, MetIs
<1>3. {i \in DOMAIN should : HitsOne(doc, should[i])} = A
  BY <1>2 DEF PlacesOf
<1>4. /\ AtLeast(should, min).kind = "atLeast" /\ AtLeast(should, min).clauses = should
      /\ AtLeast(should, min).min = min
  BY DEF AtLeast
<1>5. Hits(doc, AtLeast(should, min)) <=> count >= min
  BY <1>3, <1>4 DEF Hits
<1>6. (\E i \in DOMAIN should : Hits(doc, should[i])) <=> A # {}
  BY <1>2 DEF PlacesOf
<1>7. IsFiniteSet(A) /\ count = Cardinality(A)
  BY AtIsFinite
<1> HIDE DEF A
<1>8. count \in Nat /\ (count = 0 <=> A = {})
  BY <1>7, FS_CardinalityType, FS_EmptySet
<1>9. (\E i \in DOMAIN should : Hits(doc, should[i])) <=> count >= 1
  BY <1>6, <1>8
<1> QED
  BY <1>5, <1>8, <1>9

\* Excluded terms.
LEMMA ExcludedHit ==
  ASSUME NEW F, NEW W, NEW map, IsTerms(map, F, W), NEW doc
  PROVE  (\A i \in DOMAIN FieldClauses(map, FALSE) : ~Hits(doc, FieldClauses(map, FALSE)[i]))
           <=> \A f \in DOMAIN map : \A t \in ToSet(map[f]) : ~HasTerm(doc, f, t)
<1> DEFINE N == FieldClauses(map, FALSE)  C == Conditions(F, W)  M == Met(doc, F, W)
<1>1. /\ N \in Seq(C)
      /\ (\A i \in DOMAIN N : N[i] \notin M)
            <=> \A f \in DOMAIN map : \A i \in DOMAIN map[f] : On(f, map[f][i]) \notin M
  BY MayFields DEF MeansTerms
<1> HIDE DEF N
<1>2. \A i \in DOMAIN N : N[i] \in M <=> Hits(doc, N[i])
  BY <1>1, LenProperties, ElementOfSeq, MetIs
<1>3. \A f \in DOMAIN map : \A i \in DOMAIN map[f] : On(f, map[f][i]) \in M <=> HasTerm(doc, f, map[f][i])
  <2> SUFFICES ASSUME NEW f \in DOMAIN map, NEW i \in DOMAIN map[f]
               PROVE  On(f, map[f][i]) \in M <=> HasTerm(doc, f, map[f][i])
    OBVIOUS
  <2>1. f \in F /\ map[f] \in Seq(W)
    BY DEF IsTerms
  <2>2. map[f][i] \in W
    BY <2>1, LenProperties, ElementOfSeq
  <2> QED
    BY <2>1, <2>2, MetIs
<1> HIDE DEF M
<1>4. \A f \in DOMAIN map : (\A i \in DOMAIN map[f] : On(f, map[f][i]) \notin M)
                               <=> \A t \in ToSet(map[f]) : ~HasTerm(doc, f, t)
  BY <1>3 DEF ToSet
<1> QED
  BY <1>1, <1>2, <1>4 DEF N

-----------------------------------------------------------------------------
Firm(req) == \/ ~IsBlank(req.keyword) \/ req.numericRanges # <<>> \/ req.timeRanges # <<>>
             \/ \E f \in DOMAIN req.mustTerms : req.mustTerms[f] # <<>>

\* What a request asks of a document that is not optional.
FirmlyMet(req, fields, doc) ==
  /\ ~IsBlank(req.keyword) => \E f \in Inside(fields) : HasTerm(doc, f, req.keyword)
  /\ \A f \in DOMAIN req.mustTerms :
       req.mustTerms[f] # <<>> => \E t \in ToSet(req.mustTerms[f]) : HasTerm(doc, f, t)
  /\ \A i \in DOMAIN req.numericRanges : ~OutOfRange(doc, req.numericRanges[i])
  /\ \A i \in DOMAIN req.timeRanges : ~Untimely(doc, req.timeRanges[i])

MustPart(req, defaultFields) ==
  KeywordClause(req, defaultFields) \o FieldClauses(req.mustTerms, TRUE)
    \o NumericClauses(req.numericRanges) \o TimeClauses(req.timeRanges)

LEMMA FirmPart ==
  ASSUME NEW F, NEW W, NEW req, IsRequest(req, F, W), NEW defaultFields,
         NEW fields \in Seq(F), fields = Searched(req, defaultFields),
         NEW doc, doc.number \in Int,
         NEW must, must = MustPart(req, defaultFields)
  PROVE  IsSequence(must) /\ (must # <<>> <=> Firm(req)) /\ (AllHit(doc, must) <=> FirmlyMet(req, fields, doc))
<1> DEFINE K == KeywordClause(req, defaultFields)  T == FieldClauses(req.mustTerms, TRUE)
           N == NumericClauses(req.numericRanges)  D == TimeClauses(req.timeRanges)
<1>1. /\ IsSequence(K) /\ (K = <<>> <=> IsBlank(req.keyword))
      /\ AllHit(doc, K) <=> (~IsBlank(req.keyword) => \E f \in Inside(fields) : HasTerm(doc, f, req.keyword))
  BY KeywordAsks
<1>2. /\ IsSequence(T) /\ (T = <<>> <=> \A f \in DOMAIN req.mustTerms : req.mustTerms[f] = <<>>)
      /\ AllHit(doc, T) <=> \A f \in DOMAIN req.mustTerms :
           req.mustTerms[f] # <<>> => \E t \in ToSet(req.mustTerms[f]) : HasTerm(doc, f, t)
  <2> DEFINE map == req.mustTerms
  <2>1. IsTerms(map, F, W)
    BY DEF IsRequest
  <2> HIDE DEF map
  <2> QED
    BY <2>1, MustFields DEF map
<1>3. /\ IsSequence(N) /\ (N = <<>> <=> req.numericRanges = <<>>)
      /\ AllHit(doc, N) <=> \A i \in DOMAIN req.numericRanges : ~OutOfRange(doc, req.numericRanges[i])
  <2> DEFINE ranges == req.numericRanges
  <2>1. ranges \in Seq(NumericBounds)
    BY DEF IsRequest
  <2> HIDE DEF ranges
  <2> QED
    BY <2>1, NumericHits DEF ranges
<1>4. /\ IsSequence(D) /\ (D = <<>> <=> req.timeRanges = <<>>)
      /\ AllHit(doc, D) <=> \A i \in DOMAIN req.timeRanges : ~Untimely(doc, req.timeRanges[i])
  <2> DEFINE ranges == req.timeRanges
  <2>1. ranges \in Seq(TimeBounds)
    BY DEF IsRequest
  <2> HIDE DEF ranges
  <2> QED
    BY <2>1, TimeHits DEF ranges
<1> DEFINE a == K \o T  b == a \o N
<1>5. must = b \o D
  BY DEF MustPart
<1> HIDE DEF K, T, N, D
<1>6. IsSequence(a) /\ (AllHit(doc, a) <=> AllHit(doc, K) /\ AllHit(doc, T)) /\ (a = <<>> <=> K = <<>> /\ T = <<>>)
  BY <1>1, <1>2, SlicesJoined
<1> HIDE DEF a
<1>7. IsSequence(b) /\ (AllHit(doc, b) <=> AllHit(doc, a) /\ AllHit(doc, N)) /\ (b = <<>> <=> a = <<>> /\ N = <<>>)
  BY <1>3, <1>6, SlicesJoined
<1> HIDE DEF b
<1>8. IsSequence(must) /\ (AllHit(doc, must) <=> AllHit(doc, b) /\ AllHit(doc, D)) /\ (must = <<>> <=> b = <<>> /\ D = <<>>)
  BY <1>4, <1>5, <1>7, SlicesJoined
<1>9. must # <<>> <=> Firm(req)
  BY <1>1, <1>2, <1>3, <1>4, <1>6, <1>7, <1>8 DEF Firm
<1>10. AllHit(doc, must) <=> FirmlyMet(req, fields, doc)
  BY <1>1, <1>2, <1>3, <1>4, <1>6, <1>7, <1>8 DEF FirmlyMet
<1> QED
  BY <1>8, <1>9, <1>10

\* What the query of a request is, and what finds a document.
AskedFor(req) == IF Options(req) = 0 THEN 0
               ELSE IF req.minShould > 0 THEN req.minShould ELSE IF Firm(req) THEN 0 ELSE 1

LEMMA QueryFinds ==
  ASSUME NEW F, NEW W, NEW req, IsRequest(req, F, W), NEW defaultFields,
         NEW fields \in Seq(F), fields = Searched(req, defaultFields),
         NEW doc, doc.number \in Int
  PROVE  Finds(buildQuery(req, defaultFields), doc) <=>
           /\ \/ Firm(req) \/ Options(req) > 0
              \/ \E f \in DOMAIN req.mustNotTerms : req.mustNotTerms[f] # <<>>
           /\ FirmlyMet(req, fields, doc)
           /\ \A f \in DOMAIN req.mustNotTerms : \A t \in ToSet(req.mustNotTerms[f]) : ~HasTerm(doc, f, t)
           /\ Cardinality(Chosen(req, doc)) + Cardinality(ChosenTerms(req, doc)) >= AskedFor(req)
<1> DEFINE should == req.clauses \o FieldClauses(req.shouldTerms, FALSE)
           must == MustPart(req, defaultFields)
           not == FieldClauses(req.mustNotTerms, FALSE)
           min == req.minShould
           enough == should # <<>> /\ min > 0
           c == AtLeast(should, min)
           count == Cardinality(Chosen(req, doc)) + Cardinality(ChosenTerms(req, doc))
           query == buildQuery(req, defaultFields)
           Excludes == \E f \in DOMAIN req.mustNotTerms : req.mustNotTerms[f] # <<>>
           Spared == \A f \in DOMAIN req.mustNotTerms : \A t \in ToSet(req.mustNotTerms[f]) : ~HasTerm(doc, f, t)
<1>1. /\ IsSequence(must) /\ (must # <<>> <=> Firm(req)) /\ (AllHit(doc, must) <=> FirmlyMet(req, fields, doc))
  <2> HIDE DEF must
  <2> QED
    BY FirmPart DEF must
<1>2. /\ should \in Seq(Conditions(F, W)) /\ Len(should) = Options(req)
      /\ Cardinality(PlacesOf(should, Met(doc, F, W))) = count
  <2>1. req.clauses \in Seq(Conditions(F, W)) /\ IsTerms(req.shouldTerms, F, W)
    BY DEF IsRequest
  <2>2. IsJoined(should, req.clauses, FieldClauses(req.shouldTerms, FALSE))
    BY DEF IsJoined
  <2> HIDE DEF should
  <2>3. CountsOptions(should, req, doc, F, W)
    BY <2>1, <2>2, OptionsCount
  <2> QED
    BY <2>3 DEF CountsOptions
<1>3. /\ not = <<>> <=> ~Excludes
      /\ (\A i \in DOMAIN not : ~Hits(doc, not[i])) <=> Spared
  <2> DEFINE map == req.mustNotTerms
  <2>1. IsTerms(map, F, W) /\ not = FieldClauses(map, FALSE)
    BY DEF IsRequest
  <2> HIDE DEF map, not
  <2>2. not = <<>> <=> \A f \in DOMAIN map : map[f] = <<>>
    <3>1. MeansTerms(not, map, F, W, {})
      BY <2>1, MayFields
    <3> QED
      BY <3>1 DEF MeansTerms
  <2>3. (\A i \in DOMAIN not : ~Hits(doc, not[i]))
           <=> \A f \in DOMAIN map : \A t \in ToSet(map[f]) : ~HasTerm(doc, f, t)
    BY <2>1, ExcludedHit
  <2> QED
    BY <2>2, <2>3 DEF map
<1>4. min \in Int
  BY DEF IsRequest
<1>5. /\ query.must = IF enough THEN Append(must, c) ELSE must
      /\ query.should = IF enough THEN <<>> ELSE should
      /\ query.mustNot = not
  BY DEF buildQuery, MustPart
<1> HIDE DEF should, must, not, min, query, Excludes, Spared, count
<1>6. /\ Hits(doc, c) <=> count >= min
      /\ (\E i \in DOMAIN should : Hits(doc, should[i])) <=> count >= 1
      /\ count \in Nat
  BY <1>2, OptionsHit
<1>7. /\ should = <<>> <=> Options(req) = 0
      /\ Options(req) \in Nat
  BY <1>2, EmptySeq, LenProperties
<1>8. AskedFor(req) = IF Options(req) = 0 THEN 0 ELSE IF min > 0 THEN min ELSE IF Firm(req) THEN 0 ELSE 1
  BY DEF AskedFor, min
<1>9. Append(must, c) # <<>> /\ (AllHit(doc, Append(must, c)) <=> AllHit(doc, must) /\ Hits(doc, c))
  BY <1>1, AppendedHits
<1>10. Finds(query, doc) <=>
         /\ query.must # <<>> \/ query.should # <<>> \/ not # <<>>
         /\ AllHit(doc, query.must)
         /\ Spared
         /\ query.must = <<>> /\ query.should # <<>> => \E i \in DOMAIN query.should : Hits(doc, query.should[i])
  BY <1>3, <1>5 DEF Finds, AllHit
<1> HIDE DEF c
<1>11. Finds(query, doc) <=>
           /\ Firm(req) \/ Options(req) > 0 \/ Excludes
           /\ FirmlyMet(req, fields, doc)
           /\ Spared
           /\ count >= AskedFor(req)
  <2>1. CASE enough
    <3>1. query.must = Append(must, c) /\ query.should = <<>>
      BY <1>5, <2>1
    <3>2. Finds(query, doc) <=> AllHit(doc, must) /\ count >= min /\ Spared
      BY <1>6, <1>9, <1>10, <3>1
    <3>3. Options(req) > 0 /\ AskedFor(req) = min
      BY <1>7, <1>8, <2>1
    <3> QED
      BY <1>1, <3>2, <3>3
  <2>2. CASE should = <<>>
    <3>1. query.must = must /\ query.should = <<>>
      BY <1>5, <2>2
    <3>2. Finds(query, doc) <=> (must # <<>> \/ not # <<>>) /\ AllHit(doc, must) /\ Spared
      BY <1>10, <3>1
    <3>3. Options(req) = 0 /\ AskedFor(req) = 0 /\ count >= 0 /\ ~(Options(req) > 0)
      BY <1>6, <1>7, <1>8, <2>2
    <3> QED
      BY <1>1, <1>3, <3>2, <3>3
  <2>3. CASE should # <<>> /\ ~(min > 0)
    <3>1. query.must = must /\ query.should = should
      BY <1>5, <2>3
    <3>2. Finds(query, doc) <=> AllHit(doc, must) /\ Spared /\ (must = <<>> => count >= 1)
      BY <1>6, <1>10, <2>3, <3>1
    <3>3. Options(req) > 0 /\ AskedFor(req) = (IF Firm(req) THEN 0 ELSE 1) /\ count >= 0
      BY <1>6, <1>7, <1>8, <2>3
    <3> QED
      BY <1>1, <3>2, <3>3
  <2> QED
    BY <2>1, <2>2, <2>3
<1> QED
  BY <1>11 DEF query, Excludes, Spared, count

(***************************************************************************)
(* QueryMeansRequest (buildQuery in query_builder.go and bleve's reading): *)
(* for every request, whatever fields, terms, conditions and ranges it     *)
(* has and however many must hold, and every document, those on a bound    *)
(* among them.  A numeric range has a lower bound, an upper one or both,   *)
(* each in one of its two words (IsRequest): of two, the code takes one.   *)
(***************************************************************************)
THEOREM QueriesFindRequested ==
  ASSUME NEW F, NEW W, NEW req, IsRequest(req, F, W), NEW defaultFields \in Seq(F),
         NEW doc, doc.number \in Int
  PROVE  QueryMeansRequest(req, defaultFields, doc)
<1> DEFINE fields == Searched(req, defaultFields)
<1>1. fields \in Seq(F)
  BY DEF Searched, IsRequest
<1>2. Finds(buildQuery(req, defaultFields), doc) <=>
           /\ \/ Firm(req) \/ Options(req) > 0
              \/ \E f \in DOMAIN req.mustNotTerms : req.mustNotTerms[f] # <<>>
           /\ FirmlyMet(req, fields, doc)
           /\ \A f \in DOMAIN req.mustNotTerms : \A t \in ToSet(req.mustNotTerms[f]) : ~HasTerm(doc, f, t)
           /\ Cardinality(Chosen(req, doc)) + Cardinality(ChosenTerms(req, doc)) >= AskedFor(req)
  <2> HIDE DEF fields
  <2> QED
    BY <1>1, QueryFinds DEF fields
<1> QED
  BY <1>2 DEF QueryMeansRequest, OutOfRange, Untimely, Firm, FirmlyMet, Inside, Searched, Options,
              AskedFor, Chosen, ChosenTerms, TermPairs, HasTerm, IsBlank

-----------------------------------------------------------------------------
(***************************************************************************)
(* The terms of an expanded query.  An answer is split at its separators,  *)
(* the pieces are trimmed, the empty ones and those that came before are   *)
(* dropped: what is left is, in order, where the different words stand     *)
(* first.                                                                  *)
(***************************************************************************)
\* A symbol is read: a separator begins a part, another lengthens the last.
SplitStep(parts, x) ==
  IF x \in Separators THEN Append(parts, <<>>) ELSE [parts EXCEPT ![Len(parts)] = Append(@, x)]

\* Split is the last of the lists of parts that its symbols lead to.
LEMMA SplitRuns ==
  ASSUME NEW X, NEW s \in Seq(X)
  PROVE  \E g : /\ g[0] = << <<>> >> /\ g[Len(s)] = Split(s)
                /\ \A n \in 1 .. Len(s) : g[n] = SplitStep(g[n - 1], s[n])
<1> DEFINE last == Len(s)
           More(n, v) == SplitStep(v, s[n])
           All(n, f) == [t \in SUBSET (1 .. n) |-> IF t = {} THEN << <<>> >> ELSE More(Max(t), f[t \ {Max(t)}])]
           Good == {n \in Nat : \E f : f = All(n, f)}
<1>1. last \in Nat /\ DOMAIN s = 1 .. last
  BY LenProperties
<1>2. Split(s) = (CHOOSE f : f = All(last, f))[1 .. last]
  BY <1>1 DEF Split, SplitStep, FoldLeft, MapThenFoldSet
<1> HIDE DEF More
<1>3. 0 \in Good
  <2> DEFINE f == [t \in SUBSET (1 .. 0) |-> << <<>> >>]
  <2>1. \A t \in SUBSET (1 .. 0) : t = {}
    OBVIOUS
  <2>2. f = All(0, f)
    BY <2>1
  <2> QED
    BY <2>2
<1>4. ASSUME NEW n \in Nat, n \in Good PROVE n + 1 \in Good
  <2>1. PICK f : f = All(n, f)
    BY <1>4
  <2> DEFINE g == [t \in SUBSET (1 .. n + 1) |-> IF n + 1 \in t THEN More(n + 1, f[t \ {n + 1}]) ELSE f[t]]
             h == All(n + 1, g)
  <2>2. ASSUME NEW t \in SUBSET (1 .. n + 1) PROVE g[t] = h[t]
    <3>1. h[t] = IF t = {} THEN << <<>> >> ELSE More(Max(t), g[t \ {Max(t)}])
      OBVIOUS
    <3>2. g[t] = IF n + 1 \in t THEN More(n + 1, f[t \ {n + 1}]) ELSE f[t]
      OBVIOUS
    <3>3. \A u \in SUBSET (1 .. n + 1) : n + 1 \notin u => u \in SUBSET (1 .. n) /\ g[u] = f[u]
      OBVIOUS
    <3> HIDE DEF g, h
    <3>4. CASE n + 1 \in t
      <4>1. Max(t) = n + 1
        BY <3>4, GreatestOfSome
      <4>2. g[t \ {n + 1}] = f[t \ {n + 1}]
        BY <3>3
      <4> QED
        BY <3>1, <3>2, <3>4, <4>1, <4>2
    <3>5. CASE n + 1 \notin t /\ t # {}
      <4>1. t \in SUBSET (1 .. n)
        BY <3>3, <3>5
      <4>2. g[t \ {Max(t)}] = f[t \ {Max(t)}]
        BY <3>3, <3>5
      <4>3. f[t] = More(Max(t), f[t \ {Max(t)}])
        BY <2>1, <3>5, <4>1
      <4> QED
        BY <3>1, <3>2, <3>5, <4>2, <4>3
    <3>6. CASE t = {}
      <4>1. f[t] = << <<>> >>
        BY <2>1, <3>6
      <4> QED
        BY <3>1, <3>2, <3>6, <4>1
    <3> QED
      BY <3>4, <3>5, <3>6
  <2>3. g = h
    BY <2>2
  <2>4. \E k : k = All(n + 1, k)
    BY <2>3
  <2> HIDE DEF All
  <2> QED
    BY <2>4
<1>5. last \in Good
  <2> HIDE DEF Good
  <2> QED
    BY <1>1, <1>3, <1>4, NumbersAll
<1> DEFINE f == CHOOSE f : f = All(last, f)
           g == [n \in 0 .. last |-> f[1 .. n]]
<1>6. f = All(last, f)
  <2>1. \E k : k = All(last, k)
    BY <1>5
  <2> QED
    BY <2>1
<1> HIDE DEF f
<1>7. g[0] = << <<>> >>
  <2>1. 1 .. 0 = {} /\ 1 .. 0 \in SUBSET (1 .. last) /\ 0 \in 0 .. last
    BY <1>1
  <2> QED
    BY <1>6, <2>1
<1>8. ASSUME NEW n \in 1 .. last PROVE g[n] = More(n, g[n - 1])
  <2>1. /\ 1 .. n \in SUBSET (1 .. last) /\ 1 .. n # {} /\ n \in Nat
        /\ 1 .. n \in SUBSET (1 .. n) /\ n \in 1 .. n
        /\ (1 .. n) \ {n} = 1 .. n - 1 /\ n - 1 \in 0 .. last /\ n \in 0 .. last
    <3>1. n \in 1 .. last /\ last \in Nat
      BY <1>1
    <3> HIDE DEF last
    <3>2. 1 .. n \in SUBSET (1 .. last)
      BY <3>1
    <3>3. (1 .. n) \ {n} = 1 .. n - 1
      BY <3>1
    <3>4. n \in Nat /\ n \in 1 .. n /\ n - 1 \in 0 .. last /\ n \in 0 .. last
      BY <3>1
    <3>5. 1 .. n # {}
      BY <3>4
    <3> QED
      BY <3>2, <3>3, <3>4, <3>5
  <2>2. Max(1 .. n) = n
    BY <2>1, GreatestOfSome
  <2>3. f[1 .. n] = More(n, f[1 .. n - 1])
    <3>1. f[1 .. n] = More(Max(1 .. n), f[(1 .. n) \ {Max(1 .. n)}])
      BY <1>6, <2>1
    <3> QED
      BY <2>1, <2>2, <3>1
  <2> QED
    BY <2>1, <2>3
<1>9. g[last] = Split(s)
  BY <1>1, <1>2 DEF f
<1> HIDE DEF g, last
<1>10. /\ g[0] = << <<>> >> /\ g[last] = Split(s)
       /\ \A n \in 1 .. last : g[n] = SplitStep(g[n - 1], s[n])
  BY <1>7, <1>8, <1>9 DEF More
<1> QED
  BY <1>10 DEF last


\* The loop of dedupKeepOrder, over terms that are trimmed.
FreshStep(kept, t) == IF t = <<>> \/ Contains(kept, t) THEN kept ELSE Append(kept, t)
FirstsOf(s) == FoldLeft(LAMBDA kept, t : IF t = <<>> \/ Contains(kept, t) THEN kept ELSE Append(kept, t), <<>>, s)

\* Dropping the repeated is the last of the lists that the terms lead to.
LEMMA FreshRuns ==
  ASSUME NEW X, NEW s \in Seq(X)
  PROVE  \E g : /\ g[0] = <<>> /\ g[Len(s)] = FirstsOf(s)
                /\ \A n \in 1 .. Len(s) : g[n] = FreshStep(g[n - 1], s[n])
<1> DEFINE last == Len(s)
           More(n, v) == FreshStep(v, s[n])
           All(n, f) == [t \in SUBSET (1 .. n) |-> IF t = {} THEN <<>> ELSE More(Max(t), f[t \ {Max(t)}])]
           Good == {n \in Nat : \E f : f = All(n, f)}
<1>1. last \in Nat /\ DOMAIN s = 1 .. last
  BY LenProperties
<1>2. FirstsOf(s) = (CHOOSE f : f = All(last, f))[1 .. last]
  BY <1>1 DEF FirstsOf, FreshStep, FoldLeft, MapThenFoldSet
<1> HIDE DEF More
<1>3. 0 \in Good
  <2> DEFINE f == [t \in SUBSET (1 .. 0) |-> <<>>]
  <2>1. \A t \in SUBSET (1 .. 0) : t = {}
    OBVIOUS
  <2>2. f = All(0, f)
    BY <2>1
  <2> QED
    BY <2>2
<1>4. ASSUME NEW n \in Nat, n \in Good PROVE n + 1 \in Good
  <2>1. PICK f : f = All(n, f)
    BY <1>4
  <2> DEFINE g == [t \in SUBSET (1 .. n + 1) |-> IF n + 1 \in t THEN More(n + 1, f[t \ {n + 1}]) ELSE f[t]]
             h == All(n + 1, g)
  <2>2. ASSUME NEW t \in SUBSET (1 .. n + 1) PROVE g[t] = h[t]
    <3>1. h[t] = IF t = {} THEN <<>> ELSE More(Max(t), g[t \ {Max(t)}])
      OBVIOUS
    <3>2. g[t] = IF n + 1 \in t THEN More(n + 1, f[t \ {n + 1}]) ELSE f[t]
      OBVIOUS
    <3>3. \A u \in SUBSET (1 .. n + 1) : n + 1 \notin u => u \in SUBSET (1 .. n) /\ g[u] = f[u]
      OBVIOUS
    <3> HIDE DEF g, h
    <3>4. CASE n + 1 \in t
      <4>1. Max(t) = n + 1
        BY <3>4, GreatestOfSome
      <4>2. g[t \ {n + 1}] = f[t \ {n + 1}]
        BY <3>3
      <4> QED
        BY <3>1, <3>2, <3>4, <4>1, <4>2
    <3>5. CASE n + 1 \notin t /\ t # {}
      <4>1. t \in SUBSET (1 .. n)
        BY <3>3, <3>5
      <4>2. g[t \ {Max(t)}] = f[t \ {Max(t)}]
        BY <3>3, <3>5
      <4>3. f[t] = More(Max(t), f[t \ {Max(t)}])
        BY <2>1, <3>5, <4>1
      <4> QED
        BY <3>1, <3>2, <3>5, <4>2, <4>3
    <3>6. CASE t = {}
      <4>1. f[t] = <<>>
        BY <2>1, <3>6
      <4> QED
        BY <3>1, <3>2, <3>6, <4>1
    <3> QED
      BY <3>4, <3>5, <3>6
  <2>3. g = h
    BY <2>2
  <2>4. \E k : k = All(n + 1, k)
    BY <2>3
  <2> HIDE DEF All
  <2> QED
    BY <2>4
<1>5. last \in Good
  <2> HIDE DEF Good
  <2> QED
    BY <1>1, <1>3, <1>4, NumbersAll
<1> DEFINE f == CHOOSE f : f = All(last, f)
           g == [n \in 0 .. last |-> f[1 .. n]]
<1>6. f = All(last, f)
  <2>1. \E k : k = All(last, k)
    BY <1>5
  <2> QED
    BY <2>1
<1> HIDE DEF f
<1>7. g[0] = <<>>
  <2>1. 1 .. 0 = {} /\ 1 .. 0 \in SUBSET (1 .. last) /\ 0 \in 0 .. last
    BY <1>1
  <2> QED
    BY <1>6, <2>1
<1>8. ASSUME NEW n \in 1 .. last PROVE g[n] = More(n, g[n - 1])
  <2>1. /\ 1 .. n \in SUBSET (1 .. last) /\ 1 .. n # {} /\ n \in Nat
        /\ 1 .. n \in SUBSET (1 .. n) /\ n \in 1 .. n
        /\ (1 .. n) \ {n} = 1 .. n - 1 /\ n - 1 \in 0 .. last /\ n \in 0 .. last
    <3>1. n \in 1 .. last /\ last \in Nat
      BY <1>1
    <3> HIDE DEF last
    <3>2. 1 .. n \in SUBSET (1 .. last)
      BY <3>1
    <3>3. (1 .. n) \ {n} = 1 .. n - 1
      BY <3>1
    <3>4. n \in Nat /\ n \in 1 .. n /\ n - 1 \in 0 .. last /\ n \in 0 .. last
      BY <3>1
    <3>5. 1 .. n # {}
      BY <3>4
    <3> QED
      BY <3>2, <3>3, <3>4, <3>5
  <2>2. Max(1 .. n) = n
    BY <2>1, GreatestOfSome
  <2>3. f[1 .. n] = More(n, f[1 .. n - 1])
    <3>1. f[1 .. n] = More(Max(1 .. n), f[(1 .. n) \ {Max(1 .. n)}])
      BY <1>6, <2>1
    <3> QED
      BY <2>1, <2>2, <3>1
  <2> QED
    BY <2>1, <2>3
<1>9. g[last] = FirstsOf(s)
  BY <1>1, <1>2 DEF f
<1> HIDE DEF g, last
<1>10. /\ g[0] = <<>> /\ g[last] = FirstsOf(s)
       /\ \A n \in 1 .. last : g[n] = FreshStep(g[n - 1], s[n])
  BY <1>7, <1>8, <1>9 DEF More
<1> QED
  BY <1>10 DEF last

LEMMA FreshIs ==
  ASSUME NEW X, NEW s \in Seq(X), NEW g, g[0] = <<>>,
         \A n \in 1 .. Len(s) : g[n] = FreshStep(g[n - 1], s[n])
  PROVE  FirstsOf(s) = g[Len(s)]
<1>1. PICK k : /\ k[0] = <<>> /\ k[Len(s)] = FirstsOf(s)
               /\ \A n \in 1 .. Len(s) : k[n] = FreshStep(k[n - 1], s[n])
  BY FreshRuns
<1> DEFINE Good == {n \in Nat : n <= Len(s) => k[n] = g[n]}
<1>2. 0 \in Good
  BY <1>1
<1>3. ASSUME NEW n \in Nat, n \in Good PROVE n + 1 \in Good
  <2> SUFFICES ASSUME n + 1 <= Len(s) PROVE k[n + 1] = g[n + 1]
    OBVIOUS
  <2>1. Len(s) \in Nat
    BY LenProperties
  <2>2. n + 1 \in 1 .. Len(s) /\ (n + 1) - 1 = n /\ n <= Len(s)
    BY <2>1
  <2>3. k[n] = g[n]
    BY <1>3, <2>2
  <2>4. k[n + 1] = FreshStep(k[n], s[n + 1])
    BY <1>1, <2>2
  <2>5. g[n + 1] = FreshStep(g[n], s[n + 1])
    BY <2>2
  <2> QED
    BY <2>3, <2>4, <2>5
<1>4. Nat \subseteq Good
  <2> HIDE DEF Good
  <2> QED
    BY <1>2, <1>3, NumbersAll
<1> QED
  BY <1>1, <1>4, LenProperties

LEMMA FreshAppend ==
  ASSUME NEW X, NEW s \in Seq(X), NEW x \in X
  PROVE  FirstsOf(Append(s, x)) = FreshStep(FirstsOf(s), x)
<1> DEFINE t == Append(s, x)  last == Len(s)
<1>1. /\ t \in Seq(X) /\ Len(t) = last + 1 /\ last \in Nat
      /\ t[last + 1] = x /\ \A n \in 1 .. last : t[n] = s[n]
  BY AppendProperties, LenProperties
<1> HIDE DEF t, last
<1>2. PICK g : /\ g[0] = <<>> /\ g[Len(t)] = FirstsOf(t)
               /\ \A n \in 1 .. Len(t) : g[n] = FreshStep(g[n - 1], t[n])
  BY <1>1, FreshRuns
<1>3. \A n \in 1 .. last : g[n] = FreshStep(g[n - 1], s[n])
  <2>1. \A n \in 1 .. last : n \in 1 .. Len(t)
    BY <1>1
  <2> QED
    BY <1>1, <1>2, <2>1
<1>4. FirstsOf(s) = g[last]
  BY <1>2, <1>3, FreshIs DEF last
<1>5. last + 1 \in 1 .. Len(t) /\ (last + 1) - 1 = last
  BY <1>1
<1>6. g[last + 1] = FreshStep(g[last], x)
  BY <1>1, <1>2, <1>5
<1> QED
  BY <1>1, <1>2, <1>4, <1>6 DEF t

\* A piece that is read on by a symbol.
LEMMA PieceGrows ==
  ASSUME NEW X, NEW s \in Seq(X), NEW a \in Int, NEW b \in Int, 1 <= a, a <= b + 1, b + 1 <= Len(s)
  PROVE  /\ SubSeq(s, a, b + 1) = Append(SubSeq(s, a, b), s[b + 1])
         /\ SubSeq(s, a, b) \in Seq(X) /\ s[b + 1] \in X
<1> DEFINE r == SubSeq(s, a, b)  q == SubSeq(s, a, b + 1)
<1>1. Len(s) \in Nat /\ \A i \in 1 .. Len(s) : s[i] \in X
  BY LenProperties, ElementOfSeq
<1>2. /\ \A i \in a .. b + 1 : s[i] \in X
      /\ \A i \in a .. b : s[i] \in X
      /\ s[b + 1] \in X
  BY <1>1
<1>3. /\ r \in Seq(X) /\ Len(r) = (IF a <= b THEN b - a + 1 ELSE 0)
      /\ \A i \in 1 .. b - a + 1 : r[i] = s[a + i - 1]
  BY <1>2, SubSeqProperties
<1>4. /\ q \in Seq(X) /\ Len(q) = (IF a <= b + 1 THEN (b + 1) - a + 1 ELSE 0)
      /\ \A i \in 1 .. (b + 1) - a + 1 : q[i] = s[a + i - 1]
  BY <1>2, SubSeqProperties
<1> DEFINE t == Append(r, s[b + 1])
<1> HIDE DEF r, q
<1>5. /\ t \in Seq(X) /\ Len(t) = Len(r) + 1 /\ t[Len(r) + 1] = s[b + 1]
      /\ \A i \in 1 .. Len(r) : t[i] = r[i]
  BY <1>2, <1>3, AppendProperties
<1> HIDE DEF t
<1>6. Len(r) = b - a + 1 /\ Len(t) = b - a + 2 /\ Len(q) = b - a + 2
  BY <1>3, <1>4, <1>5
<1>7. ASSUME NEW i \in 1 .. b - a + 2 PROVE t[i] = q[i]
  <2>1. q[i] = s[a + i - 1]
    BY <1>4
  <2>2. CASE i = b - a + 2
    <3>1. a + i - 1 = b + 1 /\ i = Len(r) + 1
      BY <1>6, <2>2
    <3> QED
      BY <1>5, <2>1, <3>1
  <2>3. CASE i # b - a + 2
    <3>1. i \in 1 .. b - a + 1
      BY <2>3
    <3> QED
      BY <1>3, <1>5, <1>6, <2>1, <3>1
  <2> QED
    BY <2>2, <2>3
<1>8. t = q
  BY <1>4, <1>5, <1>6, <1>7, SeqEqual
<1> QED
  BY <1>2, <1>3, <1>8 DEF r, q, t

\* The m parts of the first n symbols of s lie between the places of e.
CutAtPlaces(s, n, parts, m, e) ==
  /\ m \in Nat /\ m # 0 /\ e \in [0 .. m -> 0 .. n + 1] /\ e[0] = 0 /\ e[m] = n + 1
  /\ \A k \in 1 .. m : e[k - 1] < e[k]
  /\ \A k \in 1 .. m : k # m => s[e[k]] \in Separators
  /\ \A k \in 1 .. m : \A i \in e[k - 1] + 1 .. e[k] - 1 : s[i] \notin Separators
  /\ Len(parts) = m /\ \A k \in 1 .. m : parts[k] = SubSeq(s, e[k - 1] + 1, e[k] - 1)

\* The parts are what stands between neighbouring places.
LEMMA SplitCuts ==
  ASSUME NEW X, NEW s \in Seq(X)
  PROVE  Split(s) \in Seq(Seq(X)) /\ \E m, e : CutAtPlaces(s, Len(s), Split(s), m, e)
<1> DEFINE last == Len(s)
<1>1. PICK g : /\ g[0] = << <<>> >> /\ g[last] = Split(s)
               /\ \A n \in 1 .. last : g[n] = SplitStep(g[n - 1], s[n])
  BY SplitRuns
<1>2. last \in Nat /\ \A i \in 1 .. last : s[i] \in X
  BY LenProperties, ElementOfSeq
<1> HIDE DEF last
<1> DEFINE Fine(n) == g[n] \in Seq(Seq(X)) /\ \E m, e : CutAtPlaces(s, n, g[n], m, e)
           Good == {n \in Nat : n <= last => Fine(n)}
<1>3. 0 \in Good
  <2> DEFINE one == << <<>> >>  e == [k \in 0 .. 1 |-> k]
  <2>1. one \in Seq(Seq(X)) /\ Len(one) = 1 /\ one[1] = <<>>
    OBVIOUS
  <2>2. e \in [0 .. 1 -> 0 .. 0 + 1] /\ e[0] = 0 /\ e[1] = 1
    OBVIOUS
  <2>3. SubSeq(s, 1, 0) = <<>>
    BY SubSeqEmpty
  <2>4. g[0] = one
    BY <1>1
  <2> HIDE DEF one, e
  <2>5. CutAtPlaces(s, 0, g[0], 1, e)
    <3>1. \A k \in 1 .. 1 : k = 1 /\ k - 1 = 0
      OBVIOUS
    <3>2. 1 \in Nat /\ 1 # 0 /\ 0 + 1 = 1 /\ 1 - 1 = 0 /\ 1 .. 0 = {}
      OBVIOUS
    <3>3. one[1] = SubSeq(s, e[0] + 1, e[1] - 1)
      BY <2>1, <2>2, <2>3, <3>2
    <3>4. \A i \in e[0] + 1 .. e[1] - 1 : FALSE
      BY <2>2
    <3>5. e[0] < e[1]
      BY <2>2
    <3> QED
      BY <2>1, <2>2, <2>4, <3>1, <3>2, <3>3, <3>4, <3>5 DEF CutAtPlaces
  <2> QED
    BY <2>1, <2>4, <2>5
<1>4. ASSUME NEW n \in Nat, n \in Good PROVE n + 1 \in Good
  <2> SUFFICES ASSUME n + 1 <= last PROVE Fine(n + 1)
    OBVIOUS
  <2>1. n + 1 \in 1 .. last /\ (n + 1) - 1 = n /\ n <= last
    BY <1>2
  <2>2. g[n] \in Seq(Seq(X)) /\ \E m, e : CutAtPlaces(s, n, g[n], m, e)
    BY <1>4, <2>1
  <2>3. PICK m, e : CutAtPlaces(s, n, g[n], m, e)
    BY <2>2
  <2> DEFINE old == g[n]  new == g[n + 1]  x == s[n + 1]  Parts == Seq(X)
  <2>4. new = SplitStep(old, x)
    BY <1>1, <2>1
  <2>5. old \in Seq(Parts) /\ x \in X
    BY <1>2, <2>1, <2>2
  <2> HIDE DEF old, new, x
  <2>6. /\ m \in Nat /\ m # 0 /\ e \in [0 .. m -> 0 .. n + 1] /\ e[0] = 0 /\ e[m] = n + 1
        /\ \A k \in 1 .. m : e[k - 1] < e[k]
        /\ \A k \in 1 .. m : k # m => s[e[k]] \in Separators
        /\ \A k \in 1 .. m : \A i \in e[k - 1] + 1 .. e[k] - 1 : s[i] \notin Separators
        /\ Len(old) = m /\ \A k \in 1 .. m : old[k] = SubSeq(s, e[k - 1] + 1, e[k] - 1)
    BY <2>3 DEF CutAtPlaces, old
  <2>9. /\ m \in Nat /\ m # 0 /\ e[0] = 0 /\ e[m] = n + 1
        /\ \A k \in 0 .. m : e[k] \in 0 .. n + 1
    BY <2>6
  <2>10. Len(old) = m /\ \A k \in 1 .. m : old[k] = SubSeq(s, e[k - 1] + 1, e[k] - 1)
    BY <2>6
  <2>7. CASE x \in Separators
    <3> DEFINE d == [k \in 0 .. m + 1 |-> IF k <= m THEN e[k] ELSE n + 2]
               none == <<>>
    <3>1. new = Append(old, none)
      BY <2>4, <2>7 DEF SplitStep
    <3>2. none \in Parts /\ SubSeq(s, n + 2, n + 1) = none
      <4>1. none \in Parts
        OBVIOUS
      <4>2. n + 2 \in Int /\ n + 1 \in Int /\ n + 1 < n + 2
        OBVIOUS
      <4> QED
        BY <4>1, <4>2, SubSeqEmpty
    <3> HIDE DEF none, Parts
    <3>3. /\ new \in Seq(Parts) /\ Len(new) = m + 1 /\ new[m + 1] = none
          /\ \A k \in 1 .. m : new[k] = old[k]
      <4>1. /\ new \in Seq(Parts) /\ Len(new) = Len(old) + 1
            /\ \A i \in 1 .. Len(old) : new[i] = old[i]
            /\ new[Len(old) + 1] = none
        BY <2>5, <3>1, <3>2, AppendProperties
      <4> QED
        BY <2>10, <4>1
    <3>4. /\ d \in [0 .. m + 1 -> 0 .. (n + 1) + 1] /\ d[0] = 0 /\ d[m + 1] = n + 2 /\ d[m] = n + 1
          /\ \A k \in 0 .. m : d[k] = e[k]
      <4>1. \A k \in 0 .. m + 1 : (IF k <= m THEN e[k] ELSE n + 2) \in 0 .. (n + 1) + 1
        <5> SUFFICES ASSUME NEW k \in 0 .. m + 1 PROVE (IF k <= m THEN e[k] ELSE n + 2) \in 0 .. (n + 1) + 1
          OBVIOUS
        <5>1. CASE k <= m
          <6>1. e[k] \in 0 .. n + 1
            BY <2>9, <5>1
          <6> QED
            BY <5>1, <6>1
        <5>2. CASE ~(k <= m)
          BY <5>2
        <5> QED
          BY <5>1, <5>2
      <4>2. /\ \A k \in 0 .. m : k \in 0 .. m + 1 /\ k <= m
            /\ 0 \in 0 .. m /\ m \in 0 .. m /\ m + 1 \in 0 .. m + 1 /\ ~(m + 1 <= m)
        BY <2>9
      <4>3. d \in [0 .. m + 1 -> 0 .. (n + 1) + 1]
        BY <4>1
      <4>4. d[m + 1] = n + 2 /\ \A k \in 0 .. m : d[k] = e[k]
        BY <4>2
      <4> HIDE DEF d
      <4> QED
        BY <2>9, <4>2, <4>3, <4>4
    <3> HIDE DEF d
    <3>5. \A k \in 1 .. m + 1 : k = m + 1 \/ (k \in 1 .. m /\ k \in 0 .. m /\ k - 1 \in 0 .. m)
      BY <2>6
    <3>6. CutAtPlaces(s, n + 1, new, m + 1, d)
      <4>1. \A k \in 1 .. m + 1 : d[k - 1] < d[k]
        <5> SUFFICES ASSUME NEW k \in 1 .. m + 1 PROVE d[k - 1] < d[k]
          OBVIOUS
        <5>1. CASE k = m + 1
          <6>1. k - 1 = m /\ n + 1 < n + 2
            BY <2>6, <5>1
          <6> QED
            BY <3>4, <5>1, <6>1
        <5>2. CASE k # m + 1
          BY <2>6, <3>4, <3>5, <5>2
        <5> QED
          BY <5>1, <5>2
      <4>2. \A k \in 1 .. m + 1 : k # m + 1 => s[d[k]] \in Separators
        <5> SUFFICES ASSUME NEW k \in 1 .. m PROVE s[d[k]] \in Separators
          BY <3>5
        <5>1. CASE k = m
          BY <2>7, <3>4, <5>1 DEF x
        <5>2. CASE k # m
          <6>1. k \in 0 .. m
            BY <2>6
          <6> QED
            BY <2>6, <3>4, <5>2, <6>1
        <5> QED
          BY <5>1, <5>2
      <4>3. \A k \in 1 .. m + 1 : \A i \in d[k - 1] + 1 .. d[k] - 1 : s[i] \notin Separators
        <5> SUFFICES ASSUME NEW k \in 1 .. m + 1, NEW i \in d[k - 1] + 1 .. d[k] - 1
                     PROVE  s[i] \notin Separators
          OBVIOUS
        <5>1. CASE k = m + 1
          <6>1. k - 1 = m
            BY <2>6, <5>1
          <6>2. d[k - 1] = n + 1 /\ d[k] = n + 2
            BY <3>4, <5>1, <6>1
          <6>3. FALSE
            BY <6>2
          <6> QED
            BY <6>3
        <5>2. CASE k # m + 1
          <6>1. k \in 1 .. m /\ d[k - 1] = e[k - 1] /\ d[k] = e[k]
            BY <3>4, <3>5, <5>2
          <6>2. i \in e[k - 1] + 1 .. e[k] - 1
            BY <6>1
          <6> QED
            BY <2>6, <6>1, <6>2
        <5> QED
          BY <5>1, <5>2
      <4>4. \A k \in 1 .. m + 1 : new[k] = SubSeq(s, d[k - 1] + 1, d[k] - 1)
        <5> SUFFICES ASSUME NEW k \in 1 .. m + 1 PROVE new[k] = SubSeq(s, d[k - 1] + 1, d[k] - 1)
          OBVIOUS
        <5>1. CASE k = m + 1
          <6>1. k - 1 = m /\ (n + 1) + 1 = n + 2 /\ (n + 2) - 1 = n + 1
            BY <2>6, <5>1
          <6>2. d[k - 1] + 1 = n + 2 /\ d[k] - 1 = n + 1
            BY <3>4, <5>1, <6>1
          <6> QED
            BY <3>2, <3>3, <5>1, <6>2
        <5>2. CASE k # m + 1
          <6>1. k \in 1 .. m /\ d[k - 1] = e[k - 1] /\ d[k] = e[k]
            BY <3>4, <3>5, <5>2
          <6>2. new[k] = old[k] /\ old[k] = SubSeq(s, e[k - 1] + 1, e[k] - 1)
            BY <2>10, <3>3, <6>1
          <6> QED
            BY <6>1, <6>2
        <5> QED
          BY <5>1, <5>2
      <4>5. m + 1 \in Nat /\ m + 1 # 0 /\ (n + 1) + 1 = n + 2
        BY <2>6
      <4> QED
        BY <3>3, <3>4, <4>1, <4>2, <4>3, <4>4, <4>5 DEF CutAtPlaces
    <3> QED
      BY <3>3, <3>6 DEF Parts, new
  <2>8. CASE x \notin Separators
    <3> DEFINE d == [k \in 0 .. m |-> IF k = m THEN n + 2 ELSE e[k]]
               piece == SubSeq(s, e[m - 1] + 1, n)  more == Append(piece, x)
    <3>1. m \in 1 .. m /\ m \in 0 .. m /\ m - 1 \in 0 .. m /\ e[m - 1] \in 0 .. n + 1 /\ e[m - 1] < n + 1
      BY <2>6
    <3>2. old[m] = piece
      <4>1. (n + 1) - 1 = n
        OBVIOUS
      <4>2. old[m] = SubSeq(s, e[m - 1] + 1, e[m] - 1)
        BY <2>10, <3>1
      <4>3. e[m] - 1 = n
        BY <2>9, <4>1
      <4> QED
        BY <4>2, <4>3
    <3>3. more = SubSeq(s, e[m - 1] + 1, n + 1) /\ piece \in Parts
      <4> DEFINE a == e[m - 1] + 1
      <4>1. a \in Int /\ 1 <= a /\ a <= n + 1 /\ n + 1 <= Len(s) /\ n \in Int
        BY <2>1, <3>1 DEF last
      <4> HIDE DEF a
      <4> QED
        BY <4>1, PieceGrows DEF a, x
    <3>4. new = [old EXCEPT ![m] = more]
      BY <2>4, <2>6, <2>8, <3>2 DEF SplitStep
    <3> HIDE DEF piece, Parts
    <3>5. more \in Parts
      BY <2>5, <3>3, AppendProperties DEF Parts
    <3> HIDE DEF more
    <3>6. DOMAIN old = 1 .. m
      BY <2>5, <2>6, LenProperties
    <3>7. /\ new \in Seq(Parts) /\ Len(new) = m /\ new[m] = more
          /\ \A k \in 1 .. m : k # m => new[k] = old[k]
      <4>1. /\ new[m] = more /\ DOMAIN new = 1 .. m
            /\ \A k \in 1 .. m : k # m => new[k] = old[k]
        BY <3>1, <3>4, <3>6, <2>5
      <4>2. new \in Seq(Parts)
        BY <2>5, <3>1, <3>4, <3>5, <3>6, ExceptSeq
      <4>3. Len(new) = m
        BY <2>6, <4>1, <4>2, LenProperties
      <4> QED
        BY <4>1, <4>2, <4>3
    <3>8. /\ d \in [0 .. m -> 0 .. (n + 1) + 1] /\ d[0] = 0 /\ d[m] = n + 2
          /\ \A k \in 0 .. m : k # m => d[k] = e[k]
      <4>1. \A k \in 0 .. m : (IF k = m THEN n + 2 ELSE e[k]) \in 0 .. (n + 1) + 1
        <5> SUFFICES ASSUME NEW k \in 0 .. m PROVE (IF k = m THEN n + 2 ELSE e[k]) \in 0 .. (n + 1) + 1
          OBVIOUS
        <5>1. e[k] \in 0 .. n + 1
          BY <2>9
        <5> HIDE DEF d
        <5> QED
          BY <5>1
      <4>2. 0 \in 0 .. m /\ m \in 0 .. m /\ 0 # m
        BY <2>9
      <4>3. d \in [0 .. m -> 0 .. (n + 1) + 1]
        BY <4>1
      <4>4. d[m] = n + 2 /\ \A k \in 0 .. m : k # m => d[k] = e[k]
        BY <4>2
      <4> HIDE DEF d
      <4> QED
        BY <2>9, <4>2, <4>3, <4>4
    <3> HIDE DEF d
    <3>9. \A k \in 1 .. m : k \in 0 .. m /\ k - 1 \in 0 .. m /\ k - 1 # m
      BY <2>6
    <3>10. CutAtPlaces(s, n + 1, new, m, d)
      <4>1. \A k \in 1 .. m : d[k - 1] < d[k]
        <5> SUFFICES ASSUME NEW k \in 1 .. m PROVE d[k - 1] < d[k]
          OBVIOUS
        <5>1. d[k - 1] = e[k - 1] /\ e[k - 1] < e[k]
          BY <2>6, <3>8, <3>9
        <5>2. CASE k = m
          <6>1. d[k] = n + 2 /\ d[k - 1] < n + 1 /\ d[k - 1] \in Int
            BY <3>1, <3>8, <5>1, <5>2
          <6> QED
            BY <6>1
        <5>3. CASE k # m
          BY <3>8, <3>9, <5>1, <5>3
        <5> QED
          BY <5>2, <5>3
      <4>2. \A k \in 1 .. m : k # m => s[d[k]] \in Separators
        BY <2>6, <3>8, <3>9
      <4>3. \A k \in 1 .. m : \A i \in d[k - 1] + 1 .. d[k] - 1 : s[i] \notin Separators
        <5> SUFFICES ASSUME NEW k \in 1 .. m, NEW i \in d[k - 1] + 1 .. d[k] - 1
                     PROVE  s[i] \notin Separators
          OBVIOUS
        <5>1. d[k - 1] = e[k - 1]
          BY <3>8, <3>9
        <5>2. CASE k = m
          <6>1. d[k] = n + 2 /\ e[k] = n + 1 /\ e[k - 1] \in Int
            BY <2>6, <3>1, <3>8, <5>2
          <6>2. i = n + 1 \/ i \in e[k - 1] + 1 .. e[k] - 1
            BY <5>1, <6>1
          <6> QED
            BY <2>6, <2>8, <6>2 DEF x
        <5>3. CASE k # m
          <6>1. i \in e[k - 1] + 1 .. e[k] - 1
            BY <3>8, <3>9, <5>1, <5>3
          <6> QED
            BY <2>6, <6>1
        <5> QED
          BY <5>2, <5>3
      <4>4. \A k \in 1 .. m : new[k] = SubSeq(s, d[k - 1] + 1, d[k] - 1)
        <5> SUFFICES ASSUME NEW k \in 1 .. m PROVE new[k] = SubSeq(s, d[k - 1] + 1, d[k] - 1)
          OBVIOUS
        <5>1. d[k - 1] = e[k - 1]
          BY <3>8, <3>9
        <5>2. CASE k = m
          <6>1. d[k] - 1 = n + 1
            BY <3>8, <5>2
          <6> QED
            BY <3>3, <3>7, <5>1, <5>2, <6>1
        <5>3. CASE k # m
          BY <2>6, <3>7, <3>8, <3>9, <5>1, <5>3
        <5> QED
          BY <5>2, <5>3
      <4>5. (n + 1) + 1 = n + 2
        OBVIOUS
      <4> QED
        BY <2>6, <3>7, <3>8, <4>1, <4>2, <4>3, <4>4, <4>5 DEF CutAtPlaces
    <3> QED
      BY <3>7, <3>10 DEF Parts, new
  <2> QED
    BY <2>7, <2>8
<1>5. Nat \subseteq Good
  <2> HIDE DEF Good
  <2> QED
    BY <1>3, <1>4, NumbersAll
<1>6. Fine(last)
  <2>1. last \in Good
    BY <1>2, <1>5
  <2> HIDE DEF Fine
  <2> QED
    BY <1>2, <2>1
<1> QED
  BY <1>1, <1>6 DEF last

Filled(u) == Filtered(u, LAMBDA t : t # <<>>)
Trimmings(s) == [i \in DOMAIN s |-> TrimSpace(s[i])]

LEMMA NothingTrimmed == TrimSpace(<<>>) = <<>>
<1> DEFINE e == <<>>
<1>1. DOMAIN e = {}
  OBVIOUS
<1>2. TrimSpace(e) = <<>>
  BY <1>1 DEF TrimSpace, TrimSymbols
<1> QED
  BY <1>2

LEMMA TrimmingsAppended ==
  ASSUME NEW X, NEW s \in Seq(X), NEW x \in X, NEW V, \A y \in X : TrimSpace(y) \in V
  PROVE  /\ Trimmings(s) \in Seq(V) /\ TrimSpace(x) \in V
         /\ Trimmings(Append(s, x)) = Append(Trimmings(s), TrimSpace(x))
<1> DEFINE t == Append(s, x)  n == Len(s)  a == Trimmings(s)  b == Trimmings(t)  c == Append(a, TrimSpace(x))
<1>1. /\ t \in Seq(X) /\ Len(t) = n + 1 /\ t[n + 1] = x /\ n \in Nat
      /\ \A i \in 1 .. n : t[i] = s[i]
      /\ DOMAIN s = 1 .. n /\ DOMAIN t = 1 .. n + 1
  BY AppendProperties, LenProperties
<1>2. \A i \in 1 .. n : s[i] \in X
  BY ElementOfSeq
<1>3. a = [i \in 1 .. n |-> TrimSpace(s[i])] /\ b = [i \in 1 .. n + 1 |-> TrimSpace(t[i])]
  BY <1>1 DEF Trimmings
<1> HIDE DEF t, n, a, b
<1>4. a \in Seq(V) /\ Len(a) = n
  <2>1. \A i \in 1 .. n : TrimSpace(s[i]) \in V
    BY <1>2
  <2> QED
    BY <1>1, <1>3, <2>1, IsASeq
<1>5. b \in Seq(V) /\ Len(b) = n + 1
  <2>1. \A i \in 1 .. n + 1 : TrimSpace(t[i]) \in V
    <3>1. \A i \in 1 .. n + 1 : t[i] \in X
      BY <1>1, <1>2
    <3> QED
      BY <3>1
  <2>2. n + 1 \in Nat
    BY <1>1
  <2> QED
    BY <1>3, <2>1, <2>2, IsASeq
<1>6. /\ c \in Seq(V) /\ Len(c) = n + 1 /\ c[n + 1] = TrimSpace(x)
      /\ \A i \in 1 .. n : c[i] = a[i]
  BY <1>4, AppendProperties
<1> HIDE DEF c
<1>7. ASSUME NEW i \in 1 .. n + 1 PROVE b[i] = c[i]
  <2>1. CASE i = n + 1
    BY <1>1, <1>3, <1>6, <2>1
  <2>2. CASE i # n + 1
    <3>1. i \in 1 .. n
      BY <1>1, <2>2
    <3> QED
      BY <1>1, <1>3, <1>6, <3>1
  <2> QED
    BY <2>1, <2>2
<1>8. b = c
  BY <1>5, <1>6, <1>7, SeqEqual
<1> QED
  BY <1>4, <1>8 DEF a, b, c, t

\* The terms, one word after the other: one that is empty or there already
\* changes nothing.
LEMMA TermsRun ==
  ASSUME NEW X, NEW u \in Seq(X)
  PROVE  \E h : /\ h[0] = <<>> /\ h[Len(u)] = dedupKeepOrder(Filled(u))
                /\ \A k \in 1 .. Len(u) : h[k] = FreshStep(h[k - 1], TrimSpace(u[k]))
<1> DEFINE S == {t \in ToSet(u) : t # <<>>}  last == Len(u)  V == {TrimSpace(x) : x \in X}
<1>1. Filled(u) = Among(u, S)
  BY DEF Filled, Filtered
<1>2. last \in Nat /\ DOMAIN u = 1 .. last /\ \A k \in 1 .. last : u[k] \in X /\ u[k] \in ToSet(u)
  BY LenProperties, ElementOfSeq DEF ToSet
<1>3. ASSUME NEW k \in 1 .. last, u[k] \notin S PROVE TrimSpace(u[k]) = <<>>
  BY <1>2, <1>3, NothingTrimmed
<1>4. \A x \in X : TrimSpace(x) \in V
  OBVIOUS
<1> HIDE DEF S, V
<1>5. PICK g : /\ g[0] = <<>> /\ g[last] = Among(u, S)
               /\ \A k \in 1 .. last : g[k] = IF u[k] \in S THEN Append(g[k - 1], u[k]) ELSE g[k - 1]
  BY AmongRuns
<1> DEFINE h == [k \in 0 .. last |-> FirstsOf(Trimmings(g[k]))]
<1> HIDE DEF last
<1>6. \A k \in 0 .. last : g[k] \in Seq(X)
  <2> DEFINE Good == {k \in Nat : k <= last => g[k] \in Seq(X)}
  <2>1. 0 \in Good
    <3>1. <<>> \in Seq(X)
      OBVIOUS
    <3>2. g[0] \in Seq(X)
      BY <1>5, <3>1
    <3> QED
      BY <3>2
  <2>2. ASSUME NEW k \in Nat, k \in Good PROVE k + 1 \in Good
    <3> SUFFICES ASSUME k + 1 <= last PROVE g[k + 1] \in Seq(X)
      OBVIOUS
    <3>1. k + 1 \in 1 .. last /\ (k + 1) - 1 = k /\ g[k] \in Seq(X)
      BY <1>2, <2>2
    <3>2. g[k + 1] = IF u[k + 1] \in S THEN Append(g[k], u[k + 1]) ELSE g[k]
      BY <1>5, <3>1
    <3>3. u[k + 1] \in X
      BY <1>2, <3>1
    <3>4. Append(g[k], u[k + 1]) \in Seq(X)
      BY <3>1, <3>3, AppendProperties
    <3> QED
      BY <3>1, <3>2, <3>4
  <2>3. Nat \subseteq Good
    <3> HIDE DEF Good
    <3> QED
      BY <2>1, <2>2, NumbersAll
  <2> QED
    BY <1>2, <2>3
<1>7. ASSUME NEW k \in 1 .. last PROVE h[k] = FreshStep(h[k - 1], TrimSpace(u[k]))
  <2> DEFINE a == g[k - 1]  x == u[k]  w == TrimSpace(x)
  <2>1. k - 1 \in 0 .. last /\ k \in 0 .. last
    BY <1>2
  <2>2. a \in Seq(X) /\ x \in X /\ g[k] = IF x \in S THEN Append(a, x) ELSE a
    BY <1>2, <1>5, <1>6, <2>1
  <2>3. h[k - 1] = FirstsOf(Trimmings(a)) /\ h[k] = FirstsOf(Trimmings(g[k]))
    BY <2>1
  <2>4. x \notin S => w = <<>>
    BY <1>3
  <2> HIDE DEF a, x, h
  <2>5. CASE x \in S
    <3>1. Trimmings(a) \in Seq(V) /\ w \in V /\ Trimmings(Append(a, x)) = Append(Trimmings(a), w)
      BY <1>4, <2>2, TrimmingsAppended
    <3> DEFINE b == Trimmings(a)
    <3>2. b \in Seq(V)
      BY <3>1
    <3> HIDE DEF b, w
    <3>3. FirstsOf(Append(b, w)) = FreshStep(FirstsOf(b), w)
      BY <3>1, <3>2, FreshAppend
    <3> QED
      BY <2>2, <2>3, <2>5, <3>1, <3>3 DEF b, w, x
  <2>6. CASE x \notin S
    <3>1. FreshStep(h[k - 1], w) = h[k - 1]
      BY <2>4, <2>6 DEF FreshStep
    <3> QED
      BY <2>2, <2>3, <2>6, <3>1 DEF x
  <2> QED
    BY <2>5, <2>6
<1>8. h[0] = <<>>
  <2>1. 0 \in 0 .. last
    BY <1>2
  <2> DEFINE e == <<>>
  <2>2. DOMAIN e = {}
    OBVIOUS
  <2>3. Trimmings(e) = [i \in {} |-> TrimSpace(e[i])]
    BY <2>2 DEF Trimmings
  <2>4. [i \in {} |-> TrimSpace(e[i])] = e
    OBVIOUS
  <2>5. FirstsOf(e) = <<>>
    <3>1. e \in Seq(X) /\ Len(e) = 0
      OBVIOUS
    <3> HIDE DEF e
    <3>2. PICK f : f[0] = <<>> /\ f[Len(e)] = FirstsOf(e)
      BY <3>1, FreshRuns
    <3> QED
      BY <3>1, <3>2
  <2>6. g[0] = e
    BY <1>5
  <2>7. h[0] = FirstsOf(Trimmings(g[0]))
    BY <2>1
  <2> HIDE DEF e, h
  <2> QED
    BY <2>3, <2>4, <2>5, <2>6, <2>7
<1>9. h[last] = dedupKeepOrder(Filled(u))
  <2>1. last \in 0 .. last
    BY <1>2
  <2>2. h[last] = FirstsOf(Trimmings(g[last]))
    BY <2>1
  <2>3. dedupKeepOrder(Among(u, S)) = FirstsOf(Trimmings(Among(u, S)))
    BY DEF dedupKeepOrder, FirstsOf, Trimmings
  <2> QED
    BY <1>1, <1>5, <2>2, <2>3
<1> HIDE DEF h
<1> QED
  BY <1>7, <1>8, <1>9 DEF last

\* The k-th word is the first that is t.
FirstWord(W, k, t) == W[k] = t /\ t # <<>> /\ \A j \in 1 .. k - 1 : W[j] # t

\* r, of elements of V: the first occurrences among W[1], ..., W[m], none of
\* them left out, in their order
InOrder(r, W, m, V) ==
  /\ r \in Seq(V)
  /\ \A i \in 1 .. Len(r) : \E k \in 1 .. m : FirstWord(W, k, r[i])
  /\ \A i, j \in 1 .. Len(r) : i < j =>
       \A k, l \in 1 .. m : FirstWord(W, k, r[i]) /\ FirstWord(W, l, r[j]) => k < l
  /\ \A k \in 1 .. m : W[k] # <<>> => \E i \in 1 .. Len(r) : r[i] = W[k]

\* What the loop keeps: every word where it stands first, and no other.
LEMMA FirstsInOrder ==
  ASSUME NEW m \in Nat, NEW V, NEW W, \A k \in 1 .. m : W[k] \in V,
         NEW h, h[0] = <<>>, \A k \in 1 .. m : h[k] = FreshStep(h[k - 1], W[k])
  PROVE  InOrder(h[m], W, m, V)
<1> DEFINE Known(r, n) == \A i \in 1 .. Len(r) : \E k \in 1 .. n : FirstWord(W, k, r[i])
           Ordered(r, n) == \A i, j \in 1 .. Len(r) : i < j =>
                              \A k, l \in 1 .. n : FirstWord(W, k, r[i]) /\ FirstWord(W, l, r[j]) => k < l
           Complete(r, n) == \A k \in 1 .. n : W[k] # <<>> => \E i \in 1 .. Len(r) : r[i] = W[k]
           Fine(r, n) == r \in Seq(V) /\ Known(r, n) /\ Ordered(r, n) /\ Complete(r, n)
           Good == {n \in Nat : n <= m => Fine(h[n], n)}
<1>1. 0 \in Good
  <2> DEFINE e == <<>>
  <2>1. e \in Seq(V) /\ 1 .. Len(e) = {} /\ 1 .. 0 = {}
    OBVIOUS
  <2> HIDE DEF e
  <2>2. Fine(e, 0)
    BY <2>1
  <2> QED
    BY <2>2 DEF e
<1>2. ASSUME NEW n \in Nat, n \in Good PROVE n + 1 \in Good
  <2> SUFFICES ASSUME n + 1 <= m PROVE Fine(h[n + 1], n + 1)
    <3> HIDE DEF Fine
    <3> QED
      OBVIOUS
  <2> DEFINE r == h[n]  q == h[n + 1]  t == W[n + 1]
  <2>1. n + 1 \in 1 .. m /\ (n + 1) - 1 = n /\ n <= m
    OBVIOUS
  <2>2. Fine(r, n)
    BY <1>2, <2>1
  <2>3. q = FreshStep(r, t) /\ t \in V
    BY <2>1
  <2>4. r \in Seq(V) /\ Len(r) \in Nat
    BY <2>2, LenProperties
  <2>5. \A k \in 1 .. n + 1 : k \in 1 .. n \/ k = n + 1
    OBVIOUS
  <2>6. \A k \in 1 .. n : k \in 1 .. n + 1
    OBVIOUS
  <2>7. n + 1 \in 1 .. n + 1
    OBVIOUS
  <2> HIDE DEF r, q
  <2>8. CASE t = <<>>
    <3>1. q = r
      BY <2>3, <2>8 DEF FreshStep
    <3>2. \A i \in 1 .. Len(r) : ~FirstWord(W, n + 1, r[i])
      BY <2>8 DEF FirstWord
    <3>3. Known(r, n + 1)
      BY <2>2, <2>6
    <3>4. Ordered(r, n + 1)
      BY <2>2, <2>5, <3>2
    <3>5. Complete(r, n + 1)
      BY <2>2, <2>5, <2>8
    <3> HIDE DEF Known, Ordered, Complete
    <3> QED
      BY <2>4, <3>1, <3>3, <3>4, <3>5 DEF q
  <2>9. CASE t # <<>> /\ Contains(r, t)
    <3>1. q = r
      BY <2>3, <2>9 DEF FreshStep
    <3>0. PICK p \in 1 .. Len(r) : r[p] = t
      BY <2>9 DEF Contains
    <3>2. \A i \in 1 .. Len(r) : ~FirstWord(W, n + 1, r[i])
      <4> SUFFICES ASSUME NEW i \in 1 .. Len(r), FirstWord(W, n + 1, r[i]) PROVE FALSE
        OBVIOUS
      <4>1. r[i] = t /\ \A j \in 1 .. n : W[j] # t
        BY <2>1 DEF FirstWord
      <4>2. PICK k \in 1 .. n : FirstWord(W, k, r[i])
        BY <2>2
      <4> QED
        BY <4>1, <4>2 DEF FirstWord
    <3>3. Known(r, n + 1)
      BY <2>2, <2>6
    <3>4. Ordered(r, n + 1)
      BY <2>2, <2>5, <3>2
    <3>5. Complete(r, n + 1)
      BY <2>2, <2>5, <3>0
    <3> HIDE DEF Known, Ordered, Complete
    <3> QED
      BY <2>4, <3>1, <3>3, <3>4, <3>5 DEF q
  <2>10. CASE t # <<>> /\ ~Contains(r, t)
    <3> DEFINE len == Len(r)
    <3>1. q = Append(r, t)
      BY <2>3, <2>10 DEF FreshStep
    <3>2. /\ q \in Seq(V) /\ Len(q) = len + 1 /\ q[len + 1] = t /\ len \in Nat
          /\ \A i \in 1 .. len : q[i] = r[i]
      BY <2>3, <2>4, <3>1, AppendProperties
    <3> HIDE DEF len
    <3>3. \A i \in 1 .. len : r[i] # t
      BY <2>10 DEF Contains, len
    <3>4. \A j \in 1 .. n : W[j] # t
      BY <2>2, <2>10, <3>3 DEF len
    <3>5. FirstWord(W, n + 1, t)
      BY <2>1, <2>10, <3>4 DEF FirstWord
    <3>6. \A i \in 1 .. len : ~FirstWord(W, n + 1, r[i])
      BY <3>3 DEF FirstWord
    <3>7. \A i \in 1 .. len + 1 : i \in 1 .. len \/ i = len + 1
      BY <3>2
    <3>8. Known(q, n + 1)
      <4> SUFFICES ASSUME NEW i \in 1 .. len + 1 PROVE \E k \in 1 .. n + 1 : FirstWord(W, k, q[i])
        BY <3>2
      <4>1. CASE i \in 1 .. len
        <5>1. PICK k \in 1 .. n : FirstWord(W, k, r[i])
          BY <2>2, <4>1 DEF len
        <5> QED
          BY <2>6, <3>2, <4>1, <5>1
      <4>2. CASE i = len + 1
        BY <2>7, <3>2, <3>5, <4>2
      <4> QED
        BY <3>7, <4>1, <4>2
    <3>9. Ordered(q, n + 1)
      <4> SUFFICES ASSUME NEW i \in 1 .. len + 1, NEW j \in 1 .. len + 1, i < j,
                          NEW k \in 1 .. n + 1, NEW l \in 1 .. n + 1,
                          FirstWord(W, k, q[i]), FirstWord(W, l, q[j])
                   PROVE  k < l
        BY <3>2
      <4>1. i \in 1 .. len /\ q[i] = r[i]
        BY <3>2
      <4>2. k \in 1 .. n
        BY <2>5, <3>6, <4>1
      <4>3. CASE j \in 1 .. len
        <5>1. q[j] = r[j] /\ l \in 1 .. n
          BY <2>5, <3>2, <3>6, <4>3
        <5> QED
          BY <2>2, <4>1, <4>2, <4>3, <5>1 DEF len
      <4>4. CASE j = len + 1
        <5>1. W[l] = t
          BY <3>2, <4>4 DEF FirstWord
        <5>2. l = n + 1
          BY <2>5, <3>4, <5>1
        <5> QED
          BY <4>2, <5>2
      <4> QED
        BY <3>7, <4>3, <4>4
    <3>10. Complete(q, n + 1)
      <4> SUFFICES ASSUME NEW k \in 1 .. n + 1, W[k] # <<>> PROVE \E i \in 1 .. len + 1 : q[i] = W[k]
        BY <3>2
      <4>1. CASE k \in 1 .. n
        <5>1. PICK i \in 1 .. len : r[i] = W[k]
          BY <2>2, <4>1 DEF len
        <5>2. i \in 1 .. len + 1 /\ q[i] = W[k]
          BY <3>2, <5>1
        <5> QED
          BY <5>2
      <4>2. CASE k = n + 1
        <5>1. len + 1 \in 1 .. len + 1
          BY <3>2
        <5> QED
          BY <3>2, <4>2, <5>1
      <4> QED
        BY <2>5, <4>1, <4>2
    <3> HIDE DEF Known, Ordered, Complete
    <3> QED
      BY <3>2, <3>8, <3>9, <3>10 DEF q
  <2> QED
    BY <2>8, <2>9, <2>10
<1>3. Nat \subseteq Good
  <2> HIDE DEF Good
  <2> QED
    BY <1>1, <1>2, NumbersAll
<1>4. Fine(h[m], m)
  <2>1. m \in Good
    BY <1>3
  <2> HIDE DEF Fine
  <2> QED
    BY <2>1
<1> QED
  BY <1>4 DEF InOrder

\* Least and greatest of some numbers up to n.
LEMMA Extremes ==
  ASSUME NEW n \in Nat, NEW t \in SUBSET (1 .. n), t # {}
  PROVE  /\ LeastOf(t) \in t /\ \A i \in t : LeastOf(t) <= i
         /\ GreatestOf(t) \in t /\ \A i \in t : GreatestOf(t) >= i
<1> DEFINE back == {n - i : i \in t}
<1>0. t \subseteq Nat /\ \A i \in t : i \in 1 .. n
  OBVIOUS
<1>1. back \subseteq Nat /\ back # {} /\ t \subseteq Nat
  <2>1. \A i \in t : n - i \in Nat
    BY <1>0
  <2>2. back \subseteq Nat
    BY <2>1
  <2>3. PICK i : i \in t
    OBVIOUS
  <2>4. n - i \in back
    BY <2>3
  <2> HIDE DEF back
  <2> QED
    BY <1>0, <2>2, <2>4
<1>2. PICK d \in back : \A c \in back : d <= c
  <2> HIDE DEF back
  <2> QED
    BY <1>1, LeastExists
<1>3. PICK i \in t : d = n - i
  OBVIOUS
<1>4. ASSUME NEW j \in t PROVE i >= j
  <2>1. n - j \in back /\ i \in Nat /\ j \in Nat
    OBVIOUS
  <2>2. d <= n - j
    BY <1>2, <2>1
  <2> HIDE DEF back
  <2> QED
    BY <1>3, <2>1, <2>2
<1>5. PICK a \in t : \A j \in t : a <= j
  <2> HIDE DEF back
  <2> QED
    BY <1>1, LeastExists
<1>6. GreatestOf(t) \in t /\ \A j \in t : GreatestOf(t) >= j
  BY <1>3, <1>4 DEF GreatestOf
<1>7. LeastOf(t) \in t /\ \A j \in t : LeastOf(t) <= j
  BY <1>5 DEF LeastOf
<1> QED
  BY <1>6, <1>7

LEMMA SymbolsTrimmed ==
  ASSUME NEW X, NEW s \in Seq(X), NEW symbols
  PROVE  TrimSymbols(s, symbols) \in Seq(X)
<1> DEFINE kept == {i \in DOMAIN s : s[i] \notin symbols}  a == LeastOf(kept)  b == GreatestOf(kept)
<1>1. Len(s) \in Nat /\ DOMAIN s = 1 .. Len(s) /\ \A i \in 1 .. Len(s) : s[i] \in X
  BY LenProperties, ElementOfSeq
<1>2. TrimSymbols(s, symbols) = IF kept = {} THEN <<>> ELSE SubSeq(s, a, b)
  BY DEF TrimSymbols
<1>3. kept \in SUBSET (1 .. Len(s))
  BY <1>1
<1> HIDE DEF kept
<1>4. CASE kept = {}
  <2>1. <<>> \in Seq(X)
    OBVIOUS
  <2> QED
    BY <1>2, <1>4, <2>1
<1>5. CASE kept # {}
  <2>1. a \in 1 .. Len(s) /\ b \in 1 .. Len(s)
    BY <1>1, <1>3, <1>5, Extremes
  <2> HIDE DEF a, b
  <2>2. \A i \in a .. b : s[i] \in X
    BY <1>1, <2>1
  <2>3. SubSeq(s, a, b) \in Seq(X)
    BY <1>1, <2>1, <2>2, SubSeqProperties
  <2> QED
    BY <1>2, <1>5, <2>3
<1> QED
  BY <1>4, <1>5

LEMMA AfterIsPart ==
  ASSUME NEW X, NEW s \in Seq(X)
  PROVE  AfterArrow(s) \in Seq(X)
<1> DEFINE I == {i \in 1 .. Len(s) : s[i] = "arrow"}  a == Index(s, "arrow") + 1
<1>1. Len(s) \in Nat /\ \A i \in 1 .. Len(s) : s[i] \in X
  BY LenProperties, ElementOfSeq
<1>2. Index(s, "arrow") = IF I # {} THEN Min(I) ELSE 0
  BY DEF Index, SelectInSeq
<1>3. I \in SUBSET (1 .. Len(s))
  OBVIOUS
<1> HIDE DEF I
<1>4. I # {} => Min(I) \in I
  <2> SUFFICES ASSUME I # {} PROVE Min(I) \in I
    OBVIOUS
  <2>1. LeastOf(I) \in I /\ \A i \in I : LeastOf(I) <= i
    BY <1>1, <1>3, Extremes
  <2> QED
    BY <2>1 DEF Min
<1>5. a \in Int /\ 1 <= a
  <2>1. CASE I = {}
    <3>1. a = 0 + 1
      BY <1>2, <2>1
    <3> QED
      BY <3>1
  <2>2. CASE I # {}
    <3>1. Index(s, "arrow") = Min(I) /\ Min(I) \in 1 .. Len(s)
      BY <1>2, <1>3, <1>4, <2>2
    <3> QED
      BY <3>1
  <2> QED
    BY <2>1, <2>2
<1>6. AfterArrow(s) = SubSeq(s, a, Len(s))
  BY DEF AfterArrow, From
<1> HIDE DEF a
<1>7. \A i \in a .. Len(s) : s[i] \in X
  BY <1>1, <1>5
<1> QED
  BY <1>1, <1>5, <1>6, <1>7, SubSeqProperties

-----------------------------------------------------------------------------
\* The stretches of s between separators are the parts that it is split into.
Bounded(s, i) == i \in {0, Len(s) + 1} \/ s[i] \in Separators
StretchesOf(s) == {p \in (1 .. Len(s) + 1) \X (0 .. Len(s)) :
                     /\ p[1] <= p[2] + 1 /\ Bounded(s, p[1] - 1) /\ Bounded(s, p[2] + 1)
                     /\ \A i \in p[1] .. p[2] : ~Bounded(s, i)}

\* The stretches between two separators are the parts that Split makes.
LEMMA StretchesAre ==
  ASSUME NEW X, NEW s \in Seq(X), NEW parts, NEW m, NEW e, CutAtPlaces(s, Len(s), parts, m, e)
  PROVE  /\ \A k \in 1 .. m : <<e[k - 1] + 1, e[k] - 1>> \in StretchesOf(s)
         /\ \A p \in StretchesOf(s) : \E k \in 1 .. m : p = <<e[k - 1] + 1, e[k] - 1>>
<1> DEFINE n == Len(s)
<1>1. n \in Nat
  BY LenProperties
<1>2. /\ m \in Nat /\ m # 0 /\ e[0] = 0 /\ e[m] = n + 1
      /\ \A k \in 0 .. m : e[k] \in 0 .. n + 1
  BY DEF CutAtPlaces
<1>3. /\ \A k \in 1 .. m : e[k - 1] < e[k]
      /\ \A k \in 1 .. m : k # m => s[e[k]] \in Separators
  BY DEF CutAtPlaces
<1>4. \A k \in 1 .. m : \A i \in e[k - 1] + 1 .. e[k] - 1 : s[i] \notin Separators
  BY DEF CutAtPlaces
<1>5. \A k \in 1 .. m : k \in 0 .. m /\ k - 1 \in 0 .. m /\ (k - 1 = 0 \/ (k - 1 \in 1 .. m /\ k - 1 # m))
  BY <1>2
<1>6. \A i : Bounded(s, i) <=> i = 0 \/ i = n + 1 \/ s[i] \in Separators
  BY DEF Bounded
<1> HIDE DEF n
<1>7. ASSUME NEW k \in 1 .. m
      PROVE  /\ Bounded(s, e[k - 1]) /\ Bounded(s, e[k])
             /\ \A i \in e[k - 1] + 1 .. e[k] - 1 : ~Bounded(s, i)
  <2>1. Bounded(s, e[k - 1])
    <3>1. k - 1 = 0 \/ (k - 1 \in 1 .. m /\ k - 1 # m)
      BY <1>5
    <3> QED
      BY <1>2, <1>3, <1>6, <3>1
  <2>2. Bounded(s, e[k])
    BY <1>2, <1>3, <1>6
  <2>3. ASSUME NEW i \in e[k - 1] + 1 .. e[k] - 1 PROVE ~Bounded(s, i)
    <3>1. s[i] \notin Separators
      BY <1>4
    <3>2. e[k - 1] \in 0 .. n + 1 /\ e[k] \in 0 .. n + 1
      BY <1>2, <1>5
    <3>3. i # 0 /\ i # n + 1
      BY <1>1, <3>2
    <3> QED
      BY <1>6, <3>1, <3>3
  <2> QED
    BY <2>1, <2>2, <2>3
<1>8. ASSUME NEW k \in 1 .. m PROVE <<e[k - 1] + 1, e[k] - 1>> \in StretchesOf(s)
  <2> DEFINE a == e[k - 1]  b == e[k]  p == <<a + 1, b - 1>>
  <2>1. a \in 0 .. n + 1 /\ b \in 0 .. n + 1 /\ a < b
    BY <1>2, <1>3, <1>5
  <2>2. Bounded(s, a) /\ Bounded(s, b) /\ \A i \in a + 1 .. b - 1 : ~Bounded(s, i)
    BY <1>7
  <2> HIDE DEF a, b
  <2>3. a + 1 \in 1 .. n + 1 /\ b - 1 \in 0 .. n /\ a + 1 <= (b - 1) + 1 /\ (a + 1) - 1 = a /\ (b - 1) + 1 = b
    BY <1>1, <2>1
  <2>4. p \in (1 .. n + 1) \X (0 .. n) /\ p[1] = a + 1 /\ p[2] = b - 1
    BY <2>3
  <2> HIDE DEF p
  <2>5. p \in StretchesOf(s)
    BY <2>2, <2>3, <2>4 DEF StretchesOf, n
  <2> QED
    BY <2>5 DEF p, a, b
<1>9. ASSUME NEW p \in StretchesOf(s) PROVE \E k \in 1 .. m : p = <<e[k - 1] + 1, e[k] - 1>>
  <2> DEFINE a == p[1] - 1  b == p[2] + 1  over == {k \in 1 .. m : e[k] > a}
  <2>1. /\ p \in (1 .. n + 1) \X (0 .. n)
        /\ p[1] <= p[2] + 1 /\ Bounded(s, p[1] - 1) /\ Bounded(s, p[2] + 1)
        /\ \A i \in p[1] .. p[2] : ~Bounded(s, i)
    BY DEF StretchesOf, n
  <2>2. p = <<p[1], p[2]>> /\ p[1] \in 1 .. n + 1 /\ p[2] \in 0 .. n
    BY <2>1
  <2>3. /\ a \in 0 .. n /\ b \in 1 .. n + 1 /\ a < b /\ Bounded(s, a) /\ Bounded(s, b)
        /\ p[1] = a + 1 /\ p[2] = b - 1
    BY <1>1, <2>1, <2>2
  <2>4. \A i \in a + 1 .. b - 1 : ~Bounded(s, i)
    BY <2>1, <2>3
  <2> HIDE DEF a, b
  <2>5. over \subseteq Nat /\ m \in over
    BY <1>1, <1>2, <2>3
  <2>6. PICK k \in over : \A j \in over : k <= j
    <3> HIDE DEF over
    <3> QED
      BY <2>5, LeastExists
  <2>7. k \in 1 .. m /\ e[k] > a /\ e[k] \in 0 .. n + 1 /\ e[k - 1] \in 0 .. n + 1
    BY <1>2, <1>5, <2>6
  <2>8. e[k - 1] <= a
    <3>1. CASE k - 1 = 0
      BY <1>2, <2>3, <3>1
    <3>2. CASE k - 1 # 0
      <4>1. k - 1 \in 1 .. m /\ ~(k <= k - 1)
        BY <1>5, <2>7, <3>2
      <4>2. k - 1 \notin over
        BY <2>6, <4>1
      <4> QED
        BY <2>3, <2>7, <4>1, <4>2
    <3> QED
      BY <3>1, <3>2
  <2> HIDE DEF over
  <2>9. \A i \in e[k - 1] + 1 .. e[k] - 1 : ~Bounded(s, i)
    BY <1>7, <2>7
  <2>10. e[k - 1] = a
    <3> SUFFICES ASSUME e[k - 1] # a PROVE FALSE
      OBVIOUS
    <3>1. a \in e[k - 1] + 1 .. e[k] - 1
      BY <2>3, <2>7, <2>8
    <3> QED
      BY <2>3, <2>9, <3>1
  <2>11. Bounded(s, e[k])
    BY <1>7, <2>7
  <2>12. e[k] >= b
    <3> SUFFICES ASSUME ~(e[k] >= b) PROVE FALSE
      OBVIOUS
    <3>1. e[k] \in a + 1 .. b - 1
      BY <2>3, <2>7
    <3> QED
      BY <2>4, <2>11, <3>1
  <2>13. e[k] = b
    <3> SUFFICES ASSUME e[k] # b PROVE FALSE
      OBVIOUS
    <3>1. b \in e[k - 1] + 1 .. e[k] - 1
      BY <2>3, <2>7, <2>10, <2>12
    <3> QED
      BY <2>3, <2>9, <3>1
  <2> QED
    BY <2>2, <2>3, <2>7, <2>10, <2>13
<1> QED
  BY <1>8, <1>9

(***************************************************************************)
(* ExpansionKeepsFirst (expand_helpers.go): for every answer, whatever it  *)
(* is made of, and every number of terms that is wished for.               *)
(***************************************************************************)
THEOREM ExpansionsKeepFirst ==
  ASSUME NEW X, NEW answer \in Seq(X), NEW wish \in Int
  PROVE  ExpansionKeepsFirst(answer, wish)
<1> DEFINE s     == AfterArrow(TrimSpace(answer))
           max   == expansionMaxTerms(wish)
           terms == ExpandedQueryFromModelAnswer(answer, max)
           Word(p) == TrimSpace(Unquoted(SubSeq(s, p[1], p[2])))
           Offered == {p \in StretchesOf(s) : Word(p) # <<>>}
           Earliest(t) == LeastOf({p[1] : p \in {q \in Offered : Word(q) = t}})
           parts == Split(s)
           W == [k \in DOMAIN parts |-> TrimSpace(Unquoted(parts[k]))]
           H == dedupKeepOrder(parseBarSeparatedTerms(answer))
<1>1. s \in Seq(X)
  BY SymbolsTrimmed, AfterIsPart DEF TrimSpace
<1>2. max \in Nat /\ max > 0
  BY DEF expansionMaxTerms
<1>3. terms = IF Len(H) > max THEN SubSeq(H, 1, max) ELSE H
  BY <1>2 DEF ExpandedQueryFromModelAnswer
<1> HIDE DEF s, max, terms
<1>4. PICK m, e : CutAtPlaces(s, Len(s), parts, m, e)
  BY <1>1, SplitCuts
<1>5. parts \in Seq(Seq(X))
  BY <1>1, SplitCuts
<1>6. /\ m \in Nat /\ Len(parts) = m
      /\ \A k \in 0 .. m : e[k] \in 0 .. Len(s) + 1
      /\ \A k \in 1 .. m : parts[k] = SubSeq(s, e[k - 1] + 1, e[k] - 1)
  BY <1>4 DEF CutAtPlaces
<1>7. \A k \in 1 .. m : e[k - 1] < e[k]
  BY <1>4 DEF CutAtPlaces
<1>8. Len(s) \in Nat
  BY <1>1, LenProperties
<1> DEFINE Place(k) == <<e[k - 1] + 1, e[k] - 1>>
<1>9. /\ \A k \in 1 .. m : Place(k) \in StretchesOf(s)
      /\ \A p \in StretchesOf(s) : \E k \in 1 .. m : p = Place(k)
  BY <1>1, <1>4, StretchesAre
<1>10. DOMAIN parts = 1 .. m
  BY <1>5, <1>6, LenProperties
<1> HIDE DEF parts
<1>11. \A k \in 1 .. m : Word(Place(k)) = W[k] /\ Place(k)[1] = e[k - 1] + 1
  BY <1>6, <1>10
<1>12. \A j, k \in 1 .. m : j <= k => e[j - 1] <= e[k - 1] /\ (j < k => e[j - 1] < e[k - 1])
  <2>1. \A j, k \in 0 .. m : j <= k => e[j] <= e[k] /\ (j < k => e[j] < e[k])
    <3>1. \A k \in 0 .. m : e[k] \in Int
      BY <1>6, <1>8
    <3> QED
      BY <1>6, <1>7, <3>1, PlacesRise
  <2> SUFFICES ASSUME NEW j \in 1 .. m, NEW k \in 1 .. m, j <= k
               PROVE  e[j - 1] <= e[k - 1] /\ (j < k => e[j - 1] < e[k - 1])
    OBVIOUS
  <2>2. j - 1 \in 0 .. m /\ k - 1 \in 0 .. m /\ j - 1 <= k - 1 /\ (j < k => j - 1 < k - 1)
    BY <1>6
  <2> QED
    BY <2>1, <2>2
<1>13. \A k \in 1 .. m : e[k - 1] \in Int
  BY <1>6, <1>8
<1> DEFINE V == {TrimSpace(Unquoted(p)) : p \in Seq(X)}
<1>14. \A k \in 1 .. m : W[k] \in V
  <2>1. \A k \in 1 .. m : parts[k] \in Seq(X)
    BY <1>5, <1>10, <1>6, ElementOfSeq
  <2> QED
    BY <1>10, <2>1
<1>15. \E h : /\ h[0] = <<>> /\ h[m] = H
              /\ \A k \in 1 .. m : h[k] = FreshStep(h[k - 1], W[k])
  <2> DEFINE u == [k \in 1 .. m |-> Unquoted(parts[k])]
             U == {Unquoted(p) : p \in Seq(X)}
  <2>1. parseBarSeparatedTerms(answer) = Filled(u)
    BY <1>10 DEF parseBarSeparatedTerms, Filled, s, parts
  <2>2. \A k \in 1 .. m : Unquoted(parts[k]) \in U
    BY <1>5, <1>10, <1>6, ElementOfSeq
  <2>3. u \in Seq(U) /\ Len(u) = m
    <3> HIDE DEF U
    <3> QED
      BY <1>6, <2>2, IsASeq
  <2>4. \A k \in 1 .. m : W[k] = TrimSpace(u[k])
    BY <1>10
  <2> HIDE DEF u, U, W
  <2>5. PICK h : /\ h[0] = <<>> /\ h[Len(u)] = dedupKeepOrder(Filled(u))
                 /\ \A k \in 1 .. Len(u) : h[k] = FreshStep(h[k - 1], TrimSpace(u[k]))
    BY <2>3, TermsRun
  <2> QED
    BY <2>1, <2>3, <2>4, <2>5
<1> HIDE DEF W, V, H
<1>16. /\ H \in Seq(V)
       /\ \A i \in 1 .. Len(H) : \E k \in 1 .. m : FirstWord(W, k, H[i])
       /\ \A i, j \in 1 .. Len(H) : i < j =>
            \A k, l \in 1 .. m : FirstWord(W, k, H[i]) /\ FirstWord(W, l, H[j]) => k < l
       /\ \A k \in 1 .. m : W[k] # <<>> => \E i \in 1 .. Len(H) : H[i] = W[k]
  <2>1. PICK h : /\ h[0] = <<>> /\ h[m] = H
                 /\ \A k \in 1 .. m : h[k] = FreshStep(h[k - 1], W[k])
    BY <1>15
  <2>2. InOrder(h[m], W, m, V)
    BY <1>6, <1>14, <2>1, FirstsInOrder
  <2> QED
    BY <2>1, <2>2 DEF InOrder
<1> DEFINE n == Len(terms)
<1>17. /\ n = (IF Len(H) > max THEN max ELSE Len(H)) /\ n \in Nat /\ n <= Len(H) /\ Len(H) \in Nat
       /\ DOMAIN terms = 1 .. n
       /\ \A i \in 1 .. n : terms[i] = H[i]
  <2>1. Len(H) \in Nat /\ DOMAIN H = 1 .. Len(H) /\ \A i \in 1 .. Len(H) : H[i] \in V
    BY <1>16, LenProperties, ElementOfSeq
  <2>2. CASE Len(H) > max
    <3>1. \A i \in 1 .. max : H[i] \in V
      BY <1>2, <2>1, <2>2
    <3>2. terms = SubSeq(H, 1, max)
      BY <1>3, <2>2
    <3>3. /\ terms \in Seq(V) /\ Len(terms) = (IF 1 <= max THEN max - 1 + 1 ELSE 0)
          /\ \A i \in 1 .. max - 1 + 1 : terms[i] = H[1 + i - 1]
      BY <1>2, <3>1, <3>2, SubSeqProperties
    <3>4. Len(terms) = max /\ \A i \in 1 .. max : terms[i] = H[i]
      <4>1. max - 1 + 1 = max /\ 1 <= max /\ \A i \in 1 .. max : 1 + i - 1 = i
        BY <1>2
      <4> QED
        BY <3>3, <4>1
    <3>5. DOMAIN terms = 1 .. Len(terms)
      BY <3>3, LenProperties
    <3> QED
      BY <1>2, <2>1, <2>2, <3>4, <3>5
  <2>3. CASE ~(Len(H) > max)
    <3>1. terms = H
      BY <1>3, <2>3
    <3> QED
      BY <2>1, <2>3, <3>1
  <2> QED
    BY <2>2, <2>3
<1> HIDE DEF n, Place
<1>18. ASSUME NEW k \in 1 .. m, W[k] # <<>> PROVE Place(k) \in Offered /\ Word(Place(k)) = W[k]
  BY <1>9, <1>11, <1>18
<1>19. ASSUME NEW p \in Offered PROVE \E k \in 1 .. m : p = Place(k) /\ Word(p) = W[k] /\ W[k] # <<>>
  BY <1>9, <1>11
<1> HIDE DEF Offered, Word
<1>20. ASSUME NEW t, NEW k \in 1 .. m, FirstWord(W, k, t) PROVE Earliest(t) = e[k - 1] + 1
  <2> DEFINE A == {p[1] : p \in {q \in Offered : Word(q) = t}}  a == e[k - 1] + 1
  <2>1. W[k] = t /\ t # <<>> /\ \A j \in 1 .. k - 1 : W[j] # t
    BY <1>20 DEF FirstWord
  <2>2. a \in A
    BY <1>11, <1>18, <2>1
  <2>3. \A b \in A : b \in Int /\ a <= b
    <3> SUFFICES ASSUME NEW b \in A PROVE b \in Int /\ a <= b
      OBVIOUS
    <3>1. PICK p \in Offered : Word(p) = t /\ b = p[1]
      OBVIOUS
    <3>2. PICK l \in 1 .. m : p = Place(l) /\ Word(p) = W[l]
      BY <1>19
    <3>3. b = e[l - 1] + 1 /\ W[l] = t
      BY <1>11, <3>1, <3>2
    <3>4. ~(l \in 1 .. k - 1)
      BY <2>1, <3>3
    <3>5. k <= l
      BY <1>6, <3>4
    <3>6. e[k - 1] <= e[l - 1] /\ e[k - 1] \in Int /\ e[l - 1] \in Int
      BY <1>12, <1>13, <3>5
    <3> QED
      BY <3>3, <3>6
  <2> HIDE DEF A, a
  <2>4. LeastOf(A) \in A /\ \A b \in A : LeastOf(A) <= b
    BY <2>2, <2>3 DEF LeastOf
  <2>5. LeastOf(A) = a
    <3> DEFINE c == LeastOf(A)
    <3>1. c \in Int /\ a <= c /\ c <= a /\ a \in Int
      BY <2>2, <2>3, <2>4
    <3> HIDE DEF c
    <3> QED
      BY <3>1 DEF c
  <2> QED
    BY <2>5 DEF A, a
<1> HIDE DEF Earliest
<1>21. n <= max
  BY <1>2, <1>17
<1>22. ToSet(terms) \subseteq {Word(p) : p \in Offered}
  <2> SUFFICES ASSUME NEW i \in 1 .. n PROVE \E p \in Offered : terms[i] = Word(p)
    BY <1>17 DEF ToSet
  <2>1. i \in 1 .. Len(H) /\ terms[i] = H[i]
    BY <1>17
  <2>2. PICK k \in 1 .. m : FirstWord(W, k, H[i])
    BY <1>16, <2>1
  <2>3. W[k] = H[i] /\ W[k] # <<>>
    BY <2>2 DEF FirstWord
  <2> QED
    BY <1>18, <2>1, <2>3
<1>23. \A i, j \in DOMAIN terms : i < j => Earliest(terms[i]) < Earliest(terms[j])
  <2> SUFFICES ASSUME NEW i \in 1 .. n, NEW j \in 1 .. n, i < j PROVE Earliest(terms[i]) < Earliest(terms[j])
    BY <1>17
  <2>1. i \in 1 .. Len(H) /\ terms[i] = H[i] /\ j \in 1 .. Len(H) /\ terms[j] = H[j]
    BY <1>17
  <2>2. PICK k \in 1 .. m : FirstWord(W, k, H[i])
    BY <1>16, <2>1
  <2>3. PICK l \in 1 .. m : FirstWord(W, l, H[j])
    BY <1>16, <2>1
  <2>4. k < l
    BY <1>16, <2>1, <2>2, <2>3
  <2>5. e[k - 1] < e[l - 1] /\ e[k - 1] \in Int /\ e[l - 1] \in Int
    BY <1>12, <1>13, <2>4
  <2>6. Earliest(terms[i]) = e[k - 1] + 1 /\ Earliest(terms[j]) = e[l - 1] + 1
    BY <1>20, <2>1, <2>2, <2>3
  <2> QED
    BY <2>5, <2>6
<1>24. ASSUME NEW p \in Offered, ~Contains(terms, Word(p))
       PROVE  n = max /\ Earliest(Last(terms)) < p[1]
  <2>1. PICK k \in 1 .. m : p = Place(k) /\ Word(p) = W[k] /\ W[k] # <<>>
    BY <1>19
  <2>2. PICK i \in 1 .. Len(H) : H[i] = W[k]
    BY <1>16, <2>1
  <2>3. i \notin 1 .. n
    <3> SUFFICES ASSUME i \in 1 .. n PROVE FALSE
      OBVIOUS
    <3>1. terms[i] = Word(p)
      BY <1>17, <2>1, <2>2
    <3>2. Contains(terms, Word(p))
      BY <3>1 DEF Contains, n
    <3> QED
      BY <1>24, <3>2
  <2>4. n = max /\ n < i /\ n \in 1 .. n /\ n \in 1 .. Len(H)
    BY <1>2, <1>17, <2>3
  <2>5. Last(terms) = H[n]
    BY <1>17, <2>4 DEF Last, n
  <2>6. PICK l \in 1 .. m : FirstWord(W, l, H[n])
    BY <1>16, <2>4
  <2>7. PICK c \in 1 .. m : FirstWord(W, c, H[i])
    BY <1>16
  <2>8. l < c
    BY <1>16, <2>4, <2>6, <2>7
  <2>9. ~(k \in 1 .. c - 1)
    BY <2>2, <2>7 DEF FirstWord
  <2>10. l < k
    BY <1>6, <2>8, <2>9
  <2>11. e[l - 1] < e[k - 1] /\ e[l - 1] \in Int /\ e[k - 1] \in Int
    BY <1>12, <1>13, <2>10
  <2>12. Earliest(Last(terms)) = e[l - 1] + 1 /\ p[1] = e[k - 1] + 1
    BY <1>11, <1>20, <2>1, <2>5, <2>6
  <2> QED
    BY <2>4, <2>11, <2>12
<1>25. /\ n <= max
       /\ ToSet(terms) \subseteq {Word(p) : p \in Offered}
       /\ \A i, j \in DOMAIN terms : i < j => Earliest(terms[i]) < Earliest(terms[j])
       /\ \A p \in Offered :
            ~Contains(terms, Word(p)) => n = max /\ Earliest(Last(terms)) < p[1]
  BY <1>21, <1>22, <1>23, <1>24
<1> QED
  BY <1>25 DEF ExpansionKeepsFirst, n, Earliest, Offered, Word, StretchesOf, Bounded, terms, max, s

-----------------------------------------------------------------------------
(***************************************************************************)
(* What extractBalancedDelimiters cuts out.  Reading on to the end of the  *)
(* text, wherever the scan would stop, says of every symbol whether it is  *)
(* escaped, in a string and how deep: the numbers of backslashes, quotes   *)
(* and brackets before it say the same.                                    *)
(***************************************************************************)
\* The scan of extractBalancedDelimiters.
Untouched == [depth |-> 1, inString |-> FALSE, escape |-> FALSE, end |-> 0]
ScanStep(state, i, s, start, open) ==
  IF i <= start \/ state.end # 0 THEN state
  ELSE LET next == ReadSymbol(state, s[i], open)
       IN [next EXCEPT !.end = IF next.depth = 0 THEN i ELSE 0]
Scanned(s, start, open) ==
  LET Scan(state, i) ==
        IF i <= start \/ state.end # 0 THEN state
        ELSE LET next == ReadSymbol(state, s[i], open)
             IN [next EXCEPT !.end = IF next.depth = 0 THEN i ELSE 0]
  IN FoldLeftDomain(Scan, [depth |-> 1, inString |-> FALSE, escape |-> FALSE, end |-> 0], s)

\* What is scanned is the last of the states that the symbols lead to.
LEMMA ScanRuns ==
  ASSUME NEW X, NEW s \in Seq(X), NEW start, NEW open
  PROVE  \E g : /\ g[0] = Untouched /\ g[Len(s)] = Scanned(s, start, open)
                /\ \A n \in 1 .. Len(s) : g[n] = ScanStep(g[n - 1], n, s, start, open)
<1> DEFINE last == Len(s)
           row == [i \in DOMAIN s |-> i]
           More(n, v) == ScanStep(v, row[n], s, start, open)
           All(n, f) == [t \in SUBSET (1 .. n) |-> IF t = {} THEN Untouched ELSE More(Max(t), f[t \ {Max(t)}])]
           Good == {n \in Nat : \E f : f = All(n, f)}
<1>1. last \in Nat /\ DOMAIN s = 1 .. last
  BY LenProperties
<1>2. Scanned(s, start, open) = (CHOOSE f : f = All(last, f))[1 .. last]
  BY <1>1 DEF Scanned, ScanStep, Untouched, FoldLeftDomain, FoldLeft, MapThenFoldSet
<1> HIDE DEF More
<1>3. 0 \in Good
  <2> DEFINE f == [t \in SUBSET (1 .. 0) |-> Untouched]
  <2>1. \A t \in SUBSET (1 .. 0) : t = {}
    OBVIOUS
  <2>2. f = All(0, f)
    BY <2>1
  <2> QED
    BY <2>2
<1>4. ASSUME NEW n \in Nat, n \in Good PROVE n + 1 \in Good
  <2>1. PICK f : f = All(n, f)
    BY <1>4
  <2> DEFINE g == [t \in SUBSET (1 .. n + 1) |-> IF n + 1 \in t THEN More(n + 1, f[t \ {n + 1}]) ELSE f[t]]
             h == All(n + 1, g)
  <2>2. ASSUME NEW t \in SUBSET (1 .. n + 1) PROVE g[t] = h[t]
    <3>1. h[t] = IF t = {} THEN Untouched ELSE More(Max(t), g[t \ {Max(t)}])
      OBVIOUS
    <3>2. g[t] = IF n + 1 \in t THEN More(n + 1, f[t \ {n + 1}]) ELSE f[t]
      OBVIOUS
    <3>3. \A u \in SUBSET (1 .. n + 1) : n + 1 \notin u => u \in SUBSET (1 .. n) /\ g[u] = f[u]
      OBVIOUS
    <3> HIDE DEF g, h
    <3>4. CASE n + 1 \in t
      <4>1. Max(t) = n + 1
        BY <3>4, GreatestOfSome
      <4>2. g[t \ {n + 1}] = f[t \ {n + 1}]
        BY <3>3
      <4> QED
        BY <3>1, <3>2, <3>4, <4>1, <4>2
    <3>5. CASE n + 1 \notin t /\ t # {}
      <4>1. t \in SUBSET (1 .. n)
        BY <3>3, <3>5
      <4>2. g[t \ {Max(t)}] = f[t \ {Max(t)}]
        BY <3>3, <3>5
      <4>3. f[t] = More(Max(t), f[t \ {Max(t)}])
        BY <2>1, <3>5, <4>1
      <4> QED
        BY <3>1, <3>2, <3>5, <4>2, <4>3
    <3>6. CASE t = {}
      <4>1. f[t] = Untouched
        BY <2>1, <3>6
      <4> QED
        BY <3>1, <3>2, <3>6, <4>1
    <3> QED
      BY <3>4, <3>5, <3>6
  <2>3. g = h
    BY <2>2
  <2>4. \E k : k = All(n + 1, k)
    BY <2>3
  <2> HIDE DEF All
  <2> QED
    BY <2>4
<1>5. last \in Good
  <2> HIDE DEF Good
  <2> QED
    BY <1>1, <1>3, <1>4, NumbersAll
<1> DEFINE f == CHOOSE f : f = All(last, f)
           g == [n \in 0 .. last |-> f[1 .. n]]
<1>6. f = All(last, f)
  <2>1. \E k : k = All(last, k)
    BY <1>5
  <2> QED
    BY <2>1
<1> HIDE DEF f
<1>7. g[0] = Untouched
  <2>1. 1 .. 0 = {} /\ 1 .. 0 \in SUBSET (1 .. last) /\ 0 \in 0 .. last
    BY <1>1
  <2> QED
    BY <1>6, <2>1
<1>8. ASSUME NEW n \in 1 .. last PROVE g[n] = More(n, g[n - 1])
  <2>1. /\ 1 .. n \in SUBSET (1 .. last) /\ 1 .. n # {} /\ n \in Nat
        /\ 1 .. n \in SUBSET (1 .. n) /\ n \in 1 .. n
        /\ (1 .. n) \ {n} = 1 .. n - 1 /\ n - 1 \in 0 .. last /\ n \in 0 .. last
    <3>1. n \in 1 .. last /\ last \in Nat
      BY <1>1
    <3> HIDE DEF last
    <3>2. 1 .. n \in SUBSET (1 .. last)
      BY <3>1
    <3>3. (1 .. n) \ {n} = 1 .. n - 1
      BY <3>1
    <3>4. n \in Nat /\ n \in 1 .. n /\ n - 1 \in 0 .. last /\ n \in 0 .. last
      BY <3>1
    <3>5. 1 .. n # {}
      BY <3>4
    <3> QED
      BY <3>2, <3>3, <3>4, <3>5
  <2>2. Max(1 .. n) = n
    BY <2>1, GreatestOfSome
  <2>3. f[1 .. n] = More(n, f[1 .. n - 1])
    <3>1. f[1 .. n] = More(Max(1 .. n), f[(1 .. n) \ {Max(1 .. n)}])
      BY <1>6, <2>1
    <3> QED
      BY <2>1, <2>2, <3>1
  <2> QED
    BY <2>1, <2>3
<1>9. g[last] = Scanned(s, start, open)
  BY <1>1, <1>2 DEF f
<1> HIDE DEF g, last
<1>10. /\ g[0] = Untouched /\ g[last] = Scanned(s, start, open)
       /\ \A n \in 1 .. last : g[n] = ScanStep(g[n - 1], n, s, start, open)
  BY <1>1, <1>7, <1>8, <1>9 DEF More
<1> QED
  BY <1>10 DEF last

\* The states of reading on from start, wherever the scan would stop.
IsReading(h, s, start, open) ==
  /\ h[start] = Untouched
  /\ \A n \in start + 1 .. Len(s) : h[n] = ReadSymbol(h[n - 1], s[n], open)

LEMMA ReadingExists ==
  ASSUME NEW X, NEW s \in Seq(X), NEW start \in Nat, NEW open
  PROVE  \E h : IsReading(h, s, start, open)
<1> DEFINE Good == {j \in Nat : \E h : /\ h[start] = Untouched
                                       /\ \A n \in start + 1 .. start + j : h[n] = ReadSymbol(h[n - 1], s[n], open)}
<1>1. 0 \in Good
  <2> DEFINE h == [n \in {start} |-> Untouched]
  <2>1. h[start] = Untouched /\ start + 1 .. start + 0 = {}
    OBVIOUS
  <2> QED
    BY <2>1
<1>2. ASSUME NEW j \in Nat, j \in Good PROVE j + 1 \in Good
  <2>1. PICK h : /\ h[start] = Untouched
                 /\ \A n \in start + 1 .. start + j : h[n] = ReadSymbol(h[n - 1], s[n], open)
    BY <1>2
  <2> DEFINE last == start + (j + 1)
             k == [n \in start .. last |-> IF n = last THEN ReadSymbol(h[n - 1], s[n], open) ELSE h[n]]
  <2>2. k[start] = Untouched
    BY <2>1
  <2>3. ASSUME NEW n \in start + 1 .. last PROVE k[n] = ReadSymbol(k[n - 1], s[n], open)
    <3>1. n - 1 \in start .. last /\ n \in start .. last /\ n - 1 # last
      OBVIOUS
    <3>2. k[n - 1] = h[n - 1]
      BY <3>1
    <3>3. CASE n = last
      BY <3>1, <3>2, <3>3
    <3>4. CASE n # last
      <4>1. n \in start + 1 .. start + j
        BY <3>4
      <4>2. k[n] = h[n]
        BY <3>1, <3>4
      <4> HIDE DEF k, last
      <4> QED
        BY <2>1, <3>2, <4>1, <4>2
    <3> QED
      BY <3>3, <3>4
  <2> HIDE DEF k
  <2> QED
    BY <2>2, <2>3
<1>3. Nat \subseteq Good
  <2> HIDE DEF Good
  <2> QED
    BY <1>1, <1>2, NumbersAll
<1>4. Len(s) \in Nat
  BY LenProperties
<1>5. CASE Len(s) <= start
  <2>1. 0 \in Good /\ start + 1 .. Len(s) = {}
    BY <1>1, <1>4, <1>5
  <2> QED
    BY <2>1 DEF IsReading
<1>6. CASE Len(s) > start
  <2>1. Len(s) - start \in Good /\ start + (Len(s) - start) = Len(s)
    BY <1>3, <1>4, <1>6
  <2> HIDE DEF ReadSymbol, Untouched
  <2>2. PICK h : /\ h[start] = Untouched
                 /\ \A n \in start + 1 .. start + (Len(s) - start) : h[n] = ReadSymbol(h[n - 1], s[n], open)
    BY <2>1
  <2> QED
    BY <2>1, <2>2 DEF IsReading
<1> QED
  BY <1>4, <1>5, <1>6

ReadStates == [depth : Int, inString : BOOLEAN, escape : BOOLEAN, end : {0}]

\* One symbol, said of the parts of a state.
LEMMA ReadEscapes ==
  ASSUME NEW v \in ReadStates, v.escape, NEW x, NEW open
  PROVE  LET w == ReadSymbol(v, x, open)
         IN w \in ReadStates /\ ~w.escape /\ w.inString = v.inString /\ w.depth = v.depth
<1> DEFINE w == ReadSymbol(v, x, open)
<1>1. w = [v EXCEPT !.escape = FALSE]
  BY DEF ReadSymbol
<1> HIDE DEF w
<1>2. w \in ReadStates
  BY <1>1 DEF ReadStates
<1>3. ~w.escape
  BY <1>1 DEF ReadStates
<1>4. w.inString = v.inString
  BY <1>1 DEF ReadStates
<1>5. w.depth = v.depth
  BY <1>1 DEF ReadStates
<1> QED
  BY <1>2, <1>3, <1>4, <1>5 DEF w

LEMMA ReadInString ==
  ASSUME NEW v \in ReadStates, ~v.escape, v.inString, NEW x, NEW open
  PROVE  LET w == ReadSymbol(v, x, open)
         IN /\ w \in ReadStates /\ w.depth = v.depth
            /\ w.escape <=> x = "backslash"
            /\ w.inString <=> x # "quote"
<1> DEFINE w == ReadSymbol(v, x, open)
           esc == x = "backslash"
           str == x # "quote"
<1>0. esc \in BOOLEAN /\ str \in BOOLEAN
  OBVIOUS
<1>1. w = [v EXCEPT !.escape = esc, !.inString = str]
  BY DEF ReadSymbol
<1>2. (esc <=> x = "backslash") /\ (str <=> x # "quote")
  OBVIOUS
<1> HIDE DEF w, esc, str
<1>3. w \in ReadStates
  BY <1>0, <1>1 DEF ReadStates
<1>4. w.escape = esc
  BY <1>0, <1>1 DEF ReadStates
<1>5. w.inString = str
  BY <1>0, <1>1 DEF ReadStates
<1>6. w.depth = v.depth
  BY <1>0, <1>1 DEF ReadStates
<1> QED
  BY <1>2, <1>3, <1>4, <1>5, <1>6 DEF w

LEMMA ReadOutside ==
  ASSUME NEW v \in ReadStates, ~v.escape, ~v.inString, NEW x, NEW open
  PROVE  LET w == ReadSymbol(v, x, open)
         IN /\ w \in ReadStates /\ ~w.escape
            /\ w.inString <=> x = "quote"
            /\ w.depth = v.depth + (IF x = "quote" THEN 0 ELSE IF x = open THEN 1
                                    ELSE IF x = Closing(open) THEN -1 ELSE 0)
<1> DEFINE w == ReadSymbol(v, x, open)
           add == IF x = "quote" THEN 0 ELSE IF x = open THEN 1
                  ELSE IF x = Closing(open) THEN -1 ELSE 0
<1>0. v.depth \in Int /\ add \in Int
  BY DEF ReadStates
<1>1. CASE x = "quote"
  <2>1. w = [v EXCEPT !.inString = TRUE] /\ add = 0
    BY <1>1 DEF ReadSymbol
  <2> HIDE DEF w, add
  <2>2. w \in ReadStates
    BY <2>1 DEF ReadStates
  <2>3. ~w.escape
    BY <2>1 DEF ReadStates
  <2>4. w.inString
    BY <2>1 DEF ReadStates
  <2>5. w.depth = v.depth + add
    BY <1>0, <2>1 DEF ReadStates
  <2> QED
    BY <1>1, <2>2, <2>3, <2>4, <2>5 DEF w, add
<1>2. CASE x # "quote"
  <2>1. w = IF add = 0 THEN v ELSE [v EXCEPT !.depth = @ + add]
    <3>1. CASE x = open
      BY <1>2, <3>1 DEF ReadSymbol
    <3>2. CASE x # open /\ x = Closing(open)
      <4>1. w = [v EXCEPT !.depth = @ - 1] /\ add = -1
        BY <1>2, <3>2 DEF ReadSymbol
      <4>2. v.depth - 1 = v.depth + add
        BY <1>0, <4>1
      <4> QED
        BY <4>1, <4>2
    <3>3. CASE x # open /\ x # Closing(open)
      BY <1>2, <3>3 DEF ReadSymbol
    <3> QED
      BY <3>1, <3>2, <3>3
  <2> HIDE DEF w, add
  <2>2. w \in ReadStates
    BY <1>0, <2>1 DEF ReadStates
  <2>3. ~w.escape
    BY <2>1 DEF ReadStates
  <2>4. ~w.inString
    BY <2>1 DEF ReadStates
  <2>5. w.depth = v.depth + add
    BY <1>0, <2>1 DEF ReadStates
  <2> QED
    BY <1>2, <2>2, <2>3, <2>4, <2>5 DEF w, add
<1> QED
  BY <1>1, <1>2

\* The places of s after start, the backslashes in a row before the place i,
\* and the quotes.
AfterIn(s, start) == {i \in DOMAIN s : i > start}
Slashes(s, start, i) ==
  {j \in AfterIn(s, start) : j < i /\ \A k \in j .. i - 1 : s[k] = "backslash"}
QuotesIn(s, start) == {i \in AfterIn(s, start) : s[i] = "quote"}
BeforeIn(D, i) == {d \in D : d < i}

LEMMA AfterIsFinite ==
  ASSUME NEW X, NEW s \in Seq(X), NEW start \in Nat
  PROVE  /\ AfterIn(s, start) = start + 1 .. Len(s) /\ Len(s) \in Nat
         /\ \A D : D \subseteq AfterIn(s, start) => IsFiniteSet(D)
<1>1. DOMAIN s = 1 .. Len(s) /\ Len(s) \in Nat
  BY LenProperties
<1>2. AfterIn(s, start) = start + 1 .. Len(s)
  <2> DEFINE n == Len(s)
  <2>1. n \in Nat /\ DOMAIN s = 1 .. n
    BY <1>1
  <2> HIDE DEF n
  <2>2. AfterIn(s, start) = start + 1 .. n
    BY <2>1 DEF AfterIn
  <2> QED
    BY <2>2 DEF n
<1>3. IsFiniteSet(AfterIn(s, start))
  BY <1>1, <1>2, FS_Interval
<1> QED
  BY <1>1, <1>2, <1>3, FS_Subset

LEMMA SlashesGrow ==
  ASSUME NEW X, NEW s \in Seq(X), NEW start \in Nat, NEW i \in start + 1 .. Len(s)
  PROVE  /\ Slashes(s, start, i + 1) = IF s[i] = "backslash" THEN Slashes(s, start, i) \union {i} ELSE {}
         /\ i \notin Slashes(s, start, i) /\ IsFiniteSet(Slashes(s, start, i))
<1>1. AfterIn(s, start) = start + 1 .. Len(s) /\ Len(s) \in Nat
  BY AfterIsFinite
<1>2. IsFiniteSet(Slashes(s, start, i))
  BY AfterIsFinite DEF Slashes
<1>3. i \notin Slashes(s, start, i)
  BY <1>1 DEF Slashes
<1>4. ASSUME NEW j \in AfterIn(s, start)
      PROVE  j \in Slashes(s, start, i + 1)
               <=> s[i] = "backslash" /\ (j \in Slashes(s, start, i) \/ j = i)
  <2>0. j \in Int /\ i \in Int
    BY <1>1
  <2>1. CASE j = i
    <3>1. j < i + 1 /\ j .. (i + 1) - 1 = {i}
      BY <2>0, <2>1
    <3> QED
      BY <2>1, <3>1 DEF Slashes
  <2>2. CASE j > i
    <3>1. ~(j < i + 1) /\ ~(j < i) /\ j # i
      BY <2>0, <2>2
    <3> QED
      BY <3>1 DEF Slashes
  <2>3. CASE j < i
    <3>1. j < i + 1 /\ j # i /\ j .. (i + 1) - 1 = (j .. i - 1) \union {i}
      BY <2>0, <2>3
    <3> QED
      BY <2>3, <3>1 DEF Slashes
  <2> QED
    BY <2>0, <2>1, <2>2, <2>3
<1>5. i \in AfterIn(s, start)
  BY <1>1
<1>6. /\ Slashes(s, start, i + 1) \subseteq AfterIn(s, start)
      /\ Slashes(s, start, i) \subseteq AfterIn(s, start)
  BY DEF Slashes
<1> HIDE DEF Slashes, AfterIn
<1>7. Slashes(s, start, i + 1) = IF s[i] = "backslash" THEN Slashes(s, start, i) \union {i} ELSE {}
  BY <1>4, <1>5, <1>6
<1> QED
  BY <1>2, <1>3, <1>7

\* A symbol is escaped in a string, after an odd number of backslashes.
LEMMA EscapesAre ==
  ASSUME NEW X, NEW s \in Seq(X), NEW start \in 1 .. Len(s), NEW open, NEW h, IsReading(h, s, start, open)
  PROVE  \A n \in start .. Len(s) :
           h[n] \in ReadStates /\ (h[n].escape <=> h[n].inString /\ Odd(Slashes(s, start, n + 1)))
<1> DEFINE Right(n) == h[n] \in ReadStates
                         /\ (h[n].escape <=> h[n].inString /\ Odd(Slashes(s, start, n + 1)))
           Good == {n \in Nat : Right(n)}
<1>0. Len(s) \in Nat /\ start \in Nat
  BY LenProperties
<1>1. start \in Good
  <2>1. h[start] = Untouched
    BY DEF IsReading
  <2>2. h[start] \in ReadStates /\ ~h[start].escape /\ ~h[start].inString
    BY <2>1 DEF ReadStates, Untouched
  <2> QED
    BY <1>0, <2>2
<1>2. ASSUME NEW n \in start .. Len(s) - 1, n \in Good PROVE n + 1 \in Good
  <2>1. n + 1 \in start + 1 .. Len(s) /\ (n + 1) - 1 = n /\ n + 1 \in Nat
    BY <1>0
  <2> DEFINE v == h[n]  w == h[n + 1]  x == s[n + 1]
             A == Slashes(s, start, n + 1)  B == Slashes(s, start, n + 2)
  <2>2. w = ReadSymbol(v, x, open)
    BY <2>1 DEF IsReading
  <2>3. v \in ReadStates /\ (v.escape <=> v.inString /\ Odd(A))
    BY <1>2
  <2>4. /\ B = IF x = "backslash" THEN A \union {n + 1} ELSE {}
        /\ n + 1 \notin A /\ IsFiniteSet(A)
    <3>1. (n + 1) + 1 = n + 2
      BY <2>1
    <3> QED
      BY <1>0, <2>1, <3>1, SlashesGrow
  <2>5. Odd(B) <=> x = "backslash" /\ ~Odd(A)
    <3> HIDE DEF A, B, x
    <3> QED
      BY <2>4, OneMoreFlips, NoneIsEven
  <2> HIDE DEF v, w, x, A, B, Right
  <2>6. w \in ReadStates /\ (w.escape <=> w.inString /\ Odd(B))
    <3>1. CASE v.escape
      <4>1. w \in ReadStates /\ ~w.escape
        BY <2>2, <2>3, <3>1, ReadEscapes
      <4> QED
        BY <2>3, <2>5, <3>1, <4>1
    <3>2. CASE ~v.escape /\ v.inString
      <4>1. /\ w \in ReadStates
            /\ w.escape <=> x = "backslash"
            /\ w.inString <=> x # "quote"
        BY <2>2, <2>3, <3>2, ReadInString
      <4> QED
        BY <2>3, <2>5, <3>2, <4>1
    <3>3. CASE ~v.escape /\ ~v.inString
      <4>1. w \in ReadStates /\ ~w.escape /\ (w.inString <=> x = "quote")
        BY <2>2, <2>3, <3>3, ReadOutside
      <4> QED
        BY <2>5, <4>1
    <3> QED
      BY <3>1, <3>2, <3>3
  <2>7. (n + 1) + 1 = n + 2
    BY <2>1
  <2> QED
    BY <2>1, <2>6, <2>7 DEF w, B, Right
<1>3. start .. Len(s) \subseteq Good
  <2> HIDE DEF Good
  <2> QED
    BY <1>0, <1>1, <1>2, NumbersFrom
<1> HIDE DEF Right
<1>4. \A n \in start .. Len(s) : Right(n)
  BY <1>3
<1> QED
  BY <1>4 DEF Right

\* Inside of a string, an odd number of quotes that are not escaped come before.
LEMMA StringsAre ==
  ASSUME NEW X, NEW s \in Seq(X), NEW start \in 1 .. Len(s), NEW open, open # "quote",
         NEW h, IsReading(h, s, start, open), NEW D, D \subseteq QuotesIn(s, start),
         \A q \in QuotesIn(s, start) :
           (h[q - 1].inString <=> Odd(BeforeIn(D, q))) => (q \in D <=> ~h[q - 1].escape)
  PROVE  \A n \in start .. Len(s) : h[n].inString <=> Odd(BeforeIn(D, n + 1))
<1> DEFINE Right(n) == h[n].inString <=> Odd(BeforeIn(D, n + 1))
           Good == {n \in Nat : Right(n)}
<1>0. /\ Len(s) \in Nat /\ start \in Nat /\ AfterIn(s, start) = start + 1 .. Len(s)
      /\ IsFiniteSet(D) /\ D \subseteq start + 1 .. Len(s)
  <2>1. Len(s) \in Nat /\ start \in Nat
    BY LenProperties
  <2>2. D \subseteq AfterIn(s, start)
    BY DEF QuotesIn
  <2>3. AfterIn(s, start) = start + 1 .. Len(s) /\ IsFiniteSet(D)
    BY <2>1, <2>2, AfterIsFinite
  <2> QED
    BY <2>1, <2>2, <2>3
<1>1. start \in Good
  <2>1. h[start] = Untouched
    BY DEF IsReading
  <2>2. BeforeIn(D, start + 1) = {}
    <3>1. \A d \in D : ~(d < start + 1)
      <4>1. \A d \in start + 1 .. Len(s) : ~(d < start + 1)
        BY <1>0
      <4> QED
        BY <1>0, <4>1
    <3> QED
      BY <3>1 DEF BeforeIn
  <2>3. ~h[start].inString
    BY <2>1 DEF Untouched
  <2>4. Right(start)
    BY <2>2, <2>3, NoneIsEven
  <2> HIDE DEF Right
  <2> QED
    BY <1>0, <2>4
<1>2. ASSUME NEW n \in start .. Len(s) - 1, n \in Good PROVE n + 1 \in Good
  <2>1. n + 1 \in start + 1 .. Len(s) /\ (n + 1) - 1 = n /\ n + 1 \in Nat /\ n \in start .. Len(s)
    BY <1>0
  <2> DEFINE v == h[n]  w == h[n + 1]  x == s[n + 1]
             A == BeforeIn(D, n + 1)  B == BeforeIn(D, n + 2)
  <2>2. w = ReadSymbol(v, x, open)
    BY <2>1 DEF IsReading
  <2>3. v \in ReadStates /\ (v.escape => v.inString)
    BY <2>1, EscapesAre
  <2>4. v.inString <=> Odd(A)
    BY <1>2
  <2>5. B = IF n + 1 \in D THEN A \union {n + 1} ELSE A
    <3>1. \A d \in D : d < n + 2 <=> d < n + 1 \/ d = n + 1
      <4>1. \A d \in start + 1 .. Len(s) : d < n + 2 <=> d < n + 1 \/ d = n + 1
        BY <1>0, <2>1
      <4> QED
        BY <1>0, <4>1
    <3> QED
      BY <3>1 DEF BeforeIn
  <2>6. n + 1 \notin A /\ IsFiniteSet(A)
    <3>1. A \subseteq D /\ n + 1 \notin A
      BY <1>0, <2>1 DEF BeforeIn
    <3> QED
      BY <1>0, <3>1, FS_Subset
  <2>7. Odd(B) <=> (IF n + 1 \in D THEN ~Odd(A) ELSE Odd(A))
    <3> HIDE DEF A, B
    <3> QED
      BY <2>5, <2>6, OneMoreFlips
  <2>8. n + 1 \in D <=> (x = "quote" /\ ~v.escape)
    <3>1. x = "quote" <=> n + 1 \in QuotesIn(s, start)
      BY <1>0, <2>1 DEF QuotesIn
    <3>2. n + 1 \in D => x = "quote"
      BY <3>1
    <3>3. CASE x = "quote"
      BY <2>1, <2>4, <3>1, <3>3
    <3> QED
      BY <3>2, <3>3
  <2> HIDE DEF v, w, x, A, B, Right
  <2>9. w.inString <=> Odd(B)
    <3>1. CASE v.escape
      <4>1. w.inString = v.inString
        BY <2>2, <2>3, <3>1, ReadEscapes
      <4> QED
        BY <2>4, <2>7, <2>8, <3>1, <4>1
    <3>2. CASE ~v.escape /\ v.inString
      <4>1. w.inString <=> x # "quote"
        BY <2>2, <2>3, <3>2, ReadInString
      <4> QED
        BY <2>4, <2>7, <2>8, <3>2, <4>1
    <3>3. CASE ~v.escape /\ ~v.inString
      <4>1. w.inString <=> x = "quote"
        BY <2>2, <2>3, <3>3, ReadOutside
      <4> QED
        BY <2>4, <2>7, <2>8, <3>3, <4>1
    <3> QED
      BY <3>1, <3>2, <3>3
  <2>10. (n + 1) + 1 = n + 2
    BY <2>1
  <2> QED
    BY <2>1, <2>9, <2>10 DEF w, B, Right
<1>3. start .. Len(s) \subseteq Good
  <2> HIDE DEF Good
  <2> QED
    BY <1>0, <1>1, <1>2, NumbersFrom
<1> HIDE DEF Right
<1>4. \A n \in start .. Len(s) : Right(n)
  BY <1>3
<1> QED
  BY <1>4 DEF Right

Openings == {"{", "["}

LEMMA OpeningsClose ==
  ASSUME NEW open \in Openings
  PROVE  open # "quote" /\ Closing(open) # "quote" /\ Closing(open) # open
BY Zenon DEF Openings, Closing

\* The symbols x outside of strings up to i, and the closing symbols that
\* balance.
Outs(s, start, D, x, i) == {j \in AfterIn(s, start) : j <= i /\ s[j] = x /\ ~Odd(BeforeIn(D, j))}
EndsOf(s, start, D, open) ==
  {i \in AfterIn(s, start) : /\ s[i] = Closing(open) /\ ~Odd(BeforeIn(D, i))
                             /\ Cardinality(Outs(s, start, D, Closing(open), i))
                                  = Cardinality(Outs(s, start, D, open, i)) + 1}

LEMMA OutsGrow ==
  ASSUME NEW X, NEW s \in Seq(X), NEW start \in Nat, NEW D, NEW x, NEW n \in start + 1 .. Len(s)
  PROVE  /\ Cardinality(Outs(s, start, D, x, n - 1)) \in Nat
         /\ Cardinality(Outs(s, start, D, x, n))
              = Cardinality(Outs(s, start, D, x, n - 1)) + (IF s[n] = x /\ ~Odd(BeforeIn(D, n)) THEN 1 ELSE 0)
<1> DEFINE A == Outs(s, start, D, x, n - 1)  B == Outs(s, start, D, x, n)
           added == s[n] = x /\ ~Odd(BeforeIn(D, n))
<1>1. AfterIn(s, start) = start + 1 .. Len(s) /\ Len(s) \in Nat
  BY AfterIsFinite
<1>2. IsFiniteSet(A)
  BY AfterIsFinite DEF Outs
<1>3. \A j \in AfterIn(s, start) : (j <= n <=> j <= n - 1 \/ j = n) /\ ~(n <= n - 1)
  BY <1>1
<1>4. n \in AfterIn(s, start)
  BY <1>1
<1>5. B = IF added THEN A \union {n} ELSE A
  BY <1>3, <1>4 DEF Outs
<1>6. n \notin A
  BY <1>3, <1>4 DEF Outs
<1> HIDE DEF A, B, added
<1>7. Cardinality(A) \in Nat /\ Cardinality(A \union {n}) = Cardinality(A) + 1
  BY <1>2, <1>6, FS_CardinalityType, FS_AddElement
<1>8. Cardinality(B) = Cardinality(A) + (IF added THEN 1 ELSE 0)
  BY <1>5, <1>7
<1> QED
  BY <1>7, <1>8 DEF A, B, added

\* What one symbol does to the depth.
Deeper(s, D, open, n) ==
  IF Odd(BeforeIn(D, n)) THEN 0
  ELSE IF s[n] = open THEN 1 ELSE IF s[n] = Closing(open) THEN -1 ELSE 0

IsStrung(h, s, start, D) ==
  \A n \in start .. Len(s) :
    /\ h[n] \in ReadStates /\ (h[n].escape => h[n].inString)
    /\ h[n].inString <=> Odd(BeforeIn(D, n + 1))

LEMMA DepthSteps ==
  ASSUME NEW X, NEW s \in Seq(X), NEW start \in 1 .. Len(s), NEW open \in Openings,
         NEW h, IsReading(h, s, start, open), NEW D, IsStrung(h, s, start, D),
         NEW n \in start + 1 .. Len(s)
  PROVE  /\ h[n - 1].depth \in Int /\ h[n].depth \in Int
         /\ h[n].depth = h[n - 1].depth + Deeper(s, D, open, n)
<1>1. Len(s) \in Nat
  BY LenProperties
<1>2. n - 1 \in start .. Len(s) /\ n \in start .. Len(s) /\ (n - 1) + 1 = n
  BY <1>1
<1> DEFINE v == h[n - 1]  w == h[n]  x == s[n]
<1>3. /\ v \in ReadStates /\ (v.escape => v.inString) /\ w \in ReadStates
      /\ v.inString <=> Odd(BeforeIn(D, n))
  BY <1>2 DEF IsStrung
<1>4. w = ReadSymbol(v, x, open)
  BY DEF IsReading
<1>5. v.depth \in Int /\ w.depth \in Int
  BY <1>3 DEF ReadStates
<1>6. open # "quote" /\ Closing(open) # "quote"
  BY OpeningsClose
<1> HIDE DEF v, w, x
<1>7. w.depth = v.depth + Deeper(s, D, open, n)
  <2>1. CASE v.escape
    <3>1. w.depth = v.depth
      BY <1>3, <1>4, <2>1, ReadEscapes
    <3> QED
      BY <1>3, <1>5, <2>1, <3>1 DEF Deeper
  <2>2. CASE ~v.escape /\ v.inString
    <3>1. w.depth = v.depth
      BY <1>3, <1>4, <2>2, ReadInString
    <3> QED
      BY <1>3, <1>5, <2>2, <3>1 DEF Deeper
  <2>3. CASE ~v.escape /\ ~v.inString
    <3>1. w.depth = v.depth + (IF x = "quote" THEN 0 ELSE IF x = open THEN 1
                               ELSE IF x = Closing(open) THEN -1 ELSE 0)
      BY <1>3, <1>4, <2>3, ReadOutside
    <3>2. Deeper(s, D, open, n) = IF x = "quote" THEN 0 ELSE IF x = open THEN 1
                                  ELSE IF x = Closing(open) THEN -1 ELSE 0
      BY <1>3, <1>6, <2>3 DEF Deeper, x
    <3> QED
      BY <3>1, <3>2
  <2> QED
    BY <2>1, <2>2, <2>3
<1> QED
  BY <1>5, <1>7 DEF v, w

\* One more than are opened, less what is closed.
LEMMA DepthsAre ==
  ASSUME NEW X, NEW s \in Seq(X), NEW start \in 1 .. Len(s), NEW open \in Openings,
         NEW h, IsReading(h, s, start, open), NEW D, IsStrung(h, s, start, D)
  PROVE  \A n \in start .. Len(s) :
           h[n].depth = 1 + Cardinality(Outs(s, start, D, open, n))
                          - Cardinality(Outs(s, start, D, Closing(open), n))
<1> DEFINE Opened(n) == Cardinality(Outs(s, start, D, open, n))
           Closed(n) == Cardinality(Outs(s, start, D, Closing(open), n))
           Right(n) == h[n].depth = 1 + Opened(n) - Closed(n)
           Good == {n \in Nat : Right(n)}
<1>0. Len(s) \in Nat /\ start \in Nat /\ AfterIn(s, start) = start + 1 .. Len(s)
  <2>1. Len(s) \in Nat /\ start \in Nat
    BY LenProperties
  <2> QED
    BY <2>1, AfterIsFinite
<1>1. start \in Good
  <2>1. h[start].depth = 1
    BY DEF IsReading, Untouched
  <2>2. \A x : Outs(s, start, D, x, start) = {}
    <3>1. \A j \in AfterIn(s, start) : ~(j <= start)
      BY <1>0
    <3> QED
      BY <3>1 DEF Outs
  <2>3. Opened(start) = 0 /\ Closed(start) = 0
    BY <2>2, FS_EmptySet
  <2> HIDE DEF Opened, Closed
  <2> QED
    BY <1>0, <2>1, <2>3
<1>2. ASSUME NEW n \in start .. Len(s) - 1, n \in Good PROVE n + 1 \in Good
  <2>1. n + 1 \in start + 1 .. Len(s) /\ (n + 1) - 1 = n /\ n + 1 \in Nat
    BY <1>0
  <2> DEFINE m == n + 1  out == ~Odd(BeforeIn(D, m))
  <2>2. /\ h[n].depth \in Int /\ h[m].depth = h[n].depth + Deeper(s, D, open, m)
    BY <2>1, DepthSteps
  <2>3. /\ Opened(n) \in Nat /\ Opened(m) = Opened(n) + (IF s[m] = open /\ out THEN 1 ELSE 0)
    BY <1>0, <2>1, OutsGrow
  <2>4. /\ Closed(n) \in Nat /\ Closed(m) = Closed(n) + (IF s[m] = Closing(open) /\ out THEN 1 ELSE 0)
    BY <1>0, <2>1, OutsGrow
  <2>5. Deeper(s, D, open, m) = (IF s[m] = open /\ out THEN 1 ELSE 0)
                                  - (IF s[m] = Closing(open) /\ out THEN 1 ELSE 0)
    BY OpeningsClose DEF Deeper
  <2>6. Right(n)
    BY <1>2
  <2> HIDE DEF Opened, Closed, m, out
  <2>7. Right(m)
    BY <2>2, <2>3, <2>4, <2>5, <2>6
  <2> QED
    BY <2>1, <2>7 DEF m
<1>3. start .. Len(s) \subseteq Good
  <2> HIDE DEF Good
  <2> QED
    BY <1>0, <1>1, <1>2, NumbersFrom
<1> HIDE DEF Right
<1>4. \A n \in start .. Len(s) : Right(n)
  BY <1>3
<1> QED
  BY <1>4 DEF Right

\* The first end is where the depth is first 0.
LEMMA EndsAre ==
  ASSUME NEW X, NEW s \in Seq(X), NEW start \in 1 .. Len(s), NEW open \in Openings,
         NEW h, IsReading(h, s, start, open), NEW D, IsStrung(h, s, start, D)
  PROVE  /\ \A i \in EndsOf(s, start, D, open) : i \in start + 1 .. Len(s) /\ h[i].depth = 0
         /\ \A z \in start + 1 .. Len(s) :
              h[z].depth = 0 /\ (\A i \in start + 1 .. z - 1 : h[i].depth # 0) => z \in EndsOf(s, start, D, open)
<1> DEFINE Opened(n) == Cardinality(Outs(s, start, D, open, n))
           Closed(n) == Cardinality(Outs(s, start, D, Closing(open), n))
<1>0. Len(s) \in Nat /\ start \in Nat /\ AfterIn(s, start) = start + 1 .. Len(s)
  <2>1. Len(s) \in Nat /\ start \in Nat
    BY LenProperties
  <2> QED
    BY <2>1, AfterIsFinite
<1>1. ASSUME NEW n \in start + 1 .. Len(s)
      PROVE  /\ Opened(n) \in Nat /\ Closed(n) \in Nat
             /\ h[n].depth = 1 + Opened(n) - Closed(n)
  <2>1. /\ Opened(n - 1) \in Nat /\ Opened(n) = Opened(n - 1)
           + (IF s[n] = open /\ ~Odd(BeforeIn(D, n)) THEN 1 ELSE 0)
    BY <1>0, OutsGrow
  <2>2. /\ Closed(n - 1) \in Nat /\ Closed(n) = Closed(n - 1)
           + (IF s[n] = Closing(open) /\ ~Odd(BeforeIn(D, n)) THEN 1 ELSE 0)
    BY <1>0, OutsGrow
  <2>3. n \in start .. Len(s)
    BY <1>0
  <2>4. h[n].depth = 1 + Opened(n) - Closed(n)
    BY <2>3, DepthsAre
  <2> HIDE DEF Opened, Closed
  <2> QED
    BY <2>1, <2>2, <2>4
<1>2. ASSUME NEW i \in EndsOf(s, start, D, open) PROVE i \in start + 1 .. Len(s) /\ h[i].depth = 0
  <2>1. i \in start + 1 .. Len(s) /\ Closed(i) = Opened(i) + 1
    BY <1>0 DEF EndsOf
  <2> HIDE DEF Opened, Closed
  <2> QED
    BY <1>1, <2>1
<1>3. ASSUME NEW z \in start + 1 .. Len(s), h[z].depth = 0,
             \A i \in start + 1 .. z - 1 : h[i].depth # 0
      PROVE  z \in EndsOf(s, start, D, open)
  <2> DEFINE Good == {n \in Nat : h[n].depth >= 1}
  <2>1. start \in Good
    BY <1>0 DEF IsReading, Untouched
  <2>2. ASSUME NEW n \in start .. (z - 1) - 1, n \in Good PROVE n + 1 \in Good
    <3>1. n + 1 \in start + 1 .. Len(s) /\ n + 1 \in start + 1 .. z - 1 /\ (n + 1) - 1 = n /\ n + 1 \in Nat
      BY <1>0
    <3>2. /\ h[n].depth \in Int /\ h[n + 1].depth \in Int
          /\ h[n + 1].depth = h[n].depth + Deeper(s, D, open, n + 1)
      BY <3>1, DepthSteps
    <3>3. Deeper(s, D, open, n + 1) \in {-1, 0, 1}
      BY DEF Deeper
    <3>4. h[n].depth >= 1 /\ h[n + 1].depth # 0
      BY <1>3, <2>2, <3>1
    <3>5. h[n + 1].depth >= 1
      BY <3>2, <3>3, <3>4
    <3> QED
      BY <3>1, <3>5
  <2>3. z - 1 \in Nat /\ z - 1 \in start .. z - 1
    BY <1>0
  <2>4. z - 1 \in Good
    <3> HIDE DEF Good
    <3> DEFINE b == z - 1
    <3>A. start \in Nat /\ b \in Nat /\ \A n \in start .. b - 1 : n \in Good => n + 1 \in Good
      BY <1>0, <2>2, <2>3
    <3> HIDE DEF b
    <3>0. start .. b \subseteq Good
      BY <2>1, <3>A, NumbersFrom
    <3>1. start .. z - 1 \subseteq Good
      BY <3>0 DEF b
    <3> QED
      BY <2>3, <3>1
  <2>5. /\ h[z - 1].depth \in Int /\ h[z].depth = h[z - 1].depth + Deeper(s, D, open, z)
    BY DepthSteps
  <2>6. Deeper(s, D, open, z) # 0 /\ Deeper(s, D, open, z) # 1
    <3>1. h[z - 1].depth >= 1
      BY <2>4
    <3>2. Deeper(s, D, open, z) \in Int
      BY DEF Deeper
    <3> QED
      BY <1>3, <2>5, <3>1, <3>2
  <2>7. s[z] = Closing(open) /\ ~Odd(BeforeIn(D, z))
    BY <2>6 DEF Deeper
  <2>8. Closed(z) = Opened(z) + 1
    <3>1. Opened(z) \in Nat /\ Closed(z) \in Nat /\ h[z].depth = 1 + Opened(z) - Closed(z)
      BY <1>1
    <3> HIDE DEF Opened, Closed
    <3> QED
      BY <1>3, <3>1
  <2> QED
    BY <1>0, <2>7, <2>8 DEF EndsOf
<1> HIDE DEF EndsOf
<1> QED
  BY <1>2, <1>3

\* The scan stops where the depth is first 0.
StopsAt(end, h, s, start) ==
  \/ end = 0 /\ \A i \in start + 1 .. Len(s) : h[i].depth # 0
  \/ /\ end \in start + 1 .. Len(s) /\ h[end].depth = 0
     /\ \A i \in start + 1 .. end - 1 : h[i].depth # 0

LEMMA ScanStops ==
  ASSUME NEW X, NEW s \in Seq(X), NEW start \in 1 .. Len(s), NEW open,
         NEW h, IsReading(h, s, start, open), \A n \in start .. Len(s) : h[n] \in ReadStates
  PROVE  StopsAt(Scanned(s, start, open).end, h, s, start)
<1>0. Len(s) \in Nat /\ start \in Nat
  BY LenProperties
<1>1. PICK g : /\ g[0] = Untouched /\ g[Len(s)] = Scanned(s, start, open)
               /\ \A n \in 1 .. Len(s) : g[n] = ScanStep(g[n - 1], n, s, start, open)
  BY ScanRuns
<1>2. g[start] = Untouched
  <2> DEFINE Good == {n \in Nat : g[n] = Untouched}
  <2>1. 0 \in Good
    BY <1>1
  <2>2. ASSUME NEW n \in 0 .. start - 1, n \in Good PROVE n + 1 \in Good
    <3>1. n + 1 \in 1 .. Len(s) /\ (n + 1) - 1 = n /\ n + 1 <= start /\ n + 1 \in Nat
      BY <1>0
    <3>2. g[n + 1] = g[n]
      BY <1>1, <3>1 DEF ScanStep
    <3> QED
      BY <2>2, <3>1, <3>2
  <2>3. 0 .. start \subseteq Good
    <3> HIDE DEF Good
    <3> QED
      BY <1>0, <2>1, <2>2, NumbersFrom
  <2> QED
    BY <1>0, <2>3
<1> DEFINE Runs(n) == g[n] = h[n] /\ \A i \in start + 1 .. n : h[i].depth # 0
           Stopped(n) == /\ g[n].end \in start + 1 .. n /\ h[g[n].end].depth = 0
                         /\ \A i \in start + 1 .. g[n].end - 1 : h[i].depth # 0
           Good == {n \in Nat : Runs(n) \/ Stopped(n)}
<1>3. start \in Good
  <2>1. g[start] = h[start] /\ start + 1 .. start = {}
    BY <1>0, <1>2 DEF IsReading
  <2> QED
    BY <1>0, <2>1
<1>4. ASSUME NEW n \in start .. Len(s) - 1, n \in Good PROVE n + 1 \in Good
  <2>1. /\ n + 1 \in 1 .. Len(s) /\ n + 1 \in start + 1 .. Len(s) /\ n \in start .. Len(s)
        /\ n + 1 \in start .. Len(s)
        /\ (n + 1) - 1 = n /\ ~(n + 1 <= start) /\ n + 1 \in Nat /\ n + 1 \in start + 1 .. n + 1
    BY <1>0
  <2> DEFINE w == h[n + 1]
  <2>2. w = ReadSymbol(h[n], s[n + 1], open) /\ w \in ReadStates /\ h[n] \in ReadStates
    BY <2>1 DEF IsReading
  <2>3. g[n + 1] = ScanStep(g[n], n + 1, s, start, open)
    BY <1>1, <2>1
  <2>4. CASE Stopped(n)
    <3>1. g[n].end \in start + 1 .. n /\ g[n].end # 0
      BY <1>0, <2>4
    <3>2. g[n + 1] = g[n]
      BY <2>3, <3>1 DEF ScanStep
    <3>3. g[n].end \in start + 1 .. n + 1
      BY <2>1, <3>1
    <3>4. Stopped(n + 1)
      BY <2>4, <3>2, <3>3
    <3> HIDE DEF Stopped, Runs
    <3> QED
      BY <2>1, <3>4
  <2>5. CASE Runs(n)
    <3>1. g[n] = h[n] /\ g[n].end = 0
      BY <2>2, <2>5 DEF ReadStates
    <3>2. g[n + 1] = [w EXCEPT !.end = IF w.depth = 0 THEN n + 1 ELSE 0]
      BY <2>1, <2>2, <2>3, <3>1 DEF ScanStep
    <3> HIDE DEF w
    <3>3. CASE w.depth = 0
      <4>1. g[n + 1].end = n + 1
        BY <2>2, <3>2, <3>3 DEF ReadStates
      <4>2. (n + 1) - 1 = n
        BY <2>1
      <4>3. Stopped(n + 1)
        BY <2>1, <2>5, <3>3, <4>1, <4>2 DEF w
      <4> HIDE DEF Stopped, Runs
      <4> QED
        BY <2>1, <4>3
    <3>4. CASE w.depth # 0
      <4>1. g[n + 1] = w
        BY <2>2, <3>2, <3>4 DEF ReadStates
      <4>2. \A i \in start + 1 .. n + 1 : i \in start + 1 .. n \/ i = n + 1
        BY <2>1
      <4>3. Runs(n + 1)
        BY <2>5, <3>4, <4>1, <4>2 DEF w
      <4> HIDE DEF Stopped, Runs
      <4> QED
        BY <2>1, <4>3
    <3> QED
      BY <3>3, <3>4
  <2> HIDE DEF Stopped, Runs
  <2> QED
    BY <1>4, <2>4, <2>5
<1>5. Len(s) \in Good
  <2> HIDE DEF Good
  <2>1. start .. Len(s) \subseteq Good
    BY <1>0, <1>3, <1>4, NumbersFrom
  <2> QED
    BY <1>0, <2>1
<1>6. CASE Runs(Len(s))
  <2>1. h[Len(s)] \in ReadStates
    BY <1>0
  <2>2. g[Len(s)].end = 0
    BY <1>6, <2>1 DEF ReadStates
  <2> QED
    BY <1>1, <1>6, <2>2 DEF StopsAt
<1>7. CASE Stopped(Len(s))
  BY <1>1, <1>7 DEF StopsAt
<1> HIDE DEF Stopped, Runs
<1> QED
  BY <1>5, <1>6, <1>7

\* A quote opens or closes a string unless it is escaped: there is a set of
\* such quotes, and every such set tells where the strings are.
DelimitsIn(D, s, start) ==
  \A q \in QuotesIn(s, start) :
    q \in D <=> (Odd(BeforeIn(D, q)) => Cardinality(Slashes(s, start, q)) % 2 = 0)

LEMMA DelimitersString ==
  ASSUME NEW X, NEW s \in Seq(X), NEW start \in 1 .. Len(s), NEW open \in Openings,
         NEW h, IsReading(h, s, start, open)
  PROVE  /\ \E D \in SUBSET QuotesIn(s, start) : DelimitsIn(D, s, start)
         /\ \A D \in SUBSET QuotesIn(s, start) : DelimitsIn(D, s, start) => IsStrung(h, s, start, D)
<1>0. Len(s) \in Nat /\ start \in Nat /\ AfterIn(s, start) = start + 1 .. Len(s)
  <2>1. Len(s) \in Nat /\ start \in Nat
    BY LenProperties
  <2> QED
    BY <2>1, AfterIsFinite
<1>1. \A n \in start .. Len(s) :
        h[n] \in ReadStates /\ (h[n].escape <=> h[n].inString /\ Odd(Slashes(s, start, n + 1)))
  BY EscapesAre
<1>2. ASSUME NEW q \in QuotesIn(s, start)
      PROVE  /\ q - 1 \in start .. Len(s) /\ (q - 1) + 1 = q
             /\ h[q - 1].escape <=> h[q - 1].inString /\ Odd(Slashes(s, start, q))
             /\ Cardinality(Slashes(s, start, q)) % 2 = 0 <=> ~Odd(Slashes(s, start, q))
  <2>1. q \in start + 1 .. Len(s)
    BY <1>0 DEF QuotesIn
  <2>2. q - 1 \in start .. Len(s) /\ (q - 1) + 1 = q
    BY <1>0, <2>1
  <2>3. h[q - 1].escape <=> h[q - 1].inString /\ Odd(Slashes(s, start, q))
    BY <1>1, <2>2
  <2>4. IsFiniteSet(Slashes(s, start, q))
    BY <1>0, <2>1, SlashesGrow
  <2> QED
    BY <2>2, <2>3, <2>4, EvenOrOdd
<1>3. open # "quote"
  BY OpeningsClose
<1>4. ASSUME NEW D \in SUBSET QuotesIn(s, start), DelimitsIn(D, s, start)
      PROVE  IsStrung(h, s, start, D)
  <2>1. ASSUME NEW q \in QuotesIn(s, start), h[q - 1].inString <=> Odd(BeforeIn(D, q))
        PROVE  q \in D <=> ~h[q - 1].escape
    BY <1>2, <1>4, <2>1 DEF DelimitsIn
  <2>2. \A n \in start .. Len(s) : h[n].inString <=> Odd(BeforeIn(D, n + 1))
    BY <1>3, <2>1, StringsAre
  <2> QED
    BY <1>1, <2>2 DEF IsStrung
<1>5. \E D \in SUBSET QuotesIn(s, start) : DelimitsIn(D, s, start)
  <2> DEFINE D == {q \in QuotesIn(s, start) : ~h[q - 1].escape}
  <2>1. D \subseteq QuotesIn(s, start) /\ \A q \in QuotesIn(s, start) : q \in D <=> ~h[q - 1].escape
    OBVIOUS
  <2> HIDE DEF D
  <2>2. \A n \in start .. Len(s) : h[n].inString <=> Odd(BeforeIn(D, n + 1))
    BY <1>3, <2>1, StringsAre
  <2>3. ASSUME NEW q \in QuotesIn(s, start) PROVE h[q - 1].inString <=> Odd(BeforeIn(D, q))
    BY <1>2, <2>2
  <2>4. DelimitsIn(D, s, start)
    BY <1>2, <2>1, <2>3 DEF DelimitsIn
  <2> QED
    BY <2>1, <2>4
<1> QED
  BY <1>4, <1>5

LEMMA BalancedFound ==
  ASSUME NEW X, NEW s \in Seq(X), NEW open \in Openings
  PROVE  BalancedIsValue(s, open)
<1> DEFINE start == Index(s, open)
           quotes == QuotesIn(s, start)
           D == CHOOSE E \in SUBSET quotes : DelimitsIn(E, s, start)
           ends == EndsOf(s, start, D, open)
           value == IF ends = {} THEN <<>> ELSE SubSeq(s, start, LeastOf(ends))
           end == Scanned(s, start, open).end
<1>1. ASSUME start > 0 PROVE extractBalancedDelimiters(s, start, open) = value
  <2>1. Len(s) \in Nat
    BY LenProperties
  <2>2. start \in 1 .. Len(s)
    <3> DEFINE I == {i \in 1 .. Len(s) : s[i] = open}
    <3>1. start = IF I # {} THEN Min(I) ELSE 0
      BY DEF Index, SelectInSeq
    <3>2. I \in SUBSET (1 .. Len(s))
      OBVIOUS
    <3> HIDE DEF I, start
    <3>3. I # {}
      BY <1>1, <3>1
    <3>4. LeastOf(I) \in I
      BY <2>1, <3>2, <3>3, Extremes
    <3>5. Min(I) \in I
      <4>1. LeastOf(I) \in I /\ \A i \in I : LeastOf(I) <= i
        BY <2>1, <3>2, <3>3, Extremes
      <4> QED
        BY <4>1 DEF Min
    <3> QED
      BY <3>1, <3>2, <3>3, <3>5
  <2> HIDE DEF start
  <2>3. start \in Nat
    BY <2>1, <2>2
  <2>4. PICK h : IsReading(h, s, start, open)
    BY <2>3, ReadingExists
  <2>5. D \in SUBSET quotes /\ DelimitsIn(D, s, start)
    <3>1. \E E \in SUBSET quotes : DelimitsIn(E, s, start)
      BY <2>2, <2>4, DelimitersString
    <3> HIDE DEF quotes
    <3> QED
      BY <3>1
  <2> HIDE DEF D
  <2>6. IsStrung(h, s, start, D)
    BY <2>2, <2>4, <2>5, DelimitersString
  <2>7. StopsAt(end, h, s, start)
    BY <2>2, <2>4, <2>6, ScanStops DEF IsStrung
  <2>8. /\ \A i \in ends : i \in start + 1 .. Len(s) /\ h[i].depth = 0
        /\ \A z \in start + 1 .. Len(s) :
             h[z].depth = 0 /\ (\A i \in start + 1 .. z - 1 : h[i].depth # 0) => z \in ends
    BY <2>2, <2>4, <2>6, EndsAre
  <2>9. extractBalancedDelimiters(s, start, open) = SubSeq(s, start, end)
    BY DEF extractBalancedDelimiters, Scanned
  <2> HIDE DEF ends, end
  <2>10. CASE end = 0
    <3>1. ends = {}
      BY <2>1, <2>3, <2>7, <2>8, <2>10 DEF StopsAt
    <3>2. SubSeq(s, start, end) = <<>>
      <4>1. start \in Int /\ 0 \in Int /\ 0 < start
        BY <2>2, <2>1
      <4> QED
        BY <2>10, <4>1, SubSeqEmpty
    <3> QED
      BY <2>9, <3>1, <3>2
  <2>11. CASE end # 0
    <3>1. /\ end \in start + 1 .. Len(s) /\ h[end].depth = 0
          /\ \A i \in start + 1 .. end - 1 : h[i].depth # 0
      BY <2>7, <2>11 DEF StopsAt
    <3>2. end \in ends
      BY <2>8, <3>1
    <3>3. \A i \in ends : end <= i
      <4> SUFFICES ASSUME NEW i \in ends, i < end PROVE FALSE
        <5>1. \A i \in ends : i \in Int /\ end \in Int
          BY <2>1, <2>3, <2>8, <3>1
        <5> QED
          BY <5>1
      <4>1. i \in start + 1 .. end - 1
        BY <2>1, <2>3, <2>8, <3>1
      <4> QED
        BY <2>8, <3>1, <4>1
    <3>4. LeastOf(ends) = end
      <4>1. LeastOf(ends) \in ends /\ \A i \in ends : LeastOf(ends) <= i
        BY <3>2, <3>3 DEF LeastOf
      <4>2. LeastOf(ends) <= end /\ end <= LeastOf(ends)
        BY <3>2, <3>3, <4>1
      <4>3. LeastOf(ends) \in Int /\ end \in Int
        BY <2>1, <2>3, <2>8, <3>1, <4>1
      <4> QED
        BY <4>2, <4>3
    <3> QED
      BY <2>9, <3>2, <3>4
  <2> QED
    BY <2>10, <2>11
<1> HIDE DEF D
<1> QED
  BY <1>1 DEF BalancedIsValue, D, quotes, QuotesIn, EndsOf, Outs, AfterIn, BeforeIn, Odd, Slashes, DelimitsIn

(***************************************************************************)
(* BalancedIsValue (extractBalancedDelimiters of chunk.go): for every text *)
(* that something is cut out of, whatever it is made of, and both kinds of *)
(* brackets.                                                               *)
(***************************************************************************)
THEOREM ValuesAreBalanced ==
  ASSUME NEW X, NEW s \in Seq(X), NEW open \in {"{", "["}
  PROVE  BalancedIsValue(s, open)
<1>1. open \in Openings
  BY Zenon DEF Openings
<1> QED
  BY Zenon, <1>1, BalancedFound

-----------------------------------------------------------------------------
(***************************************************************************)
(* What the planner and the self-query read in an answer.  The object      *)
(* stands at two places of the text; trimming the text, and cutting it at  *)
(* a fence, at the outermost braces or at the limit, moves or loses the    *)
(* two places, and never leaves another object.                            *)
(***************************************************************************)
LEMMA LeastIs ==
  ASSUME NEW S, S \subseteq Int, NEW p \in S, \A i \in S : p <= i
  PROVE  LeastOf(S) = p /\ Min(S) = p
<1>1. LeastOf(S) \in S /\ \A i \in S : LeastOf(S) <= i
  BY DEF LeastOf
<1>2. Min(S) \in S /\ \A i \in S : Min(S) <= i
  BY DEF Min
<1> HIDE DEF Min, LeastOf
<1>3. LeastOf(S) <= p /\ p <= LeastOf(S) /\ LeastOf(S) \in Int /\ p \in Int
  BY <1>1
<1>4. Min(S) <= p /\ p <= Min(S) /\ Min(S) \in Int
  BY <1>2
<1> QED
  BY <1>3, <1>4

LEMMA GreatestIs ==
  ASSUME NEW S, S \subseteq Int, NEW p \in S, \A i \in S : p >= i
  PROVE  GreatestOf(S) = p /\ Max(S) = p
<1>1. GreatestOf(S) \in S /\ \A i \in S : GreatestOf(S) >= i
  BY DEF GreatestOf
<1>2. Max(S) \in S /\ \A i \in S : Max(S) >= i
  BY DEF Max
<1> HIDE DEF Max, GreatestOf
<1>3. GreatestOf(S) <= p /\ p <= GreatestOf(S) /\ GreatestOf(S) \in Int /\ p \in Int
  BY <1>1
<1>4. Max(S) <= p /\ p <= Max(S) /\ Max(S) \in Int
  BY <1>2
<1> QED
  BY <1>3, <1>4

LEMMA IndexIs ==
  ASSUME NEW X, NEW s \in Seq(X), NEW x, NEW p \in 1 .. Len(s), s[p] = x
  PROVE  /\ (\A i \in 1 .. Len(s) : s[i] = x => p <= i) => Index(s, x) = p
         /\ (\A i \in 1 .. Len(s) : s[i] = x => p >= i) => LastIndex(s, x) = p
<1> DEFINE I == {i \in 1 .. Len(s) : s[i] = x}
<1>1. Index(s, x) = IF I # {} THEN Min(I) ELSE 0
  BY DEF Index, SelectInSeq
<1>2. LastIndex(s, x) = IF I # {} THEN Max(I) ELSE 0
  BY DEF LastIndex, SelectLastInSeq
<1>3. I \subseteq Int /\ p \in I /\ I # {}
  OBVIOUS
<1>4. ASSUME \A i \in 1 .. Len(s) : s[i] = x => p <= i PROVE Index(s, x) = p
  <2>1. \A i \in I : p <= i
    BY <1>4
  <2> HIDE DEF I
  <2>2. Min(I) = p
    BY <1>3, <2>1, LeastIs
  <2> QED
    BY <1>1, <1>3, <2>2
<1>5. ASSUME \A i \in 1 .. Len(s) : s[i] = x => p >= i PROVE LastIndex(s, x) = p
  <2>1. \A i \in I : p >= i
    BY <1>5
  <2> HIDE DEF I
  <2>2. Max(I) = p
    BY <1>3, <2>1, GreatestIs
  <2> QED
    BY <1>2, <1>3, <2>2
<1> QED
  BY <1>4, <1>5

LEMMA IndexIsNone ==
  ASSUME NEW X, NEW s \in Seq(X), NEW x, \A i \in 1 .. Len(s) : s[i] # x
  PROVE  Index(s, x) = 0 /\ LastIndex(s, x) = 0
<1>1. {i \in 1 .. Len(s) : s[i] = x} = {}
  OBVIOUS
<1> QED
  BY <1>1 DEF Index, LastIndex, SelectInSeq, SelectLastInSeq

\* What the indices are, whether the symbol is there or not.
LEMMA IndicesAre ==
  ASSUME NEW X, NEW s \in Seq(X), NEW x
  PROVE  \/ Index(s, x) = 0 /\ LastIndex(s, x) = 0 /\ \A i \in 1 .. Len(s) : s[i] # x
         \/ /\ Index(s, x) \in 1 .. Len(s) /\ s[Index(s, x)] = x
            /\ LastIndex(s, x) \in 1 .. Len(s) /\ s[LastIndex(s, x)] = x
            /\ \A i \in 1 .. Len(s) : s[i] = x => Index(s, x) <= i /\ i <= LastIndex(s, x)
<1> DEFINE I == {i \in 1 .. Len(s) : s[i] = x}
<1>0. Len(s) \in Nat
  BY LenProperties
<1>1. CASE I = {}
  <2>1. \A i \in 1 .. Len(s) : s[i] # x
    BY <1>1
  <2> QED
    BY <2>1, IndexIsNone
<1>2. CASE I # {}
  <2>1. I \in SUBSET (1 .. Len(s))
    OBVIOUS
  <2>2. \A i \in 1 .. Len(s) : s[i] = x => i \in I
    OBVIOUS
  <2> DEFINE l == LeastOf(I)  g == GreatestOf(I)
  <2>3. \A i \in I : i \in 1 .. Len(s) /\ s[i] = x
    OBVIOUS
  <2> HIDE DEF I
  <2>4. l \in I /\ (\A i \in I : l <= i) /\ g \in I /\ \A i \in I : g >= i
    BY <1>0, <1>2, <2>1, Extremes
  <2> HIDE DEF l, g
  <2>5. l \in 1 .. Len(s) /\ s[l] = x /\ g \in 1 .. Len(s) /\ s[g] = x
    BY <2>3, <2>4
  <2>6. Index(s, x) = l /\ LastIndex(s, x) = g
    BY <2>2, <2>4, <2>5, IndexIs
  <2>7. \A i \in 1 .. Len(s) : s[i] = x => l <= i /\ i <= g
    BY <1>0, <2>2, <2>4, <2>5
  <2> QED
    BY <2>5, <2>6, <2>7
<1> QED
  BY <1>1, <1>2

\* What is left when blanks go: from the first to the last that is none.
LEMMA TrimIs ==
  ASSUME NEW X, NEW s \in Seq(X), NEW a \in 1 .. Len(s), NEW b \in 1 .. Len(s),
         s[a] \notin Blanks, s[b] \notin Blanks,
         \A i \in 1 .. Len(s) : s[i] \notin Blanks => a <= i /\ i <= b
  PROVE  TrimSpace(s) = SubSeq(s, a, b)
<1> DEFINE kept == {i \in DOMAIN s : s[i] \notin Blanks}
<1>1. DOMAIN s = 1 .. Len(s) /\ Len(s) \in Nat
  BY LenProperties
<1>2. a \in kept /\ b \in kept /\ kept # {} /\ kept \subseteq Int /\ (\A i \in kept : a <= i) /\ \A i \in kept : b >= i
  BY <1>1
<1>3. TrimSpace(s) = IF kept = {} THEN <<>> ELSE SubSeq(s, LeastOf(kept), GreatestOf(kept))
  BY DEF TrimSpace, TrimSymbols
<1> HIDE DEF kept
<1>4. LeastOf(kept) = a /\ GreatestOf(kept) = b
  BY <1>2, LeastIs, GreatestIs
<1> QED
  BY <1>2, <1>3, <1>4

LEMMA TrimCuts ==
  ASSUME NEW X, NEW s \in Seq(X), NEW p \in 1 .. Len(s), s[p] \notin Blanks
  PROVE  \E a, b \in 1 .. Len(s) :
           /\ a <= b /\ s[a] \notin Blanks /\ s[b] \notin Blanks /\ TrimSpace(s) = SubSeq(s, a, b)
           /\ \A i \in 1 .. Len(s) : s[i] \notin Blanks => a <= i /\ i <= b
<1> DEFINE kept == {i \in 1 .. Len(s) : s[i] \notin Blanks}
<1>0. Len(s) \in Nat
  BY LenProperties
<1>1. /\ kept \in SUBSET (1 .. Len(s)) /\ kept # {} /\ p \in kept
      /\ \A i \in kept : i \in 1 .. Len(s) /\ s[i] \notin Blanks
      /\ \A i \in 1 .. Len(s) : s[i] \notin Blanks => i \in kept
  OBVIOUS
<1> DEFINE a == LeastOf(kept)  b == GreatestOf(kept)
<1> HIDE DEF kept
<1>2. a \in kept /\ (\A i \in kept : a <= i) /\ b \in kept /\ \A i \in kept : b >= i
  BY <1>0, <1>1, Extremes
<1> HIDE DEF a, b
<1>3. a \in 1 .. Len(s) /\ s[a] \notin Blanks /\ b \in 1 .. Len(s) /\ s[b] \notin Blanks
  BY <1>1, <1>2
<1>4. a <= b /\ \A i \in 1 .. Len(s) : s[i] \notin Blanks => a <= i /\ i <= b
  <2>1. \A i \in 1 .. Len(s) : s[i] \notin Blanks => a <= i /\ b >= i
    BY <1>1, <1>2
  <2> QED
    BY <1>0, <1>3, <2>1, <1>2
<1>5. TrimSpace(s) = SubSeq(s, a, b)
  BY <1>3, <1>4, TrimIs
<1> QED
  BY <1>3, <1>4, <1>5

\* The first fence, of those with a tag if one is asked for.
Fences(s, tag) == {i \in DOMAIN s : s[i] = "fence" /\ (tag => i < Len(s) /\ s[i + 1] = "json")}

LEMMA FenceAtIs ==
  ASSUME NEW X, NEW s \in Seq(X), NEW tag
  PROVE  /\ Fences(s, tag) = {} => FenceAt(s, tag) = 0
         /\ \A p \in Fences(s, tag) : (\A i \in Fences(s, tag) : p <= i) => FenceAt(s, tag) = p
<1>1. DOMAIN s = 1 .. Len(s) /\ Len(s) \in Nat
  BY LenProperties
<1>2. Fences(s, tag) \subseteq Int
  BY <1>1 DEF Fences
<1>3. FenceAt(s, tag) = IF Fences(s, tag) = {} THEN 0 ELSE LeastOf(Fences(s, tag))
  BY DEF FenceAt, Fences
<1> HIDE DEF Fences
<1> QED
  BY <1>2, <1>3, LeastIs

LB == "{"
RB == "}"

LEMMA BraceFacts ==
  /\ LB # RB /\ LB \notin Blanks /\ RB \notin Blanks
  /\ LB # "fence" /\ RB # "fence" /\ LB # "json" /\ RB # "json"
  /\ LB # "newline" /\ RB # "newline" /\ LB # "blank" /\ RB # "blank"
  /\ \A x \in ObjectNames : x # LB /\ x # RB /\ x # "fence" /\ x # "json"
BY Zenon DEF LB, RB, Blanks, ObjectNames

\* The object with these names.
IsObjectOf(t, names) ==
  /\ Len(t) = Len(names) + 2 /\ t[1] = LB /\ t[Len(names) + 2] = RB
  /\ \A k \in 1 .. Len(names) : t[1 + k] = names[k]

LEMMA ObjectIs ==
  ASSUME NEW names \in Seq(ObjectNames)
  PROVE  /\ Object(names) \in Seq(ObjectNames \union {LB, RB})
         /\ IsObjectOf(Object(names), names)
<1> DEFINE X == ObjectNames \union {LB, RB}  first == <<LB>>  last == <<RB>>
           n == Len(names)  r == first \o names  t == r \o last
<1>1. Object(names) = t
  BY Zenon DEF Object, LB, RB
<1>2. /\ first \in Seq(X) /\ last \in Seq(X) /\ Len(first) = 1 /\ Len(last) = 1
      /\ first[1] = LB /\ last[1] = RB
  OBVIOUS
<1>3. names \in Seq(X) /\ n \in Nat
  <2>1. ObjectNames \subseteq X
    OBVIOUS
  <2> HIDE DEF X
  <2>2. n \in Nat /\ DOMAIN names = 1 .. n /\ \A i \in 1 .. n : names[i] \in X
    BY <2>1, LenProperties, ElementOfSeq
  <2>3. names = [i \in 1 .. n |-> names[i]]
    BY <2>2
  <2>4. [i \in 1 .. n |-> names[i]] \in Seq(X)
    BY <2>2, IsASeq
  <2> QED
    BY <2>2, <2>3, <2>4
<1> HIDE DEF X, first, last
<1>4. r \in Seq(X) /\ Len(r) = 1 + n /\ r[1] = LB /\ \A i \in 1 .. n : r[1 + i] = names[i]
  <2>1. IsBoth(r, first, names, X)
    BY <1>2, <1>3, BothIn
  <2> HIDE DEF r
  <2> QED
    BY <1>2, <2>1 DEF IsBoth
<1> HIDE DEF r
<1>5. t \in Seq(X) /\ Len(t) = (1 + n) + 1 /\ (\A i \in 1 .. 1 + n : t[i] = r[i]) /\ t[(1 + n) + 1] = RB
  <2>1. IsBoth(t, r, last, X)
    BY <1>2, <1>4, BothIn
  <2> HIDE DEF t
  <2> QED
    BY <1>2, <1>4, <2>1 DEF IsBoth
<1> HIDE DEF t
<1>6. t[1] = LB
  BY <1>3, <1>4, <1>5
<1>7. t[n + 2] = RB
  BY <1>3, <1>5
<1>8. ASSUME NEW k \in 1 .. n PROVE t[1 + k] = names[k]
  BY <1>3, <1>4, <1>5
<1>9. Len(t) = n + 2
  BY <1>3, <1>5
<1> QED
  BY <1>1, <1>5, <1>6, <1>7, <1>8, <1>9 DEF IsObjectOf, X

\* What json.Unmarshal reads as an object.
LEMMA ObjectRead ==
  ASSUME NEW X, NEW t \in Seq(X)
  PROVE  /\ IsObject(t) => /\ Len(t) >= 2 /\ t[1] = LB /\ t[Len(t)] = RB
                           /\ \A i \in 2 .. Len(t) - 1 : t[i] \in ObjectNames
         /\ \A names \in Seq(ObjectNames) : IsObjectOf(t, names) =>
              IsObject(t) /\ t # <<>> /\ SubSeq(t, 2, Len(t) - 1) = names
<1> DEFINE m == Len(t)  inner == SubSeq(t, 2, m - 1)
<1>0. m \in Nat
  BY LenProperties
<1>1. ASSUME m >= 2
      PROVE  inner \in Seq(X) /\ Len(inner) = m - 2 /\ \A i \in 1 .. m - 2 : inner[i] = t[i + 1]
  <2>1. inner \in Seq(X) /\ IsPiece(inner, t, 2, m - 1)
    BY <1>0, <1>1, PieceIn
  <2>2. (m - 1) - 2 + 1 = m - 2 /\ \A i \in 1 .. m - 2 : 2 + i - 1 = i + 1
    BY <1>0
  <2> HIDE DEF inner, m
  <2> QED
    BY <2>1, <2>2 DEF IsPiece
<1>2. ASSUME IsObject(t)
      PROVE  /\ m >= 2 /\ t[1] = LB /\ t[m] = RB
             /\ \A i \in 2 .. m - 1 : t[i] \in ObjectNames
  <2>1. m >= 2 /\ t = Object(inner) /\ ToSet(inner) \subseteq ObjectNames
    BY <1>2 DEF IsObject
  <2>2. inner \in Seq(X) /\ Len(inner) = m - 2 /\ \A i \in 1 .. m - 2 : inner[i] = t[i + 1]
    BY <1>1, <2>1
  <2>3. inner \in Seq(ObjectNames)
    <3> HIDE DEF inner, m
    <3>1. DOMAIN inner = 1 .. Len(inner) /\ Len(inner) \in Nat
      BY <2>2, LenProperties
    <3>2. \A i \in 1 .. Len(inner) : inner[i] \in ObjectNames
      BY <2>1, <3>1 DEF ToSet
    <3>3. inner = [i \in 1 .. Len(inner) |-> inner[i]]
      BY <2>2, <3>1
    <3>4. [i \in 1 .. Len(inner) |-> inner[i]] \in Seq(ObjectNames)
      BY <3>1, <3>2, IsASeq
    <3> QED
      BY <3>3, <3>4
  <2> HIDE DEF inner, m
  <2>4. IsObjectOf(t, inner)
    BY <2>1, <2>3, ObjectIs
  <2>5. t[1] = LB /\ t[(m - 2) + 2] = RB /\ (m - 2) + 2 = m
    BY <1>0, <2>2, <2>4 DEF IsObjectOf
  <2>6. ASSUME NEW i \in 2 .. m - 1 PROVE t[i] \in ObjectNames
    <3>1. i - 1 \in 1 .. m - 2 /\ (i - 1) + 1 = i
      BY <1>0
    <3>2. inner[i - 1] = t[i]
      BY <2>2, <3>1
    <3> QED
      BY <2>2, <2>3, <3>1, <3>2, ElementOfSeq
  <2> QED
    BY <2>1, <2>5, <2>6
<1>3. ASSUME NEW names \in Seq(ObjectNames), IsObjectOf(t, names)
      PROVE  IsObject(t) /\ t # <<>> /\ inner = names
  <2> DEFINE n == Len(names)
  <2>0. n \in Nat /\ DOMAIN names = 1 .. n /\ \A k \in 1 .. n : names[k] \in ObjectNames
    BY LenProperties, ElementOfSeq
  <2>1. m = n + 2 /\ t[1] = LB /\ t[n + 2] = RB /\ \A k \in 1 .. n : t[1 + k] = names[k]
    BY <1>3 DEF IsObjectOf
  <2>2. m >= 2 /\ m - 2 = n
    BY <2>0, <2>1
  <2>3. inner \in Seq(X) /\ Len(inner) = m - 2 /\ \A i \in 1 .. m - 2 : inner[i] = t[i + 1]
    BY <1>1, <2>2
  <2>4. \A i \in 1 .. n : inner[i] = names[i]
    <3>1. \A i \in 1 .. n : 1 + i = i + 1
      BY <2>0
    <3> HIDE DEF inner, n, m
    <3> QED
      BY <2>1, <2>2, <2>3, <3>1
  <2> HIDE DEF inner, n, m
  <2>5. inner = names
    BY <2>0, <2>2, <2>3, <2>4, SeqEqual DEF n
  <2>6. t = Object(names)
    <3> DEFINE o == Object(names)
    <3>1. o \in Seq(ObjectNames \union {LB, RB}) /\ IsObjectOf(o, names)
      BY ObjectIs
    <3> HIDE DEF o
    <3>2. Len(o) = n + 2 /\ o[1] = LB /\ o[n + 2] = RB /\ \A k \in 1 .. n : o[1 + k] = names[k]
      BY <3>1 DEF IsObjectOf, n
    <3>3. ASSUME NEW i \in 1 .. n + 2 PROVE t[i] = o[i]
      <4>1. i = 1 \/ i = n + 2 \/ (i - 1 \in 1 .. n /\ 1 + (i - 1) = i)
        BY <2>0
      <4> QED
        BY <2>1, <3>2, <4>1
    <3>4. t = o
      BY <2>0, <2>1, <3>1, <3>2, <3>3, SeqEqual DEF m
    <3> QED
      BY <3>4 DEF o
  <2>7. ToSet(names) \subseteq ObjectNames
    BY <2>0 DEF ToSet
  <2>8. t # <<>>
    BY <2>0, <2>1, EmptySeq DEF m
  <2> QED
    BY <2>2, <2>5, <2>6, <2>7, <2>8 DEF IsObject, inner, m
<1> HIDE DEF inner
<1> QED
  BY <1>2, <1>3 DEF inner

\* The object with these names stands in s from p to e.
HoldsObject(s, p, e, names) ==
  /\ p \in 1 .. Len(s) /\ e \in 1 .. Len(s) /\ e = p + Len(names) + 1
  /\ s[p] = LB /\ s[e] = RB /\ \A k \in 1 .. Len(names) : s[p + k] = names[k]

LEMMA HeldObject ==
  ASSUME NEW X, NEW s \in Seq(X), NEW names \in Seq(ObjectNames), NEW p, NEW e, HoldsObject(s, p, e, names)
  PROVE  LET t == SubSeq(s, p, e)
         IN t \in Seq(X) /\ IsObject(t) /\ t # <<>> /\ SubSeq(t, 2, Len(t) - 1) = names
              /\ Head(t) = LB
<1> DEFINE t == SubSeq(s, p, e)  n == Len(names)
<1>0. Len(s) \in Nat /\ n \in Nat
  BY LenProperties
<1>1. /\ p \in 1 .. Len(s) /\ e \in 1 .. Len(s) /\ e = p + n + 1 /\ s[p] = LB /\ s[e] = RB
      /\ \A k \in 1 .. n : s[p + k] = names[k]
  BY DEF HoldsObject
<1> HIDE DEF n
<1>2. p \in Int /\ e \in Int /\ 1 <= p /\ p <= e + 1 /\ e <= Len(s) /\ e - p + 1 = n + 2
  BY <1>0, <1>1
<1>3. t \in Seq(X) /\ IsPiece(t, s, p, e)
  BY <1>2, PieceIn
<1> HIDE DEF t
<1>4. Len(t) = n + 2 /\ \A i \in 1 .. n + 2 : t[i] = s[p + i - 1]
  BY <1>2, <1>3 DEF IsPiece
<1>5. t[1] = LB /\ t[n + 2] = RB
  <2>1. 1 \in 1 .. n + 2 /\ n + 2 \in 1 .. n + 2 /\ p + 1 - 1 = p /\ p + (n + 2) - 1 = e
    BY <1>0, <1>1
  <2> QED
    BY <1>1, <1>4, <2>1
<1>6. ASSUME NEW k \in 1 .. n PROVE t[1 + k] = names[k]
  <2>1. 1 + k \in 1 .. n + 2 /\ p + (1 + k) - 1 = p + k
    BY <1>0, <1>1
  <2> QED
    BY <1>1, <1>4, <2>1
<1>7. IsObjectOf(t, names)
  BY <1>4, <1>5, <1>6 DEF IsObjectOf, n
<1>8. IsObject(t) /\ t # <<>> /\ SubSeq(t, 2, Len(t) - 1) = names
  BY <1>3, <1>7, ObjectRead
<1>9. Head(t) = LB
  BY <1>3, <1>5, <1>8, HeadIsFirst
<1> QED
  BY <1>3, <1>8, <1>9 DEF t

\* A stretch that is an object and goes over the opening brace is this one.
LEMMA OtherObject ==
  ASSUME NEW X, NEW s \in Seq(X), NEW names \in Seq(ObjectNames), NEW p, NEW e, HoldsObject(s, p, e, names),
         NEW l \in 1 .. Len(s), NEW r \in 1 .. Len(s), l <= p, p <= r, IsObject(SubSeq(s, l, r))
  PROVE  l = p /\ r = e
<1> DEFINE t == SubSeq(s, l, r)  n == Len(names)
<1>0. Len(s) \in Nat /\ n \in Nat /\ \A k \in 1 .. n : names[k] \in ObjectNames
  BY LenProperties, ElementOfSeq
<1>1. /\ p \in 1 .. Len(s) /\ e \in 1 .. Len(s) /\ e = p + n + 1 /\ s[p] = LB /\ s[e] = RB
      /\ \A k \in 1 .. n : s[p + k] = names[k]
  BY DEF HoldsObject
<1> HIDE DEF n
<1>2. l \in Int /\ r \in Int /\ 1 <= l /\ l <= r + 1 /\ r <= Len(s)
  BY <1>0, <1>1
<1>3. t \in Seq(X) /\ IsPiece(t, s, l, r)
  BY <1>2, PieceIn
<1>4. /\ Len(t) >= 2 /\ t[1] = LB /\ t[Len(t)] = RB
      /\ \A i \in 2 .. Len(t) - 1 : t[i] \in ObjectNames
  BY <1>3, ObjectRead
<1> HIDE DEF t
<1>5. Len(t) = r - l + 1 /\ \A i \in 1 .. r - l + 1 : t[i] = s[l + i - 1]
  BY <1>3 DEF IsPiece
<1>6. s[l] = LB /\ s[r] = RB /\ r > l
  <2>1. 1 \in 1 .. r - l + 1 /\ r - l + 1 \in 1 .. r - l + 1 /\ l + 1 - 1 = l /\ l + (r - l + 1) - 1 = r /\ r > l
    BY <1>0, <1>1, <1>2, <1>4, <1>5
  <2> QED
    BY <1>4, <1>5, <2>1
<1>7. ASSUME NEW i \in l + 1 .. r - 1 PROVE s[i] # LB /\ s[i] # RB
  <2>1. i - l + 1 \in 2 .. Len(t) - 1 /\ i - l + 1 \in 1 .. r - l + 1 /\ l + (i - l + 1) - 1 = i
    BY <1>0, <1>1, <1>2, <1>5
  <2>2. t[i - l + 1] \in ObjectNames /\ t[i - l + 1] = s[i]
    BY <1>4, <1>5, <2>1
  <2> QED
    BY <2>2, BraceFacts
<1>8. l = p
  <2> SUFFICES ASSUME l # p PROVE FALSE
    OBVIOUS
  <2>1. CASE p < r
    <3>1. p \in l + 1 .. r - 1
      BY <1>0, <1>1, <1>2, <2>1
    <3> QED
      BY <1>1, <1>7, <3>1
  <2>2. CASE p = r
    BY <1>1, <1>6, <2>2, BraceFacts
  <2> QED
    BY <1>0, <1>1, <1>2, <2>1, <2>2
<1>9. r = e
  <2>1. CASE e < r
    <3>1. e \in l + 1 .. r - 1
      BY <1>0, <1>1, <1>2, <1>8, <2>1
    <3> QED
      BY <1>1, <1>7, <3>1
  <2>2. CASE r < e
    <3>1. r - p \in 1 .. n /\ p + (r - p) = r
      BY <1>0, <1>1, <1>2, <1>6, <1>8, <2>2
    <3>2. s[r] = names[r - p]
      BY <1>1, <3>1
    <3> QED
      BY <1>0, <1>6, <3>1, <3>2, BraceFacts
  <2> QED
    BY <1>0, <1>1, <1>2, <2>1, <2>2
<1> QED
  BY <1>8, <1>9

LEMMA BracesAre ==
  ASSUME NEW s
  PROVE  BetweenBraces(s) = IF Index(s, LB) > 0 /\ LastIndex(s, RB) > Index(s, LB)
                            THEN SubSeq(s, Index(s, LB), LastIndex(s, RB)) ELSE <<>>
BY Zenon DEF BetweenBraces, LB, RB

\* Between the outermost braces.
LEMMA HeldBetween ==
  ASSUME NEW X, NEW s \in Seq(X), NEW names \in Seq(ObjectNames), NEW p, NEW e, HoldsObject(s, p, e, names),
         \A i \in 1 .. Len(s) : i < p => s[i] # LB,
         \A i \in 1 .. Len(s) : i > e => s[i] # RB
  PROVE  BetweenBraces(s) = SubSeq(s, p, e)
<1>0. Len(s) \in Nat /\ Len(names) \in Nat
  BY LenProperties
<1>1. /\ p \in 1 .. Len(s) /\ e \in 1 .. Len(s) /\ e = p + Len(names) + 1 /\ s[p] = LB /\ s[e] = RB
  BY DEF HoldsObject
<1>2. \A i \in 1 .. Len(s) : s[i] = LB => p <= i
  BY <1>0, <1>1
<1>3. \A i \in 1 .. Len(s) : s[i] = RB => e >= i
  BY <1>0, <1>1
<1>4. Index(s, LB) = p
  BY <1>1, <1>2, IndexIs
<1>5. LastIndex(s, RB) = e
  BY <1>1, <1>3, IndexIs
<1>6. p > 0 /\ e > p
  BY <1>0, <1>1
<1> QED
  BY <1>4, <1>5, <1>6, BracesAre

\* No fence closes one that has a tag.
LEMMA NotInFence ==
  ASSUME NEW X, NEW s \in Seq(X),
         \A i, j \in 1 .. Len(s) :
           s[i] = "fence" /\ i < Len(s) /\ s[i + 1] = "json" /\ s[j] = "fence" => j <= i
  PROVE  ~InTaggedFence(s).found
<1>0. Len(s) \in Nat /\ DOMAIN s = 1 .. Len(s)
  BY LenProperties
<1> DEFINE i == FenceAt(s, TRUE)  rest == From(s, i + 2)
<1>1. InTaggedFence(s).found <=> (i > 0 /\ Contains(rest, "fence"))
  BY DEF InTaggedFence
<1>2. ASSUME i > 0, Contains(rest, "fence") PROVE FALSE
  <2> DEFINE F == Fences(s, TRUE)
  <2>1. F # {}
    <3>1. F = {} => i = 0
      <4>1. Fences(s, TRUE) = {} => FenceAt(s, TRUE) = 0
        BY FenceAtIs
      <4> QED
        BY <4>1
    <3> HIDE DEF F, i
    <3> QED
      BY <1>2, <3>1
  <2>2. \A q \in F : q \in 1 .. Len(s) /\ s[q] = "fence" /\ q < Len(s) /\ s[q + 1] = "json"
    BY <1>0 DEF Fences
  <2>3. F \in SUBSET (1 .. Len(s))
    BY <2>2
  <2> HIDE DEF F
  <2>4. LeastOf(F) \in F /\ \A q \in F : LeastOf(F) <= q
    BY <1>0, <2>1, <2>3, Extremes
  <2>5. i \in F
    BY <2>4, FenceAtIs DEF F
  <2>6. i \in 1 .. Len(s) /\ s[i] = "fence" /\ i < Len(s) /\ s[i + 1] = "json"
    BY <2>2, <2>5
  <2> HIDE DEF i
  <2>7. rest \in Seq(X) /\ IsPiece(rest, s, i + 2, Len(s))
    <3>1. i + 2 \in Int /\ 1 <= i + 2 /\ i + 2 <= Len(s) + 1
      BY <1>0, <2>6
    <3> QED
      BY <1>0, <3>1, PieceIn DEF From
  <2> HIDE DEF rest
  <2>8. PICK k \in 1 .. Len(rest) : rest[k] = "fence"
    BY <1>2 DEF Contains
  <2>9. Len(rest) = Len(s) - (i + 2) + 1 /\ \A m \in 1 .. Len(s) - (i + 2) + 1 : rest[m] = s[(i + 2) + m - 1]
    BY <2>7 DEF IsPiece
  <2>10. (i + 2) + k - 1 \in 1 .. Len(s) /\ (i + 2) + k - 1 > i
    BY <1>0, <2>6, <2>9
  <2>11. s[(i + 2) + k - 1] = "fence"
    BY <2>8, <2>9
  <2>12. ~((i + 2) + k - 1 <= i)
    BY <1>0, <2>6, <2>10
  <2> QED
    BY <2>6, <2>10, <2>11, <2>12
<1> QED
  BY <1>1, <1>2

\* Where fences stand around an object: before it, after it if they are closed.
FencePlace(kind, p, e, i) ==
  \/ kind # "none" /\ i = p - 2
  \/ kind = "plain" /\ i = e + 1
  \/ kind = "tagged" /\ i = e + 2

\* What is in s from p to e has a fence of this kind around it.
Stands(s, p, e) ==
  p \in 1 .. Len(s) /\ e \in 1 .. Len(s) /\ p < e /\ s[p] \notin Blanks /\ s[e] \notin Blanks

Framed(s, kind, p, e) ==
  /\ Stands(s, p, e)
  /\ \A i \in 1 .. Len(s) : s[i] = "fence" <=> FencePlace(kind, p, e, i)
  /\ \A i \in 1 .. Len(s) : s[i] = "json" <=> (kind \in {"tagged", "open"} /\ i = p - 1)
  /\ kind # "none" => p > 2
  /\ kind = "plain" => e + 1 <= Len(s) /\ s[p - 1] = "newline"
  /\ kind = "tagged" => e + 2 <= Len(s) /\ s[e + 1] = "blank"

\* The places that a piece must have for the frame to be in it.
Covers(kind, p, e, c, d) ==
  /\ c <= p /\ e <= d
  /\ kind # "none" => c <= p - 2
  /\ kind = "plain" => e + 1 <= d
  /\ kind = "tagged" => e + 2 <= d

\* No object ends before place p.
NoneBefore(s, p) == \A l, r \in 1 .. Len(s) : r < p => ~IsObject(SubSeq(s, l, r))

NoOpening(s, p) == \A i \in 1 .. Len(s) : i < p => s[i] # LB
NoClosing(s, e) == \A i \in 1 .. Len(s) : i > e => s[i] # RB

LEMMA FramedPiece ==
  ASSUME NEW X, NEW s \in Seq(X), NEW kind \in Kinds, NEW p, NEW e,
         Framed(s, kind, p, e), NEW c \in 1 .. Len(s), NEW d \in 1 .. Len(s),
         Covers(kind, p, e, c, d)
  PROVE  Framed(SubSeq(s, c, d), kind, p - c + 1, e - c + 1)
<1> DEFINE t == SubSeq(s, c, d)  q == p - c + 1  f == e - c + 1
<1>0. Len(s) \in Nat
  BY LenProperties
<1>1. p \in 1 .. Len(s) /\ e \in 1 .. Len(s) /\ p < e /\ s[p] \notin Blanks /\ s[e] \notin Blanks
  BY DEF Stands, Framed
<1>2. c <= p /\ e <= d
  BY DEF Covers
<1>3. c \in Int /\ d \in Int /\ 1 <= c /\ c <= d + 1 /\ d <= Len(s) /\ d - c + 1 \in Nat
  BY <1>0, <1>1, <1>2
<1>4. t \in Seq(X) /\ IsPiece(t, s, c, d)
  BY <1>3, PieceIn
<1> HIDE DEF t
<1>5. Len(t) = d - c + 1 /\ \A i \in 1 .. d - c + 1 : t[i] = s[c + i - 1] /\ c + i - 1 \in 1 .. Len(s)
  <2>1. \A i \in 1 .. d - c + 1 : c + i - 1 \in 1 .. Len(s)
    BY <1>0, <1>3
  <2> QED
    BY <1>4, <2>1 DEF IsPiece
<1> DEFINE m == Len(s)  w == Len(t)
<1>A. /\ p \in Int /\ e \in Int /\ m \in Nat /\ c \in Int /\ d \in Int /\ w = d - c + 1
      /\ 1 <= p /\ e <= m /\ p < e /\ 1 <= c /\ c <= p /\ e <= d /\ d <= m
  BY <1>0, <1>1, <1>2, <1>3, <1>5
<1> HIDE DEF m, w
<1>6. q \in 1 .. w /\ f \in 1 .. w /\ q < f /\ c + q - 1 = p /\ c + f - 1 = e
  BY <1>A
<1> USE DEF w
<1>7. Stands(t, q, f)
  <2> HIDE DEF q, f
  <2>1. t[q] = s[p] /\ t[f] = s[e]
    BY <1>5, <1>6
  <2> QED
    BY <1>1, <1>6, <2>1 DEF Stands
<1>8. ASSUME NEW i \in 1 .. Len(t) PROVE t[i] = "fence" <=> FencePlace(kind, q, f, i)
  <2>1. t[i] = s[c + i - 1] /\ c + i - 1 \in 1 .. Len(s)
    BY <1>5
  <2>2. s[c + i - 1] = "fence" <=> FencePlace(kind, p, e, c + i - 1)
    BY <2>1 DEF Framed
  <2>3. /\ c + i - 1 = p - 2 <=> i = q - 2
        /\ c + i - 1 = e + 1 <=> i = f + 1
        /\ c + i - 1 = e + 2 <=> i = f + 2
    <3>1. i \in Int
      BY <1>5
    <3> QED
      BY <1>A, <3>1
  <2> HIDE DEF q, f
  <2>4. FencePlace(kind, p, e, c + i - 1) <=> FencePlace(kind, q, f, i)
    BY <2>3 DEF FencePlace
  <2> QED
    BY <2>1, <2>2, <2>4
<1>9. ASSUME NEW i \in 1 .. Len(t) PROVE t[i] = "json" <=> (kind \in {"tagged", "open"} /\ i = q - 1)
  <2>1. t[i] = s[c + i - 1] /\ c + i - 1 \in 1 .. Len(s)
    BY <1>5
  <2>2. s[c + i - 1] = "json" <=> (kind \in {"tagged", "open"} /\ c + i - 1 = p - 1)
    BY <2>1 DEF Framed
  <2>3. c + i - 1 = p - 1 <=> i = q - 1
    BY <1>1, <1>3, <1>5
  <2> HIDE DEF q, f
  <2> QED
    BY <2>1, <2>2, <2>3
<1>10. ASSUME kind # "none" PROVE q > 2
  <2>1. c <= p - 2
    BY <1>10 DEF Covers
  <2> QED
    BY <1>1, <1>3, <2>1
<1>11. ASSUME kind = "plain" PROVE f + 1 <= Len(t) /\ t[q - 1] = "newline"
  <2>1. c <= p - 2 /\ e + 1 <= d /\ s[p - 1] = "newline"
    BY <1>11 DEF Covers, Framed
  <2>2. f + 1 <= Len(t) /\ q - 1 \in 1 .. d - c + 1 /\ c + (q - 1) - 1 = p - 1
    <3> HIDE DEF w
    <3>1. f + 1 <= w /\ q - 1 \in 1 .. d - c + 1 /\ c + (q - 1) - 1 = p - 1
      BY <1>A, <2>1
    <3> QED
      BY <3>1 DEF w
  <2> HIDE DEF q, f
  <2> QED
    BY <1>5, <2>1, <2>2
<1>12. ASSUME kind = "tagged" PROVE f + 2 <= Len(t) /\ t[f + 1] = "blank"
  <2>1. e + 2 <= d /\ s[e + 1] = "blank"
    BY <1>12 DEF Covers, Framed
  <2>2. f + 2 <= Len(t) /\ f + 1 \in 1 .. d - c + 1 /\ c + (f + 1) - 1 = e + 1
    <3> HIDE DEF w
    <3>1. f + 2 <= w /\ f + 1 \in 1 .. d - c + 1 /\ c + (f + 1) - 1 = e + 1
      BY <1>A, <2>1
    <3> QED
      BY <3>1 DEF w
  <2> HIDE DEF q, f
  <2> QED
    BY <1>5, <2>1, <2>2
<1> HIDE DEF q, f
<1>13. Framed(t, kind, q, f)
  BY <1>7, <1>8, <1>9, <1>10, <1>11, <1>12 DEF Framed
<1> QED
  BY <1>13 DEF t, q, f

LEMMA HeldPiece ==
  ASSUME NEW X, NEW s \in Seq(X), NEW names \in Seq(ObjectNames), NEW p, NEW e, HoldsObject(s, p, e, names),
         NEW c \in 1 .. Len(s), NEW d \in 1 .. Len(s), c <= p, e <= d
  PROVE  HoldsObject(SubSeq(s, c, d), p - c + 1, e - c + 1, names)
<1> DEFINE t == SubSeq(s, c, d)  n == Len(names)  q == p - c + 1  f == e - c + 1
<1>0. Len(s) \in Nat /\ n \in Nat
  BY LenProperties
<1>1. /\ p \in 1 .. Len(s) /\ e \in 1 .. Len(s) /\ e = p + n + 1 /\ s[p] = LB /\ s[e] = RB
      /\ \A k \in 1 .. n : s[p + k] = names[k]
  BY DEF HoldsObject
<1> HIDE DEF n
<1>2. c \in Int /\ d \in Int /\ 1 <= c /\ c <= d + 1 /\ d <= Len(s)
  BY <1>0, <1>1
<1>3. IsPiece(t, s, c, d)
  BY <1>2, PieceIn
<1> HIDE DEF t
<1>4. Len(t) = d - c + 1 /\ \A i \in 1 .. d - c + 1 : t[i] = s[c + i - 1]
  BY <1>3 DEF IsPiece
<1>5. q \in 1 .. Len(t) /\ f \in 1 .. Len(t) /\ f = q + n + 1 /\ c + q - 1 = p /\ c + f - 1 = e
  BY <1>0, <1>1, <1>2, <1>4
<1>6. ASSUME NEW k \in 1 .. n PROVE t[q + k] = names[k]
  <2>1. q + k \in 1 .. d - c + 1 /\ c + (q + k) - 1 = p + k
    BY <1>0, <1>1, <1>2
  <2> QED
    BY <1>1, <1>4, <2>1
<1> HIDE DEF q, f
<1>7. t[q] = LB /\ t[f] = RB
  BY <1>1, <1>4, <1>5
<1>8. HoldsObject(t, q, f, names)
  BY <1>5, <1>6, <1>7 DEF HoldsObject, n
<1> QED
  BY <1>8 DEF t, q, f

\* What else a piece inherits.
LEMMA BeforePiece ==
  ASSUME NEW X, NEW s \in Seq(X), NEW p \in Int, NEW e \in Int,
         NEW c \in 1 .. Len(s), NEW d \in 1 .. Len(s), c <= d + 1
  PROVE  /\ NoneBefore(s, p) => NoneBefore(SubSeq(s, c, d), p - c + 1)
         /\ NoOpening(s, p) => NoOpening(SubSeq(s, c, d), p - c + 1)
         /\ NoClosing(s, e) => NoClosing(SubSeq(s, c, d), e - c + 1)
<1> DEFINE t == SubSeq(s, c, d)
<1>0. Len(s) \in Nat
  BY LenProperties
<1>3. c \in Int /\ d \in Int /\ 1 <= c /\ c <= d + 1 /\ d <= Len(s) /\ d - c + 1 \in Nat
  BY <1>0
<1>4. t \in Seq(X) /\ IsPiece(t, s, c, d)
  BY <1>3, PieceIn
<1>5. Len(t) = d - c + 1 /\ \A i \in 1 .. d - c + 1 : t[i] = s[c + i - 1] /\ c + i - 1 \in 1 .. Len(s)
  <2>1. \A i \in 1 .. d - c + 1 : c + i - 1 \in 1 .. Len(s)
    BY <1>0, <1>3
  <2> HIDE DEF t
  <2> QED
    BY <1>4, <2>1 DEF IsPiece
<1>6. ASSUME NoneBefore(s, p) PROVE NoneBefore(t, p - c + 1)
  <2> SUFFICES ASSUME NEW l \in 1 .. Len(t), NEW r \in 1 .. Len(t), r < p - c + 1, IsObject(SubSeq(t, l, r))
               PROVE  FALSE
    BY DEF NoneBefore
  <2>0. l \in 1 .. d - c + 1 /\ r \in 1 .. d - c + 1
    BY <1>5
  <2>1. l <= r + 1
    <3> SUFFICES ASSUME l > r + 1 PROVE FALSE
      BY <2>0
    <3>1. SubSeq(t, l, r) = <<>>
      BY <1>4, <2>0, SubSeqProperties, EmptySeq
    <3>2. Len(SubSeq(t, l, r)) >= 2
      BY DEF IsObject
    <3>3. Len(<<>>) = 0
      BY EmptySeq
    <3> QED
      BY <3>1, <3>2, <3>3
  <2>2. SubSeq(t, l, r) = SubSeq(s, c + l - 1, c + r - 1)
    BY <1>3, <2>0, <2>1, PieceOfPiece
  <2>3. c + l - 1 \in 1 .. Len(s) /\ c + r - 1 \in 1 .. Len(s) /\ c + r - 1 < p
    BY <1>0, <1>3, <2>0
  <2> QED
    BY <1>6, <2>2, <2>3 DEF NoneBefore
<1> HIDE DEF t
<1>7. ASSUME NoOpening(s, p) PROVE NoOpening(t, p - c + 1)
  <2> SUFFICES ASSUME NEW i \in 1 .. Len(t), i < p - c + 1 PROVE t[i] # LB
    BY DEF NoOpening
  <2>1. c + i - 1 < p
    BY <1>3, <1>5
  <2> QED
    BY <1>5, <1>7, <2>1 DEF NoOpening
<1>8. ASSUME NoClosing(s, e) PROVE NoClosing(t, e - c + 1)
  <2> SUFFICES ASSUME NEW i \in 1 .. Len(t), i > e - c + 1 PROVE t[i] # RB
    BY DEF NoClosing
  <2>1. c + i - 1 > e
    BY <1>3, <1>5
  <2> QED
    BY <1>5, <1>8, <2>1 DEF NoClosing
<1> QED
  BY <1>6, <1>7, <1>8 DEF t

\* Blanks around it go, the frame stays.
LEMMA FramedTrimmed ==
  ASSUME NEW X, NEW s \in Seq(X), NEW kind \in Kinds, NEW p, NEW e,
         Framed(s, kind, p, e)
  PROVE  \E c, d \in 1 .. Len(s) :
           /\ c <= d /\ TrimSpace(s) = SubSeq(s, c, d)
           /\ c <= p /\ e <= d /\ Framed(SubSeq(s, c, d), kind, p - c + 1, e - c + 1)
<1>0. Len(s) \in Nat
  BY LenProperties
<1>1. p \in 1 .. Len(s) /\ e \in 1 .. Len(s)
  BY DEF Stands, Framed
<1>2. s[p] \notin Blanks /\ s[e] \notin Blanks
  BY DEF Stands, Framed
<1>3. PICK c, d \in 1 .. Len(s) :
           /\ c <= d /\ s[c] \notin Blanks /\ s[d] \notin Blanks /\ TrimSpace(s) = SubSeq(s, c, d)
           /\ \A i \in 1 .. Len(s) : s[i] \notin Blanks => c <= i /\ i <= d
  BY <1>1, <1>2, TrimCuts
<1>4. ASSUME NEW i \in 1 .. Len(s), FencePlace(kind, p, e, i) PROVE c <= i /\ i <= d
  <2>1. s[i] = "fence"
    BY <1>4 DEF Framed
  <2>2. s[i] \notin Blanks
    BY <2>1 DEF Blanks
  <2> QED
    BY <1>3, <2>2
<1>5. Covers(kind, p, e, c, d)
  <2>1. c <= p /\ e <= d
    BY <1>1, <1>2, <1>3
  <2>2. ASSUME kind # "none" PROVE c <= p - 2
    <3>1. p > 2
      BY <2>2 DEF Framed
    <3>2. p - 2 \in 1 .. Len(s)
      BY <1>0, <1>1, <3>1
    <3> QED
      BY <1>4, <2>2, <3>2 DEF FencePlace
  <2>3. ASSUME kind = "plain" PROVE e + 1 <= d
    <3>1. e + 1 <= Len(s)
      BY <2>3 DEF Framed
    <3>2. e + 1 \in 1 .. Len(s)
      BY <1>0, <1>1, <3>1
    <3> QED
      BY <1>4, <2>3, <3>2 DEF FencePlace
  <2>4. ASSUME kind = "tagged" PROVE e + 2 <= d
    <3>1. e + 2 <= Len(s)
      BY <2>4 DEF Framed
    <3>2. e + 2 \in 1 .. Len(s)
      BY <1>0, <1>1, <3>1
    <3> QED
      BY <1>4, <2>4, <3>2 DEF FencePlace
  <2> QED
    BY <2>1, <2>2, <2>3, <2>4 DEF Covers
<1>6. c <= p /\ e <= d
  BY <1>5 DEF Covers
<1>7. Framed(SubSeq(s, c, d), kind, p - c + 1, e - c + 1)
  BY <1>5, FramedPiece
<1> QED
  BY <1>3, <1>6, <1>7

FrameFacts(s, kind, p, e) ==
  /\ Len(s) \in Nat /\ DOMAIN s = 1 .. Len(s)
  /\ p \in 1 .. Len(s) /\ e \in 1 .. Len(s) /\ p < e /\ s[p] \notin Blanks /\ s[e] \notin Blanks
  /\ kind # "none" => p - 2 \in 1 .. Len(s) /\ s[p - 2] = "fence"
  /\ kind = "plain" => e + 1 \in 1 .. Len(s) /\ s[e + 1] = "fence" /\ s[p - 1] = "newline"
  /\ kind = "tagged" => /\ e + 2 \in 1 .. Len(s) /\ s[e + 2] = "fence" /\ s[e + 1] = "blank"
                        /\ s[p - 1] = "json"

LEMMA FramesHave ==
  ASSUME NEW X, NEW s \in Seq(X), NEW kind \in Kinds, NEW p, NEW e,
         Framed(s, kind, p, e)
  PROVE  FrameFacts(s, kind, p, e)
<1>0. Len(s) \in Nat /\ DOMAIN s = 1 .. Len(s)
  BY LenProperties
<1>1. p \in 1 .. Len(s) /\ e \in 1 .. Len(s) /\ s[p] \notin Blanks /\ s[e] \notin Blanks
  BY DEF Stands, Framed
<1>2. p < e
  BY DEF Stands, Framed
<1>3. ASSUME kind # "none" PROVE p - 2 \in 1 .. Len(s) /\ s[p - 2] = "fence"
  <2>1. p > 2
    BY <1>3 DEF Framed
  <2>2. p - 2 \in 1 .. Len(s)
    BY <1>0, <1>1, <2>1
  <2>3. FencePlace(kind, p, e, p - 2)
    BY <1>3 DEF FencePlace
  <2> QED
    BY <2>2, <2>3 DEF Framed
<1>4. ASSUME kind = "plain" PROVE e + 1 \in 1 .. Len(s) /\ s[e + 1] = "fence" /\ s[p - 1] = "newline"
  <2>1. e + 1 <= Len(s) /\ s[p - 1] = "newline"
    BY <1>4 DEF Framed
  <2>2. e + 1 \in 1 .. Len(s)
    BY <1>0, <1>1, <2>1
  <2>3. FencePlace(kind, p, e, e + 1)
    BY <1>4 DEF FencePlace
  <2> QED
    BY <2>1, <2>2, <2>3 DEF Framed
<1>5. ASSUME kind = "tagged"
      PROVE  e + 2 \in 1 .. Len(s) /\ s[e + 2] = "fence" /\ s[e + 1] = "blank" /\ s[p - 1] = "json"
  <2>1. e + 2 <= Len(s) /\ s[e + 1] = "blank" /\ p > 2
    BY <1>5 DEF Framed
  <2>2. e + 2 \in 1 .. Len(s) /\ p - 1 \in 1 .. Len(s)
    BY <1>0, <1>1, <2>1
  <2>3. FencePlace(kind, p, e, e + 2)
    BY <1>5 DEF FencePlace
  <2>4. s[p - 1] = "json"
    BY <1>5, <2>2 DEF Framed
  <2> QED
    BY <2>1, <2>2, <2>3, <2>4 DEF Framed
<1> QED
  BY <1>0, <1>1, <1>2, <1>3, <1>4, <1>5 DEF FrameFacts

\* The first fence is the one before the object.
LEMMA FirstFence ==
  ASSUME NEW X, NEW s \in Seq(X), NEW kind \in Kinds, NEW p, NEW e,
         Framed(s, kind, p, e)
  PROVE  /\ kind = "none" => FenceAt(s, FALSE) = 0
         /\ kind # "none" => FenceAt(s, FALSE) = p - 2
         /\ kind = "tagged" => FenceAt(s, TRUE) = p - 2
<1>1. FrameFacts(s, kind, p, e)
  BY FramesHave
<1> DEFINE m == Len(s)
<1>2. /\ m \in Nat /\ DOMAIN s = 1 .. m /\ p \in 1 .. m /\ e \in 1 .. m /\ p < e
  BY <1>1 DEF FrameFacts
<1>3. \A i \in 1 .. m : s[i] = "fence" <=> FencePlace(kind, p, e, i)
  BY DEF Framed
<1> HIDE DEF m
<1>4. ASSUME NEW i \in 1 .. m, s[i] = "fence" PROVE kind # "none" /\ p - 2 <= i
  BY <1>2, <1>3, <1>4 DEF FencePlace
<1>5. ASSUME kind = "none" PROVE FenceAt(s, FALSE) = 0
  <2>1. Fences(s, FALSE) = {}
    BY <1>2, <1>4, <1>5 DEF Fences
  <2> QED
    BY <2>1, FenceAtIs
<1>6. ASSUME kind # "none" PROVE FenceAt(s, FALSE) = p - 2
  <2>1. p - 2 \in 1 .. m /\ s[p - 2] = "fence"
    BY <1>1, <1>6 DEF FrameFacts, m
  <2>2. p - 2 \in Fences(s, FALSE)
    BY <1>2, <2>1 DEF Fences
  <2>3. \A i \in Fences(s, FALSE) : p - 2 <= i
    BY <1>2, <1>4 DEF Fences
  <2>4. \A q \in Fences(s, FALSE) : (\A i \in Fences(s, FALSE) : q <= i) => FenceAt(s, FALSE) = q
    BY FenceAtIs
  <2> QED
    BY <2>2, <2>3, <2>4
<1>7. ASSUME kind = "tagged" PROVE FenceAt(s, TRUE) = p - 2
  <2>1. p - 2 \in 1 .. m /\ s[p - 2] = "fence" /\ s[p - 1] = "json"
    BY <1>1, <1>7 DEF FrameFacts, m
  <2>2. p - 2 \in Fences(s, TRUE)
    <3>1. (p - 2) + 1 = p - 1 /\ p - 2 < m
      BY <1>2
    <3> QED
      BY <1>2, <2>1, <3>1 DEF Fences, m
  <2>3. \A i \in Fences(s, TRUE) : p - 2 <= i
    BY <1>2, <1>4 DEF Fences
  <2>4. \A q \in Fences(s, TRUE) : (\A i \in Fences(s, TRUE) : q <= i) => FenceAt(s, TRUE) = q
    BY FenceAtIs
  <2> QED
    BY <2>2, <2>3, <2>4
<1> QED
  BY <1>5, <1>6, <1>7

\* From place a on, and what is up to place b of that, trimmed, when there are
\* only blanks around what stands from p to e.
LEMMA HeldTrimmed ==
  ASSUME NEW X, NEW s \in Seq(X), NEW p \in 1 .. Len(s), NEW e \in 1 .. Len(s), p < e, s[p] \notin Blanks,
         s[e] \notin Blanks,
         NEW a \in 1 .. Len(s), NEW b \in 1 .. Len(s), a <= p, e <= b,
         \A i \in a .. b : i < p \/ i > e => s[i] \in Blanks,
         NEW rest, rest = From(s, a), NEW k, k = b - a + 2
  PROVE  TrimSpace(Before(rest, k)) = SubSeq(s, p, e)
<1>0. Len(s) \in Nat
  BY LenProperties
<1> DEFINE m == Len(s)
<1>A. /\ m \in Nat /\ p \in Int /\ e \in Int /\ a \in Int /\ b \in Int
      /\ 1 <= a /\ a <= p /\ p < e /\ e <= b /\ b <= m
  BY <1>0
<1> HIDE DEF m
<1>1. Before(rest, k) = SubSeq(s, a, b)
  <2>1. rest = SubSeq(s, a, m) /\ Before(rest, k) = SubSeq(rest, 1, k - 1)
    BY DEF From, Before, m
  <2>2. k - 1 = b - a + 1 /\ 1 <= (b - a + 1) + 1 /\ b - a + 1 <= m - a + 1
        /\ a + 1 - 1 = a /\ a + (b - a + 1) - 1 = b /\ b - a + 1 \in Int /\ a <= m + 1
    BY <1>A
  <2>3. m \in Int /\ m <= Len(s) /\ 1 <= a /\ 1 \in Int /\ 1 <= 1
    BY <1>A DEF m
  <2>4. SubSeq(SubSeq(s, a, m), 1, b - a + 1) = SubSeq(s, a + 1 - 1, a + (b - a + 1) - 1)
    BY <2>2, <2>3, <1>A, PieceOfPiece
  <2> QED
    BY <2>1, <2>2, <2>4
<1> DEFINE t == SubSeq(s, a, b)  x == p - a + 1  y == e - a + 1
<1>2. t \in Seq(X) /\ IsPiece(t, s, a, b)
  <2>1. a <= b + 1 /\ b <= Len(s)
    BY <1>A DEF m
  <2> QED
    BY <1>A, <2>1, PieceIn
<1> HIDE DEF t
<1>3. Len(t) = b - a + 1 /\ \A i \in 1 .. b - a + 1 : t[i] = s[a + i - 1]
  BY <1>2 DEF IsPiece
<1>4. /\ x \in 1 .. b - a + 1 /\ y \in 1 .. b - a + 1 /\ a + x - 1 = p /\ a + y - 1 = e
  BY <1>A
<1>5. t[x] = s[p] /\ t[y] = s[e]
  <2> HIDE DEF x, y
  <2> QED
    BY <1>3, <1>4
<1>6. t[x] \notin Blanks /\ t[y] \notin Blanks
  BY <1>5
<1>7. ASSUME NEW i \in 1 .. Len(t), t[i] \notin Blanks PROVE x <= i /\ i <= y
  <2>1. a + i - 1 \in a .. b /\ i \in Int /\ t[i] = s[a + i - 1]
    BY <1>3, <1>A
  <2>2. ~(a + i - 1 < p) /\ ~(a + i - 1 > e)
    BY <1>7, <2>1
  <2> QED
    BY <1>A, <2>1, <2>2
<1>8. TrimSpace(t) = SubSeq(t, x, y)
  <2> HIDE DEF x, y
  <2> QED
    BY <1>2, <1>3, <1>4, <1>6, <1>7, TrimIs
<1>9. SubSeq(t, x, y) = SubSeq(s, p, e)
  <2>1. 1 <= x /\ x <= y + 1 /\ y <= b - a + 1 /\ x \in Int /\ y \in Int /\ a <= b + 1 /\ b <= Len(s) /\ 1 <= a
    BY <1>A DEF m
  <2> HIDE DEF x, y
  <2>2. SubSeq(SubSeq(s, a, b), x, y) = SubSeq(s, a + x - 1, a + y - 1)
    BY <1>A, <2>1, PieceOfPiece
  <2> QED
    BY <1>4, <2>2 DEF t
<1> QED
  BY <1>1, <1>8, <1>9 DEF t

\* Where a fence is looked for behind place a.
LEMMA FenceBehind ==
  ASSUME NEW X, NEW s \in Seq(X), NEW a \in 1 .. Len(s), NEW f \in 1 .. Len(s), a <= f, s[f] = "fence",
         \A i \in a .. Len(s) : s[i] = "fence" => i = f,
         NEW rest, rest = From(s, a)
  PROVE  Contains(rest, "fence") /\ Index(rest, "fence") = f - a + 1 /\ LastIndex(rest, "fence") = f - a + 1
<1>0. Len(s) \in Nat
  BY LenProperties
<1> DEFINE m == Len(s)  k == f - a + 1
<1>A. /\ m \in Nat /\ f \in Int /\ a \in Int /\ 1 <= a /\ a <= f /\ f <= m
  BY <1>0
<1>1. rest \in Seq(X) /\ IsPiece(rest, s, a, m)
  <2>1. a <= m + 1 /\ m <= Len(s) /\ m \in Int
    BY <1>A
  <2> QED
    BY <1>A, <2>1, PieceIn DEF From
<1>2. Len(rest) = m - a + 1 /\ \A i \in 1 .. m - a + 1 : rest[i] = s[a + i - 1]
  BY <1>1 DEF IsPiece
<1> HIDE DEF m
<1>3. k \in 1 .. Len(rest) /\ a + k - 1 = f
  BY <1>A, <1>2
<1>4. rest[k] = "fence"
  <2> HIDE DEF k
  <2> QED
    BY <1>2, <1>3
<1>5. ASSUME NEW i \in 1 .. Len(rest), rest[i] = "fence" PROVE i = k
  <2>1. a + i - 1 \in a .. m /\ i \in Int /\ rest[i] = s[a + i - 1]
    BY <1>2, <1>A
  <2>2. a + i - 1 = f
    BY <1>5, <2>1 DEF m
  <2> QED
    BY <1>A, <2>1, <2>2
<1> HIDE DEF k
<1>6. k \in Int
  BY <1>3
<1>7. Index(rest, "fence") = k /\ LastIndex(rest, "fence") = k
  <2>1. \A i \in 1 .. Len(rest) : rest[i] = "fence" => k <= i /\ k >= i
    BY <1>5, <1>6
  <2>2. rest \in Seq(X) /\ k \in 1 .. Len(rest)
    BY <1>1, <1>3
  <2>3. Index(rest, "fence") = k
    BY <1>4, <2>1, <2>2, IndexIs
  <2>4. LastIndex(rest, "fence") = k
    BY <1>4, <2>1, <2>2, IndexIs
  <2> QED
    BY <2>3, <2>4
<1> QED
  BY <1>3, <1>4, <1>7 DEF Contains, k

\* A fence with a tag holds what it is around.
LEMMA TaggedHolds ==
  ASSUME NEW X, NEW s \in Seq(X), NEW p, NEW e,
         Framed(s, "tagged", p, e)
  PROVE  InTaggedFence(s).found /\ InTaggedFence(s).text = SubSeq(s, p, e)
<1> DEFINE rest == From(s, p)  k == Index(rest, "fence")
<1>0. "tagged" \in Kinds /\ "tagged" # "none"
  BY DEF Kinds
<1>1. FrameFacts(s, "tagged", p, e)
  BY <1>0, FramesHave
<1>2. /\ Len(s) \in Nat /\ p \in 1 .. Len(s) /\ e \in 1 .. Len(s) /\ p < e /\ s[p] \notin Blanks /\ s[e] \notin Blanks
      /\ p - 2 \in 1 .. Len(s) /\ e + 2 \in 1 .. Len(s) /\ s[e + 2] = "fence" /\ s[e + 1] = "blank"
  BY <1>0, <1>1 DEF FrameFacts
<1>3. FenceAt(s, TRUE) = p - 2
  BY <1>0, FirstFence
<1>4. ASSUME NEW i \in p .. Len(s), s[i] = "fence" PROVE i = e + 2
  <2>1. i \in 1 .. Len(s) /\ i # p - 2
    BY <1>2
  <2>2. FencePlace("tagged", p, e, i)
    BY <1>4, <2>1 DEF Framed
  <2> QED
    BY <2>1, <2>2 DEF FencePlace
<1>5. Contains(rest, "fence") /\ k = (e + 2) - p + 1
  <2>1. p <= e + 2
    BY <1>2
  <2> QED
    BY <1>2, <1>4, <2>1, FenceBehind
<1>6. TrimSpace(Before(rest, k)) = SubSeq(s, p, e)
  <2>1. e + 1 \in 1 .. Len(s) /\ e <= e + 1 /\ p <= p /\ (e + 2) - p + 1 = (e + 1) - p + 2
    BY <1>2
  <2>2. ASSUME NEW i \in p .. e + 1, i < p \/ i > e PROVE s[i] \in Blanks
    <3>1. i = e + 1
      BY <1>2, <2>2
    <3> QED
      BY <1>2, <3>1 DEF Blanks
  <2> DEFINE b == e + 1
  <2>3. b \in 1 .. Len(s) /\ e <= b /\ k = b - p + 2 /\ \A i \in p .. b : i < p \/ i > e => s[i] \in Blanks
    BY <1>5, <2>1, <2>2
  <2> HIDE DEF b, k, rest
  <2>4. rest = From(s, p)
    BY DEF rest
  <2>5. p \in 1 .. Len(s) /\ e \in 1 .. Len(s) /\ p < e /\ s[p] \notin Blanks /\ s[e] \notin Blanks /\ p <= p
    BY <1>2, <2>1
  <2> QED
    BY <2>3, <2>4, <2>5, HeldTrimmed
<1>7. (p - 2) + 2 = p /\ p - 2 > 0
  BY <1>2
<1> DEFINE i == FenceAt(s, TRUE)
<1>8. From(s, i + 2) = rest
  BY <1>3, <1>7
<1>9. /\ InTaggedFence(s).found <=> (i > 0 /\ Contains(From(s, i + 2), "fence"))
      /\ InTaggedFence(s).text = TrimSpace(Before(From(s, i + 2), Index(From(s, i + 2), "fence")))
  BY DEF InTaggedFence
<1> HIDE DEF rest, i
<1>10. i > 0
  BY <1>3, <1>7 DEF i
<1> QED
  BY <1>5, <1>6, <1>8, <1>9, <1>10

\* No other frame is taken for one.
LEMMA NotTagged ==
  ASSUME NEW X, NEW s \in Seq(X), NEW kind \in Kinds \ {"tagged"}, NEW p, NEW e,
         Framed(s, kind, p, e)
  PROVE  ~InTaggedFence(s).found
<1>0. kind \in Kinds
  OBVIOUS
<1>1. FrameFacts(s, kind, p, e)
  BY <1>0, FramesHave
<1>2. /\ Len(s) \in Nat /\ p \in 1 .. Len(s) /\ e \in 1 .. Len(s) /\ p < e
  BY <1>1 DEF FrameFacts
<1>3. ASSUME NEW i \in 1 .. Len(s), NEW j \in 1 .. Len(s),
             s[i] = "fence", i < Len(s), s[i + 1] = "json", s[j] = "fence"
      PROVE  j <= i
  <2>1. i + 1 \in 1 .. Len(s)
    BY <1>2, <1>3
  <2>2. kind \in {"tagged", "open"}
    BY <1>3, <2>1 DEF Framed
  <2>3. kind = "open"
    BY <2>2
  <2>4. FencePlace(kind, p, e, i) /\ FencePlace(kind, p, e, j)
    BY <1>3 DEF Framed
  <2>5. i = p - 2 /\ j = p - 2
    BY <2>3, <2>4 DEF FencePlace
  <2> QED
    BY <1>2, <2>5
<1> QED
  BY <1>3, NotInFence

\* Of an open or a missing fence none is closed.
LEMMA NoFenceBehind ==
  ASSUME NEW X, NEW s \in Seq(X), NEW kind \in {"none", "open"}, NEW p, NEW e,
         Framed(s, kind, p, e)
  PROVE  ~(FenceAt(s, FALSE) > 0 /\ Contains(From(s, FenceAt(s, FALSE) + 1), "fence"))
<1>0. kind \in Kinds
  BY DEF Kinds
<1>1. FrameFacts(s, kind, p, e)
  BY <1>0, FramesHave
<1>2. /\ Len(s) \in Nat /\ p \in 1 .. Len(s) /\ e \in 1 .. Len(s) /\ p < e
  BY <1>1 DEF FrameFacts
<1>3. CASE kind = "none"
  <2> DEFINE f == FenceAt(s, FALSE)
  <2>1. f = 0
    BY <1>0, <1>3, FirstFence
  <2> HIDE DEF f
  <2>2. ~(f > 0 /\ Contains(From(s, f + 1), "fence"))
    BY <2>1
  <2> QED
    BY <2>2 DEF f
<1>4. CASE kind = "open"
  <2> DEFINE a == p - 1  rest == From(s, a)
  <2>0. p - 2 \in 1 .. Len(s)
    BY <1>1, <1>4 DEF FrameFacts
  <2>1. FenceAt(s, FALSE) + 1 = a
    <3> DEFINE f == FenceAt(s, FALSE)
    <3>1. kind # "none"
      BY <1>4
    <3>2. f = p - 2
      BY <1>0, <3>1, FirstFence
    <3> HIDE DEF f
    <3>3. f + 1 = a
      BY <1>2, <3>2
    <3> QED
      BY <3>3 DEF f
  <2>2. rest \in Seq(X) /\ IsPiece(rest, s, a, Len(s))
    <3>1. a \in Int /\ 1 <= a /\ a <= Len(s) + 1 /\ Len(s) \in Int /\ Len(s) <= Len(s)
      BY <1>2, <2>0
    <3> HIDE DEF a
    <3> QED
      BY <3>1, PieceIn DEF From
  <2> HIDE DEF rest
  <2>3. SUFFICES ASSUME Contains(rest, "fence") PROVE FALSE
    BY <2>1 DEF rest
  <2>4. PICK k \in 1 .. Len(rest) : rest[k] = "fence"
    BY <2>3 DEF Contains
  <2>5. Len(rest) = Len(s) - a + 1 /\ rest[k] = s[a + k - 1]
    <3>1. Len(rest) = Len(s) - a + 1 /\ \A i \in 1 .. Len(s) - a + 1 : rest[i] = s[a + i - 1]
      BY <2>2 DEF IsPiece
    <3> HIDE DEF a
    <3> QED
      BY <3>1
  <2>6. a + k - 1 \in 1 .. Len(s) /\ a + k - 1 # p - 2
    BY <1>2, <2>0, <2>5
  <2>7. FencePlace(kind, p, e, a + k - 1)
    BY <2>4, <2>5, <2>6 DEF Framed
  <2> QED
    BY <1>4, <2>6, <2>7 DEF FencePlace
<1> QED
  BY <1>3, <1>4

\* The planner takes the object out of a fence without a tag.
LEMMA PlainHolds ==
  ASSUME NEW X, NEW s \in Seq(X), NEW p, NEW e,
         Framed(s, "plain", p, e)
  PROVE  LET rest == From(s, FenceAt(s, FALSE) + 1) IN
         /\ FenceAt(s, FALSE) > 0 /\ Contains(rest, "fence")
         /\ TrimSpace(Before(rest, LastIndex(rest, "fence"))) = SubSeq(s, p, e)
<1> DEFINE a == p - 1  rest == From(s, a)  k == LastIndex(rest, "fence")
<1>0. "plain" \in Kinds /\ "plain" # "none"
  BY DEF Kinds
<1>1. FrameFacts(s, "plain", p, e)
  BY <1>0, FramesHave
<1>2. /\ Len(s) \in Nat /\ p \in 1 .. Len(s) /\ e \in 1 .. Len(s) /\ p < e /\ s[p] \notin Blanks /\ s[e] \notin Blanks
      /\ p - 2 \in 1 .. Len(s) /\ e + 1 \in 1 .. Len(s) /\ s[e + 1] = "fence" /\ s[p - 1] = "newline"
  BY <1>0, <1>1 DEF FrameFacts
<1>3. FenceAt(s, FALSE) = p - 2
  BY <1>0, FirstFence
<1>4. ASSUME NEW i \in a .. Len(s), s[i] = "fence" PROVE i = e + 1
  <2>1. i \in 1 .. Len(s) /\ i # p - 2
    BY <1>2
  <2>2. FencePlace("plain", p, e, i)
    BY <1>4, <2>1 DEF Framed
  <2> QED
    BY <2>1, <2>2 DEF FencePlace
<1>5. a \in 1 .. Len(s) /\ a <= p /\ a <= e + 1 /\ (e + 1) - a + 1 = e - a + 2 /\ e <= e /\ (p - 2) + 1 = a
      /\ p - 2 > 0
  BY <1>2
<1>6. ASSUME NEW i \in a .. e, i < p \/ i > e PROVE s[i] \in Blanks
  <2>1. i = p - 1
    BY <1>2, <1>6
  <2> QED
    BY <1>2, <2>1 DEF Blanks
<1> HIDE DEF a
<1>7. Contains(rest, "fence") /\ k = (e + 1) - a + 1
  BY <1>2, <1>4, <1>5, FenceBehind
<1>8. TrimSpace(Before(rest, k)) = SubSeq(s, p, e)
  <2> HIDE DEF k, rest
  <2>1. rest = From(s, a) /\ k = e - a + 2
    BY <1>5, <1>7 DEF rest
  <2> QED
    BY <1>2, <1>5, <1>6, <2>1, HeldTrimmed
<1>9. From(s, FenceAt(s, FALSE) + 1) = rest
  BY <1>3, <1>5
<1> HIDE DEF rest
<1> QED
  BY <1>3, <1>5, <1>7, <1>8, <1>9

\* What the planner and the self-query take out of the trimmed answer.
LEMMA FramedRead ==
  ASSUME NEW X, NEW s \in Seq(X), NEW names \in Seq(ObjectNames), NEW kind \in Kinds, NEW p, NEW e,
         Framed(s, kind, p, e), HoldsObject(s, p, e, names), NEW answer, TrimSpace(answer) = s
  PROVE  /\ (NoOpening(s, p) /\ NoClosing(s, e)) \/ kind \in {"plain", "tagged"}
              => ExtractJSON(answer) = SubSeq(s, p, e)
         /\ (NoOpening(s, p) /\ NoClosing(s, e)) \/ kind = "tagged"
              => ExtractJSONFromLLMOutput(answer, 0) = SubSeq(s, p, e)
<1>1. HoldsObject(s, p, e, names)
  OBVIOUS
<1>2. CASE kind = "tagged"
  <2>1. InTaggedFence(s).found /\ InTaggedFence(s).text = SubSeq(s, p, e)
    BY <1>2, TaggedHolds
  <2>2. ExtractJSON(answer) = SubSeq(s, p, e)
    BY <2>1 DEF ExtractJSON
  <2>3. ExtractJSONFromLLMOutput(answer, 0) = SubSeq(s, p, e)
    BY <2>1 DEF ExtractJSONFromLLMOutput
  <2> QED
    BY <2>2, <2>3
<1>3. CASE kind # "tagged"
  <2>1. ~InTaggedFence(s).found
    BY <1>3, NotTagged
  <2>2. NoOpening(s, p) /\ NoClosing(s, e) => BetweenBraces(s) = SubSeq(s, p, e)
    BY <1>1, HeldBetween DEF NoOpening, NoClosing
  <2>3. ExtractJSONFromLLMOutput(answer, 0) = BetweenBraces(s)
    BY <2>1 DEF ExtractJSONFromLLMOutput
  <2> DEFINE rest == From(s, FenceAt(s, FALSE) + 1)
             inner == TrimSpace(Before(rest, LastIndex(rest, "fence")))
             closed == FenceAt(s, FALSE) > 0 /\ Contains(rest, "fence")
  <2>4. /\ closed /\ inner # <<>> /\ Head(inner) = LB => ExtractJSON(answer) = inner
        /\ ~closed => ExtractJSON(answer) = BetweenBraces(s)
    BY <2>1, Zenon DEF ExtractJSON, LB
  <2>5. CASE kind = "plain"
    <3>1. closed /\ inner = SubSeq(s, p, e)
      BY <2>5, PlainHolds
    <3>2. SubSeq(s, p, e) # <<>> /\ Head(SubSeq(s, p, e)) = LB
      BY <1>1, HeldObject
    <3> HIDE DEF inner, closed
    <3> QED
      BY <2>2, <2>3, <2>4, <2>5, <3>1, <3>2
  <2>6. CASE kind \in {"none", "open"}
    <3>1. ~closed
      BY <2>6, NoFenceBehind
    <3> HIDE DEF inner, closed
    <3> QED
      BY <2>2, <2>3, <2>4, <2>6, <3>1
  <2> QED
    BY <1>3, <2>5, <2>6 DEF Kinds
<1> QED
  BY <1>2, <1>3

\* The names of an object that stands in s.
LEMMA HeldNames ==
  ASSUME NEW X, NEW s \in Seq(X), NEW names \in Seq(ObjectNames), NEW p, NEW e, HoldsObject(s, p, e, names),
         NEW answer
  PROVE  NamesIn(SubSeq(s, p, e), answer) = names
<1> DEFINE t == SubSeq(s, p, e)
<1>1. IsObject(t) /\ t # <<>> /\ SubSeq(t, 2, Len(t) - 1) = names
  BY HeldObject
<1> HIDE DEF t
<1>2. NamesIn(t, answer) = names
  BY <1>1 DEF NamesIn
<1> QED
  BY <1>2 DEF t

NamesOrError(r, names) == r = names \/ r = <<"error">>

\* What is between braces of the first m symbols is the object, or none.
LEMMA CutRead ==
  ASSUME NEW X, NEW s \in Seq(X), NEW names \in Seq(ObjectNames), NEW p, NEW e, HoldsObject(s, p, e, names),
         NoneBefore(s, p), NEW m \in 1 .. Len(s), NEW answer, TrimSpace(answer) = s
  PROVE  NamesOrError(NamesIn(BetweenBraces(SubSeq(s, 1, m)), answer), names)
<1> DEFINE u == SubSeq(s, 1, m)  b == BetweenBraces(u)  l == Index(u, LB)  r == LastIndex(u, RB)
<1>0. Len(s) \in Nat /\ Len(names) \in Nat
  BY LenProperties
<1>1. p \in 1 .. Len(s) /\ e \in 1 .. Len(s) /\ s[p] = LB
  BY DEF HoldsObject
<1>2. u \in Seq(X) /\ Len(u) = m /\ \A i \in 1 .. m : u[i] = s[i]
  <2>1. 1 <= m + 1 /\ m <= Len(s) /\ m \in Int /\ 1 <= 1 /\ 1 \in Int
    BY <1>0
  <2>2. u \in Seq(X) /\ IsPiece(u, s, 1, m)
    BY <2>1, PieceIn
  <2> HIDE DEF u
  <2>3. m - 1 + 1 = m /\ \A i \in 1 .. m : 1 + i - 1 = i
    BY <1>0
  <2> QED
    BY <2>2, <2>3 DEF IsPiece
<1>3. b = IF l > 0 /\ r > l THEN SubSeq(u, l, r) ELSE <<>>
  BY BracesAre
<1>4. /\ l = 0 \/ (l \in 1 .. m /\ \A i \in 1 .. m : u[i] = LB => l <= i)
      /\ r = 0 \/ r \in 1 .. m
  <2> HIDE DEF u
  <2>1. \/ l = 0
        \/ l \in 1 .. Len(u) /\ \A i \in 1 .. Len(u) : u[i] = LB => l <= i
    BY <1>2, IndicesAre
  <2>2. r = 0 \/ r \in 1 .. Len(u)
    BY <1>2, IndicesAre
  <2> HIDE DEF l, r
  <2> QED
    BY <1>2, <2>1, <2>2
<1> HIDE DEF l, r, b
<1>5. CASE b = <<>>
  <2>1. NamesIn(b, answer) = IF IsObject(s) THEN SubSeq(s, 2, Len(s) - 1) ELSE <<"error">>
    BY <1>5 DEF NamesIn
  <2>2. CASE ~IsObject(s)
    BY <2>1, <2>2 DEF NamesOrError, b, u
  <2>3. CASE IsObject(s)
    <3>1. SubSeq(s, 1, Len(s)) = s
      BY WholePiece
    <3>2. 1 \in 1 .. Len(s) /\ Len(s) \in 1 .. Len(s) /\ 1 <= p /\ p <= Len(s)
      BY <1>0, <1>1
    <3>3. p = 1 /\ e = Len(s)
      <4>1. IsObject(SubSeq(s, 1, Len(s)))
        BY <2>3, <3>1
      <4> QED
        BY <3>2, <4>1, OtherObject
    <3>4. SubSeq(s, p, e) = s
      BY <3>1, <3>3
    <3>5. SubSeq(s, 2, Len(s) - 1) = names
      <4> DEFINE t == SubSeq(s, p, e)
      <4>1. SubSeq(t, 2, Len(t) - 1) = names
        BY HeldObject
      <4> HIDE DEF t
      <4>2. t = s
        BY <3>4 DEF t
      <4> QED
        BY <4>1, <4>2
    <3> QED
      BY <2>1, <2>3, <3>5 DEF NamesOrError, b, u
  <2> QED
    BY <2>2, <2>3
<1>6. CASE b # <<>>
  <2>1. l > 0 /\ r > l /\ b = SubSeq(u, l, r)
    BY <1>3, <1>6
  <2>2. /\ l \in 1 .. m /\ r \in 1 .. m /\ \A i \in 1 .. m : u[i] = LB => l <= i
    BY <1>0, <1>4, <2>1
  <2>3. b = SubSeq(s, l, r)
    <3>1. 1 + l - 1 = l /\ 1 + r - 1 = r /\ l \in Int /\ r \in Int /\ 1 <= l /\ l <= r + 1 /\ r <= m - 1 + 1
          /\ 1 <= m + 1 /\ m <= Len(s) /\ m \in Int /\ 1 <= 1 /\ 1 \in Int
      BY <1>0, <2>1, <2>2
    <3>2. SubSeq(SubSeq(s, 1, m), l, r) = SubSeq(s, 1 + l - 1, 1 + r - 1)
      BY <3>1, PieceOfPiece
    <3> QED
      BY <2>1, <3>1, <3>2 DEF u
  <2>4. NamesIn(b, answer) = IF IsObject(b) THEN SubSeq(b, 2, Len(b) - 1) ELSE <<"error">>
    BY <1>6 DEF NamesIn
  <2>5. CASE ~IsObject(b)
    BY <2>4, <2>5 DEF NamesOrError, b, u
  <2>6. CASE IsObject(b)
    <3>1. l \in 1 .. Len(s) /\ r \in 1 .. Len(s)
      BY <1>0, <2>2
    <3>2. p <= r
      <4>1. ~(r < p)
        BY <2>3, <2>6, <3>1 DEF NoneBefore
      <4> QED
        BY <1>1, <3>1, <4>1
    <3>3. l <= p
      <4>1. p \in 1 .. m
        BY <1>0, <1>1, <2>2, <3>2
      <4>2. u[p] = LB
        BY <1>1, <1>2, <4>1
      <4> QED
        BY <2>2, <4>1, <4>2
    <3>4. l = p /\ r = e
      BY <2>3, <2>6, <3>1, <3>2, <3>3, OtherObject
    <3>5. NamesIn(b, answer) = names
      BY <2>3, <3>4, HeldNames
    <3> QED
      BY <3>5 DEF NamesOrError, b, u
  <2> QED
    BY <2>5, <2>6
<1> QED
  BY <1>5, <1>6

\* An answer that is cut is read whole or not at all.
LEMMA CutAnswer ==
  ASSUME NEW X, NEW s \in Seq(X), NEW names \in Seq(ObjectNames), NEW kind \in Kinds, NEW p, NEW e,
         Framed(s, kind, p, e), HoldsObject(s, p, e, names), NoneBefore(s, p), NEW answer, TrimSpace(answer) = s,
         NEW limit \in Int, limit > 0, Len(s) > limit
  PROVE  NamesOrError(Extract(answer, limit), names)
<1> DEFINE u == SubSeq(s, 1, limit)
<1>0. Len(s) \in Nat /\ limit \in 1 .. Len(s) /\ 1 \in 1 .. Len(s)
  BY LenProperties
<1>1. HoldsObject(s, p, e, names) /\ FrameFacts(s, kind, p, e)
  BY FramesHave
<1>2. ExtractJSONFromLLMOutput(answer, limit)
        = IF InTaggedFence(u).found THEN InTaggedFence(u).text ELSE BetweenBraces(u)
  BY <1>0 DEF ExtractJSONFromLLMOutput
<1>3. Extract(answer, limit) = NamesIn(ExtractJSONFromLLMOutput(answer, limit), answer)
  BY DEF Extract
<1> HIDE DEF u
<1>4. CASE ~InTaggedFence(u).found
  <2>1. NamesOrError(NamesIn(BetweenBraces(u), answer), names)
    BY <1>0, <1>1, CutRead DEF u
  <2> QED
    BY <1>2, <1>3, <1>4, <2>1
<1>5. ASSUME kind = "tagged", e + 2 <= limit PROVE NamesOrError(Extract(answer, limit), names)
  <2>1. p \in Int /\ e \in Int /\ 1 <= p - 2 /\ e <= limit
    BY <1>0, <1>1, <1>5 DEF FrameFacts
  <2>2. Covers(kind, p, e, 1, limit)
    BY <1>5, <2>1 DEF Covers
  <2>3. Framed(u, kind, p - 1 + 1, e - 1 + 1)
    BY <1>0, <2>2, FramedPiece DEF u
  <2>4. p - 1 + 1 = p /\ e - 1 + 1 = e
    BY <2>1
  <2>5. Framed(u, "tagged", p, e)
    BY <1>5, <2>3, <2>4
  <2>6. u \in Seq(X)
    <3>1. limit <= Len(s) /\ 1 <= limit + 1 /\ 1 <= 1 /\ 1 \in Int
      BY <1>0
    <3> QED
      BY <3>1, PieceIn DEF u
  <2>7. InTaggedFence(u).found /\ InTaggedFence(u).text = SubSeq(u, p, e)
    BY <2>5, <2>6, TaggedHolds
  <2>8. HoldsObject(u, p, e, names)
    <3>1. 1 <= p /\ HoldsObject(s, p, e, names)
      BY <1>1 DEF FrameFacts
    <3>2. HoldsObject(u, p - 1 + 1, e - 1 + 1, names)
      BY <1>0, <2>1, <3>1, HeldPiece DEF u
    <3> QED
      BY <2>4, <3>2
  <2>9. NamesIn(SubSeq(u, p, e), answer) = names
    BY <2>6, <2>8, HeldNames
  <2> QED
    BY <1>2, <1>3, <2>7, <2>9 DEF NamesOrError
<1>6. ASSUME ~(kind = "tagged" /\ e + 2 <= limit) PROVE ~InTaggedFence(u).found
  <2>1. u \in Seq(X) /\ Len(u) = limit /\ \A i \in 1 .. limit : u[i] = s[i] /\ i \in 1 .. Len(s)
    <3>1. limit <= Len(s) /\ 1 <= limit + 1 /\ 1 <= 1 /\ 1 \in Int
      BY <1>0
    <3>2. u \in Seq(X) /\ IsPiece(u, s, 1, limit)
      BY <3>1, PieceIn DEF u
    <3>3. limit - 1 + 1 = limit /\ \A i \in 1 .. limit : 1 + i - 1 = i /\ i \in 1 .. Len(s)
      BY <1>0
    <3> QED
      BY <3>2, <3>3 DEF IsPiece
  <2>2. ASSUME NEW i \in 1 .. Len(u), NEW j \in 1 .. Len(u),
               u[i] = "fence", i < Len(u), u[i + 1] = "json", u[j] = "fence"
        PROVE  j <= i
    <3>1. i \in 1 .. Len(s) /\ j \in 1 .. Len(s) /\ i + 1 \in 1 .. Len(s) /\ i + 1 \in 1 .. limit
          /\ s[i] = "fence" /\ s[i + 1] = "json" /\ s[j] = "fence"
      <4>1. i + 1 \in 1 .. limit
        BY <1>0, <2>1, <2>2
      <4> QED
        BY <2>1, <2>2, <4>1
    <3>2. kind \in {"tagged", "open"} /\ i + 1 = p - 1
      BY <3>1 DEF Framed
    <3>3. FencePlace(kind, p, e, j)
      BY <3>1 DEF Framed
    <3>4. j # e + 2 \/ kind # "tagged"
      <4>1. p \in Int /\ e \in Int
        BY <1>1 DEF FrameFacts
      <4> QED
        BY <1>0, <1>6, <2>1, <4>1
    <3>5. j = p - 2
      BY <3>2, <3>3, <3>4 DEF FencePlace
    <3> QED
      BY <1>0, <2>1, <3>2, <3>5, <1>1 DEF FrameFacts
  <2> QED
    BY <2>1, <2>2, NotInFence
<1> QED
  BY <1>4, <1>5, <1>6

LEMMA ObjectPlaces ==
  ASSUME NEW X, NEW s \in Seq(X), NEW l \in 1 .. Len(s), NEW r \in 1 .. Len(s), IsObject(SubSeq(s, l, r))
  PROVE  l < r /\ s[l] = LB /\ s[r] = RB
<1> DEFINE t == SubSeq(s, l, r)
<1>0. Len(s) \in Nat
  BY LenProperties
<1>1. Len(t) >= 2
  BY DEF IsObject
<1>2. l <= r + 1
  <2> SUFFICES ASSUME l > r + 1 PROVE FALSE
    BY <1>0
  <2>1. t = <<>>
    BY <1>0, SubSeqProperties, EmptySeq
  <2>2. Len(<<>>) = 0
    BY EmptySeq
  <2> HIDE DEF t
  <2> QED
    BY <1>1, <2>1, <2>2
<1>3. t \in Seq(X) /\ IsPiece(t, s, l, r)
  <2>1. l \in Int /\ r \in Int /\ 1 <= l /\ r <= Len(s)
    BY <1>0
  <2> QED
    BY <1>2, <2>1, PieceIn
<1>4. t[1] = LB /\ t[Len(t)] = RB
  BY <1>3, ObjectRead
<1> HIDE DEF t
<1>5. Len(t) = r - l + 1 /\ \A i \in 1 .. r - l + 1 : t[i] = s[l + i - 1]
  BY <1>3 DEF IsPiece
<1>6. /\ 1 \in 1 .. r - l + 1 /\ r - l + 1 \in 1 .. r - l + 1 /\ l + 1 - 1 = l /\ l + (r - l + 1) - 1 = r
      /\ l < r
  BY <1>0, <1>1, <1>5
<1> QED
  BY <1>4, <1>5, <1>6

\* What stands before and after a text in a fence of this kind.
FrameBefore(kind, u) ==
  /\ kind # "none" => Len(u) >= 2
  /\ \A i \in 1 .. Len(u) : u[i] = "fence" <=> (kind # "none" /\ i = Len(u) - 1)
  /\ \A i \in 1 .. Len(u) : u[i] = "json" <=> (kind \in {"tagged", "open"} /\ i = Len(u))
  /\ kind = "plain" => u[Len(u)] = "newline"

FrameAfter(kind, v) ==
  /\ \A i \in 1 .. Len(v) : v[i] = "fence" <=> (kind = "plain" /\ i = 1) \/ (kind = "tagged" /\ i = 2)
  /\ \A i \in 1 .. Len(v) : v[i] # "json"
  /\ kind = "plain" => Len(v) >= 1
  /\ kind = "tagged" => Len(v) >= 2 /\ v[1] = "blank"

LEMMA FrameLaid ==
  ASSUME NEW X, NEW u, NEW t, NEW v, NEW w, NEW kind \in Kinds, Laid(w, u, t, v, X),
         Len(t) >= 2, t[1] \notin Blanks, t[Len(t)] \notin Blanks,
         \A i \in 1 .. Len(t) : t[i] # "fence" /\ t[i] # "json",
         FrameBefore(kind, u), FrameAfter(kind, v)
  PROVE  Framed(w, kind, Len(u) + 1, Len(u) + Len(t))
<1> DEFINE n == Len(t)  a == Len(u)  c == Len(v)  m == Len(w)  p == a + 1  e == a + n
<1>2. \A i \in 1 .. n : t[i] # "fence" /\ t[i] # "json"
  OBVIOUS
<1> HIDE DEF p, e
<1>3. /\ a \in Nat /\ n \in Nat /\ c \in Nat /\ m = a + n + c
      /\ (\A i \in 1 .. a : w[i] = u[i]) /\ (\A i \in 1 .. n : w[a + i] = t[i])
      /\ \A i \in 1 .. c : w[a + n + i] = v[i]
  BY DEF Laid
<1>4. n >= 2 /\ t[1] \notin Blanks /\ t[n] \notin Blanks
  OBVIOUS
<1>5. /\ kind # "none" => a >= 2
      /\ \A i \in 1 .. a : u[i] = "fence" <=> (kind # "none" /\ i = a - 1)
      /\ \A i \in 1 .. a : u[i] = "json" <=> (kind \in {"tagged", "open"} /\ i = a)
      /\ kind = "plain" => u[a] = "newline"
  BY DEF FrameBefore
<1>6. /\ \A i \in 1 .. c : v[i] = "fence" <=> (kind = "plain" /\ i = 1) \/ (kind = "tagged" /\ i = 2)
      /\ \A i \in 1 .. c : v[i] # "json"
      /\ kind = "plain" => c >= 1
      /\ kind = "tagged" => c >= 2 /\ v[1] = "blank"
  BY DEF FrameAfter
<1> HIDE DEF a, c, m, n
<1>A. p = a + 1 /\ e = a + n /\ p < e
  BY <1>3, <1>4 DEF p, e
<1>7. ASSUME NEW i \in 1 .. m
      PROVE  \/ i \in 1 .. a
             \/ i - a \in 1 .. n /\ i = a + (i - a)
             \/ i - a - n \in 1 .. c /\ i = a + n + (i - a - n)
  BY <1>3, <1>4
<1>8. Stands(w, p, e)
  <2>1. p \in 1 .. m /\ e \in 1 .. m /\ 1 \in 1 .. n /\ n \in 1 .. n
    BY <1>3, <1>4, <1>A
  <2>2. w[p] = t[1] /\ w[e] = t[n]
    BY <1>3, <1>A, <2>1
  <2> QED
    BY <1>4, <1>A, <2>1, <2>2 DEF Stands, m
<1>9. ASSUME NEW i \in 1 .. m PROVE w[i] = "fence" <=> FencePlace(kind, p, e, i)
  <2>1. CASE i \in 1 .. a
    <3>1. i # e + 1 /\ i # e + 2 /\ (i = a - 1 <=> i = p - 2)
      BY <1>3, <1>4, <1>A, <2>1
    <3> QED
      BY <1>3, <1>5, <2>1, <3>1 DEF FencePlace
  <2>2. CASE i - a \in 1 .. n /\ i = a + (i - a)
    <3>0. i \in Int /\ a \in Int /\ n \in Int /\ a + 1 <= i /\ i <= a + n
      BY <1>3, <1>4, <2>2
    <3>1. i # p - 2 /\ i # e + 1 /\ i # e + 2
      BY <1>A, <3>0
    <3>2. w[i] # "fence"
      BY <1>2, <1>3, <2>2
    <3> QED
      BY <3>1, <3>2 DEF FencePlace
  <2>3. CASE i - a - n \in 1 .. c /\ i = a + n + (i - a - n)
    <3>1. i # p - 2 /\ (i = e + 1 <=> i - a - n = 1) /\ (i = e + 2 <=> i - a - n = 2)
      BY <1>3, <1>4, <1>A, <2>3
    <3>2. w[i] = v[i - a - n]
      BY <1>3, <2>3
    <3> QED
      BY <1>6, <2>3, <3>1, <3>2 DEF FencePlace
  <2> QED
    BY <1>7, <2>1, <2>2, <2>3
<1>10. ASSUME NEW i \in 1 .. m PROVE w[i] = "json" <=> (kind \in {"tagged", "open"} /\ i = p - 1)
  <2>1. CASE i \in 1 .. a
    <3>1. i = a <=> i = p - 1
      BY <1>3, <1>A
    <3> QED
      BY <1>3, <1>5, <2>1, <3>1
  <2>2. CASE i - a \in 1 .. n /\ i = a + (i - a)
    <3>1. i # p - 1
      BY <1>3, <1>4, <1>A, <2>2
    <3>2. w[i] # "json"
      BY <1>2, <1>3, <2>2
    <3> QED
      BY <3>1, <3>2
  <2>3. CASE i - a - n \in 1 .. c /\ i = a + n + (i - a - n)
    <3>1. i # p - 1
      BY <1>3, <1>4, <1>A, <2>3
    <3>2. w[i] = v[i - a - n]
      BY <1>3, <2>3
    <3> QED
      BY <1>6, <2>3, <3>1, <3>2
  <2> QED
    BY <1>7, <2>1, <2>2, <2>3
<1>11. kind # "none" => p > 2
  BY <1>3, <1>5, <1>A
<1>12. ASSUME kind = "plain" PROVE e + 1 <= m /\ w[p - 1] = "newline"
  <2>1. c >= 1 /\ a >= 2
    BY <1>5, <1>6, <1>12
  <2>2. e + 1 <= m /\ p - 1 = a /\ a \in 1 .. a
    BY <1>3, <1>4, <1>A, <2>1
  <2> QED
    BY <1>3, <1>5, <1>12, <2>2
<1>13. ASSUME kind = "tagged" PROVE e + 2 <= m /\ w[e + 1] = "blank"
  <2>1. c >= 2
    BY <1>6, <1>13
  <2>2. e + 2 <= m /\ e + 1 = a + n + 1 /\ 1 \in 1 .. c
    BY <1>3, <1>4, <1>A, <2>1
  <2> QED
    BY <1>3, <1>6, <1>13, <2>2
<1>14. Framed(w, kind, p, e)
  BY <1>8, <1>9, <1>10, <1>11, <1>12, <1>13 DEF Framed, m
<1> QED
  BY <1>14 DEF p, e, a, n

LEMMA ObjectLaid ==
  ASSUME NEW X, NEW u, NEW v, NEW w, NEW names \in Seq(ObjectNames), Laid(w, u, Object(names), v, X)
  PROVE  HoldsObject(w, Len(u) + 1, Len(u) + Len(names) + 2, names)
<1> DEFINE t == Object(names)  n == Len(names)  a == Len(u)  c == Len(v)  m == Len(w)  p == a + 1  e == a + n + 2
<1>1. Len(t) = n + 2 /\ t[1] = LB /\ t[n + 2] = RB /\ \A k \in 1 .. n : t[1 + k] = names[k]
  BY ObjectIs DEF IsObjectOf
<1>2. n \in Nat
  BY LenProperties
<1> HIDE DEF t, p, e
<1>3. a \in Nat /\ c \in Nat /\ m = a + (n + 2) + c /\ \A i \in 1 .. n + 2 : w[a + i] = t[i]
  BY <1>1 DEF Laid, t
<1> HIDE DEF a, c, m, n
<1>4. p = a + 1 /\ e = a + n + 2 /\ e = p + n + 1 /\ p \in 1 .. m /\ e \in 1 .. m
  BY <1>2, <1>3 DEF p, e
<1>5. w[p] = LB /\ w[e] = RB
  <2>1. 1 \in 1 .. n + 2 /\ n + 2 \in 1 .. n + 2 /\ a + (n + 2) = e
    BY <1>2, <1>3, <1>4
  <2> QED
    BY <1>1, <1>3, <1>4, <2>1
<1>6. ASSUME NEW k \in 1 .. n PROVE w[p + k] = names[k]
  <2>1. 1 + k \in 1 .. n + 2 /\ a + (1 + k) = p + k
    BY <1>2, <1>3, <1>4
  <2> QED
    BY <1>1, <1>3, <2>1
<1>7. HoldsObject(w, p, e, names)
  BY <1>4, <1>5, <1>6 DEF HoldsObject, m, n
<1> QED
  BY <1>7 DEF p, e, a, n

LEMMA RestLaid ==
  ASSUME NEW X, NEW u, NEW v, NEW w, NEW names \in Seq(ObjectNames),
         Laid(w, u, Object(names), v, X)
  PROVE  /\ NoObject(u) => NoneBefore(w, Len(u) + 1)
         /\ LB \notin ToSet(u) => NoOpening(w, Len(u) + 1)
         /\ RB \notin ToSet(v) => NoClosing(w, Len(u) + Len(names) + 2)
<1> DEFINE t == Object(names)  n == Len(names)  a == Len(u)  c == Len(v)  m == Len(w)
<1>1. Len(t) = n + 2 /\ n \in Nat
  BY ObjectIs, LenProperties DEF IsObjectOf
<1> HIDE DEF t
<1>2. /\ w \in Seq(X) /\ u \in Seq(X)
      /\ a \in Nat /\ n + 2 \in Nat /\ c \in Nat /\ m = a + (n + 2) + c
      /\ (\A i \in 1 .. a : w[i] = u[i])
      /\ \A i \in 1 .. c : w[a + (n + 2) + i] = v[i]
  BY <1>1 DEF Laid, t
<1>3. ASSUME NoObject(u) PROVE NoneBefore(w, a + 1)
  <2> SUFFICES ASSUME NEW l \in 1 .. m, NEW r \in 1 .. m, r < a + 1, IsObject(SubSeq(w, l, r)) PROVE FALSE
    BY DEF NoneBefore
  <2>1. l < r
    BY <1>2, ObjectPlaces
  <2>2. l \in 1 .. a /\ r \in 1 .. a /\ l <= r /\ a <= m /\ a <= a
    BY <1>1, <1>2, <2>1
  <2>3. SubSeq(w, l, r) = SubSeq(u, l, r)
    BY <1>2, <2>2, SamePiece
  <2> QED
    BY <1>3, <2>2, <2>3 DEF NoObject
<1>4. ASSUME LB \notin ToSet(u) PROVE NoOpening(w, a + 1)
  <2> SUFFICES ASSUME NEW i \in 1 .. m, i < a + 1 PROVE w[i] # LB
    BY DEF NoOpening
  <2>1. i \in 1 .. a
    BY <1>2
  <2>2. DOMAIN u = 1 .. a
    BY <1>2, LenProperties
  <2>3. u[i] \in ToSet(u)
    BY <2>1, <2>2 DEF ToSet
  <2> QED
    BY <1>2, <1>4, <2>1, <2>3
<1>5. ASSUME RB \notin ToSet(v), v \in Seq(X) PROVE NoClosing(w, a + n + 2)
  <2> SUFFICES ASSUME NEW i \in 1 .. m, i > a + n + 2 PROVE w[i] # RB
    BY DEF NoClosing
  <2>1. i - a - (n + 2) \in 1 .. c /\ i = a + (n + 2) + (i - a - (n + 2))
    BY <1>1, <1>2
  <2>2. DOMAIN v = 1 .. c
    BY <1>5, LenProperties
  <2>3. v[i - a - (n + 2)] \in ToSet(v)
    BY <2>1, <2>2 DEF ToSet
  <2> QED
    BY <1>2, <1>5, <2>1, <2>3
<1> QED
  BY <1>3, <1>4, <1>5 DEF Laid

\* The fence that is put before an object, and what is put after it.
Opening(kind) == CASE kind = "none" -> <<>> [] kind = "plain" -> <<"fence", "newline">>
                   [] OTHER -> <<"fence", "json">>
Ending(kind, after) == CASE kind = "none" -> after [] kind = "plain" -> <<"fence">> \o after
                         [] kind = "tagged" -> <<"blank", "fence">> \o after [] OTHER -> <<>>

TextSymbols == ObjectNames \union {LB, RB} \union {"fence", "json", "newline", "blank"}

AroundLaid(u, v, before, kind, text, after, X) ==
  u \in Seq(X) /\ v \in Seq(X) /\ Around(before, kind, text, after) = (u \o text) \o v

LEMMA AroundIs ==
  ASSUME NEW X, TextSymbols \subseteq X, NEW before \in Seq(X), NEW after \in Seq(X), NEW text \in Seq(X),
         NEW kind \in Kinds,
         NEW u, u = IF kind = "none" THEN before ELSE before \o Opening(kind), NEW v, v = Ending(kind, after)
  PROVE  AroundLaid(u, v, before, kind, text, after, X)
<1> USE DEF AroundLaid
<1>1. "fence" \in X /\ "json" \in X /\ "newline" \in X /\ "blank" \in X
  BY DEF TextSymbols
<1> DEFINE nl == <<"fence", "newline">>  json == <<"fence", "json">>  f == <<"fence">>  bf == <<"blank", "fence">>
           none == <<>>
<1>2. nl \in Seq(X) /\ json \in Seq(X) /\ f \in Seq(X) /\ bf \in Seq(X) /\ none \in Seq(X)
  BY <1>1
<1>3. kind \in {"none", "plain", "tagged", "open"}
  BY DEF Kinds
<1>4. CASE kind = "none"
  <2>1. Around(before, kind, text, after) = (before \o text) \o after /\ Ending(kind, after) = after
    BY <1>4 DEF Around, Ending
  <2> QED
    BY <1>4, <2>1
<1>5. CASE kind = "plain"
  <2>1. /\ Around(before, kind, text, after) = (((before \o nl) \o text) \o f) \o after
        /\ Ending(kind, after) = f \o after /\ Opening(kind) = nl
    BY <1>5 DEF Around, Ending, Opening
  <2> HIDE DEF nl, f
  <2>2. before \o nl \in Seq(X)
    BY <1>2, ConcatProperties
  <2> DEFINE ut == (before \o nl) \o text
  <2>3. ut \in Seq(X) /\ f \o after \in Seq(X)
    BY <1>2, <2>2, ConcatProperties
  <2>4. Regrouped(ut, f, after)
    <3> HIDE DEF ut
    <3> QED
      BY <1>2, <2>3, RegroupedIn
  <2>5. (ut \o f) \o after = ut \o (f \o after)
    BY <2>4 DEF Regrouped
  <2> QED
    BY <1>5, <2>1, <2>2, <2>3, <2>5
<1>6. CASE kind = "tagged"
  <2>1. /\ Around(before, kind, text, after) = (((before \o json) \o text) \o bf) \o after
        /\ Ending(kind, after) = bf \o after /\ Opening(kind) = json
    BY <1>6 DEF Around, Ending, Opening
  <2> HIDE DEF json, bf
  <2>2. before \o json \in Seq(X)
    BY <1>2, ConcatProperties
  <2> DEFINE ut == (before \o json) \o text
  <2>3. ut \in Seq(X) /\ bf \o after \in Seq(X)
    BY <1>2, <2>2, ConcatProperties
  <2>4. Regrouped(ut, bf, after)
    <3> HIDE DEF ut
    <3> QED
      BY <1>2, <2>3, RegroupedIn
  <2>5. (ut \o bf) \o after = ut \o (bf \o after)
    BY <2>4 DEF Regrouped
  <2> QED
    BY <1>6, <2>1, <2>2, <2>3, <2>5
<1>7. CASE kind = "open"
  <2>1. /\ Around(before, kind, text, after) = (before \o json) \o text
        /\ Ending(kind, after) = none /\ Opening(kind) = json
    BY <1>7 DEF Around, Ending, Opening
  <2> HIDE DEF json
  <2>2. before \o json \in Seq(X)
    BY <1>2, ConcatProperties
  <2> DEFINE ut == (before \o json) \o text
  <2>3. ut \in Seq(X) /\ Len(none) = 0
    BY <2>2, ConcatProperties
  <2> HIDE DEF none, ut
  <2>4. ut \o none = ut
    BY <1>2, <2>3, NothingAdded
  <2> USE DEF ut
  <2> QED
    BY <1>2, <1>7, <2>1, <2>2, <2>4
<1> QED
  BY <1>3, <1>4, <1>5, <1>6, <1>7

\* Prose: no fences, no tags.
LEMMA ProseBefore ==
  ASSUME NEW X, TextSymbols \subseteq X, NEW P, P \subseteq X, "fence" \notin P, "json" \notin P,
         NEW before \in Seq(P), NEW kind \in Kinds,
         NEW u, u = IF kind = "none" THEN before ELSE before \o Opening(kind)
  PROVE  /\ FrameBefore(kind, u)
         /\ NoObject(before) => NoObject(u)
         /\ ToSet(u) \subseteq ToSet(before) \union {"fence", "json", "newline"}
<1>0. /\ before \in Seq(X) /\ Len(before) \in Nat /\ DOMAIN before = 1 .. Len(before)
      /\ \A i \in 1 .. Len(before) : before[i] # "fence" /\ before[i] # "json"
  BY SeqWider, LenProperties, ElementOfSeq
<1>1. CASE kind = "none"
  <2>1. u = before
    BY <1>1
  <2> QED
    BY <1>0, <1>1, <2>1 DEF FrameBefore
<1>2. CASE kind # "none"
  <2> DEFINE o == Opening(kind)  a == Len(before)
  <2>1. /\ o \in Seq(X) /\ Len(o) = 2 /\ o[1] = "fence"
        /\ kind = "plain" => o[2] = "newline"
        /\ kind \in {"tagged", "open"} => o[2] = "json"
    <3>1. "fence" \in X /\ "json" \in X /\ "newline" \in X
      BY DEF TextSymbols
    <3>2. CASE kind = "plain"
      <4>1. o = <<"fence", "newline">>
        BY <3>2 DEF Opening
      <4> HIDE DEF o
      <4> QED
        BY <3>1, <3>2, <4>1
    <3>3. CASE kind \in {"tagged", "open"}
      <4>1. o = <<"fence", "json">>
        BY <3>3 DEF Opening
      <4> HIDE DEF o
      <4> QED
        BY <3>1, <3>3, <4>1
    <3> QED
      BY <1>2, <3>2, <3>3 DEF Kinds
  <2> HIDE DEF o
  <2>2. u = before \o o
    BY <1>2 DEF o
  <2>3. IsBoth(u, before, o, X)
    BY <1>0, <2>1, <2>2, BothIn
  <2>4. /\ u \in Seq(X) /\ Len(u) = a + 2 /\ a \in Nat /\ \A i \in 1 .. a : u[i] = before[i]
        /\ u[a + 1] = "fence" /\ u[a + 2] = o[2]
    BY <2>1, <2>3 DEF IsBoth
  <2> HIDE DEF a
  <2>5. \A i \in 1 .. a + 2 : i \in 1 .. a \/ i = a + 1 \/ i = a + 2
    BY <2>4
  <2>6. o[2] \in {"newline", "json"} /\ (o[2] = "json" <=> kind \in {"tagged", "open"})
    BY <1>2, <2>1 DEF Kinds
  <2>7. \A i \in 1 .. a : u[i] # "fence" /\ u[i] # "json" /\ i # a + 1 /\ i # a + 2
    BY <1>0, <2>4 DEF a
  <2>8. FrameBefore(kind, u)
    <3>1. (a + 2) - 1 = a + 1 /\ a + 2 >= 2 /\ a + 1 # a + 2
      BY <2>4
    <3>2. ASSUME NEW i \in 1 .. Len(u) PROVE u[i] = "fence" <=> (kind # "none" /\ i = Len(u) - 1)
      BY <1>2, <2>4, <2>5, <2>6, <2>7, <3>1
    <3>3. ASSUME NEW i \in 1 .. Len(u) PROVE u[i] = "json" <=> (kind \in {"tagged", "open"} /\ i = Len(u))
      BY <2>4, <2>5, <2>6, <2>7, <3>1
    <3>4. kind = "plain" => u[Len(u)] = "newline"
      BY <2>1, <2>4
    <3> QED
      BY <2>4, <3>1, <3>2, <3>3, <3>4 DEF FrameBefore
  <2>9. ASSUME NoObject(before) PROVE NoObject(u)
    <3> SUFFICES ASSUME NEW l \in 1 .. Len(u), NEW r \in 1 .. Len(u), IsObject(SubSeq(u, l, r)) PROVE FALSE
      BY DEF NoObject
    <3>1. l < r /\ u[r] = RB
      BY <2>4, ObjectPlaces
    <3>2. r \in 1 .. a
      BY <2>4, <2>5, <2>6, <3>1, BraceFacts
    <3>3. l \in 1 .. a /\ l <= r /\ a <= Len(u) /\ a <= Len(before)
      BY <2>4, <3>1, <3>2 DEF a
    <3>4. SubSeq(u, l, r) = SubSeq(before, l, r)
      BY <1>0, <2>4, <3>2, <3>3, SamePiece
    <3> QED
      BY <2>9, <3>2, <3>3, <3>4 DEF NoObject, a
  <2>10. ToSet(u) \subseteq ToSet(before) \union {"fence", "json", "newline"}
    <3>1. ASSUME NEW i \in 1 .. Len(u) PROVE u[i] \in ToSet(before) \union {"fence", "json", "newline"}
      <4>1. CASE i \in 1 .. a
        <5>1. u[i] = before[i] /\ i \in DOMAIN before
          BY <1>0, <2>4, <4>1 DEF a
        <5> QED
          BY <5>1 DEF ToSet
      <4>2. CASE i = a + 1 \/ i = a + 2
        BY <2>4, <2>6, <4>2
      <4> QED
        BY <2>4, <2>5, <4>1, <4>2
    <3>2. DOMAIN u = 1 .. Len(u)
      BY <2>4, LenProperties
    <3> QED
      BY <3>1, <3>2 DEF ToSet
  <2> QED
    BY <2>8, <2>9, <2>10
<1> QED
  BY <1>1, <1>2

LEMMA ProseAfter ==
  ASSUME NEW X, TextSymbols \subseteq X, NEW P, P \subseteq X, "fence" \notin P, "json" \notin P,
         NEW after \in Seq(P), NEW kind \in Kinds, NEW v, v = Ending(kind, after)
  PROVE  /\ FrameAfter(kind, v)
         /\ ToSet(v) \subseteq ToSet(after) \union {"blank", "fence"}
<1>0. /\ after \in Seq(X) /\ Len(after) \in Nat /\ DOMAIN after = 1 .. Len(after)
      /\ \A i \in 1 .. Len(after) : after[i] # "fence" /\ after[i] # "json"
  BY SeqWider, LenProperties, ElementOfSeq
<1>1. CASE kind = "none"
  <2>1. v = after
    BY <1>1 DEF Ending
  <2> QED
    BY <1>0, <1>1, <2>1 DEF FrameAfter
<1>2. CASE kind = "open"
  <2>1. v = <<>>
    BY <1>2 DEF Ending
  <2> QED
    BY <1>2, <2>1 DEF FrameAfter, ToSet
<1>3. CASE kind = "plain"
  <2> DEFINE o == <<"fence">>  c == Len(after)
  <2>0. "fence" \in X
    BY DEF TextSymbols
  <2>1. o \in Seq(X) /\ Len(o) = 1 /\ o[1] = "fence"
    BY <2>0
  <2>2. v = o \o after
    BY <1>3 DEF Ending
  <2> HIDE DEF o
  <2>3. IsBoth(v, o, after, X)
    BY <1>0, <2>1, <2>2, BothIn
  <2>4. v \in Seq(X) /\ Len(v) = 1 + c /\ c \in Nat /\ v[1] = "fence" /\ \A i \in 1 .. c : v[1 + i] = after[i]
    BY <2>1, <2>3 DEF IsBoth
  <2>5. \A i \in 1 .. c : v[1 + i] # "fence" /\ v[1 + i] # "json"
    BY <1>0, <2>4
  <2> HIDE DEF c
  <2>6. \A i \in 1 .. 1 + c : i = 1 \/ (i - 1 \in 1 .. c /\ i = 1 + (i - 1) /\ i # 1)
    BY <2>4
  <2>7. FrameAfter(kind, v)
    <3>1. ASSUME NEW i \in 1 .. Len(v) PROVE (v[i] = "fence" <=> i = 1) /\ v[i] # "json"
      <4>1. i = 1 \/ (i - 1 \in 1 .. c /\ i = 1 + (i - 1) /\ i # 1)
        BY <2>4, <2>6
      <4>2. ASSUME i - 1 \in 1 .. c, i = 1 + (i - 1) PROVE v[i] # "fence" /\ v[i] # "json"
        BY <2>5, <4>2
      <4> QED
        BY <2>4, <4>1, <4>2
    <3>2. Len(v) >= 1
      BY <2>4
    <3> QED
      BY <1>3, <3>1, <3>2 DEF FrameAfter
  <2>8. ToSet(v) \subseteq ToSet(after) \union {"blank", "fence"}
    <3>1. ASSUME NEW i \in 1 .. Len(v) PROVE v[i] \in ToSet(after) \union {"blank", "fence"}
      <4>1. CASE i - 1 \in 1 .. c /\ i = 1 + (i - 1)
        <5>1. v[i] = after[i - 1] /\ i - 1 \in DOMAIN after
          BY <1>0, <2>4, <4>1 DEF c
        <5> QED
          BY <5>1 DEF ToSet
      <4>2. CASE i = 1
        BY <2>4, <4>2
      <4> QED
        BY <2>4, <2>6, <4>1, <4>2
    <3>2. DOMAIN v = 1 .. Len(v)
      BY <2>4, LenProperties
    <3> QED
      BY <3>1, <3>2 DEF ToSet
  <2> QED
    BY <2>7, <2>8
<1>4. CASE kind = "tagged"
  <2> DEFINE o == <<"blank", "fence">>  c == Len(after)
  <2>0. "fence" \in X /\ "blank" \in X
    BY DEF TextSymbols
  <2>1. o \in Seq(X) /\ Len(o) = 2 /\ o[1] = "blank" /\ o[2] = "fence"
    BY <2>0
  <2>2. v = o \o after
    BY <1>4 DEF Ending
  <2> HIDE DEF o
  <2>3. IsBoth(v, o, after, X)
    BY <1>0, <2>1, <2>2, BothIn
  <2>4. /\ v \in Seq(X) /\ Len(v) = 2 + c /\ c \in Nat /\ v[1] = "blank" /\ v[2] = "fence"
        /\ \A i \in 1 .. c : v[2 + i] = after[i]
    BY <2>1, <2>3 DEF IsBoth
  <2>5. \A i \in 1 .. c : v[2 + i] # "fence" /\ v[2 + i] # "json"
    BY <1>0, <2>4
  <2> HIDE DEF c
  <2>6. \A i \in 1 .. 2 + c : i = 1 \/ i = 2 \/ (i - 2 \in 1 .. c /\ i = 2 + (i - 2) /\ i # 1 /\ i # 2)
    BY <2>4
  <2>7. FrameAfter(kind, v)
    <3>1. ASSUME NEW i \in 1 .. Len(v) PROVE (v[i] = "fence" <=> i = 2) /\ v[i] # "json"
      <4>1. i = 1 \/ i = 2 \/ (i - 2 \in 1 .. c /\ i = 2 + (i - 2) /\ i # 1 /\ i # 2)
        BY <2>4, <2>6
      <4>2. ASSUME i - 2 \in 1 .. c, i = 2 + (i - 2) PROVE v[i] # "fence" /\ v[i] # "json"
        BY <2>5, <4>2
      <4> QED
        BY <2>4, <4>1, <4>2
    <3>2. Len(v) >= 2
      BY <2>4
    <3> QED
      BY <1>4, <2>4, <3>1, <3>2 DEF FrameAfter
  <2>8. ToSet(v) \subseteq ToSet(after) \union {"blank", "fence"}
    <3>1. ASSUME NEW i \in 1 .. Len(v) PROVE v[i] \in ToSet(after) \union {"blank", "fence"}
      <4>1. CASE i - 2 \in 1 .. c /\ i = 2 + (i - 2)
        <5>1. v[i] = after[i - 2] /\ i - 2 \in DOMAIN after
          BY <1>0, <2>4, <4>1 DEF c
        <5> QED
          BY <5>1 DEF ToSet
      <4>2. CASE i = 1 \/ i = 2
        BY <2>4, <4>2
      <4> QED
        BY <2>4, <2>6, <4>1, <4>2
    <3>2. DOMAIN v = 1 .. Len(v)
      BY <2>4, LenProperties
    <3> QED
      BY <3>1, <3>2 DEF ToSet
  <2> QED
    BY <2>7, <2>8
<1> QED
  BY <1>1, <1>2, <1>3, <1>4 DEF Kinds

\* Names that json gives are a plan if there are some, none is blank and none
\* is there twice: there are only so many names.
LEMMA Counted ==
  ASSUME NEW names \in Seq(ObjectNames)
  PROVE  /\ Cardinality(ToSet(names)) = Len(names) <=> \A i, j \in DOMAIN names : names[i] = names[j] => i = j
         /\ Cardinality(ToSet(names)) = Len(names) => Len(names) <= 6
<1> DEFINE n == Len(names)  S == ToSet(names)
<1>1. n \in Nat /\ DOMAIN names = 1 .. n /\ \A i \in 1 .. n : names[i] \in ObjectNames
  BY LenProperties, ElementOfSeq
<1>2. IsFiniteSet(1 .. n) /\ Cardinality(1 .. n) = n
  <2> HIDE DEF n
  <2>1. IsFiniteSet(1 .. n) /\ Cardinality(1 .. n) = IF 1 > n THEN 0 ELSE n - 1 + 1
    BY <1>1, FS_Interval
  <2> QED
    BY <1>1, <2>1
<1>3. names \in Surjection(1 .. n, S)
  <2>1. names = [i \in 1 .. n |-> names[i]]
    BY <1>1
  <2>2. \A i \in 1 .. n : names[i] \in S
    BY <1>1 DEF ToSet
  <2>3. \A x \in S : \E i \in 1 .. n : names[i] = x
    BY <1>1 DEF ToSet
  <2> HIDE DEF S, n
  <2>4. names \in [1 .. n -> S]
    BY <2>1, <2>2
  <2> QED
    BY <2>3, <2>4 DEF Surjection
<1>4. Cardinality(S) = n <=> names \in Injection(1 .. n, S)
  <2> HIDE DEF S, n
  <2> QED
    BY <1>2, <1>3, FS_Surjection
<1>5. names \in Injection(1 .. n, S) <=> \A i, j \in 1 .. n : names[i] = names[j] => i = j
  <2> HIDE DEF S, n
  <2>1. names \in [1 .. n -> S]
    BY <1>3 DEF Surjection
  <2>2. DOMAIN names = 1 .. n
    BY <2>1
  <2> QED
    BY <2>1, <2>2 DEF Injection, IsInjective
<1>6. Cardinality(S) <= 6
  <2>1. ObjectNames = (({} \union {"a"}) \union {"b"}) \union {"blank"}
    BY DEF ObjectNames
  <2>2. IsFiniteSet({}) /\ Cardinality({}) <= 0 /\ 0 \in Nat
    BY FS_EmptySet
  <2> DEFINE A == {} \union {"a"}  B == A \union {"b"}  C == B \union {"blank"}
  <2>3. IsFiniteSet(A) /\ Cardinality(A) <= 1 /\ 1 \in Nat
    <3>1. A = {} \union {"a"}
      OBVIOUS
    <3> HIDE DEF A
    <3>2. IsFiniteSet(A) /\ Cardinality(A) <= 0 + 1
      BY <2>2, <3>1, OneMoreAtMostIn
    <3> QED
      BY <3>2
  <2> HIDE DEF A
  <2>4. IsFiniteSet(B) /\ Cardinality(B) <= 2 /\ 2 \in Nat
    <3>1. B = A \union {"b"}
      OBVIOUS
    <3> HIDE DEF B
    <3>2. IsFiniteSet(B) /\ Cardinality(B) <= 1 + 1
      BY <2>3, <3>1, OneMoreAtMostIn
    <3> QED
      BY <3>2
  <2> HIDE DEF B
  <2>5. IsFiniteSet(C) /\ Cardinality(C) <= 3 /\ 3 \in Nat
    <3>1. C = B \union {"blank"}
      OBVIOUS
    <3> HIDE DEF C
    <3>2. IsFiniteSet(C) /\ Cardinality(C) <= 2 + 1
      BY <2>4, <3>1, OneMoreAtMostIn
    <3> QED
      BY <3>2
  <2>6. C = ObjectNames
    BY <2>1 DEF A, B
  <2> HIDE DEF C
  <2>7. S \in SUBSET ObjectNames
    BY <1>1 DEF ToSet
  <2> HIDE DEF S
  <2>8. IsFiniteSet(S) /\ Cardinality(S) <= Cardinality(ObjectNames)
    BY <2>5, <2>6, <2>7, FS_Subset
  <2>9. Cardinality(S) \in Nat /\ Cardinality(ObjectNames) \in Nat
    BY <2>5, <2>6, <2>8, FS_CardinalityType
  <2> QED
    BY <2>5, <2>6, <2>8, <2>9
<1> HIDE DEF S, n
<1>7. Cardinality(S) = n <=> \A i, j \in DOMAIN names : names[i] = names[j] => i = j
  BY <1>1, <1>4, <1>5
<1>8. Cardinality(S) = n => n <= 6
  BY <1>6
<1> QED
  BY <1>7, <1>8 DEF S, n

Sound(names) == names # <<>> /\ ~Contains(names, "blank") /\ Cardinality(ToSet(names)) = Len(names)

LEMMA SoundPlans ==
  ASSUME NEW names \in Seq(ObjectNames)
  PROVE  /\ Validate(names, 6) <=> Sound(names)
         /\ Validate(names, 6) => (Validate(names, 1) <=> Len(names) = 1)
<1>1. Len(names) \in Nat /\ (names # <<>> => Len(names) >= 1)
  BY LenProperties, EmptySeq
<1>2. Validate(names, 6) <=> Sound(names)
  BY Counted DEF Validate, Sound
<1>3. ASSUME Validate(names, 6) PROVE Validate(names, 1) <=> Len(names) = 1
  <2>1. Validate(names, 1) <=> Len(names) <= 1
    BY <1>3 DEF Validate
  <2>2. Len(names) >= 1
    BY <1>1, <1>3 DEF Validate
  <2>3. Len(names) <= 1 <=> Len(names) = 1
    BY <1>1, <2>2, JustOne
  <2> QED
    BY <2>1, <2>3
<1> QED
  BY <1>2, <1>3

\* The trimmed answer.
TextFramed(s, X, kind, names, clean) ==
  /\ s \in Seq(X)
  /\ \E p, e : /\ Framed(s, kind, p, e) /\ HoldsObject(s, p, e, names) /\ NoneBefore(s, p)
               /\ clean => NoOpening(s, p) /\ NoClosing(s, e)

LEMMA AnswerFramed ==
  ASSUME NEW P, "fence" \notin P, "json" \notin P, NEW before \in Seq(P), NEW after \in Seq(P), NoObject(before),
         NEW names \in Seq(ObjectNames), NEW kind \in Kinds
  PROVE  TextFramed(TrimSpace(Around(before, kind, Object(names), after)), P \union TextSymbols, kind, names,
                    LB \notin ToSet(before) /\ RB \notin ToSet(after))
<1> DEFINE X == P \union TextSymbols  t == Object(names)  w == Around(before, kind, t, after)
           u == IF kind = "none" THEN before ELSE before \o Opening(kind)
           v == Ending(kind, after)
           clean == LB \notin ToSet(before) /\ RB \notin ToSet(after)
<1>1. TextSymbols \subseteq X /\ P \subseteq X
  OBVIOUS
<1> HIDE DEF X
<1>2. before \in Seq(X) /\ after \in Seq(X)
  BY <1>1, SeqWider
<1>3. t \in Seq(X)
  <2>1. ObjectNames \union {LB, RB} \subseteq X
    BY <1>1 DEF TextSymbols
  <2>2. t \in Seq(ObjectNames \union {LB, RB})
    BY ObjectIs
  <2> HIDE DEF t
  <2> QED
    BY <2>1, <2>2, SeqWider
<1> HIDE DEF t
<1>4. u \in Seq(X) /\ v \in Seq(X) /\ w = (u \o t) \o v
  <2>1. (u = IF kind = "none" THEN before ELSE before \o Opening(kind)) /\ v = Ending(kind, after)
    OBVIOUS
  <2> HIDE DEF u, v
  <2>2. AroundLaid(u, v, before, kind, t, after, X)
    BY <1>1, <1>2, <1>3, <2>1, AroundIs
  <2> QED
    BY <2>2 DEF AroundLaid
<1>5. /\ FrameBefore(kind, u)
      /\ NoObject(before) => NoObject(u)
      /\ LB \notin ToSet(before) => LB \notin ToSet(u)
  BY <1>1, ProseBefore, BraceFacts
<1>6. /\ FrameAfter(kind, v)
      /\ RB \notin ToSet(after) => RB \notin ToSet(v)
  BY <1>1, ProseAfter, BraceFacts
<1> HIDE DEF u, v
<1>7. Laid((u \o t) \o v, u, t, v, X)
  BY <1>3, <1>4, LaidOut
<1>8. Laid(w, u, Object(names), v, X)
  BY <1>4, <1>7 DEF t
<1> HIDE DEF w
<1> DEFINE p == Len(u) + 1  e == Len(u) + Len(names) + 2
<1>9. Framed(w, kind, p, e)
  <2>1. /\ Len(t) = Len(names) + 2 /\ t[1] = LB /\ t[Len(t)] = RB /\ Len(names) \in Nat /\ Len(u) \in Nat
        /\ \A i \in 1 .. Len(t) : t[i] \in ObjectNames \union {LB, RB}
    <3>1. t \in Seq(ObjectNames \union {LB, RB}) /\ IsObjectOf(t, names)
      BY ObjectIs DEF t
    <3>2. Len(names) \in Nat /\ Len(u) \in Nat
      BY <1>4, LenProperties
    <3> QED
      BY <3>1, <3>2, ElementOfSeq DEF IsObjectOf
  <2>2. \A i \in 1 .. Len(t) : t[i] # "fence" /\ t[i] # "json"
    BY <2>1, BraceFacts
  <2>3. Len(t) >= 2 /\ t[1] \notin Blanks /\ t[Len(t)] \notin Blanks /\ Len(u) + Len(t) = e
    BY <2>1, BraceFacts
  <2> HIDE DEF e
  <2>4. Laid(w, u, t, v, X)
    BY <1>8 DEF t
  <2>5. Framed(w, kind, Len(u) + 1, Len(u) + Len(t))
    BY <1>5, <1>6, <2>2, <2>3, <2>4, FrameLaid
  <2> QED
    BY <2>3, <2>5
<1>10. /\ NoneBefore(w, p)
       /\ clean => NoOpening(w, p) /\ NoClosing(w, e)
  BY <1>5, <1>6, <1>8, RestLaid
<1>11. HoldsObject(w, p, e, names)
  BY <1>8, ObjectLaid
<1> HIDE DEF p, e
<1>12. w \in Seq(X)
  BY <1>8 DEF Laid
<1>13. PICK c, d \in 1 .. Len(w) :
           /\ c <= d /\ TrimSpace(w) = SubSeq(w, c, d)
           /\ c <= p /\ e <= d /\ Framed(SubSeq(w, c, d), kind, p - c + 1, e - c + 1)
  BY <1>9, <1>12, FramedTrimmed
<1>14. HoldsObject(SubSeq(w, c, d), p - c + 1, e - c + 1, names)
  BY <1>11, <1>12, <1>13, HeldPiece
<1>15. Len(w) \in Nat /\ p \in Int /\ e \in Int /\ c <= d + 1
  BY <1>9, <1>12, <1>13, LenProperties DEF Framed, Stands
<1>16. SubSeq(w, c, d) \in Seq(X)
  <2>1. 1 <= c /\ d <= Len(w) /\ c \in Int /\ d \in Int
    BY <1>13, <1>15
  <2> QED
    BY <1>12, <1>15, <2>1, PieceIn
<1>17. /\ NoneBefore(SubSeq(w, c, d), p - c + 1)
       /\ clean => NoOpening(SubSeq(w, c, d), p - c + 1) /\ NoClosing(SubSeq(w, c, d), e - c + 1)
  BY <1>10, <1>12, <1>15, BeforePiece
<1> HIDE DEF clean
<1>18. TextFramed(SubSeq(w, c, d), X, kind, names, clean)
  BY <1>13, <1>14, <1>16, <1>17 DEF TextFramed
<1>19. TextFramed(TrimSpace(w), X, kind, names, clean)
  BY <1>13, <1>18
<1> QED
  BY <1>19 DEF w, t, X, clean

\* What the planner and the self-query make of such an answer.
ReadsWell(answer, kind, names, clean) ==
  /\ clean \/ kind \in {"plain", "tagged"} => NamesIn(ExtractJSON(answer), answer) = names
  /\ NamesOrError(NamesIn(ExtractJSON(answer), answer), names)
  /\ clean \/ kind = "tagged" => Extract(answer, 0) = names
  /\ \A limit \in Int : clean \/ kind = "tagged" => NamesOrError(Extract(answer, limit), names)

LEMMA AnswersRead ==
  ASSUME NEW X, NEW names \in Seq(ObjectNames), NEW kind \in Kinds, NEW answer, NEW clean \in BOOLEAN,
         TextFramed(TrimSpace(answer), X, kind, names, clean)
  PROVE  ReadsWell(answer, kind, names, clean)
<1> DEFINE s == TrimSpace(answer)
<1>1. s \in Seq(X)
  BY DEF TextFramed
<1>2. PICK p, e : /\ Framed(s, kind, p, e) /\ HoldsObject(s, p, e, names) /\ NoneBefore(s, p)
                  /\ clean => NoOpening(s, p) /\ NoClosing(s, e)
  BY DEF TextFramed
<1>3. HoldsObject(s, p, e, names)
  BY <1>2
<1>4. FrameFacts(s, kind, p, e)
  BY <1>1, <1>2, FramesHave
<1>5. NamesIn(SubSeq(s, p, e), answer) = names
  BY <1>1, <1>3, HeldNames
<1>6. /\ clean \/ kind \in {"plain", "tagged"} => ExtractJSON(answer) = SubSeq(s, p, e)
      /\ clean \/ kind = "tagged" => ExtractJSONFromLLMOutput(answer, 0) = SubSeq(s, p, e)
  <2>1. TrimSpace(answer) = s
    OBVIOUS
  <2> HIDE DEF s
  <2> QED
    BY <1>1, <1>2, <2>1, FramedRead
<1>7. clean \/ kind \in {"plain", "tagged"} => NamesIn(ExtractJSON(answer), answer) = names
  BY <1>5, <1>6
<1>8. clean \/ kind = "tagged" => Extract(answer, 0) = names
  BY <1>5, <1>6 DEF Extract
<1>9. ASSUME kind \in {"none", "open"} PROVE NamesOrError(NamesIn(ExtractJSON(answer), answer), names)
  <2>1. ~InTaggedFence(s).found
    BY <1>1, <1>2, <1>9, NotTagged DEF Kinds
  <2>2. ~(FenceAt(s, FALSE) > 0 /\ Contains(From(s, FenceAt(s, FALSE) + 1), "fence"))
    BY <1>1, <1>2, <1>9, NoFenceBehind
  <2>3. ExtractJSON(answer) = BetweenBraces(s)
    BY <2>1, <2>2, Zenon DEF ExtractJSON
  <2>4. Len(s) \in 1 .. Len(s)
    BY <1>4 DEF FrameFacts
  <2>5. SubSeq(s, 1, Len(s)) = s
    BY <1>1, WholePiece
  <2>6. TrimSpace(answer) = s
    OBVIOUS
  <2> HIDE DEF s
  <2>7. NamesOrError(NamesIn(BetweenBraces(SubSeq(s, 1, Len(s))), answer), names)
    BY <1>1, <1>2, <1>3, <2>4, <2>6, CutRead
  <2> QED
    BY <2>3, <2>5, <2>7
<1>10. NamesOrError(NamesIn(ExtractJSON(answer), answer), names)
  BY <1>7, <1>9 DEF NamesOrError, Kinds
<1>11. ASSUME NEW limit \in Int, clean \/ kind = "tagged" PROVE NamesOrError(Extract(answer, limit), names)
  <2>1. CASE limit > 0 /\ Len(s) > limit
    <3>1. TrimSpace(answer) = s
      OBVIOUS
    <3> HIDE DEF s
    <3> QED
      BY <1>1, <1>2, <2>1, <3>1, CutAnswer
  <2>2. CASE ~(limit > 0 /\ Len(s) > limit)
    <3>1. ExtractJSONFromLLMOutput(answer, limit) = ExtractJSONFromLLMOutput(answer, 0)
      BY <2>2 DEF ExtractJSONFromLLMOutput
    <3>2. Extract(answer, limit) = Extract(answer, 0)
      BY <3>1 DEF Extract
    <3> QED
      BY <1>8, <1>11, <3>2 DEF NamesOrError
  <2> QED
    BY <2>1, <2>2
<1> QED
  BY <1>7, <1>8, <1>10, <1>11 DEF ReadsWell

(***************************************************************************)
(* ObjectsAreFound (ExtractJSON of parse.go, ExtractJSONFromLLMOutput of   *)
(* selfquery.go, and what Decompose and Extract do with them): for all     *)
(* names, every limit, and all prose that holds no fence and, before the   *)
(* names, no other object.                                                 *)
(***************************************************************************)
THEOREM ObjectsFound ==
  ASSUME NEW P, "fence" \notin P, "json" \notin P, NEW before \in Seq(P), NEW after \in Seq(P), NoObject(before),
         NEW names \in Seq(ObjectNames), NEW fence \in Kinds, NEW limit \in Int
  PROVE  ObjectsAreFound(names, before, fence, after, limit)
<1> DEFINE answer == Around(before, fence, Object(names), after)
           clean == LB \notin ToSet(before) /\ RB \notin ToSet(after)
           tasks == NamesIn(ExtractJSON(answer), answer)
           plan == DecomposeAnswer(answer, 0, 0)
           error == <<"error">>
<1>1. TextFramed(TrimSpace(answer), P \union TextSymbols, fence, names, clean)
  BY AnswerFramed
<1>2. clean \in BOOLEAN
  OBVIOUS
<1> HIDE DEF answer, clean
<1>3. ReadsWell(answer, fence, names, clean)
  BY <1>1, <1>2, AnswersRead
<1> HIDE DEF tasks, plan, error
<1>4. plan = IF Validate(tasks, 6) THEN tasks ELSE error
  BY DEF plan, DecomposeAnswer, MaxTasks, tasks, error
<1>5. DecomposeAnswer(answer, 1, 3) = IF Validate(tasks, 1) THEN tasks ELSE error
  BY DEF DecomposeAnswer, MaxTasks, tasks, error
<1>6. tasks = names \/ tasks = error
  BY <1>3 DEF ReadsWell, NamesOrError, tasks, error
<1>7. clean \/ fence \in {"plain", "tagged"} => plan = IF Sound(names) THEN names ELSE error
  <2>1. clean \/ fence \in {"plain", "tagged"} => tasks = names
    BY <1>3 DEF ReadsWell, tasks
  <2>2. Validate(names, 6) <=> Sound(names)
    BY SoundPlans
  <2> QED
    BY <1>4, <2>1, <2>2
<1>8. plan = error \/ DecomposeAnswer(answer, 1, 3) = IF Len(plan) = 1 THEN plan ELSE error
  <2>1. Validate(names, 6) => (Validate(names, 1) <=> Len(names) = 1)
    BY SoundPlans
  <2>2. CASE tasks = error
    BY <1>4, <2>2
  <2>3. CASE tasks = names
    <3>1. CASE Validate(names, 6)
      <4>1. plan = names
        BY <1>4, <2>3, <3>1
      <4> QED
        BY <1>5, <2>1, <2>3, <3>1, <4>1
    <3>2. CASE ~Validate(names, 6)
      BY <1>4, <2>3, <3>2
    <3> QED
      BY <3>1, <3>2
  <2> QED
    BY <1>6, <2>2, <2>3
<1>9. clean \/ fence = "tagged" => Extract(answer, 0) = names
  BY <1>3 DEF ReadsWell
<1>10. clean \/ fence = "tagged" => Extract(answer, limit) = names \/ Extract(answer, limit) = error
  BY <1>3 DEF ReadsWell, NamesOrError, error
<1>11. clean <=> ("{" \notin ToSet(before) /\ "}" \notin ToSet(after))
  BY Zenon DEF clean, LB, RB
<1>12. ObjectsAreFound(names, before, fence, after, limit) <=>
         /\ clean \/ fence \in {"plain", "tagged"} => plan = IF Sound(names) THEN names ELSE error
         /\ plan = error \/ DecomposeAnswer(answer, 1, 3) = IF Len(plan) = 1 THEN plan ELSE error
         /\ clean \/ fence = "tagged" => Extract(answer, 0) = names /\ Extract(answer, limit) \in {names, error}
  BY Zenon DEF ObjectsAreFound, clean, LB, RB, Sound, plan, answer, error
<1> QED
  BY <1>7, <1>8, <1>9, <1>10, <1>12

-----------------------------------------------------------------------------
(***************************************************************************)
(* The chunks of a document.  In the answer, quotes stand around the texts *)
(* of the items only; so a part of the answer that is read as items is     *)
(* read as these items, whatever it was cut out for, and what is cut out   *)
(* from the bracket of the value is the value.                             *)
(***************************************************************************)
\* A piece without blanks at its ends has none to trim.
LEMMA PieceIsTrimmed ==
  ASSUME NEW X, NEW s \in Seq(X), NEW p, NEW e, Stands(s, p, e)
  PROVE  /\ SubSeq(s, p, e) \in Seq(X) /\ IsPiece(SubSeq(s, p, e), s, p, e)
         /\ TrimSpace(SubSeq(s, p, e)) = SubSeq(s, p, e)
<1> DEFINE t == SubSeq(s, p, e)  n == e - p + 1
<1>0. Len(s) \in Nat
  BY LenProperties
<1>1. p \in 1 .. Len(s) /\ e \in 1 .. Len(s) /\ p < e /\ s[p] \notin Blanks /\ s[e] \notin Blanks
  BY DEF Stands
<1>2. p \in Int /\ e \in Int /\ 1 <= p /\ p <= e + 1 /\ e <= Len(s)
  BY <1>0, <1>1
<1>3. t \in Seq(X) /\ IsPiece(t, s, p, e)
  BY <1>2, PieceIn
<1> HIDE DEF t
<1>4. Len(t) = n /\ \A i \in 1 .. n : t[i] = s[p + i - 1]
  BY <1>3 DEF IsPiece
<1>5. 1 \in 1 .. n /\ n \in 1 .. n /\ p + 1 - 1 = p /\ p + n - 1 = e
  BY <1>0, <1>1
<1> HIDE DEF n
<1>6. t[1] \notin Blanks /\ t[n] \notin Blanks
  BY <1>1, <1>4, <1>5
<1>7. \A i \in 1 .. Len(t) : t[i] \notin Blanks => 1 <= i /\ i <= n
  BY <1>4
<1>8. TrimSpace(t) = SubSeq(t, 1, n)
  BY <1>3, <1>4, <1>5, <1>6, <1>7, TrimIs
<1>9. SubSeq(t, 1, n) = t
  BY <1>3, <1>4, WholePiece
<1> QED
  BY <1>3, <1>8, <1>9 DEF t

\* With or without a tag, it is the first fence that is looked into.
LEMMA TagOrNot ==
  ASSUME NEW X, NEW s \in Seq(X), NEW kind \in Kinds, NEW p, NEW e, Framed(s, kind, p, e)
  PROVE  (IF FenceAt(s, TRUE) > 0 THEN FenceAt(s, TRUE) ELSE FenceAt(s, FALSE))
           = IF kind = "none" THEN 0 ELSE p - 2
<1> DEFINE f == FenceAt(s, TRUE)
<1>0. Len(s) \in Nat /\ DOMAIN s = 1 .. Len(s) /\ p \in 1 .. Len(s)
  BY LenProperties DEF Framed, Stands
<1>1. ASSUME f > 0 PROVE kind # "none" /\ f = p - 2
  <2> DEFINE F == Fences(s, TRUE)
  <2>1. F # {}
    <3>1. Fences(s, TRUE) = {} => FenceAt(s, TRUE) = 0
      BY FenceAtIs
    <3> HIDE DEF f, F
    <3>2. F = {} => f = 0
      BY <3>1 DEF f, F
    <3> QED
      BY <1>1, <3>2
  <2>2. \A q \in F : q \in 1 .. Len(s) /\ s[q] = "fence" /\ q < Len(s) /\ s[q + 1] = "json"
    BY <1>0 DEF Fences
  <2>3. F \in SUBSET (1 .. Len(s))
    BY <2>2
  <2> HIDE DEF F
  <2>4. LeastOf(F) \in F /\ \A q \in F : LeastOf(F) <= q
    BY <1>0, <2>1, <2>3, Extremes
  <2>5. f = LeastOf(F)
    <3> DEFINE q == LeastOf(F)
    <3>1. q \in Fences(s, TRUE) /\ \A j \in Fences(s, TRUE) : q <= j
      BY <2>4 DEF F
    <3> HIDE DEF q
    <3>2. FenceAt(s, TRUE) = q
      BY <3>1, FenceAtIs
    <3> QED
      BY <3>2 DEF q
  <2> HIDE DEF f
  <2>6. f \in 1 .. Len(s) /\ s[f + 1] = "json" /\ f + 1 \in 1 .. Len(s)
    BY <1>0, <2>2, <2>4, <2>5
  <2>7. kind \in {"tagged", "open"} /\ f + 1 = p - 1
    BY <2>6 DEF Framed
  <2> QED
    BY <1>0, <2>6, <2>7
<1> DEFINE g == FenceAt(s, FALSE)
<1>2. (kind = "none" => g = 0) /\ (kind # "none" => g = p - 2)
  BY FirstFence
<1> HIDE DEF f, g
<1>3. (IF f > 0 THEN f ELSE g) = IF kind = "none" THEN 0 ELSE p - 2
  BY <1>1, <1>2
<1> QED
  BY <1>3 DEF f, g

LEMMA TagGoes ==
  ASSUME NEW X, NEW s \in Seq(X), NEW p, NEW e, Stands(s, p, e), p > 1, s[p - 1] = "json"
  PROVE  TrimPrefix(SubSeq(s, p - 1, e), "json") = SubSeq(s, p, e)
<1> DEFINE t == SubSeq(s, p - 1, e)  a == p - 1
<1>0. Len(s) \in Nat
  BY LenProperties
<1>1. p \in 1 .. Len(s) /\ e \in 1 .. Len(s) /\ p < e
  BY DEF Stands
<1>2. a \in Int /\ e \in Int /\ 1 <= a /\ a <= e + 1 /\ e <= Len(s) /\ 1 \in 1 .. e - a + 1 /\ a + 1 - 1 = a
  BY <1>0, <1>1
<1>3. t \in Seq(X) /\ IsPiece(t, s, a, e)
  BY <1>2, PieceIn
<1> HIDE DEF t
<1>4. Len(t) = e - a + 1 /\ t[1] = s[a]
  BY <1>2, <1>3 DEF IsPiece
<1>5. t # <<>>
  BY <1>2, <1>4, EmptySeq
<1>6. Head(t) = "json"
  BY <1>3, <1>4, <1>5, HeadIsFirst
<1>7. TrimPrefix(t, "json") = SubSeq(t, 2, Len(t))
  BY <1>3, <1>5, <1>6, TailIsSubSeq DEF TrimPrefix
<1>8. SubSeq(t, 2, Len(t)) = SubSeq(s, p, e)
  <2> DEFINE n == e - a + 1
  <2>1. 2 \in Int /\ n \in Int /\ 1 <= 2 /\ 2 <= n + 1 /\ n <= e - a + 1 /\ a + 2 - 1 = p /\ a + n - 1 = e
    BY <1>1, <1>2
  <2> HIDE DEF n, a
  <2>2. SubSeq(SubSeq(s, a, e), 2, n) = SubSeq(s, a + 2 - 1, a + n - 1)
    BY <1>2, <2>1, PieceOfPiece
  <2> QED
    BY <1>4, <2>1, <2>2 DEF t, a, n
<1> QED
  BY <1>7, <1>8 DEF t

\* stripMarkdownCodeFence takes out what a closed fence is around.
LEMMA FenceGoes ==
  ASSUME NEW X, NEW s \in Seq(X), NEW kind \in Kinds, NEW p, NEW e, Framed(s, kind, p, e)
  PROVE  stripMarkdownCodeFence(s) = IF kind \in {"plain", "tagged"} THEN SubSeq(s, p, e) ELSE s
<1> DEFINE i == IF FenceAt(s, TRUE) > 0 THEN FenceAt(s, TRUE) ELSE FenceAt(s, FALSE)
           rest == From(s, i + 1)
           k == Index(rest, "fence")
           inner == TrimSpace(Before(rest, k))
<1>1. stripMarkdownCodeFence(s) = IF i = 0 \/ ~Contains(rest, "fence") THEN s
                                  ELSE TrimSpace(TrimPrefix(inner, "json"))
  BY DEF stripMarkdownCodeFence
<1>2. i = IF kind = "none" THEN 0 ELSE p - 2
  BY TagOrNot
<1> HIDE DEF i, k, inner
<1>3. Stands(s, p, e) /\ FrameFacts(s, kind, p, e)
  BY FramesHave DEF Framed
<1>4. /\ Len(s) \in Nat /\ p \in 1 .. Len(s) /\ e \in 1 .. Len(s) /\ p < e
  BY <1>3 DEF FrameFacts
<1>5. CASE kind = "none"
  BY <1>1, <1>2, <1>5
<1>6. CASE kind = "open"
  <2>1. ~(FenceAt(s, FALSE) > 0 /\ Contains(From(s, FenceAt(s, FALSE) + 1), "fence"))
    BY <1>6, NoFenceBehind
  <2>2. kind # "none"
    BY <1>6
  <2>3. FenceAt(s, FALSE) = i
    BY <1>2, <2>2, FirstFence
  <2>4. p - 2 \in 1 .. Len(s)
    BY <1>3, <2>2 DEF FrameFacts
  <2>5. i > 0
    BY <1>2, <2>2, <2>4
  <2>6. ~Contains(rest, "fence")
    BY <2>1, <2>3, <2>5
  <2> QED
    BY <1>1, <1>6, <2>6
<1>7. ASSUME kind \in {"plain", "tagged"} PROVE TrimSpace(SubSeq(s, p, e)) = SubSeq(s, p, e)
  BY <1>3, PieceIsTrimmed
<1>8. CASE kind = "plain"
  <2>1. /\ p - 2 \in 1 .. Len(s) /\ e + 1 \in 1 .. Len(s) /\ s[e + 1] = "fence" /\ s[p - 1] = "newline"
        /\ s[p] \notin Blanks /\ s[e] \notin Blanks
    BY <1>3, <1>8 DEF FrameFacts
  <2> DEFINE a == p - 1
  <2>2. i # 0 /\ i + 1 = a
    BY <1>2, <1>4, <1>8, <2>1
  <2>3. rest = From(s, a)
    BY <2>2
  <2>4. a \in 1 .. Len(s) /\ a <= p /\ a <= e + 1 /\ e <= e
    BY <1>4, <2>1
  <2>5. ASSUME NEW j \in a .. Len(s), s[j] = "fence" PROVE j = e + 1
    <3>1. j \in 1 .. Len(s) /\ j # p - 2
      BY <1>4, <2>4
    <3>2. FencePlace("plain", p, e, j)
      BY <1>8, <2>5, <3>1 DEF Framed
    <3> QED
      BY <3>1, <3>2 DEF FencePlace
  <2>6. ASSUME NEW j \in a .. e, j < p \/ j > e PROVE s[j] \in Blanks
    <3>1. j = p - 1
      BY <1>4, <2>6
    <3> QED
      BY <2>1, <3>1 DEF Blanks
  <2> HIDE DEF rest, a
  <2>7. Contains(rest, "fence") /\ k = (e + 1) - a + 1
    BY <2>1, <2>3, <2>4, <2>5, FenceBehind DEF k
  <2>8. k = e - a + 2
    BY <1>4, <2>4, <2>7
  <2>9. inner = SubSeq(s, p, e)
    BY <1>4, <2>1, <2>3, <2>4, <2>6, <2>8, HeldTrimmed DEF inner
  <2>10. TrimPrefix(inner, "json") = inner
    <3>1. inner \in Seq(X) /\ IsPiece(inner, s, p, e)
      BY <1>3, <2>9, PieceIsTrimmed
    <3>2. inner[1] = s[p]
      <4>1. 1 \in 1 .. e - p + 1 /\ p + 1 - 1 = p
        BY <1>4
      <4> QED
        BY <3>1, <4>1 DEF IsPiece
    <3>3. s[p] # "json"
      <4>1. s[p] = "json" => p = p - 1
        BY <1>4, <1>8 DEF Framed
      <4> QED
        BY <1>4, <4>1
    <3>4. CASE inner # <<>>
      <4>1. Head(inner) = inner[1]
        BY <3>1, <3>4, HeadIsFirst
      <4> QED
        BY <3>2, <3>3, <4>1 DEF TrimPrefix
    <3>5. CASE inner = <<>>
      BY <3>5 DEF TrimPrefix
    <3> QED
      BY <3>4, <3>5
  <2> QED
    BY <1>1, <1>7, <1>8, <2>2, <2>7, <2>9, <2>10
<1>9. CASE kind = "tagged"
  <2>1. /\ p - 2 \in 1 .. Len(s) /\ e + 2 \in 1 .. Len(s) /\ s[e + 2] = "fence" /\ s[e + 1] = "blank"
        /\ s[p - 1] = "json" /\ s[e] \notin Blanks
    BY <1>3, <1>9 DEF FrameFacts
  <2> DEFINE a == p - 1  b == e + 1
  <2>2. i # 0 /\ i + 1 = a
    BY <1>2, <1>4, <1>9, <2>1
  <2>3. rest = From(s, a)
    BY <2>2
  <2>4. /\ a \in 1 .. Len(s) /\ a < e /\ a <= a /\ a <= e + 2 /\ b \in 1 .. Len(s) /\ e <= b /\ p > 1
    BY <1>4, <2>1
  <2>5. ASSUME NEW j \in a .. Len(s), s[j] = "fence" PROVE j = e + 2
    <3>1. j \in 1 .. Len(s) /\ j # p - 2
      BY <1>4, <2>4
    <3>2. FencePlace("tagged", p, e, j)
      BY <1>9, <2>5, <3>1 DEF Framed
    <3> QED
      BY <3>1, <3>2 DEF FencePlace
  <2>6. ASSUME NEW j \in a .. b, j < a \/ j > e PROVE s[j] \in Blanks
    <3>1. j = e + 1
      BY <1>4, <2>4, <2>6
    <3> QED
      BY <2>1, <3>1 DEF Blanks
  <2>7. s[a] \notin Blanks
    BY <2>1 DEF Blanks
  <2>8. SubSeq(s, a, e) = SubSeq(s, p - 1, e)
    OBVIOUS
  <2>9. (e + 2) - a + 1 = b - a + 2
    BY <1>4, <2>4
  <2> HIDE DEF rest, a, b
  <2>10. Contains(rest, "fence") /\ k = (e + 2) - a + 1
    BY <2>1, <2>3, <2>4, <2>5, FenceBehind DEF k
  <2>11. k = b - a + 2
    BY <2>9, <2>10
  <2>12. inner = SubSeq(s, a, e)
    <3>1. a \in 1 .. Len(s) /\ e \in 1 .. Len(s) /\ a < e /\ s[a] \notin Blanks /\ s[e] \notin Blanks
      BY <1>4, <2>1, <2>4, <2>7
    <3>2. TrimSpace(Before(rest, k)) = SubSeq(s, a, e)
      BY <2>3, <2>4, <2>6, <2>11, <3>1, HeldTrimmed
    <3> QED
      BY <3>2 DEF inner
  <2>13. TrimPrefix(inner, "json") = SubSeq(s, p, e)
    BY <1>3, <2>1, <2>4, <2>8, <2>12, TagGoes
  <2> QED
    BY <1>1, <1>7, <1>9, <2>2, <2>10, <2>13
<1> QED
  BY <1>5, <1>6, <1>8, <1>9 DEF Kinds

\* The other brackets, by a name: the provers read no string but a word.
LS == "["
RS == "]"

LEMMA BracketFacts ==
  /\ LB # RB /\ LB # LS /\ LB # RS /\ RB # LS /\ RB # RS /\ LS # RS
  /\ \A x \in {LB, RB, LS, RS} : /\ x # "quote" /\ x # "chunks" /\ x # "word" /\ x # "backslash"
                                 /\ x # "fence" /\ x # "json" /\ x \notin Blanks
  /\ ItemTexts = {"word", RS, RB} /\ Openings = {LB, LS} /\ Closing(LB) = RB /\ Closing(LS) = RS
BY Zenon DEF LB, RB, LS, RS, Blanks, ItemTexts, Openings, Closing

ChunkSymbols == {"word", "quote", "chunks", LB, RB, LS, RS}

Item(x) == <<LB, "quote", x, "quote", RB>>

\* The first m items stand in s behind the place q.
HasItems(s, q, items, m) ==
  \A k \in 1 .. m : /\ s[q + 5 * k - 4] = LB /\ s[q + 5 * k - 3] = "quote" /\ s[q + 5 * k - 2] = items[k]
                    /\ s[q + 5 * k - 1] = "quote" /\ s[q + 5 * k] = RB

LEMMA ItemIs ==
  ASSUME NEW x \in ItemTexts
  PROVE  /\ Item(x) \in Seq(ChunkSymbols) /\ Len(Item(x)) = 5
         /\ Item(x)[1] = LB /\ Item(x)[2] = "quote" /\ Item(x)[3] = x /\ Item(x)[4] = "quote" /\ Item(x)[5] = RB
<1>1. x \in ChunkSymbols /\ LB \in ChunkSymbols /\ RB \in ChunkSymbols /\ "quote" \in ChunkSymbols
  BY BracketFacts DEF ChunkSymbols
<1> QED
  BY <1>1 DEF Item

Items(items) == FlattenSeq([i \in DOMAIN items |-> Item(items[i])])

LEMMA ItemsAre ==
  ASSUME NEW items \in Seq(ItemTexts)
  PROVE  /\ Items(items) \in Seq(ChunkSymbols) /\ Len(Items(items)) = 5 * Len(items) /\ Len(items) \in Nat
         /\ HasItems(Items(items), 0, items, Len(items))
<1> DEFINE parts == [i \in DOMAIN items |-> Item(items[i])]  n == Len(items)
<1>0. n \in Nat /\ DOMAIN items = 1 .. n /\ \A i \in 1 .. n : items[i] \in ItemTexts
  BY LenProperties, ElementOfSeq
<1>1. \A i \in 1 .. n : parts[i] = Item(items[i]) /\ parts[i] \in Seq(ChunkSymbols)
  BY <1>0, ItemIs
<1>2. parts \in Seq(Seq(ChunkSymbols)) /\ Len(parts) = n
  <2>1. parts = [i \in 1 .. n |-> Item(items[i])]
    BY <1>0
  <2>2. \A i \in 1 .. n : Item(items[i]) \in Seq(ChunkSymbols)
    BY <1>0, ItemIs
  <2>3. [i \in 1 .. n |-> Item(items[i])] \in Seq(Seq(ChunkSymbols))
    BY <1>0, <2>2, IsASeq
  <2>4. parts \in [1 .. n -> Seq(ChunkSymbols)]
    BY <2>1, <2>2
  <2> HIDE DEF parts, n
  <2>5. parts \in Seq(Seq(ChunkSymbols))
    BY <2>1, <2>3
  <2>6. DOMAIN parts = 1 .. n /\ DOMAIN parts = 1 .. Len(parts) /\ Len(parts) \in Nat
    BY <2>4, <2>5, LenProperties
  <2> QED
    BY <1>0, <2>5, <2>6
<1>3. Items(items) = FlattenSeq(parts)
  BY DEF Items
<1> HIDE DEF parts
<1>4. CASE n = 0
  <2>1. parts = <<>>
    BY <1>2, <1>4, EmptySeq
  <2>2. FlattenSeq(parts) = <<>> /\ <<>> \in Seq(ChunkSymbols) /\ Len(<<>>) = 0
    BY <2>1 DEF FlattenSeq
  <2> QED
    BY <1>0, <1>3, <1>4, <2>2 DEF HasItems
<1>5. CASE n # 0
  <2> DEFINE Fine(f, m) == f \in Seq(ChunkSymbols) /\ Len(f) = 5 * m /\ HasItems(f, 0, items, m)
  <2>1. PICK g : /\ g[1] = parts[1] /\ g[n] = FlattenSeq(parts)
                 /\ \A m \in 2 .. n : g[m] = g[m - 1] \o parts[m]
    <3>1. parts \in Seq(Seq(ChunkSymbols)) /\ Len(parts) # 0
      BY <1>2, <1>5
    <3>2. \E g : /\ g[1] = parts[1] /\ g[Len(parts)] = FlattenSeq(parts)
                 /\ \A m \in 2 .. Len(parts) : g[m] = g[m - 1] \o parts[m]
      BY <3>1, FlattenRuns
    <3> QED
      BY <1>2, <3>2
  <2> DEFINE Good == {m \in Nat : m <= n => Fine(g[m], m)}
  <2>2. 1 \in Good
    <3>1. 1 \in 1 .. n
      BY <1>0, <1>5
    <3> DEFINE t == g[1]
    <3>2. t = Item(items[1]) /\ items[1] \in ItemTexts
      BY <1>0, <1>1, <2>1, <3>1
    <3>3. /\ t \in Seq(ChunkSymbols) /\ Len(t) = 5
          /\ t[1] = LB /\ t[2] = "quote" /\ t[3] = items[1] /\ t[4] = "quote" /\ t[5] = RB
      BY <3>2, ItemIs
    <3> HIDE DEF t
    <3>4. ASSUME NEW k \in 1 .. 1
          PROVE  /\ t[0 + 5 * k - 4] = LB /\ t[0 + 5 * k - 3] = "quote" /\ t[0 + 5 * k - 2] = items[k]
                 /\ t[0 + 5 * k - 1] = "quote" /\ t[0 + 5 * k] = RB
      <4>1. k = 1 /\ 0 + 5 * 1 - 4 = 1 /\ 0 + 5 * 1 - 3 = 2 /\ 0 + 5 * 1 - 2 = 3 /\ 0 + 5 * 1 - 1 = 4 /\ 0 + 5 * 1 = 5
        OBVIOUS
      <4> QED
        BY <3>3, <4>1
    <3>5. Fine(t, 1)
      BY <3>3, <3>4 DEF HasItems
    <3> QED
      BY <3>5 DEF t
  <2>3. ASSUME NEW m \in 1 .. n - 1, m \in Good PROVE m + 1 \in Good
    <3> DEFINE s == g[m]  t == parts[m + 1]  r == g[m + 1]
    <3>1. m \in Nat /\ m <= n /\ m + 1 \in 1 .. n /\ m + 1 \in 2 .. n /\ (m + 1) - 1 = m /\ m + 1 \in Nat
      BY <1>0
    <3>2. Fine(s, m)
      BY <2>3, <3>1
    <3>3. r = s \o t
      BY <2>1, <3>1
    <3>4. t = Item(items[m + 1]) /\ items[m + 1] \in ItemTexts
      BY <1>0, <1>1, <3>1
    <3>5. /\ t \in Seq(ChunkSymbols) /\ Len(t) = 5
          /\ t[1] = LB /\ t[2] = "quote" /\ t[3] = items[m + 1] /\ t[4] = "quote" /\ t[5] = RB
      BY <3>4, ItemIs
    <3> HIDE DEF s, t, r
    <3>6. IsBoth(r, s, t, ChunkSymbols)
      BY <3>2, <3>3, <3>5, BothIn
    <3>7. /\ r \in Seq(ChunkSymbols) /\ Len(r) = 5 * m + 5
          /\ \A i \in 1 .. 5 * m : r[i] = s[i]
          /\ \A i \in 1 .. 5 : r[5 * m + i] = t[i]
      BY <3>2, <3>5, <3>6 DEF IsBoth
    <3>8. ASSUME NEW k \in 1 .. m + 1
          PROVE  /\ r[0 + 5 * k - 4] = LB /\ r[0 + 5 * k - 3] = "quote" /\ r[0 + 5 * k - 2] = items[k]
                 /\ r[0 + 5 * k - 1] = "quote" /\ r[0 + 5 * k] = RB
      <4>1. CASE k \in 1 .. m
        <5>1. /\ 0 + 5 * k - 4 \in 1 .. 5 * m /\ 0 + 5 * k - 3 \in 1 .. 5 * m /\ 0 + 5 * k - 2 \in 1 .. 5 * m
              /\ 0 + 5 * k - 1 \in 1 .. 5 * m /\ 0 + 5 * k \in 1 .. 5 * m
          BY <3>1, <4>1
        <5> QED
          BY <3>2, <3>7, <4>1, <5>1 DEF HasItems
      <4>2. CASE k = m + 1
        <5>1. /\ 0 + 5 * k - 4 = 5 * m + 1 /\ 0 + 5 * k - 3 = 5 * m + 2 /\ 0 + 5 * k - 2 = 5 * m + 3
              /\ 0 + 5 * k - 1 = 5 * m + 4 /\ 0 + 5 * k = 5 * m + 5
          BY <3>1, <4>2
        <5>2. 1 \in 1 .. 5 /\ 2 \in 1 .. 5 /\ 3 \in 1 .. 5 /\ 4 \in 1 .. 5 /\ 5 \in 1 .. 5
          OBVIOUS
        <5> QED
          BY <3>5, <3>7, <4>2, <5>1, <5>2
      <4> QED
        BY <3>1, <4>1, <4>2
    <3>9. Fine(r, m + 1)
      <4>1. 5 * m + 5 = 5 * (m + 1)
        BY <3>1
      <4> QED
        BY <3>7, <3>8, <4>1 DEF HasItems
    <3> HIDE DEF Fine
    <3> QED
      BY <3>1, <3>9 DEF r
  <2>4. 1 .. n \subseteq Good
    <3> HIDE DEF Good
    <3>1. 1 \in Nat
      OBVIOUS
    <3> QED
      BY <1>0, <2>2, <2>3, <3>1, NumbersFrom
  <2>5. Fine(g[n], n)
    <3> HIDE DEF Fine
    <3>1. n \in 1 .. n /\ n <= n
      BY <1>0, <1>5
    <3> QED
      BY <2>4, <3>1
  <2> QED
    BY <1>0, <1>3, <2>1, <2>5
<1> QED
  BY <1>4, <1>5

\* The array of these items stands in s from the place q on.
IsArray(s, q, items) ==
  /\ q \in 1 .. Len(s) /\ q + 5 * Len(items) + 1 \in 1 .. Len(s)
  /\ s[q] = LS /\ s[q + 5 * Len(items) + 1] = RS /\ HasItems(s, q, items, Len(items))

\* Quotes stand around items only.
QuotesItems(s, q, n) ==
  \A i \in 1 .. Len(s) : s[i] = "quote" => \E k \in 1 .. n : i = q + 5 * k - 3 \/ i = q + 5 * k - 1

LEMMA ItemsMove ==
  ASSUME NEW t, NEW s, NEW q \in Nat, NEW d \in Int, NEW items, NEW n \in Nat, HasItems(t, q, items, n),
         \A i \in q + 1 .. q + 5 * n : s[d + i] = t[i], NEW r, r = d + q
  PROVE  HasItems(s, r, items, n)
<1> SUFFICES ASSUME NEW k \in 1 .. n
             PROVE  /\ s[r + 5 * k - 4] = LB /\ s[r + 5 * k - 3] = "quote" /\ s[r + 5 * k - 2] = items[k]
                    /\ s[r + 5 * k - 1] = "quote" /\ s[r + 5 * k] = RB
  BY DEF HasItems
<1>1. /\ q + 5 * k - 4 \in q + 1 .. q + 5 * n /\ q + 5 * k - 3 \in q + 1 .. q + 5 * n
      /\ q + 5 * k - 2 \in q + 1 .. q + 5 * n /\ q + 5 * k - 1 \in q + 1 .. q + 5 * n
      /\ q + 5 * k \in q + 1 .. q + 5 * n
  OBVIOUS
<1>2. /\ r + 5 * k - 4 = d + (q + 5 * k - 4) /\ r + 5 * k - 3 = d + (q + 5 * k - 3)
      /\ r + 5 * k - 2 = d + (q + 5 * k - 2) /\ r + 5 * k - 1 = d + (q + 5 * k - 1) /\ r + 5 * k = d + (q + 5 * k)
  OBVIOUS
<1>3. /\ t[q + 5 * k - 4] = LB /\ t[q + 5 * k - 3] = "quote" /\ t[q + 5 * k - 2] = items[k]
      /\ t[q + 5 * k - 1] = "quote" /\ t[q + 5 * k] = RB
  BY DEF HasItems
<1> QED
  BY <1>1, <1>2, <1>3

LEMMA ArrayMoves ==
  ASSUME NEW X, NEW s \in Seq(X), NEW t, NEW q, NEW p \in 1 .. Len(s), NEW e \in 1 .. Len(s), NEW Y,
         NEW items \in Seq(Y), IsPiece(t, s, p, e), IsArray(t, q, items)
  PROVE  IsArray(s, p + q - 1, items)
<1> DEFINE n == Len(items)  m == Len(s)
<1>0. n \in Nat /\ m \in Nat
  BY LenProperties
<1>1. /\ Len(t) = e - p + 1 /\ \A i \in 1 .. e - p + 1 : t[i] = s[p + i - 1]
  BY DEF IsPiece
<1>2. /\ q \in 1 .. e - p + 1 /\ q + 5 * n + 1 \in 1 .. e - p + 1
      /\ t[q] = LS /\ t[q + 5 * n + 1] = RS /\ HasItems(t, q, items, n)
  BY <1>1 DEF IsArray
<1> HIDE DEF n, m
<1>3. p \in 1 .. m /\ e \in 1 .. m /\ q \in Int
  BY <1>0, <1>2 DEF m
<1> DEFINE r == p + q - 1  d == p - 1
<1>4. r \in 1 .. m /\ r + 5 * n + 1 \in 1 .. m /\ d \in Int /\ r = d + q /\ q \in Nat
  BY <1>0, <1>2, <1>3
<1>5. r + 5 * n + 1 = p + (q + 5 * n + 1) - 1
  BY <1>0, <1>3
<1>6. s[r] = LS /\ s[r + 5 * n + 1] = RS
  <2>1. t[q] = s[p + q - 1]
    BY <1>1, <1>2
  <2>2. t[q + 5 * n + 1] = s[p + (q + 5 * n + 1) - 1]
    BY <1>1, <1>2
  <2> QED
    BY <1>2, <1>5, <2>1, <2>2
<1>7. ASSUME NEW i \in q + 1 .. q + 5 * n PROVE s[d + i] = t[i]
  <2>1. i \in 1 .. e - p + 1 /\ d + i = p + i - 1
    BY <1>0, <1>2, <1>3
  <2> QED
    BY <1>1, <2>1
<1> HIDE DEF r, d
<1>8. HasItems(s, r, items, n)
  BY <1>0, <1>2, <1>4, <1>7, ItemsMove
<1>9. IsArray(s, r, items)
  BY <1>4, <1>6, <1>8 DEF IsArray, n, m
<1> QED
  BY <1>9 DEF r

\* The text that an array, or an object with an array, is written as.
ArrayAt(open) == IF open = LB THEN 3 ELSE 1

IsValue(t, open, items) ==
  /\ t \in Seq(ChunkSymbols) /\ Len(t) = ArrayAt(open) + 5 * Len(items) + (IF open = LB THEN 2 ELSE 1)
  /\ t[1] = open /\ t[Len(t)] = Closing(open) /\ IsArray(t, ArrayAt(open), items)
  /\ open = LB => t[2] = "chunks"

LEMMA ArrayIs ==
  ASSUME NEW items \in Seq(ItemTexts)
  PROVE  IsValue(Array(items), LS, items)
<1> DEFINE X == ChunkSymbols  first == <<LS>>  last == <<RS>>  flat == Items(items)
           n == Len(items)  r == first \o flat  t == r \o last
<1>1. Array(items) = t
  BY Zenon DEF Array, LB, RB, LS, RS, Items, Item
<1>2. /\ first \in Seq(X) /\ last \in Seq(X) /\ Len(first) = 1 /\ Len(last) = 1
      /\ first[1] = LS /\ last[1] = RS
  BY DEF ChunkSymbols
<1>3. flat \in Seq(X) /\ Len(flat) = 5 * n /\ n \in Nat /\ HasItems(flat, 0, items, n)
  BY ItemsAre
<1> HIDE DEF X, first, last, flat
<1>4. r \in Seq(X) /\ Len(r) = 1 + 5 * n /\ r[1] = LS /\ \A i \in 1 .. 5 * n : r[1 + i] = flat[i]
  <2>1. IsBoth(r, first, flat, X)
    BY <1>2, <1>3, BothIn
  <2> HIDE DEF r
  <2> QED
    BY <1>2, <1>3, <2>1 DEF IsBoth
<1> HIDE DEF r
<1>5. /\ t \in Seq(X) /\ Len(t) = (1 + 5 * n) + 1 /\ (\A i \in 1 .. 1 + 5 * n : t[i] = r[i])
      /\ t[(1 + 5 * n) + 1] = RS
  <2>1. IsBoth(t, r, last, X)
    BY <1>2, <1>4, BothIn
  <2> HIDE DEF t
  <2> QED
    BY <1>2, <1>4, <2>1 DEF IsBoth
<1> HIDE DEF t, n
<1>6. t[1] = LS
  BY <1>3, <1>4, <1>5
<1>7. \A i \in 0 + 1 .. 0 + 5 * n : t[1 + i] = flat[i]
  BY <1>3, <1>4, <1>5
<1>8. HasItems(t, 1, items, n)
  <2>1. 1 = 1 + 0 /\ 0 \in Nat /\ 1 \in Int
    OBVIOUS
  <2> QED
    BY <1>3, <1>7, <2>1, ItemsMove
<1>9. ArrayAt(LS) = 1 /\ LS # LB
  BY BracketFacts DEF ArrayAt
<1>10. (1 + 5 * n) + 1 = 1 + 5 * n + 1 /\ 1 \in 1 .. 1 + 5 * n + 1 /\ 1 + 5 * n + 1 \in 1 .. 1 + 5 * n + 1
  BY <1>3
<1>11. IsArray(t, 1, items)
  BY <1>5, <1>6, <1>8, <1>10 DEF IsArray, n
<1>12. IsValue(t, LS, items)
  BY <1>5, <1>6, <1>9, <1>10, <1>11, BracketFacts DEF IsValue, X, n
<1> QED
  BY <1>1, <1>12

LEMMA ChunkObjectIs ==
  ASSUME NEW items \in Seq(ItemTexts)
  PROVE  /\ IsValue(ChunkObject(items), LB, items)
         /\ IsPiece(Array(items), ChunkObject(items), 3, 5 * Len(items) + 4)
<1> DEFINE X == ChunkSymbols  first == <<LB, "chunks">>  last == <<RB>>  array == Array(items)
           n == Len(items)  r == first \o array  t == r \o last  l == 5 * n + 2
<1>1. ChunkObject(items) = t
  BY Zenon DEF ChunkObject, LB, RB
<1>2. /\ first \in Seq(X) /\ last \in Seq(X) /\ Len(first) = 2 /\ Len(last) = 1
      /\ first[1] = LB /\ first[2] = "chunks" /\ last[1] = RB
  BY DEF ChunkSymbols
<1>3. IsValue(array, LS, items) /\ n \in Nat
  BY ArrayIs, LenProperties
<1>4. array \in Seq(X) /\ Len(array) = l /\ IsArray(array, 1, items)
  <2>1. ArrayAt(LS) = 1 /\ LS # LB
    BY BracketFacts DEF ArrayAt
  <2>2. 1 + 5 * n + 1 = l
    BY <1>3
  <2> HIDE DEF array, l
  <2> QED
    BY <1>3, <2>1, <2>2 DEF IsValue
<1>5. l \in Nat
  BY <1>3
<1> HIDE DEF X, first, last, array
<1>6. r \in Seq(X) /\ Len(r) = 2 + l /\ r[1] = LB /\ r[2] = "chunks" /\ \A i \in 1 .. l : r[2 + i] = array[i]
  <2>1. IsBoth(r, first, array, X)
    BY <1>2, <1>4, BothIn
  <2> HIDE DEF r, l
  <2> QED
    BY <1>2, <1>4, <2>1 DEF IsBoth
<1> HIDE DEF r, l
<1>7. /\ t \in Seq(X) /\ Len(t) = (2 + l) + 1 /\ (\A i \in 1 .. 2 + l : t[i] = r[i])
      /\ t[(2 + l) + 1] = RB
  <2>1. IsBoth(t, r, last, X)
    BY <1>2, <1>6, BothIn
  <2> HIDE DEF t
  <2> QED
    BY <1>2, <1>6, <2>1 DEF IsBoth
<1> HIDE DEF t
<1>8. t[1] = LB /\ t[2] = "chunks" /\ \A i \in 1 .. l : t[2 + i] = array[i]
  <2>1. 1 \in 1 .. 2 + l /\ 2 \in 1 .. 2 + l /\ \A i \in 1 .. l : 2 + i \in 1 .. 2 + l
    BY <1>5
  <2> QED
    BY <1>6, <1>7, <2>1
<1>9. IsArray(t, 3, items) /\ IsPiece(array, t, 3, 2 + l)
  <2>1. 3 \in 1 .. Len(t) /\ 2 + l \in 1 .. Len(t) /\ (2 + l) - 3 + 1 = l /\ 3 + 1 - 1 = 3
        /\ \A i \in 1 .. l : 3 + i - 1 = 2 + i
    BY <1>3, <1>5, <1>7 DEF l
  <2>2. IsPiece(array, t, 3, 2 + l)
    BY <1>4, <1>8, <2>1 DEF IsPiece
  <2>3. IsArray(t, 3 + 1 - 1, items)
    BY <1>4, <1>7, <2>1, <2>2, ArrayMoves
  <2> QED
    BY <2>1, <2>2, <2>3
<1>10. ArrayAt(LB) = 3 /\ (2 + l) + 1 = 3 + 5 * n + 2
  BY <1>3 DEF ArrayAt, l
<1>11. IsValue(t, LB, items)
  BY <1>7, <1>8, <1>9, <1>10, BracketFacts DEF IsValue, X
<1>12. 2 + l = 5 * n + 4
  BY <1>3 DEF l
<1> QED
  BY <1>1, <1>9, <1>11, <1>12 DEF array

LEMMA ValueIs ==
  ASSUME NEW items \in Seq(ItemTexts), NEW open \in Openings
  PROVE  IsValue(Value(open, items), open, items)
<1>1. Value(LB, items) = ChunkObject(items)
  BY Zenon DEF Value, LB
<1>2. Value(LS, items) = Array(items)
  BY Zenon, BracketFacts DEF Value, LB
<1> QED
  BY <1>1, <1>2, ArrayIs, ChunkObjectIs, BracketFacts

\* One of five symbols, of one of n items.
LEMMA FiveParts ==
  ASSUME NEW n \in Nat, NEW d \in 1 .. 5 * n
  PROVE  \E k \in 1 .. n : d \in {5 * k - 4, 5 * k - 3, 5 * k - 2, 5 * k - 1, 5 * k}
<1> DEFINE Good == {m \in Nat : \A i \in 1 .. 5 * m :
                      \E k \in 1 .. m : i \in {5 * k - 4, 5 * k - 3, 5 * k - 2, 5 * k - 1, 5 * k}}
<1>1. 0 \in Good
  OBVIOUS
<1>2. ASSUME NEW m \in Nat, m \in Good PROVE m + 1 \in Good
  <2> SUFFICES ASSUME NEW i \in 1 .. 5 * (m + 1)
               PROVE \E k \in 1 .. m + 1 : i \in {5 * k - 4, 5 * k - 3, 5 * k - 2, 5 * k - 1, 5 * k}
    OBVIOUS
  <2>1. CASE i \in 1 .. 5 * m
    <3>1. PICK k \in 1 .. m : i \in {5 * k - 4, 5 * k - 3, 5 * k - 2, 5 * k - 1, 5 * k}
      BY <1>2, <2>1
    <3>2. k \in 1 .. m + 1
      OBVIOUS
    <3> QED
      BY <3>1, <3>2
  <2>2. CASE i \notin 1 .. 5 * m
    <3> DEFINE k == m + 1
    <3>1. k \in 1 .. m + 1 /\ i \in {5 * k - 4, 5 * k - 3, 5 * k - 2, 5 * k - 1, 5 * k}
      BY <2>2
    <3> HIDE DEF k
    <3> QED
      BY <3>1
  <2> QED
    BY <2>1, <2>2
<1>3. n \in Good
  <2> HIDE DEF Good
  <2>1. Nat \subseteq Good
    BY <1>1, <1>2, NumbersAll
  <2> QED
    BY <2>1
<1> QED
  BY <1>3

LEMMA QuotesOfItems ==
  ASSUME NEW t, NEW items \in Seq(ItemTexts), NEW open \in Openings, IsValue(t, open, items)
  PROVE  QuotesItems(t, ArrayAt(open), Len(items))
<1> DEFINE n == Len(items)  q == ArrayAt(open)
<1>0. n \in Nat /\ (\A k \in 1 .. n : items[k] \in ItemTexts) /\ q \in Nat
  BY LenProperties, ElementOfSeq DEF ArrayAt
<1> SUFFICES ASSUME NEW i \in 1 .. Len(t), t[i] = "quote"
             PROVE  \E k \in 1 .. n : i = q + 5 * k - 3 \/ i = q + 5 * k - 1
  BY DEF QuotesItems
<1>1. /\ Len(t) = q + 5 * n + (IF open = LB THEN 2 ELSE 1) /\ t[1] = open /\ t[Len(t)] = Closing(open)
      /\ t[q] = LS /\ t[q + 5 * n + 1] = RS /\ HasItems(t, q, items, n)
      /\ open = LB => t[2] = "chunks"
  BY DEF IsValue, IsArray
<1>2. /\ "quote" \notin {LB, RB, LS, RS, "chunks"} \union ItemTexts /\ open \in {LB, LS}
      /\ Closing(open) \in {RB, RS} /\ ((q = 3 /\ open = LB) \/ (q = 1 /\ open # LB))
  BY BracketFacts DEF ArrayAt
<1> HIDE DEF n, q
<1>3. i # 1 /\ i # Len(t) /\ i # q /\ i # q + 5 * n + 1 /\ (open = LB => i # 2)
  BY <1>1, <1>2
<1>4. i - q \in 1 .. 5 * n
  BY <1>0, <1>1, <1>2, <1>3
<1> DEFINE d == i - q
<1>5. PICK k \in 1 .. n : d \in {5 * k - 4, 5 * k - 3, 5 * k - 2, 5 * k - 1, 5 * k}
  <2> HIDE DEF d
  <2>1. d \in 1 .. 5 * n
    BY <1>4 DEF d
  <2> QED
    BY <1>0, <2>1, FiveParts
<1>6. i \in {q + 5 * k - 4, q + 5 * k - 3, q + 5 * k - 2, q + 5 * k - 1, q + 5 * k}
  BY <1>0, <1>5
<1>7. i # q + 5 * k - 4 /\ i # q + 5 * k - 2 /\ i # q + 5 * k
  <2>1. t[q + 5 * k - 4] = LB /\ t[q + 5 * k - 2] = items[k] /\ t[q + 5 * k] = RB
    BY <1>1 DEF HasItems
  <2>2. items[k] # "quote" /\ LB # "quote" /\ RB # "quote"
    BY <1>0, <1>2
  <2> QED
    BY <2>1, <2>2
<1> QED
  BY <1>6, <1>7

\* In the same place, as many items are the same items.
LEMMA SameItems ==
  ASSUME NEW s, NEW q, NEW items \in Seq(ItemTexts), NEW more \in Seq(ItemTexts), IsArray(s, q, items),
         IsArray(s, q, more)
  PROVE  more = items
<1> DEFINE n == Len(items)  m == Len(more)
<1>0. n \in Nat /\ m \in Nat /\ q \in Int
  BY LenProperties DEF IsArray
<1>1. /\ s[q + 5 * n + 1] = RS /\ HasItems(s, q, items, n)
      /\ s[q + 5 * m + 1] = RS /\ HasItems(s, q, more, m)
  BY DEF IsArray
<1>2. LB # RS
  BY BracketFacts
<1> HIDE DEF n, m
<1>3. ~(n < m)
  <2> SUFFICES ASSUME n < m PROVE FALSE
    OBVIOUS
  <2> DEFINE k == n + 1
  <2>1. k \in 1 .. m /\ q + 5 * k - 4 = q + 5 * n + 1
    BY <1>0
  <2> HIDE DEF k
  <2>2. s[q + 5 * k - 4] = LB
    BY <1>1, <2>1 DEF HasItems
  <2> QED
    BY <1>1, <1>2, <2>1, <2>2
<1>4. ~(m < n)
  <2> SUFFICES ASSUME m < n PROVE FALSE
    OBVIOUS
  <2> DEFINE k == m + 1
  <2>1. k \in 1 .. n /\ q + 5 * k - 4 = q + 5 * m + 1
    BY <1>0
  <2> HIDE DEF k
  <2>2. s[q + 5 * k - 4] = LB
    BY <1>1, <2>1 DEF HasItems
  <2> QED
    BY <1>1, <1>2, <2>1, <2>2
<1>5. m = n
  BY <1>0, <1>3, <1>4
<1>6. \A k \in 1 .. n : more[k] = items[k]
  BY <1>1, <1>5 DEF HasItems
<1> QED
  BY <1>5, <1>6, SeqEqual DEF n, m

\* Where the quotes are those of one array, there is no other array with items.
LEMMA OnlyArray ==
  ASSUME NEW s, NEW q, NEW r, NEW items \in Seq(ItemTexts), NEW more \in Seq(ItemTexts),
         IsArray(s, q, items), QuotesItems(s, q, Len(items)), IsArray(s, r, more), more # <<>>
  PROVE  more = items
<1> DEFINE n == Len(items)  m == Len(more)
<1>0. n \in Nat /\ m \in Nat /\ m # 0 /\ (\A k \in 1 .. n : items[k] \in ItemTexts)
  BY LenProperties, EmptySeq, ElementOfSeq
<1>1. /\ q \in Int /\ q + 5 * n + 1 \in 1 .. Len(s) /\ s[q] = LS /\ HasItems(s, q, items, n)
      /\ r \in 1 .. Len(s) /\ r + 5 * m + 1 \in 1 .. Len(s) /\ s[r] = LS /\ HasItems(s, r, more, m)
  BY DEF IsArray
<1>2. \A i \in 1 .. Len(s) : s[i] = "quote" => \E k \in 1 .. n : i = q + 5 * k - 3 \/ i = q + 5 * k - 1
  BY DEF QuotesItems
<1> HIDE DEF n, m
<1>3. s[r + 1] = LB /\ s[r + 2] = "quote"
  <2>1. 1 \in 1 .. m /\ r + 5 * 1 - 4 = r + 1 /\ r + 5 * 1 - 3 = r + 2
    BY <1>0, <1>1
  <2> QED
    BY <1>1, <2>1 DEF HasItems
<1>4. r + 2 \in 1 .. Len(s)
  BY <1>0, <1>1
<1>5. PICK k \in 1 .. n : r + 2 = q + 5 * k - 3 \/ r + 2 = q + 5 * k - 1
  BY <1>2, <1>3, <1>4
<1>6. r + 2 # q + 5 * k - 1
  <2> SUFFICES ASSUME r + 2 = q + 5 * k - 1 PROVE FALSE
    OBVIOUS
  <2>1. r + 1 = q + 5 * k - 2
    BY <1>0, <1>1
  <2>2. s[r + 1] \in ItemTexts
    BY <1>0, <1>1, <2>1 DEF HasItems
  <2> QED
    BY <1>3, <2>2, BracketFacts
<1>7. k = 1
  <2> SUFFICES ASSUME k # 1 PROVE FALSE
    OBVIOUS
  <2>1. k - 1 \in 1 .. n /\ r = q + 5 * (k - 1)
    BY <1>0, <1>1, <1>5, <1>6
  <2>2. s[r] = RB
    BY <1>1, <2>1 DEF HasItems
  <2> QED
    BY <1>1, <2>2, BracketFacts
<1>8. r = q
  BY <1>0, <1>1, <1>5, <1>6, <1>7
<1> QED
  BY <1>8, SameItems

\* t stands in s from p to e, no quote is around it, and before it no member of B.
Held(s, p, e, t, B) ==
  /\ p \in 1 .. Len(s) /\ e \in 1 .. Len(s) /\ IsPiece(t, s, p, e)
  /\ \A i \in 1 .. Len(s) : i < p \/ i > e => s[i] # "quote"
  /\ \A i \in 1 .. Len(s) : i < p => s[i] \notin B

LEMMA ListsAreSequences == ItemLists \subseteq Seq(ItemTexts)
<1> SUFFICES ASSUME NEW items \in ItemLists PROVE items \in Seq(ItemTexts)
  OBVIOUS
<1>1. PICK m \in 0 .. MaxItems : items \in [1 .. m -> ItemTexts]
  BY DEF ItemLists, BoundedSeq, SeqOf
<1>2. m \in Nat
  BY ChunksAssumption
<1> QED
  BY <1>1, <1>2

LEMMA ItemsOfValue ==
  ASSUME NEW items \in ItemLists, NEW open \in Openings
  PROVE  ItemsIn(Value(open, items), open) = items
<1> DEFINE t == Value(open, items)  more == CHOOSE more \in ItemLists : t = Value(open, more)
<1>1. more \in ItemLists /\ t = Value(open, more)
  OBVIOUS
<1>2. ItemsIn(t, open) = more
  BY DEF ItemsIn
<1> HIDE DEF more
<1>3. items \in Seq(ItemTexts) /\ more \in Seq(ItemTexts)
  BY <1>1, ListsAreSequences
<1>4. IsValue(t, open, items) /\ IsValue(t, open, more)
  <2>1. IsValue(Value(open, more), open, more)
    BY <1>3, ValueIs
  <2>2. IsValue(t, open, items)
    BY <1>3, ValueIs
  <2> QED
    BY <1>1, <2>1, <2>2
<1> HIDE DEF t
<1>5. more = items
  BY <1>3, <1>4, SameItems DEF IsValue
<1> QED
  BY <1>2, <1>5 DEF t

\* Where a value is held, its array is.
LEMMA HeldArray ==
  ASSUME NEW X, NEW s \in Seq(X), NEW p, NEW e, NEW t, NEW B, NEW items \in Seq(ItemTexts), NEW open \in Openings,
         IsValue(t, open, items), Held(s, p, e, t, B), NEW q, q = p + ArrayAt(open) - 1
  PROVE  IsArray(s, q, items) /\ QuotesItems(s, q, Len(items))
<1> DEFINE a == ArrayAt(open)  n == Len(items)
<1>0. Len(s) \in Nat /\ a \in Nat
  BY LenProperties DEF ArrayAt
<1>1. /\ p \in 1 .. Len(s) /\ e \in 1 .. Len(s) /\ IsPiece(t, s, p, e)
      /\ \A i \in 1 .. Len(s) : i < p \/ i > e => s[i] # "quote"
  BY DEF Held
<1>2. IsArray(t, a, items) /\ QuotesItems(t, a, n)
  BY QuotesOfItems DEF IsValue
<1>3. IsArray(s, p + a - 1, items)
  BY <1>1, <1>2, ArrayMoves
<1> HIDE DEF a, n
<1>4. q = p + a - 1
  BY DEF a
<1>5. ASSUME NEW i \in 1 .. Len(s), s[i] = "quote" PROVE \E k \in 1 .. n : i = q + 5 * k - 3 \/ i = q + 5 * k - 1
  <2>1. p <= i /\ i <= e
    BY <1>0, <1>1, <1>5
  <2> DEFINE j == i - p + 1
  <2>2. j \in 1 .. e - p + 1 /\ p + j - 1 = i
    BY <1>0, <1>1, <2>1
  <2> HIDE DEF j
  <2>3. j \in 1 .. Len(t) /\ t[j] = "quote"
    BY <1>1, <1>5, <2>2 DEF IsPiece
  <2>4. PICK k \in 1 .. n : j = a + 5 * k - 3 \/ j = a + 5 * k - 1
    BY <1>2, <2>3 DEF QuotesItems
  <2>5. i = q + 5 * k - 3 \/ i = q + 5 * k - 1
    <3>1. i \in Int /\ p \in Int /\ a \in Int /\ k \in Int /\ j \in Int
      BY <1>0, <1>1, <2>2
    <3> HIDE DEF n
    <3>2. j = i - p + 1
      BY <2>2, <3>1
    <3> QED
      BY <1>4, <2>4, <3>1, <3>2
  <2> QED
    BY <2>5
<1>6. QuotesItems(s, q, n)
  BY <1>5 DEF QuotesItems
<1> QED
  BY <1>3, <1>4, <1>6 DEF n

\* A part of s that is read as a value has no other items.
PartOrNothing(t, s) == t = <<>> \/ \E l, r \in 1 .. Len(s) : l <= r /\ t = SubSeq(s, l, r)

ItemsOrNone(r, items) == r = items \/ r = <<>>

LEMMA ItemsOfPart ==
  ASSUME NEW X, NEW s \in Seq(X), NEW p, NEW e, NEW B, NEW items \in Seq(ItemTexts), NEW open \in Openings,
         Held(s, p, e, Value(open, items), B), NEW t, PartOrNothing(t, s), NEW kind \in Openings
  PROVE  ItemsOrNone(ItemsIn(t, kind), items)
<1> DEFINE more == CHOOSE more \in ItemLists : t = Value(kind, more)
<1> SUFFICES ASSUME ItemsIn(t, kind) # <<>> PROVE ItemsIn(t, kind) = items
  BY DEF ItemsOrNone
<1>1. /\ \E i \in ItemLists : t = Value(kind, i)
      /\ ItemsIn(t, kind) = more
  BY DEF ItemsIn
<1>2. more \in ItemLists /\ t = Value(kind, more)
  BY <1>1
<1> HIDE DEF more
<1>3. more \in Seq(ItemTexts) /\ more # <<>>
  BY <1>1, <1>2, ListsAreSequences
<1>4. IsValue(t, kind, more)
  BY <1>2, <1>3, ValueIs
<1>5. t # <<>>
  <2>1. Len(more) \in Nat /\ Len(<<>>) = 0
    BY <1>3, LenProperties, EmptySeq
  <2>2. Len(t) = ArrayAt(kind) + 5 * Len(more) + (IF kind = LB THEN 2 ELSE 1) /\ ArrayAt(kind) \in Nat
    BY <1>4 DEF IsValue, ArrayAt
  <2>3. Len(t) # 0
    BY <2>1, <2>2
  <2> QED
    BY <2>1, <2>3
<1>6. PICK l, r \in 1 .. Len(s) : l <= r /\ t = SubSeq(s, l, r)
  BY <1>5 DEF PartOrNothing
<1>0. Len(s) \in Nat
  BY LenProperties
<1>7. IsPiece(t, s, l, r)
  <2>1. l \in Int /\ r \in Int /\ 1 <= l /\ l <= r + 1 /\ r <= Len(s)
    BY <1>0, <1>6
  <2> QED
    BY <1>6, <2>1, PieceIn
<1>8. IsArray(s, l + ArrayAt(kind) - 1, more)
  BY <1>3, <1>4, <1>7, ArrayMoves DEF IsValue
<1> DEFINE q == p + ArrayAt(open) - 1
<1>9. IsArray(s, q, items) /\ QuotesItems(s, q, Len(items))
  <2>1. IsValue(Value(open, items), open, items)
    BY ValueIs
  <2>2. q = p + ArrayAt(open) - 1
    OBVIOUS
  <2> HIDE DEF q
  <2> QED
    BY <2>1, <2>2, HeldArray
<1> HIDE DEF q
<1>10. more = items
  BY <1>3, <1>8, <1>9, OnlyArray
<1> QED
  BY <1>1, <1>10

\* The state of a scan outside of strings, or inside of one, at a depth.
OutOfString(v, d) == v \in ReadStates /\ ~v.escape /\ ~v.inString /\ v.depth = d
InString(v, d) == v \in ReadStates /\ ~v.escape /\ v.inString /\ v.depth = d

LEMMA StepOutside ==
  ASSUME NEW d \in Int, NEW v, OutOfString(v, d), NEW x, NEW open \in Openings, NEW w, w = ReadSymbol(v, x, open)
  PROVE  /\ x = "quote" => InString(w, d)
         /\ x = open => OutOfString(w, d + 1)
         /\ x = Closing(open) => OutOfString(w, d - 1)
         /\ x # "quote" /\ x # open /\ x # Closing(open) => OutOfString(w, d)
<1> DEFINE add == IF x = "quote" THEN 0 ELSE IF x = open THEN 1 ELSE IF x = Closing(open) THEN -1 ELSE 0
<1>1. v \in ReadStates /\ ~v.escape /\ ~v.inString /\ v.depth = d
  BY DEF OutOfString
<1>2. /\ ReadSymbol(v, x, open) \in ReadStates /\ ~ReadSymbol(v, x, open).escape
      /\ ReadSymbol(v, x, open).inString <=> x = "quote"
      /\ ReadSymbol(v, x, open).depth = v.depth + add
  BY <1>1, ReadOutside
<1>3. /\ w \in ReadStates /\ ~w.escape /\ (w.inString <=> x = "quote") /\ w.depth = d + add
  BY <1>1, <1>2
<1>4. open # "quote" /\ Closing(open) # "quote" /\ open # Closing(open)
  BY BracketFacts
<1>5. x = "quote" => InString(w, d)
  BY <1>3 DEF InString
<1>6. x = open => OutOfString(w, d + 1)
  BY <1>3, <1>4 DEF OutOfString
<1>7. x = Closing(open) => OutOfString(w, d - 1)
  <2> SUFFICES ASSUME x = Closing(open) PROVE OutOfString(w, d - 1)
    OBVIOUS
  <2>1. add = -1 /\ x # "quote"
    BY <1>4
  <2> HIDE DEF add
  <2>2. w.depth = d - 1
    BY <1>3, <2>1
  <2> QED
    BY <1>3, <2>1, <2>2 DEF OutOfString
<1>8. x # "quote" /\ x # open /\ x # Closing(open) => OutOfString(w, d)
  BY <1>3 DEF OutOfString
<1> QED
  BY <1>5, <1>6, <1>7, <1>8

LEMMA StepInString ==
  ASSUME NEW d \in Int, NEW v, InString(v, d), NEW x, NEW open, NEW w, w = ReadSymbol(v, x, open)
  PROVE  /\ x = "quote" => OutOfString(w, d)
         /\ x # "quote" /\ x # "backslash" => InString(w, d)
<1>1. v \in ReadStates /\ ~v.escape /\ v.inString /\ v.depth = d
  BY DEF InString
<1>2. /\ ReadSymbol(v, x, open) \in ReadStates
      /\ ReadSymbol(v, x, open).escape <=> x = "backslash"
      /\ ReadSymbol(v, x, open).inString <=> x # "quote"
      /\ ReadSymbol(v, x, open).depth = v.depth
  BY <1>1, ReadInString
<1> QED
  BY <1>1, <1>2 DEF OutOfString, InString

\* One item is read and leaves the depth as it was.
Kept(h, j, n) == OutOfString(h[j + n], 1) /\ \A i \in j + 1 .. j + n : h[i].depth # 0

LEMMA ItemRead ==
  ASSUME NEW s, NEW start \in Int, NEW open \in Openings, NEW h, IsReading(h, s, start, open), NEW j \in Int,
         start <= j, Len(s) \in Nat, j + 5 <= Len(s), OutOfString(h[j], 1), NEW x \in ItemTexts,
         s[j + 1] = LB, s[j + 2] = "quote", s[j + 3] = x, s[j + 4] = "quote", s[j + 5] = RB
  PROVE  Kept(h, j, 5)
<1> DEFINE d == IF open = LB THEN 2 ELSE 1
<1>1. ASSUME NEW i \in 1 .. 5 PROVE h[j + i] = ReadSymbol(h[j + i - 1], s[j + i], open)
  <2>1. j + i \in start + 1 .. Len(s)
    OBVIOUS
  <2> QED
    BY <2>1 DEF IsReading
<1>2. /\ h[j + 1] = ReadSymbol(h[j], s[j + 1], open) /\ h[j + 2] = ReadSymbol(h[j + 1], s[j + 2], open)
      /\ h[j + 3] = ReadSymbol(h[j + 2], s[j + 3], open) /\ h[j + 4] = ReadSymbol(h[j + 3], s[j + 4], open)
      /\ h[j + 5] = ReadSymbol(h[j + 4], s[j + 5], open)
  <2>1. /\ j + 1 - 1 = j /\ j + 2 - 1 = j + 1 /\ j + 3 - 1 = j + 2 /\ j + 4 - 1 = j + 3 /\ j + 5 - 1 = j + 4
        /\ 1 \in 1 .. 5 /\ 2 \in 1 .. 5 /\ 3 \in 1 .. 5 /\ 4 \in 1 .. 5 /\ 5 \in 1 .. 5
    OBVIOUS
  <2> QED
    BY <1>1, <2>1
<1>3. /\ LB # "quote" /\ RB # "quote" /\ x # "quote" /\ x # "backslash" /\ LB # RB /\ LB # LS /\ RB # LS
      /\ LB # RS /\ RB # RS
      /\ ((open = LB /\ Closing(open) = RB) \/ (open = LS /\ Closing(open) = RS))
  BY BracketFacts
<1>4. OutOfString(h[j + 1], d) /\ d \in Int /\ d # 0
  <2>1. CASE open = LB
    <3>1. OutOfString(h[j + 1], 1 + 1)
      BY <1>2, <2>1, StepOutside
    <3> QED
      BY <2>1, <3>1
  <2>2. CASE open # LB
    <3>1. OutOfString(h[j + 1], 1)
      BY <1>2, <1>3, <2>2, StepOutside
    <3> QED
      BY <2>2, <3>1
  <2> QED
    BY <2>1, <2>2
<1> HIDE DEF d
<1>5. InString(h[j + 2], d)
  BY <1>2, <1>4, StepOutside
<1>6. InString(h[j + 3], d)
  BY <1>2, <1>3, <1>4, <1>5, StepInString
<1>7. OutOfString(h[j + 4], d)
  BY <1>2, <1>4, <1>6, StepInString
<1>8. OutOfString(h[j + 5], 1)
  <2>1. CASE open = LB
    <3>1. OutOfString(h[j + 5], d - 1)
      BY <1>2, <1>3, <1>4, <1>7, <2>1, StepOutside
    <3> QED
      BY <2>1, <3>1 DEF d
  <2>2. CASE open # LB
    <3>1. OutOfString(h[j + 5], d)
      BY <1>2, <1>3, <1>4, <1>7, <2>2, StepOutside
    <3> QED
      BY <2>2, <3>1 DEF d
  <2> QED
    BY <2>1, <2>2
<1>9. ASSUME NEW i \in j + 1 .. j + 5 PROVE h[i].depth # 0
  <2>1. i \in {j + 1, j + 2, j + 3, j + 4, j + 5}
    OBVIOUS
  <2>2. /\ h[j + 1].depth = d /\ h[j + 2].depth = d /\ h[j + 3].depth = d /\ h[j + 4].depth = d
        /\ h[j + 5].depth = 1
    BY <1>4, <1>5, <1>6, <1>7, <1>8 DEF OutOfString, InString
  <2> QED
    BY <1>4, <2>1, <2>2
<1> QED
  BY <1>8, <1>9 DEF Kept

LEMMA ItemsRead ==
  ASSUME NEW s, NEW start \in Int, NEW open \in Openings, NEW h, IsReading(h, s, start, open), NEW q \in Int,
         start <= q, Len(s) \in Nat, NEW n \in Nat, q + 5 * n <= Len(s), OutOfString(h[q], 1),
         NEW items, \A k \in 1 .. n : items[k] \in ItemTexts, HasItems(s, q, items, n)
  PROVE  Kept(h, q, 5 * n)
<1> DEFINE Good == {k \in Nat : k <= n => Kept(h, q, 5 * k)}
<1>1. 0 \in Good
  <2>1. 5 * 0 = 0 /\ q + 0 = q /\ q + 1 .. q + 0 = {}
    OBVIOUS
  <2>2. Kept(h, q, 0)
    BY <2>1 DEF Kept
  <2> QED
    BY <2>1, <2>2
<1>2. ASSUME NEW k \in Nat, k \in Good PROVE k + 1 \in Good
  <2> SUFFICES ASSUME k + 1 <= n PROVE Kept(h, q, 5 * (k + 1))
    OBVIOUS
  <2> DEFINE j == q + 5 * k  m == k + 1
  <2>1. k <= n /\ m \in 1 .. n /\ j \in Int /\ start <= j /\ j + 5 <= Len(s)
    OBVIOUS
  <2>2. Kept(h, q, 5 * k)
    BY <1>2, <2>1
  <2>3. /\ q + 5 * m - 4 = j + 1 /\ q + 5 * m - 3 = j + 2 /\ q + 5 * m - 2 = j + 3 /\ q + 5 * m - 1 = j + 4
        /\ q + 5 * m = j + 5
    OBVIOUS
  <2> HIDE DEF j
  <2>4. OutOfString(h[j], 1) /\ \A i \in q + 1 .. j : h[i].depth # 0
    BY <2>2 DEF Kept, j
  <2> HIDE DEF m
  <2>5. /\ s[j + 1] = LB /\ s[j + 2] = "quote" /\ s[j + 3] = items[m] /\ s[j + 4] = "quote" /\ s[j + 5] = RB
        /\ items[m] \in ItemTexts
    BY <2>1, <2>3 DEF HasItems
  <2>6. Kept(h, j, 5)
    BY <2>1, <2>4, <2>5, ItemRead
  <2>7. OutOfString(h[j + 5], 1) /\ \A i \in j + 1 .. j + 5 : h[i].depth # 0
    BY <2>6 DEF Kept
  <2>8. q + 5 * (k + 1) = j + 5
    BY DEF j
  <2>9. \A i \in q + 1 .. j + 5 : h[i].depth # 0
    <3>1. \A i \in q + 1 .. j + 5 : i \in q + 1 .. j \/ i \in j + 1 .. j + 5
      BY <2>1
    <3> QED
      BY <2>4, <2>7, <3>1
  <2> QED
    BY <2>7, <2>8, <2>9 DEF Kept
<1>3. Nat \subseteq Good
  <2> HIDE DEF Good
  <2> QED
    BY <1>1, <1>2, NumbersAll
<1> QED
  BY <1>3

\* The scan ends where the depth is zero for the first time.
LEMMA ScanEnds ==
  ASSUME NEW X, NEW s \in Seq(X), NEW start \in 1 .. Len(s), NEW open, NEW end \in start + 1 .. Len(s),
         NEW h, IsReading(h, s, start, open), h[end].depth = 0, \A i \in start + 1 .. end - 1 : h[i].depth # 0
  PROVE  extractBalancedDelimiters(s, start, open) = SubSeq(s, start, end)
<1> DEFINE z == Scanned(s, start, open).end
<1>0. Len(s) \in Nat
  BY LenProperties
<1>1. \A n \in start .. Len(s) : h[n] \in ReadStates
  BY EscapesAre
<1>2. StopsAt(z, h, s, start)
  BY <1>1, ScanStops
<1>3. extractBalancedDelimiters(s, start, open) = SubSeq(s, start, z)
  BY DEF extractBalancedDelimiters, Scanned
<1> HIDE DEF z
<1>4. /\ z \in start + 1 .. Len(s) /\ h[z].depth = 0
      /\ \A i \in start + 1 .. z - 1 : h[i].depth # 0
  BY <1>2 DEF StopsAt
<1>5. ~(z < end) /\ ~(end < z)
  <2>1. z < end => z \in start + 1 .. end - 1
    BY <1>0, <1>4
  <2>2. end < z => end \in start + 1 .. z - 1
    BY <1>0, <1>4
  <2> QED
    BY <1>4, <2>1, <2>2
<1>6. z = end
  BY <1>0, <1>4, <1>5
<1> QED
  BY <1>3, <1>6

LEMMA ReadingStarts ==
  ASSUME NEW s, NEW start, NEW open, NEW h, IsReading(h, s, start, open)
  PROVE  OutOfString(h[start], 1)
<1>1. h[start] = Untouched
  BY DEF IsReading
<1> QED
  BY <1>1 DEF OutOfString, Untouched, ReadStates

\* From its bracket, an array is cut out.
LEMMA ArrayCut ==
  ASSUME NEW X, NEW s \in Seq(X), NEW q, NEW items \in Seq(ItemTexts), IsArray(s, q, items)
  PROVE  extractBalancedDelimiters(s, q, LS) = SubSeq(s, q, q + 5 * Len(items) + 1)
<1> DEFINE n == Len(items)  e == q + 5 * n + 1
<1>0. Len(s) \in Nat /\ n \in Nat /\ \A k \in 1 .. n : items[k] \in ItemTexts
  BY LenProperties, ElementOfSeq
<1>1. q \in 1 .. Len(s) /\ q + 5 * n + 1 \in 1 .. Len(s) /\ s[q + 5 * n + 1] = RS /\ HasItems(s, q, items, n)
  BY DEF IsArray
<1> HIDE DEF n
<1>2. /\ q \in Nat /\ e \in q + 1 .. Len(s) /\ q <= q /\ q + 5 * n <= Len(s) /\ e - 1 = q + 5 * n
      /\ e \in Int
  BY <1>0, <1>1
<1>3. PICK h : IsReading(h, s, q, LS)
  BY <1>2, ReadingExists
<1>4. LS \in Openings /\ Closing(LS) = RS
  BY BracketFacts
<1>5. OutOfString(h[q], 1)
  BY <1>3, ReadingStarts
<1>6. Kept(h, q, 5 * n)
  BY <1>0, <1>1, <1>2, <1>3, <1>4, <1>5, ItemsRead
<1>7. OutOfString(h[q + 5 * n], 1) /\ \A i \in q + 1 .. q + 5 * n : h[i].depth # 0
  BY <1>6 DEF Kept
<1>8. h[e] = ReadSymbol(h[e - 1], s[e], LS)
  BY <1>2, <1>3 DEF IsReading
<1>9. s[e] = Closing(LS) /\ OutOfString(h[e - 1], 1)
  BY <1>1, <1>2, <1>4, <1>7
<1> HIDE DEF e
<1>10. OutOfString(h[e], 1 - 1)
  BY <1>4, <1>8, <1>9, StepOutside
<1>11. h[e].depth = 0 /\ \A i \in q + 1 .. e - 1 : h[i].depth # 0
  BY <1>2, <1>7, <1>10 DEF OutOfString
<1>12. extractBalancedDelimiters(s, q, LS) = SubSeq(s, q, e)
  BY <1>1, <1>2, <1>3, <1>11, ScanEnds
<1> QED
  BY <1>12 DEF e, n

\* From its brace, the object around an array is cut out.
LEMMA ObjectCut ==
  ASSUME NEW X, NEW s \in Seq(X), NEW q, NEW items \in Seq(ItemTexts), IsArray(s, q, items),
         NEW p \in 1 .. Len(s), q = p + 2, NEW e \in 1 .. Len(s), e = q + 5 * Len(items) + 2,
         s[p + 1] = "chunks", s[e] = RB
  PROVE  extractBalancedDelimiters(s, p, LB) = SubSeq(s, p, e)
<1> DEFINE n == Len(items)  f == q + 5 * n + 1
<1>0. Len(s) \in Nat /\ n \in Nat /\ \A k \in 1 .. n : items[k] \in ItemTexts
  BY LenProperties, ElementOfSeq
<1>1. /\ q \in 1 .. Len(s) /\ f \in 1 .. Len(s) /\ s[q] = LS /\ s[f] = RS
      /\ HasItems(s, q, items, n) /\ e = q + 5 * n + 2
  BY DEF IsArray
<1> HIDE DEF n
<1>2. /\ p \in Nat /\ q \in Int /\ p <= q /\ q + 5 * n <= Len(s) /\ e \in p + 1 .. Len(s) /\ f \in p + 1 .. Len(s)
      /\ p + 1 \in p + 1 .. Len(s) /\ q \in p + 1 .. Len(s) /\ (p + 1) - 1 = p /\ q - 1 = p + 1
      /\ f - 1 = q + 5 * n /\ e - 1 = f /\ e \in Int
  BY <1>0, <1>1
<1>3. PICK h : IsReading(h, s, p, LB)
  BY <1>2, ReadingExists
<1>4. /\ LB \in Openings /\ Closing(LB) = RB /\ LS # LB /\ LS # RB /\ RS # LB /\ RS # RB
      /\ LS # "quote" /\ RS # "quote" /\ "chunks" # LB /\ "chunks" # RB
  BY BracketFacts
<1>5. OutOfString(h[p], 1)
  BY <1>3, ReadingStarts
<1> HIDE DEF f
<1>6. /\ h[p + 1] = ReadSymbol(h[p], s[p + 1], LB) /\ h[q] = ReadSymbol(h[p + 1], s[q], LB)
      /\ h[f] = ReadSymbol(h[q + 5 * n], s[f], LB) /\ h[e] = ReadSymbol(h[f], s[e], LB)
  BY <1>2, <1>3 DEF IsReading
<1>7. OutOfString(h[p + 1], 1)
  BY <1>4, <1>5, <1>6, StepOutside
<1>8. OutOfString(h[q], 1)
  BY <1>1, <1>4, <1>6, <1>7, StepOutside
<1>9. Kept(h, q, 5 * n)
  <2>1. p \in Int
    BY <1>2
  <2> QED
    BY <1>0, <1>1, <1>2, <1>3, <1>4, <1>8, <2>1, ItemsRead
<1>10. OutOfString(h[q + 5 * n], 1) /\ \A i \in q + 1 .. q + 5 * n : h[i].depth # 0
  BY <1>9 DEF Kept
<1>11. OutOfString(h[f], 1)
  BY <1>1, <1>4, <1>6, <1>10, StepOutside
<1>12. OutOfString(h[e], 1 - 1)
  BY <1>4, <1>6, <1>11, StepOutside
<1>13. h[e].depth = 0 /\ h[f].depth # 0 /\ h[q].depth # 0 /\ h[p + 1].depth # 0
  BY <1>7, <1>8, <1>11, <1>12 DEF OutOfString
<1>14. \A i \in p + 1 .. e - 1 : h[i].depth # 0
  <2>1. \A i \in p + 1 .. e - 1 : i = p + 1 \/ i = q \/ i = f \/ i \in q + 1 .. q + 5 * n
    BY <1>0, <1>2
  <2> QED
    BY <1>10, <1>13, <2>1
<1> QED
  BY <1>2, <1>3, <1>13, <1>14, ScanEnds

LEMMA ValueHeldPiece ==
  ASSUME NEW X, NEW s \in Seq(X), NEW p, NEW e, NEW t, NEW B, Held(s, p, e, t, B),
         NEW c \in 1 .. Len(s), NEW d \in 1 .. Len(s), c <= p, e <= d, p <= e
  PROVE  Held(SubSeq(s, c, d), p - c + 1, e - c + 1, t, B)
<1> DEFINE u == SubSeq(s, c, d)  q == p - c + 1  f == e - c + 1  m == d - c + 1
<1>0. Len(s) \in Nat
  BY LenProperties
<1>1. /\ p \in 1 .. Len(s) /\ e \in 1 .. Len(s) /\ IsPiece(t, s, p, e)
      /\ \A i \in 1 .. Len(s) : i < p \/ i > e => s[i] # "quote"
      /\ \A i \in 1 .. Len(s) : i < p => s[i] \notin B
  BY DEF Held
<1>2. c \in Int /\ d \in Int /\ 1 <= c /\ c <= d + 1 /\ d <= Len(s)
  BY <1>0, <1>1
<1>3. IsPiece(u, s, c, d)
  BY <1>2, PieceIn
<1> HIDE DEF u
<1>4. Len(u) = m /\ \A i \in 1 .. m : u[i] = s[c + i - 1]
  BY <1>3 DEF IsPiece
<1>5. p \in Int /\ e \in Int /\ q \in 1 .. m /\ f \in 1 .. m /\ f - q + 1 = e - p + 1
  BY <1>0, <1>1, <1>2
<1>6. IsPiece(t, u, q, f)
  <2>1. Len(t) = e - p + 1 /\ \A i \in 1 .. e - p + 1 : t[i] = s[p + i - 1]
    BY <1>1 DEF IsPiece
  <2>2. ASSUME NEW i \in 1 .. f - q + 1 PROVE t[i] = u[q + i - 1]
    <3>1. i \in 1 .. e - p + 1 /\ q + i - 1 \in 1 .. m /\ c + (q + i - 1) - 1 = p + i - 1
      BY <1>2, <1>5
    <3> HIDE DEF q, m
    <3>2. t[i] = s[p + i - 1] /\ u[q + i - 1] = s[c + (q + i - 1) - 1]
      BY <1>4, <2>1, <3>1
    <3> QED
      BY <3>1, <3>2
  <2> HIDE DEF q, f, m
  <2> QED
    BY <1>5, <2>1, <2>2 DEF IsPiece
<1>7. ASSUME NEW i \in 1 .. m
      PROVE  (i < q \/ i > f => u[i] # "quote") /\ (i < q => u[i] \notin B)
  <2>1. c + i - 1 \in 1 .. Len(s) /\ (i < q => c + i - 1 < p) /\ (i > f => c + i - 1 > e)
    BY <1>0, <1>2, <1>5
  <2> HIDE DEF q, f, m
  <2> QED
    BY <1>1, <1>4, <2>1
<1> HIDE DEF q, f, m
<1>8. Held(u, q, f, t, B)
  BY <1>4, <1>5, <1>6, <1>7 DEF Held
<1> QED
  BY <1>8 DEF u, q, f

LEMMA HeldAlone ==
  ASSUME NEW X, NEW s \in Seq(X), NEW p, NEW e, NEW t, NEW B, Held(s, p, e, t, B), p <= e, NEW A
  PROVE  Held(SubSeq(s, p, e), 1, e - p + 1, t, A)
<1> DEFINE u == SubSeq(s, p, e)
<1>1. p \in 1 .. Len(s) /\ e \in 1 .. Len(s) /\ Len(s) \in Nat
  BY LenProperties DEF Held
<1>2. p <= p /\ e <= e /\ p - p + 1 = 1
  BY <1>1
<1>3. Held(u, p - p + 1, e - p + 1, t, B)
  BY <1>1, <1>2, ValueHeldPiece
<1> HIDE DEF u
<1>4. Held(u, 1, e - p + 1, t, B)
  BY <1>2, <1>3
<1>5. \A i \in 1 .. Len(u) : ~(i < 1)
  OBVIOUS
<1>6. Held(u, 1, e - p + 1, t, A)
  BY <1>4, <1>5 DEF Held
<1> QED
  BY <1>6 DEF u

\* Where a symbol is found, it stands.
LEMMA FoundThere ==
  ASSUME NEW X, NEW s \in Seq(X), NEW x
  PROVE  /\ Index(s, x) = 0 \/ (Index(s, x) \in 1 .. Len(s) /\ s[Index(s, x)] = x)
         /\ LastIndex(s, x) = 0 \/ (LastIndex(s, x) \in 1 .. Len(s) /\ s[LastIndex(s, x)] = x)
         /\ Contains(s, x) => Index(s, x) # 0
<1> DEFINE I == {i \in 1 .. Len(s) : s[i] = x}
<1>0. Len(s) \in Nat
  BY LenProperties
<1>1. CASE I = {}
  <2>1. \A i \in 1 .. Len(s) : s[i] # x
    BY <1>1
  <2>2. Index(s, x) = 0 /\ LastIndex(s, x) = 0
    BY <2>1, IndexIsNone
  <2> QED
    BY <2>1, <2>2 DEF Contains
<1>2. CASE I # {}
  <2>1. I \in SUBSET (1 .. Len(s))
    OBVIOUS
  <2>2. \A i \in I : i \in 1 .. Len(s) /\ s[i] = x
    OBVIOUS
  <2>3. \A i \in 1 .. Len(s) : s[i] = x => i \in I
    OBVIOUS
  <2> HIDE DEF I
  <2> DEFINE l == LeastOf(I)  g == GreatestOf(I)
  <2>4. (l \in I /\ \A j \in I : l <= j) /\ (g \in I /\ \A j \in I : g >= j)
    BY <1>0, <1>2, <2>1, Extremes
  <2> HIDE DEF l, g
  <2>5. Index(s, x) = l
    BY <2>2, <2>3, <2>4, IndexIs
  <2>6. LastIndex(s, x) = g
    BY <2>2, <2>3, <2>4, IndexIs
  <2>7. l # 0
    BY <2>2, <2>4
  <2> QED
    BY <2>2, <2>4, <2>5, <2>6, <2>7
<1> QED
  BY <1>1, <1>2

\* What is read of the text in the fence.
ValueFrom(s, open) == IF Contains(s, open) THEN extractBalancedDelimiters(s, Index(s, open), open) ELSE <<>>

Parsed(s) ==
  IF ItemsIn(ValueFrom(s, LB), LB) # <<>> THEN ItemsIn(ValueFrom(s, LB), LB)
  ELSE IF ItemsIn(ValueFrom(s, LS), LS) # <<>> THEN ItemsIn(ValueFrom(s, LS), LS)
  ELSE ItemsIn(extractJSONArrayStringLegacy(s), LS)

LEMMA ParsedIs == ASSUME NEW answer PROVE parseLLMChunks(answer) = Parsed(stripMarkdownCodeFence(TrimSpace(answer)))
BY Zenon DEF parseLLMChunks, Parsed, ValueFrom, LB, LS

LEMMA CutIsPart ==
  ASSUME NEW X, NEW s \in Seq(X), NEW open
  PROVE  PartOrNothing(ValueFrom(s, open), s)
<1> DEFINE start == Index(s, open)  z == Scanned(s, start, open).end
<1>0. Len(s) \in Nat
  BY LenProperties
<1>1. CASE ~Contains(s, open)
  BY <1>1 DEF PartOrNothing, ValueFrom
<1>2. CASE Contains(s, open)
  <2>1. start \in 1 .. Len(s)
    BY <1>2, FoundThere
  <2>2. ValueFrom(s, open) = extractBalancedDelimiters(s, start, open)
    BY <1>2 DEF ValueFrom
  <2>3. extractBalancedDelimiters(s, start, open) = SubSeq(s, start, z)
    BY DEF extractBalancedDelimiters, Scanned
  <2> HIDE DEF start, z
  <2>4. start \in Nat
    BY <1>0, <2>1
  <2>5. PICK h : IsReading(h, s, start, open)
    BY <2>4, ReadingExists
  <2>6. \A n \in start .. Len(s) : h[n] \in ReadStates
    BY <2>1, <2>5, EscapesAre
  <2>7. StopsAt(z, h, s, start)
    <3>1. StopsAt(Scanned(s, start, open).end, h, s, start)
      BY <2>1, <2>5, <2>6, ScanStops
    <3> QED
      BY <3>1 DEF z
  <2>8. CASE z = 0
    <3>1. SubSeq(s, start, 0) = <<>>
      <4>1. start \in Int /\ 0 \in Int /\ 0 < start
        BY <2>1, <2>4
      <4> QED
        BY <4>1, SubSeqEmpty
    <3> QED
      BY <2>2, <2>3, <2>8, <3>1 DEF PartOrNothing
  <2>9. CASE z \in start + 1 .. Len(s)
    <3>1. z \in 1 .. Len(s) /\ start <= z
      BY <1>0, <2>1, <2>9
    <3> QED
      BY <2>1, <2>2, <2>3, <3>1 DEF PartOrNothing
  <2> QED
    BY <2>7, <2>8, <2>9 DEF StopsAt
<1> QED
  BY <1>1, <1>2

LEMMA LegacyIsPart ==
  ASSUME NEW X, NEW s \in Seq(X), s # <<>>
  PROVE  PartOrNothing(extractJSONArrayStringLegacy(s), s)
<1> DEFINE start == Index(s, LS)  end == LastIndex(s, RS)
<1>0. Len(s) \in Nat
  BY LenProperties
<1>1. extractJSONArrayStringLegacy(s) = IF start > 0 /\ end > start THEN TrimSpace(SubSeq(s, start, end)) ELSE s
  BY Zenon DEF extractJSONArrayStringLegacy, LS, RS
<1>2. /\ start = 0 \/ (start \in 1 .. Len(s) /\ s[start] = LS)
      /\ end = 0 \/ (end \in 1 .. Len(s) /\ s[end] = RS)
  BY FoundThere
<1>3. LS \notin Blanks /\ RS \notin Blanks
  BY BracketFacts
<1> HIDE DEF start, end
<1>4. CASE start > 0 /\ end > start
  <2>1. start \in 1 .. Len(s) /\ end \in 1 .. Len(s) /\ start < end /\ start <= end
    BY <1>0, <1>2, <1>4
  <2>2. Stands(s, start, end)
    BY <1>2, <1>3, <1>4, <2>1 DEF Stands
  <2>3. TrimSpace(SubSeq(s, start, end)) = SubSeq(s, start, end)
    BY <2>2, PieceIsTrimmed
  <2> QED
    BY <1>1, <1>4, <2>1, <2>3 DEF PartOrNothing
<1>5. CASE ~(start > 0 /\ end > start)
  <2>1. SubSeq(s, 1, Len(s)) = s
    BY WholePiece
  <2>2. Len(s) # 0
    BY EmptySeq
  <2>3. 1 \in 1 .. Len(s) /\ Len(s) \in 1 .. Len(s) /\ 1 <= Len(s)
    BY <1>0, <2>2
  <2> QED
    BY <1>1, <1>5, <2>1, <2>3 DEF PartOrNothing
<1> QED
  BY <1>4, <1>5

\* The array of the text, where it stands.
LEMMA HeldArrayIs ==
  ASSUME NEW X, NEW s \in Seq(X), NEW p, NEW e, NEW B, NEW items \in Seq(ItemTexts), NEW open \in Openings,
         Held(s, p, e, Value(open, items), B), NEW q, q = p + ArrayAt(open) - 1,
         NEW f, f = q + 5 * Len(items) + 1
  PROVE  IsPiece(Array(items), s, q, f)
<1> DEFINE n == Len(items)  t == Array(items)
<1>0. Len(s) \in Nat /\ n \in Nat
  BY LenProperties
<1>1. p \in 1 .. Len(s) /\ e \in 1 .. Len(s) /\ IsPiece(Value(open, items), s, p, e)
  BY DEF Held
<1>2. t \in Seq(ChunkSymbols) /\ Len(t) = 5 * n + 2
  <2>1. IsValue(t, LS, items)
    BY ArrayIs
  <2>2. LS # LB
    BY BracketFacts
  <2>3. Len(t) = 1 + 5 * n + 1
    BY <2>1, <2>2 DEF IsValue, ArrayAt
  <2> HIDE DEF n
  <2>4. 1 + 5 * n + 1 = 5 * n + 2
    BY <1>0
  <2> QED
    BY <2>1, <2>3, <2>4 DEF IsValue
<1>3. open = LB \/ open = LS
  BY BracketFacts
<1>4. CASE open = LS
  <2>1. ArrayAt(open) = 1
    BY <1>4, BracketFacts DEF ArrayAt
  <2>2. Value(open, items) = t
    BY <1>4, BracketFacts, Zenon DEF Value, LB, LS
  <2> HIDE DEF t, n
  <2>3. IsPiece(t, s, p, e)
    BY <1>1, <2>2
  <2>4. Len(t) = e - p + 1
    BY <2>3 DEF IsPiece
  <2>5. f = q + 5 * n + 1
    BY DEF n
  <2>6. q = p /\ f = e
    BY <1>0, <1>1, <1>2, <2>1, <2>4, <2>5
  <2> QED
    BY <2>3, <2>6 DEF t
<1>5. CASE open = LB
  <2> DEFINE v == ChunkObject(items)
  <2>1. ArrayAt(open) = 3
    BY <1>5 DEF ArrayAt
  <2>2. Value(open, items) = v
    BY <1>5, Zenon DEF Value, LB
  <2>3. IsPiece(t, v, 3, 5 * n + 4)
    BY ChunkObjectIs
  <2> HIDE DEF t, v
  <2>4. IsPiece(v, s, p, e)
    BY <1>1, <2>2
  <2>5. Len(v) = 3 + 5 * n + 2
    BY ChunkObjectIs DEF IsValue, ArrayAt, v
  <2>6. f = q + 5 * n + 1
    BY DEF n
  <2> HIDE DEF n
  <2>7. /\ Len(v) = e - p + 1 /\ \A i \in 1 .. e - p + 1 : v[i] = s[p + i - 1]
    BY <2>4 DEF IsPiece
  <2>8. \A i \in 1 .. (5 * n + 4) - 3 + 1 : t[i] = v[3 + i - 1]
    BY <2>3 DEF IsPiece
  <2>9. q = p + 2 /\ f - q + 1 = 5 * n + 2 /\ e - p + 1 = 5 * n + 5 /\ (5 * n + 4) - 3 + 1 = 5 * n + 2
    <3>1. p \in Int /\ e \in Int /\ n \in Int
      BY <1>0, <1>1
    <3>2. 3 + 5 * n + 2 = e - p + 1
      BY <2>5, <2>7
    <3>3. q = p + 2
      BY <2>1, <3>1
    <3>4. f - q + 1 = 5 * n + 2
      BY <2>6, <3>1, <3>3
    <3>5. e - p + 1 = 5 * n + 5 /\ (5 * n + 4) - 3 + 1 = 5 * n + 2
      BY <3>1, <3>2
    <3> QED
      BY <3>3, <3>4, <3>5
  <2>10. ASSUME NEW i \in 1 .. 5 * n + 2 PROVE t[i] = s[q + i - 1]
    <3>1. i \in Int /\ 3 + i - 1 \in 1 .. 5 * n + 5 /\ p + (3 + i - 1) - 1 = q + i - 1
      <4>1. p \in Int /\ n \in Int /\ i \in Int /\ 1 <= i /\ i <= 5 * n + 2 /\ q = p + 2
        BY <1>0, <1>1, <2>9
      <4> QED
        BY <4>1
    <3>2. t[i] = v[3 + i - 1] /\ v[3 + i - 1] = s[p + (3 + i - 1) - 1]
      BY <2>7, <2>8, <2>9, <3>1
    <3> QED
      BY <3>1, <3>2
  <2>11. IsPiece(t, s, q, f)
    BY <1>2, <2>9, <2>10 DEF IsPiece
  <2> QED
    BY <2>11 DEF t
<1> QED
  BY <1>3, <1>4, <1>5

\* Before the array there is no bracket of its kind in the value.
LEMMA ArrayFirst ==
  ASSUME NEW X, NEW s \in Seq(X), NEW p, NEW e, NEW B, NEW items \in Seq(ItemTexts), NEW open \in Openings,
         Held(s, p, e, Value(open, items), B), LS \in B, NEW q, q = p + ArrayAt(open) - 1
  PROVE  IsArray(s, q, items) /\ Index(s, LS) = q /\ Contains(s, LS)
<1> DEFINE v == Value(open, items)
<1>0. Len(s) \in Nat
  BY LenProperties
<1>1. /\ p \in 1 .. Len(s) /\ e \in 1 .. Len(s) /\ IsPiece(v, s, p, e)
      /\ \A i \in 1 .. Len(s) : i < p => s[i] # LS
  BY DEF Held
<1>2. IsValue(v, open, items)
  BY ValueIs
<1>3. IsArray(s, q, items)
  BY <1>2, HeldArray
<1>4. q \in 1 .. Len(s) /\ s[q] = LS
  BY <1>3 DEF IsArray
<1> HIDE DEF v
<1>5. ASSUME NEW i \in 1 .. Len(s), s[i] = LS PROVE q <= i
  <2>1. CASE i < p
    BY <1>1, <1>5, <2>1
  <2>2. CASE open # LB /\ p <= i
    <3>1. ArrayAt(open) = 1
      BY <2>2 DEF ArrayAt
    <3> QED
      BY <1>0, <1>1, <2>2, <3>1
  <2>3. CASE open = LB /\ p <= i
    <3>1. ArrayAt(open) = 3
      BY <2>3 DEF ArrayAt
    <3>2. v[1] = LB /\ v[2] = "chunks" /\ LB # LS /\ "chunks" # LS
      BY <1>2, <2>3, BracketFacts DEF IsValue
    <3>3. Len(items) \in Nat /\ Len(v) = 3 + 5 * Len(items) + 2
      BY <1>2, <2>3, <3>1, LenProperties DEF IsValue
    <3>4. Len(v) = e - p + 1 /\ \A j \in 1 .. e - p + 1 : v[j] = s[p + j - 1]
      BY <1>1 DEF IsPiece
    <3>5. 1 \in 1 .. e - p + 1 /\ 2 \in 1 .. e - p + 1 /\ p + 1 - 1 = p /\ p + 2 - 1 = p + 1
      <4>1. p \in Int /\ e \in Int /\ e - p + 1 >= 2
        BY <1>0, <1>1, <3>3, <3>4
      <4> QED
        BY <4>1
    <3>6. s[p] = LB /\ s[p + 1] = "chunks"
      BY <3>2, <3>4, <3>5
    <3>7. i # p /\ i # p + 1
      BY <1>5, <3>2, <3>6
    <3>8. q = p + 2
      BY <1>1, <3>1
    <3> QED
      BY <1>0, <1>1, <2>3, <3>7, <3>8
  <2> QED
    BY <1>0, <1>1, <2>1, <2>2, <2>3
<1>6. Index(s, LS) = q
  BY <1>4, <1>5, IndexIs
<1> QED
  BY <1>3, <1>4, <1>6 DEF Contains

LEMMA ArrayFound ==
  ASSUME NEW X, NEW s \in Seq(X), NEW p, NEW e, NEW B, NEW items \in ItemLists, NEW open \in Openings,
         Held(s, p, e, Value(open, items), B), LS \in B
  PROVE  ItemsIn(ValueFrom(s, LS), LS) = items
<1> DEFINE q == p + ArrayAt(open) - 1  f == q + 5 * Len(items) + 1
<1>0. Len(s) \in Nat /\ items \in Seq(ItemTexts) /\ Len(items) \in Nat
  BY LenProperties, ListsAreSequences
<1>1. IsArray(s, q, items) /\ Index(s, LS) = q /\ Contains(s, LS)
  BY <1>0, ArrayFirst
<1>2. IsPiece(Array(items), s, q, f)
  BY <1>0, HeldArrayIs
<1> HIDE DEF q
<1>3. extractBalancedDelimiters(s, q, LS) = SubSeq(s, q, f)
  BY <1>0, <1>1, ArrayCut
<1>4. Array(items) \in Seq(ChunkSymbols)
  BY <1>0, ArrayIs DEF IsValue
<1>5. q \in 1 .. Len(s) /\ f \in 1 .. Len(s)
  BY <1>1 DEF IsArray
<1> HIDE DEF f
<1>6. q <= f
  <2>1. f = q + 5 * Len(items) + 1 /\ q \in Int
    BY <1>0, <1>5 DEF f
  <2> QED
    BY <1>0, <2>1
<1>7. SubSeq(s, q, f) = Array(items)
  BY <1>2, <1>4, <1>5, <1>6, ThePiece
<1>8. ValueFrom(s, LS) = Array(items)
  BY <1>1, <1>3, <1>7 DEF ValueFrom
<1>9. Value(LS, items) = Array(items) /\ LS \in Openings
  BY BracketFacts, Zenon DEF Value, LB, LS
<1> QED
  BY <1>8, <1>9, ItemsOfValue

LEMMA ObjectFound ==
  ASSUME NEW X, NEW s \in Seq(X), NEW p, NEW e, NEW B, NEW items \in ItemLists,
         Held(s, p, e, Value(LB, items), B), LB \in B
  PROVE  ItemsIn(ValueFrom(s, LB), LB) = items
<1> DEFINE q == p + 2  v == Value(LB, items)
<1>0. Len(s) \in Nat /\ items \in Seq(ItemTexts) /\ Len(items) \in Nat /\ LB \in Openings
  BY LenProperties, ListsAreSequences, BracketFacts
<1>1. /\ p \in 1 .. Len(s) /\ e \in 1 .. Len(s) /\ IsPiece(v, s, p, e)
      /\ \A i \in 1 .. Len(s) : i < p => s[i] # LB
  BY DEF Held
<1>2. IsValue(v, LB, items)
  BY <1>0, ValueIs
<1>3. /\ v \in Seq(ChunkSymbols) /\ Len(v) = 3 + 5 * Len(items) + 2 /\ v[1] = LB /\ v[Len(v)] = RB
      /\ v[2] = "chunks"
  BY <1>2, BracketFacts DEF IsValue, ArrayAt
<1>4. IsArray(s, q, items)
  <2>1. ArrayAt(LB) = 3
    BY DEF ArrayAt
  <2>2. q = p + 3 - 1
    BY <1>1
  <2> HIDE DEF q
  <2>3. q = p + ArrayAt(LB) - 1
    BY <2>1, <2>2
  <2> QED
    BY <1>0, <1>2, <2>3, HeldArray DEF v
<1> HIDE DEF v
<1>5. Len(v) = e - p + 1 /\ \A j \in 1 .. e - p + 1 : v[j] = s[p + j - 1]
  BY <1>1 DEF IsPiece
<1>6. p \in Int /\ e \in Int /\ e - p + 1 = 3 + 5 * Len(items) + 2
  <2>1. p \in Int /\ e \in Int
    BY <1>0, <1>1
  <2>2. e - p + 1 = 3 + 5 * Len(items) + 2
    BY <1>3, <1>5
  <2> QED
    BY <2>1, <2>2
<1>7. /\ 1 \in 1 .. e - p + 1 /\ 2 \in 1 .. e - p + 1 /\ e - p + 1 \in 1 .. e - p + 1
      /\ p + 1 - 1 = p /\ p + 2 - 1 = p + 1 /\ p + (e - p + 1) - 1 = e
      /\ e = q + 5 * Len(items) + 2 /\ p <= e
  BY <1>0, <1>6
<1>8. s[p] = LB /\ s[p + 1] = "chunks" /\ s[e] = RB
  BY <1>3, <1>5, <1>7
<1>9. q = p + 2
  OBVIOUS
<1> HIDE DEF q
<1>10. extractBalancedDelimiters(s, p, LB) = SubSeq(s, p, e)
  BY <1>0, <1>1, <1>4, <1>7, <1>8, <1>9, ObjectCut
<1>11. Index(s, LB) = p
  <2>1. \A i \in 1 .. Len(s) : s[i] = LB => p <= i
    BY <1>0, <1>1
  <2> QED
    BY <1>1, <1>8, <2>1, IndexIs
<1>12. Contains(s, LB)
  BY <1>1, <1>8 DEF Contains
<1>13. SubSeq(s, p, e) = v
  BY <1>1, <1>3, <1>7, ThePiece
<1>14. ValueFrom(s, LB) = v
  BY <1>10, <1>11, <1>12, <1>13 DEF ValueFrom
<1> QED
  BY <1>0, <1>14, ItemsOfValue DEF v

\* Nothing but the items, and the items if no bracket of the kind that is
\* looked for is before them.
LEMMA TextParsed ==
  ASSUME NEW X, NEW s \in Seq(X), NEW p, NEW e, NEW B, NEW items \in ItemLists, NEW open \in Openings,
         Held(s, p, e, Value(open, items), B)
  PROVE  /\ ItemsOrNone(Parsed(s), items)
         /\ LS \in B \/ (LB \in B /\ open = LB) => Parsed(s) = items
<1> DEFINE o == ItemsIn(ValueFrom(s, LB), LB)  a == ItemsIn(ValueFrom(s, LS), LS)
           l == ItemsIn(extractJSONArrayStringLegacy(s), LS)
<1>1. items \in Seq(ItemTexts) /\ LB \in Openings /\ LS \in Openings
  BY ListsAreSequences, BracketFacts
<1>2. s # <<>>
  <2>1. p \in 1 .. Len(s)
    BY DEF Held
  <2> QED
    BY <2>1, EmptySeq
<1>3. /\ PartOrNothing(ValueFrom(s, LB), s) /\ PartOrNothing(ValueFrom(s, LS), s)
      /\ PartOrNothing(extractJSONArrayStringLegacy(s), s)
  BY <1>2, CutIsPart, LegacyIsPart
<1>4. ItemsOrNone(o, items) /\ ItemsOrNone(a, items) /\ ItemsOrNone(l, items)
  BY <1>1, <1>3, ItemsOfPart
<1>5. LS \in B => a = items
  BY ArrayFound
<1>6. LB \in B /\ open = LB => o = items
  BY ObjectFound
<1>7. Parsed(s) = IF o # <<>> THEN o ELSE IF a # <<>> THEN a ELSE l
  BY DEF Parsed
<1> HIDE DEF o, a, l
<1>8. (o = items \/ o = <<>>) /\ (a = items \/ a = <<>>) /\ (l = items \/ l = <<>>)
  BY <1>4 DEF ItemsOrNone
<1>9. ItemsOrNone(Parsed(s), items)
  BY <1>7, <1>8 DEF ItemsOrNone
<1>10. LS \in B \/ (LB \in B /\ open = LB) => Parsed(s) = items
  BY <1>5, <1>6, <1>7, <1>8
<1> QED
  BY <1>9, <1>10

LEMMA HeldLaid ==
  ASSUME NEW X, NEW u, NEW t, NEW v, NEW w, Laid(w, u, t, v, X), Len(t) >= 1, NEW B,
         "quote" \notin ToSet(u), "quote" \notin ToSet(v), \A x \in ToSet(u) : x \notin B
  PROVE  Held(w, Len(u) + 1, Len(u) + Len(t), t, B)
<1> DEFINE n == Len(t)  a == Len(u)  c == Len(v)  m == Len(w)  p == a + 1  e == a + n
<1> HIDE DEF p, e
<1>1. /\ u \in Seq(X) /\ v \in Seq(X)
      /\ a \in Nat /\ n \in Nat /\ c \in Nat /\ n >= 1 /\ m = a + n + c
      /\ (\A i \in 1 .. a : w[i] = u[i]) /\ (\A i \in 1 .. n : w[a + i] = t[i])
      /\ \A i \in 1 .. c : w[a + n + i] = v[i]
  BY DEF Laid
<1>2. ASSUME NEW i \in 1 .. a PROVE u[i] \in ToSet(u)
  BY <1>1, LenProperties DEF ToSet
<1>3. ASSUME NEW i \in 1 .. c PROVE v[i] \in ToSet(v)
  BY <1>1, LenProperties DEF ToSet
<1> HIDE DEF a, c, m, n
<1>4. p = a + 1 /\ e = a + n
  BY DEF p, e
<1>5. p \in 1 .. m /\ e \in 1 .. m /\ e - p + 1 = n
  BY <1>1, <1>4
<1>6. IsPiece(t, w, p, e)
  <2>1. ASSUME NEW i \in 1 .. n PROVE t[i] = w[p + i - 1]
    <3>1. p + i - 1 = a + i
      BY <1>1, <1>4
    <3> QED
      BY <1>1, <3>1
  <2>2. Len(t) = e - p + 1
    BY <1>5 DEF n
  <2> QED
    BY <1>5, <2>1, <2>2 DEF IsPiece
<1>7. ASSUME NEW i \in 1 .. m, i < p PROVE w[i] # "quote" /\ w[i] \notin B
  <2>1. i \in 1 .. a
    BY <1>1, <1>4, <1>7
  <2> QED
    BY <1>1, <1>2, <2>1
<1>8. ASSUME NEW i \in 1 .. m, i > e PROVE w[i] # "quote"
  <2>1. i - a - n \in 1 .. c /\ i = a + n + (i - a - n)
    BY <1>1, <1>4, <1>8
  <2>2. w[i] = v[i - a - n]
    BY <1>1, <2>1
  <2> QED
    BY <1>3, <2>1, <2>2
<1>9. Held(w, p, e, t, B)
  BY <1>5, <1>6, <1>7, <1>8 DEF Held, m
<1> QED
  BY <1>9 DEF p, e, a, n

\* The trimmed answer.
ChunksHeld(s, X, kind, t, B) == s \in Seq(X) /\ \E p, e : Framed(s, kind, p, e) /\ Held(s, p, e, t, B)

LEMMA ChunksFramed ==
  ASSUME NEW P, "fence" \notin P, "json" \notin P, "quote" \notin P, NEW before \in Seq(P), NEW after \in Seq(P),
         NEW items \in Seq(ItemTexts), NEW open \in Openings, NEW kind \in Kinds
  PROVE  ChunksHeld(TrimSpace(Around(before, kind, Value(open, items), after)), (P \union TextSymbols) \union ChunkSymbols,
                    kind, Value(open, items), {LB, LS} \ ToSet(before))
<1> DEFINE X == (P \union TextSymbols) \union ChunkSymbols  t == Value(open, items)
           w == Around(before, kind, t, after)
           u == IF kind = "none" THEN before ELSE before \o Opening(kind)
           v == Ending(kind, after)
           B == {LB, LS} \ ToSet(before)
<1>1. TextSymbols \subseteq X /\ P \subseteq X /\ ChunkSymbols \subseteq X
  OBVIOUS
<1> HIDE DEF X
<1>2. before \in Seq(X) /\ after \in Seq(X)
  BY <1>1, SeqWider
<1>3. IsValue(t, open, items)
  BY ValueIs
<1> HIDE DEF t
<1>4. t \in Seq(ChunkSymbols) /\ t \in Seq(X) /\ Len(t) >= 2 /\ t[1] = open /\ t[Len(t)] = Closing(open) /\ Len(t) \in Nat
  <2>1. t \in Seq(ChunkSymbols) /\ t[1] = open /\ t[Len(t)] = Closing(open)
    BY <1>3 DEF IsValue
  <2>2. Len(t) = ArrayAt(open) + 5 * Len(items) + (IF open = LB THEN 2 ELSE 1) /\ Len(items) \in Nat
    BY <1>3, LenProperties DEF IsValue
  <2>3. ArrayAt(open) \in Nat /\ ArrayAt(open) >= 1
    BY DEF ArrayAt
  <2>4. Len(t) >= 2
    BY <2>2, <2>3
  <2>5. t \in Seq(X)
    BY <1>1, <2>1, SeqWider
  <2> QED
    BY <2>1, <2>4, <2>5, LenProperties
<1>5. u \in Seq(X) /\ v \in Seq(X) /\ w = (u \o t) \o v
  <2>1. (u = IF kind = "none" THEN before ELSE before \o Opening(kind)) /\ v = Ending(kind, after)
    OBVIOUS
  <2> HIDE DEF u, v
  <2>2. AroundLaid(u, v, before, kind, t, after, X)
    BY <1>1, <1>2, <1>4, <2>1, AroundIs
  <2> QED
    BY <2>2 DEF AroundLaid
<1>6. FrameBefore(kind, u) /\ ToSet(u) \subseteq ToSet(before) \union {"fence", "json", "newline"}
  BY <1>1, ProseBefore
<1>7. FrameAfter(kind, v) /\ ToSet(v) \subseteq ToSet(after) \union {"blank", "fence"}
  BY <1>1, ProseAfter
<1>8. ToSet(before) \subseteq P /\ ToSet(after) \subseteq P
  BY ElementOfSeq, LenProperties DEF ToSet
<1> HIDE DEF u, v
<1>9. Laid(w, u, t, v, X)
  <2>1. Laid((u \o t) \o v, u, t, v, X)
    BY <1>4, <1>5, LaidOut
  <2> QED
    BY <1>5, <2>1
<1> HIDE DEF w
<1> DEFINE p == Len(u) + 1  e == Len(u) + Len(t)
<1>10. Framed(w, kind, p, e)
  <2>1. \A i \in 1 .. Len(t) : t[i] # "fence" /\ t[i] # "json"
    <3>1. \A i \in 1 .. Len(t) : t[i] \in ChunkSymbols
      BY <1>4, ElementOfSeq
    <3>2. \A x \in ChunkSymbols : x # "fence" /\ x # "json"
      BY BracketFacts DEF ChunkSymbols
    <3> QED
      BY <3>1, <3>2
  <2>2. t[1] \notin Blanks /\ t[Len(t)] \notin Blanks
    <3>1. open \in {LB, RB, LS, RS} /\ Closing(open) \in {LB, RB, LS, RS}
      BY BracketFacts
    <3> QED
      BY <1>4, <3>1, BracketFacts
  <2> QED
    BY <1>4, <1>6, <1>7, <1>9, <2>1, <2>2, FrameLaid
<1>11. Held(w, p, e, t, B)
  <2>1. "quote" \notin ToSet(u) /\ "quote" \notin ToSet(v)
    BY <1>6, <1>7, <1>8
  <2>2. \A x \in {LB, LS} : x # "fence" /\ x # "json" /\ x # "newline"
    BY BracketFacts DEF Blanks
  <2>3. \A x \in ToSet(u) : x \notin B
    BY <1>6, <2>2
  <2>4. Len(t) >= 1
    BY <1>4
  <2> HIDE DEF B
  <2> QED
    BY <1>9, <2>1, <2>3, <2>4, HeldLaid
<1> HIDE DEF p, e, B
<1>12. w \in Seq(X)
  BY <1>9 DEF Laid
<1>13. PICK c, d \in 1 .. Len(w) :
           /\ c <= d /\ TrimSpace(w) = SubSeq(w, c, d)
           /\ c <= p /\ e <= d /\ Framed(SubSeq(w, c, d), kind, p - c + 1, e - c + 1)
  BY <1>10, <1>12, FramedTrimmed
<1>14. Len(w) \in Nat /\ p \in Int /\ e \in Int /\ p <= e /\ c <= d + 1
  <2>1. Len(w) \in Nat /\ p \in 1 .. Len(w) /\ e \in 1 .. Len(w) /\ p < e
    BY <1>10, <1>12, LenProperties DEF Framed, Stands
  <2> QED
    BY <1>13, <2>1
<1>15. Held(SubSeq(w, c, d), p - c + 1, e - c + 1, t, B)
  BY <1>11, <1>12, <1>13, <1>14, ValueHeldPiece
<1>16. SubSeq(w, c, d) \in Seq(X)
  <2>1. 1 <= c /\ d <= Len(w) /\ c \in Int /\ d \in Int
    BY <1>13, <1>14
  <2> QED
    BY <1>12, <1>14, <2>1, PieceIn
<1>17. ChunksHeld(TrimSpace(w), X, kind, t, B)
  BY <1>13, <1>15, <1>16 DEF ChunksHeld
<1> QED
  BY <1>17 DEF w, t, X, B

OpenedIn(before, fence) == IF fence \in {"plain", "tagged"} THEN {} ELSE ToSet(before) \intersect {LB, LS}
Survives(open, before, fence) ==
  LS \notin OpenedIn(before, fence) \/ (LB \notin OpenedIn(before, fence) /\ open = LB)

LEMMA ChunksReadIs ==
  ASSUME NEW items, NEW open, NEW before, NEW fence, NEW after,
         NEW chunks, chunks = parseLLMChunks(Around(before, fence, Value(open, items), after)),
         chunks = items \/ (chunks = <<>> /\ ~Survives(open, before, fence))
  PROVE  ChunksAreRead(items, open, before, fence, after)
BY Zenon DEF ChunksAreRead, Survives, OpenedIn, LB, LS

LEMMA ChunksOfAnswer ==
  ASSUME NEW P, "fence" \notin P, "json" \notin P, "quote" \notin P, NEW before \in Seq(P), NEW after \in Seq(P),
         NEW items \in ItemLists, NEW open \in Openings, NEW fence \in Kinds
  PROVE  ChunksAreRead(items, open, before, fence, after)
<1> DEFINE t == Value(open, items)  answer == Around(before, fence, t, after)  s == TrimSpace(answer)
           X == (P \union TextSymbols) \union ChunkSymbols  B == {LB, LS} \ ToSet(before)
           r == stripMarkdownCodeFence(s)  chunks == parseLLMChunks(answer)
<1>1. items \in Seq(ItemTexts)
  BY ListsAreSequences
<1>2. ChunksHeld(s, X, fence, t, B)
  BY <1>1, ChunksFramed
<1>3. chunks = Parsed(r)
  BY ParsedIs
<1> HIDE DEF s, X, r, chunks
<1>4. s \in Seq(X)
  BY <1>2 DEF ChunksHeld
<1>5. PICK p, e : Framed(s, fence, p, e) /\ Held(s, p, e, t, B)
  BY <1>2 DEF ChunksHeld
<1>6. r = IF fence \in {"plain", "tagged"} THEN SubSeq(s, p, e) ELSE s
  BY <1>1, <1>4, <1>5, FenceGoes DEF r
<1>7. chunks = items \/ (chunks = <<>> /\ ~Survives(open, before, fence))
  <2>1. CASE fence \in {"plain", "tagged"}
    <3>1. p \in 1 .. Len(s) /\ e \in 1 .. Len(s) /\ p < e /\ Len(s) \in Nat
      BY <1>4, <1>5, LenProperties DEF Framed, Stands
    <3>2. p <= e /\ p \in Int /\ e \in Int /\ 1 <= p /\ p <= e + 1 /\ e <= Len(s)
      BY <3>1
    <3>3. SubSeq(s, p, e) \in Seq(X)
      BY <1>4, <3>2, PieceIn
    <3> DEFINE A == {LB, LS}
    <3>4. Held(SubSeq(s, p, e), 1, e - p + 1, t, A)
      BY <1>4, <1>5, <3>2, HeldAlone
    <3>5. LS \in A
      OBVIOUS
    <3> HIDE DEF A
    <3>6. Parsed(SubSeq(s, p, e)) = items
      BY <1>1, <3>3, <3>4, <3>5, TextParsed
    <3> QED
      BY <1>3, <1>6, <2>1, <3>6
  <2>2. CASE fence \notin {"plain", "tagged"}
    <3>1. /\ ItemsOrNone(Parsed(s), items)
          /\ LS \in B \/ (LB \in B /\ open = LB) => Parsed(s) = items
      <4> HIDE DEF B
      <4> QED
        BY <1>1, <1>4, <1>5, TextParsed
    <3>2. OpenedIn(before, fence) = ToSet(before) \intersect {LB, LS}
      BY <2>2 DEF OpenedIn
    <3>3. Survives(open, before, fence) => LS \in B \/ (LB \in B /\ open = LB)
      BY <3>2 DEF Survives
    <3> QED
      BY <1>3, <1>6, <2>2, <3>1, <3>3 DEF ItemsOrNone
  <2> QED
    BY <2>1, <2>2
<1>8. chunks = parseLLMChunks(Around(before, fence, Value(open, items), after))
  BY DEF chunks
<1> QED
  BY <1>7, <1>8, ChunksReadIs

(***************************************************************************)
(* The chunks that parseLLMChunks (knowledge/chunk.go) gives for an answer *)
(* are those the answer holds, whatever prose and fence a model puts       *)
(* around them: none is lost unless the prose in front opens a bracket of  *)
(* the kind that is looked for, and then there are none at all - the       *)
(* fallbacks never read other chunks out of a part of the answer.  For any *)
(* list of chunks, as an array and as an object, whatever brackets stand   *)
(* in the texts of the chunks, and prose without fences and quotes.        *)
(***************************************************************************)
THEOREM ChunksRead ==
  ASSUME NEW P, "fence" \notin P, "json" \notin P, "quote" \notin P, NEW before \in Seq(P), NEW after \in Seq(P),
         NEW items \in ItemLists, NEW open \in {"{", "["}, NEW fence \in {"none", "plain", "tagged", "open"}
  PROVE  ChunksAreRead(items, open, before, fence, after)
<1>1. fence \in Kinds /\ open \in Openings
  BY Zenon DEF Kinds, Openings
<1> QED
  BY Zenon, <1>1, ChunksOfAnswer
=============================================================================
