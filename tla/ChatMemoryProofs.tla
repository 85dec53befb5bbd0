-------------------------- MODULE ChatMemoryProofs --------------------------
(***************************************************************************)
(* Proofs about ChatMemory for any set of turns, any limits and any number *)
(* of summaries.                                                           *)
(***************************************************************************)
EXTENDS ChatMemory, SequenceTheorems, TLAPS

(***************************************************************************)
(* What trimming and compaction leave of a list of messages.               *)
(***************************************************************************)
LEMMA NewestProperties ==
  ASSUME NEW s \in Seq(Message), NEW n \in Nat
  PROVE  /\ Newest(s, n) \in Seq(Message)
         /\ Len(Newest(s, n)) = IF Len(s) > n THEN n ELSE Len(s)
         /\ \A i \in 1 .. Len(Newest(s, n)) :
              Newest(s, n)[i] = s[Len(s) - Len(Newest(s, n)) + i]
<1> DEFINE m == IF Len(s) > n THEN Len(s) - n + 1 ELSE 1
<1>1. Len(s) \in Nat /\ m \in Int /\ m >= 1
  BY LenProperties
<1>2. \A i \in m .. Len(s) : s[i] \in Message
  BY <1>1, ElementOfSeq
<1> HIDE DEF m
<1>3. /\ SubSeq(s, m, Len(s)) \in Seq(Message)
      /\ Len(SubSeq(s, m, Len(s))) = IF m <= Len(s) THEN Len(s) - m + 1 ELSE 0
      /\ \A i \in 1 .. Len(s) - m + 1 : SubSeq(s, m, Len(s))[i] = s[m + i - 1]
  BY <1>1, <1>2, SubSeqProperties
<1>4. Newest(s, n) = SubSeq(s, m, Len(s))
  BY DEF Newest, m
<1>5. /\ Len(Newest(s, n)) = IF Len(s) > n THEN n ELSE Len(s)
      /\ m = Len(s) - Len(Newest(s, n)) + 1
      /\ Len(Newest(s, n)) \in Nat
  <2> DEFINE L == Len(s)
             N == Len(Newest(s, n))
  <2>1. N = IF m <= L THEN L - m + 1 ELSE 0
    BY <1>3, <1>4
  <2>2. m = IF L > n THEN L - n + 1 ELSE 1
    BY DEF m
  <2>3. L \in Nat
    BY <1>1
  <2> HIDE DEF L, N
  <2>4. N = (IF L > n THEN n ELSE L) /\ m = L - N + 1 /\ N \in Nat
    BY <2>1, <2>2, <2>3
  <2> QED
    BY <2>4 DEF L, N
<1>6. ASSUME NEW i \in 1 .. Len(Newest(s, n))
      PROVE  Newest(s, n)[i] = s[Len(s) - Len(Newest(s, n)) + i]
  <2>1. i \in 1 .. Len(s) - m + 1 /\ m + i - 1 = Len(s) - Len(Newest(s, n)) + i
    BY <1>1, <1>5
  <2> QED
    BY <1>3, <1>4, <2>1
<1> QED
  BY <1>3, <1>4, <1>5, <1>6

LEMMA WithoutOldestProperties ==
  ASSUME NEW s \in Seq(Message), NEW n \in Nat
  PROVE  /\ WithoutOldest(s, n) \in Seq(Message)
         /\ Len(WithoutOldest(s, n)) = IF Len(s) > n THEN Len(s) - n ELSE 0
         /\ \A i \in 1 .. Len(WithoutOldest(s, n)) :
              WithoutOldest(s, n)[i] = s[n + i]
BY SubSeqProperties DEF WithoutOldest

LEMMA TurnProperties ==
  ASSUME NEW q \in Turns, NEW s \in Seq(Message)
  PROVE  /\ Turn(q) \in Seq(Message) /\ Len(Turn(q)) = 2
         /\ \A i \in 1 .. 2 : Turn(q)[i] \in Message /\ Turn(q)[i].turn = q
         /\ s \o Turn(q) \in Seq(Message)
         /\ Len(s \o Turn(q)) = Len(s) + 2
         /\ \A i \in 1 .. Len(s) + 2 :
              (s \o Turn(q))[i] = IF i <= Len(s) THEN s[i] ELSE Turn(q)[i - Len(s)]
BY ConcatProperties DEF Turn, Message

LEMMA TranscriptProperties ==
  ASSUME NEW s \in Seq(Message), NEW transcript \in Transcripts(s)
  PROVE  transcript \subseteq ToSet(s) /\ ToSet(s) \subseteq Message
<1>1. ToSet(s) \subseteq Message
  BY LenProperties DEF ToSet
<1>2. ASSUME NEW i \in 1 .. Len(s), NEW j \in i .. Len(s)
      PROVE  ToSet(SubSeq(s, i, j)) \subseteq ToSet(s)
  <2> DEFINE p == SubSeq(s, i, j)
  <2>1. /\ Len(p) = j - i + 1 /\ i \in Nat /\ j \in Nat /\ j <= Len(s) /\ i >= 1
        /\ \A k \in 1 .. j - i + 1 : p[k] = s[i + k - 1]
    BY LenProperties, SubSeqProperties
  <2>2. ASSUME NEW k \in 1 .. Len(p) PROVE p[k] \in ToSet(s)
    <3>1. k \in 1 .. j - i + 1 /\ i + k - 1 \in 1 .. Len(s)
      BY <2>1, LenProperties
    <3> QED
      BY <2>1, <3>1 DEF ToSet
  <2> HIDE DEF p
  <2>3. ToSet(p) \subseteq ToSet(s)
    BY <2>2 DEF ToSet
  <2> QED
    BY <2>3 DEF p
<1>3. transcript = ToSet(s) \/ \E i \in 1 .. Len(s) : \E j \in i .. Len(s) : transcript = ToSet(SubSeq(s, i, j))
  BY DEF Transcripts
<1> QED
  BY <1>1, <1>2, <1>3

(***************************************************************************)
(* The variables keep their types (TypeOK), for queries, summaries, resets *)
(* and limit changes in any order.                                         *)
(***************************************************************************)
THEOREM TypeCorrect == Spec => []TypeOK
<1>1. Init => TypeOK
  <2>1. <<>> \in Seq(Message)
    BY EmptySeq
  <2>2. Init => messages \in Seq(Message) /\ log \in Seq(Message)
    BY <2>1, Zenon DEF Init
  <2>3. Init => limit \in Nat \ {0} /\ seq \in Nat
    BY MemoryAssumption DEF Init
  <2>6. Init => summarizing \in BOOLEAN
    BY DEF Init
  <2>5. Init => summary \subseteq Message /\ jobs \subseteq Job
    BY DEF Init
  <2>4. Init => /\ query \in [Turns -> {"new", "asking", "answered", "failed"}]
                /\ seenLimit \in [Turns -> Nat]
    BY DEF Init
  <2> QED
    BY <2>2, <2>3, <2>4, <2>5, <2>6 DEF TypeOK
<1>2. TypeOK /\ [Next]_vars => TypeOK'
  <2> SUFFICES ASSUME TypeOK, [Next]_vars
               PROVE  TypeOK'
    OBVIOUS
  <2> USE DEF TypeOK
  <2>1. ASSUME NEW s \in Seq(Message), StartJob(s)
        PROVE  summarizing' \in BOOLEAN /\ seq' \in Nat /\ jobs' \subseteq Job
    BY <2>1 DEF StartJob, Job
  <2>2. ASSUME NEW q \in Turns, AskQuery(q)
        PROVE  TypeOK'
    BY <2>2 DEF AskQuery
  <2>3. ASSUME NEW q \in Turns, FailQuery(q)
        PROVE  TypeOK'
    BY <2>3 DEF FailQuery
  <2>4. ASSUME NEW q \in Turns, AnswerQuery(q)
        PROVE  TypeOK'
    <3> DEFINE kept == Newest(messages \o Turn(q), seenLimit[q])
    <3>1. kept \in Seq(Message) /\ log \o Turn(q) \in Seq(Message)
      BY TurnProperties, NewestProperties
    <3>2. summarizing' \in BOOLEAN /\ seq' \in Nat /\ jobs' \subseteq Job
      BY <2>1, <2>4, <3>1 DEF AnswerQuery
    <3> QED
      BY <2>4, <3>1, <3>2 DEF AnswerQuery
  <2>5. CASE SummarizeMemory
    BY <2>1, <2>5 DEF SummarizeMemory
  <2>6. ASSUME NEW j \in jobs, NEW transcript \in Transcripts(j.snapshot),
               SummaryArrives(j, transcript)
        PROVE  TypeOK'
    <3>1. j \in Job /\ Len(j.snapshot) \in Nat
      BY LenProperties DEF Job
    <3>2. transcript \subseteq Message
      BY <3>1, TranscriptProperties DEF Job
    <3>3. WithoutOldest(messages, Len(j.snapshot)) \in Seq(Message)
      BY <3>1, WithoutOldestProperties
    <3> QED
      BY <2>6, <3>1, <3>2, <3>3 DEF SummaryArrives, Job
  <2>7. ASSUME NEW j \in jobs, SummaryDiscarded(j)
        PROVE  TypeOK'
    BY <2>7 DEF SummaryDiscarded
  <2>8. CASE ResetMemory
    BY <2>8 DEF ResetMemory
  <2>9. ASSUME NEW n \in Limits, SetMaxMemoryMessages(n)
        PROVE  TypeOK'
    <3>1. limit' \in Nat \ {0}
      BY <2>9, MemoryAssumption DEF SetMaxMemoryMessages
    <3>2. Newest(messages, limit') \in Seq(Message)
      BY <3>1, NewestProperties
    <3> QED
      BY <2>9, <3>1, <3>2 DEF SetMaxMemoryMessages
  <2>10. CASE UNCHANGED vars
    BY <2>10 DEF vars
  <2> QED
    BY <2>2, <2>3, <2>4, <2>5, <2>6, <2>7, <2>8, <2>9, <2>10 DEF Next
<1> QED
  BY <1>1, <1>2, PTL DEF Spec

-----------------------------------------------------------------------------
(***************************************************************************)
(* At most one summariser is in flight, exactly while the flag is up, and  *)
(* the sequence number of its result is the current one.                   *)
(***************************************************************************)
THEOREM SummariserIsAlone == Spec => []OneSummariser
<1>1. Init => OneSummariser
  BY DEF Init, OneSummariser
<1>2. OneSummariser /\ [Next]_vars => OneSummariser'
  <2> SUFFICES ASSUME OneSummariser, [Next]_vars
               PROVE  OneSummariser'
    OBVIOUS
  <2> USE DEF OneSummariser
  <2>1. ASSUME NEW s, ~summarizing, StartJob(s)
        PROVE  OneSummariser'
    <3>1. jobs' = {[seq |-> seq + 1, snapshot |-> s, previous |-> summary]}
      BY <2>1 DEF StartJob
    <3>2. summarizing' = TRUE /\ seq' = seq + 1
      BY <2>1 DEF StartJob
    <3> QED
      BY <3>1, <3>2
  <2>2. ASSUME NEW j \in jobs, NEW transcript,
               SummaryArrives(j, transcript) \/ SummaryDiscarded(j)
        PROVE  OneSummariser'
    <3>1. jobs' = {} /\ summarizing' = FALSE
      BY <2>2 DEF SummaryArrives, SummaryDiscarded
    <3> QED
      BY <3>1
  <2>3. CASE UNCHANGED <<summarizing, seq, jobs>>
    BY <2>3
  <2>4. ASSUME NEW q \in Turns, AnswerQuery(q)
        PROVE  OneSummariser'
    BY <2>1, <2>3, <2>4 DEF AnswerQuery
  <2>5. CASE SummarizeMemory
    BY <2>1, <2>5 DEF SummarizeMemory
  <2> QED
    BY <2>2, <2>3, <2>4, <2>5
       DEF Next, AskQuery, FailQuery, ResetMemory, SetMaxMemoryMessages, vars
<1> QED
  BY <1>1, <1>2, PTL DEF Spec

-----------------------------------------------------------------------------
(***************************************************************************)
(* Trimming, compacting and adding a turn keep a memory the end of the     *)
(* conversation.                                                           *)
(***************************************************************************)
LEMMA RecentNewest ==
  ASSUME NEW s \in Seq(Message), NEW t \in Seq(Message), NEW n \in Nat, Recent(s, t)
  PROVE  Recent(Newest(s, n), t)
<1> DEFINE r == Newest(s, n)
<1>1. Len(s) \in Nat /\ Len(t) \in Nat /\ Len(s) <= Len(t)
  BY LenProperties DEF Recent
<1>2. /\ Len(r) \in Nat /\ Len(r) <= Len(s)
      /\ \A i \in 1 .. Len(r) : r[i] = s[Len(s) - Len(r) + i]
  BY <1>1, NewestProperties
<1>3. ASSUME NEW i \in 1 .. Len(r)
      PROVE  r[i] = t[Len(t) - Len(r) + i]
  <2>1. Len(s) - Len(r) + i \in 1 .. Len(s)
    BY <1>1, <1>2
  <2>2. Len(t) - Len(s) + (Len(s) - Len(r) + i) = Len(t) - Len(r) + i
    BY <1>1, <1>2
  <2> QED
    BY <1>2, <2>1, <2>2 DEF Recent
<1> QED
  BY <1>1, <1>2, <1>3 DEF Recent

LEMMA RecentWithoutOldest ==
  ASSUME NEW s \in Seq(Message), NEW t \in Seq(Message), NEW n \in Nat, Recent(s, t)
  PROVE  Recent(WithoutOldest(s, n), t)
<1> DEFINE r == WithoutOldest(s, n)
<1>1. Len(s) \in Nat /\ Len(t) \in Nat /\ Len(s) <= Len(t)
  BY LenProperties DEF Recent
<1>2. /\ Len(r) \in Nat /\ Len(r) <= Len(s)
      /\ \A i \in 1 .. Len(r) : Len(r) = Len(s) - n /\ r[i] = s[n + i]
  BY <1>1, WithoutOldestProperties
<1>3. ASSUME NEW i \in 1 .. Len(r)
      PROVE  r[i] = t[Len(t) - Len(r) + i]
  <2>1. n + i \in 1 .. Len(s) /\ Len(r) = Len(s) - n
    BY <1>1, <1>2
  <2>2. Len(t) - Len(s) + (n + i) = Len(t) - Len(r) + i
    BY <1>1, <2>1
  <2> QED
    BY <1>2, <2>1, <2>2 DEF Recent
<1> QED
  BY <1>1, <1>2, <1>3 DEF Recent

LEMMA RecentTurn ==
  ASSUME NEW s \in Seq(Message), NEW t \in Seq(Message), NEW q \in Turns, Recent(s, t)
  PROVE  Recent(s \o Turn(q), t \o Turn(q))
<1> DEFINE u == s \o Turn(q)
           v == t \o Turn(q)
<1>1. Len(s) \in Nat /\ Len(t) \in Nat /\ Len(s) <= Len(t)
  BY LenProperties DEF Recent
<1>2. Len(u) = Len(s) + 2 /\ Len(v) = Len(t) + 2
  BY TurnProperties
<1>3. ASSUME NEW i \in 1 .. Len(s) + 2
      PROVE  u[i] = v[Len(t) - Len(s) + i]
  <2>1. /\ u[i] = IF i <= Len(s) THEN s[i] ELSE Turn(q)[i - Len(s)]
        /\ \A k \in 1 .. Len(t) + 2 :
             v[k] = IF k <= Len(t) THEN t[k] ELSE Turn(q)[k - Len(t)]
    BY TurnProperties
  <2> DEFINE k == Len(t) - Len(s) + i
  <2>2. /\ k \in 1 .. Len(t) + 2 /\ (i <= Len(s) <=> k <= Len(t))
        /\ k - Len(t) = i - Len(s)
    BY <1>1
  <2>3. i <= Len(s) => s[i] = t[k]
    BY <1>1 DEF Recent
  <2> HIDE DEF k
  <2>4. v[k] = IF k <= Len(t) THEN t[k] ELSE Turn(q)[k - Len(t)]
    BY <2>1, <2>2
  <2>5. u[i] = v[k]
    BY <2>1, <2>2, <2>3, <2>4
  <2> QED
    BY <2>5 DEF k
<1>4. Len(v) - Len(u) = Len(t) - Len(s) /\ Len(u) <= Len(v)
  BY <1>1, <1>2
<1> QED
  BY <1>2, <1>3, <1>4 DEF Recent

(***************************************************************************)
(* What is remembered verbatim is the unbroken end of the conversation.    *)
(***************************************************************************)
THEOREM MemoryStaysRecent == Spec => []MemoryIsRecent
<1>1. Init => MemoryIsRecent
  BY EmptySeq DEF Init, MemoryIsRecent, Recent
<1>2. TypeOK /\ MemoryIsRecent /\ [Next]_vars => MemoryIsRecent'
  <2> SUFFICES ASSUME TypeOK, Recent(messages, log), [Next]_vars
               PROVE  Recent(messages', log')
    BY DEF MemoryIsRecent
  <2>1. messages \in Seq(Message) /\ log \in Seq(Message)
    BY DEF TypeOK
  <2>2. ASSUME NEW q \in Turns, AnswerQuery(q)
        PROVE  Recent(messages', log')
    <3>1. /\ messages' = Newest(messages \o Turn(q), seenLimit[q])
          /\ log' = log \o Turn(q)
      BY <2>2 DEF AnswerQuery
    <3>2. Recent(messages \o Turn(q), log \o Turn(q))
      BY <2>1, RecentTurn
    <3>3. /\ messages \o Turn(q) \in Seq(Message) /\ log \o Turn(q) \in Seq(Message)
          /\ seenLimit[q] \in Nat
      BY <2>1, TurnProperties DEF TypeOK
    <3> QED
      BY <3>1, <3>2, <3>3, RecentNewest
  <2>3. ASSUME NEW j \in jobs, NEW transcript \in Transcripts(j.snapshot),
               SummaryArrives(j, transcript)
        PROVE  Recent(messages', log')
    <3>1. messages' = WithoutOldest(messages, Len(j.snapshot)) /\ log' = log
      BY <2>3 DEF SummaryArrives
    <3>2. Len(j.snapshot) \in Nat
      BY LenProperties DEF TypeOK, Job
    <3> QED
      BY <2>1, <3>1, <3>2, RecentWithoutOldest
  <2>4. ASSUME NEW n \in Limits, SetMaxMemoryMessages(n)
        PROVE  Recent(messages', log')
    <3>1. messages' = Newest(messages, limit') /\ log' = log /\ limit' \in Nat
      BY <2>4, MemoryAssumption DEF SetMaxMemoryMessages
    <3> QED
      BY <2>1, <3>1, RecentNewest
  <2>5. CASE ResetMemory
    <3>1. messages' = <<>> /\ log' = log
      BY <2>5 DEF ResetMemory
    <3>2. Len(<<>>) = 0 /\ Len(log) \in Nat
      BY <2>1, EmptySeq, LenProperties
    <3> QED
      BY <3>1, <3>2 DEF Recent
  <2>6. CASE UNCHANGED <<messages, log>>
    BY <2>6
  <2> QED
    BY <2>2, <2>3, <2>4, <2>5, <2>6
       DEF Next, AskQuery, FailQuery, SummarizeMemory, SummaryDiscarded, vars
<1> QED
  BY <1>1, <1>2, TypeCorrect, PTL DEF Spec

-----------------------------------------------------------------------------
(***************************************************************************)
(* Taking the newest or dropping the oldest messages adds none and moves   *)
(* none towards the end.                                                   *)
(***************************************************************************)
Shrinks(r, s) == \A i \in 1 .. Len(r) : \E k \in 1 .. Len(s) : i <= k /\ r[i] = s[k]

LEMMA NewestShrinks ==
  ASSUME NEW s \in Seq(Message), NEW n \in Nat
  PROVE  Shrinks(Newest(s, n), s)
<1> SUFFICES ASSUME NEW i \in 1 .. Len(Newest(s, n))
             PROVE  \E k \in 1 .. Len(s) : i <= k /\ Newest(s, n)[i] = s[k]
  BY DEF Shrinks
<1> DEFINE k == Len(s) - Len(Newest(s, n)) + i
<1>1. /\ Len(s) \in Nat /\ Len(Newest(s, n)) \in Nat /\ Len(Newest(s, n)) <= Len(s)
      /\ Newest(s, n)[i] = s[k]
  BY NewestProperties, LenProperties
<1>2. k \in 1 .. Len(s) /\ i <= k
  BY <1>1
<1> QED
  BY <1>1, <1>2

LEMMA ShrinksElements ==
  ASSUME NEW r, NEW s, Shrinks(r, s)
  PROVE  ToSet(r) \subseteq ToSet(s)
<1>1. \A x : x \in ToSet(r) => \E i \in 1 .. Len(r) : r[i] = x
  BY DEF ToSet
<1>2. \A k \in 1 .. Len(s) : s[k] \in ToSet(s)
  BY DEF ToSet
<1> QED
  BY <1>1, <1>2 DEF Shrinks

(***************************************************************************)
(* CompactionCovers survives any step that only trims the memory, and any  *)
(* trim of a memory that a turn was added to.                              *)
(***************************************************************************)
LEMMA JobCoversShrinks ==
  ASSUME NEW j \in Job, NEW r \in Seq(Message), NEW s \in Seq(Message),
         JobCovers(j, s), Shrinks(r, s)
  PROVE  JobCovers(j, r)
<1>1. j.previous \intersect ToSet(r) = {}
  BY ShrinksElements DEF JobCovers
<1>2. ASSUME NEW i \in 1 .. Len(r), r[i] \in ToSet(j.snapshot)
      PROVE  i <= Len(j.snapshot)
  <2>1. PICK k \in 1 .. Len(s) : i <= k /\ r[i] = s[k]
    BY DEF Shrinks
  <2>2. k <= Len(j.snapshot)
    BY <1>2, <2>1 DEF JobCovers
  <2>3. Len(j.snapshot) \in Nat /\ Len(s) \in Nat /\ Len(r) \in Nat
    BY LenProperties DEF Job
  <2> QED
    BY <2>1, <2>2, <2>3
<1> QED
  BY <1>1, <1>2 DEF JobCovers

LEMMA JobCoversTurn ==
  ASSUME NEW j \in Job, NEW s \in Seq(Message), NEW q \in Turns, JobCovers(j, s),
         \A m \in j.previous \union ToSet(j.snapshot) : m.turn # q
  PROVE  JobCovers(j, s \o Turn(q))
<1> DEFINE u == s \o Turn(q)
<1>1. Len(s) \in Nat /\ Len(j.snapshot) \in Nat
  BY LenProperties DEF Job
<1>2. /\ Len(u) = Len(s) + 2
      /\ \A i \in 1 .. Len(s) + 2 : IF i <= Len(s) THEN u[i] = s[i] ELSE u[i].turn = q
  <2>1. ASSUME NEW i \in 1 .. Len(s) + 2, ~(i <= Len(s))
        PROVE  u[i].turn = q
    <3>1. i - Len(s) \in 1 .. 2
      BY <1>1, <2>1
    <3>2. u[i] = Turn(q)[i - Len(s)]
      BY <2>1, TurnProperties
    <3> QED
      BY <3>1, <3>2, TurnProperties
  <2> QED
    BY <2>1, TurnProperties
<1>3. ASSUME NEW i \in 1 .. Len(u)
      PROVE  /\ u[i] \notin j.previous
             /\ u[i] \in ToSet(j.snapshot) => i <= Len(j.snapshot)
  <2>1. CASE i <= Len(s)
    <3>1. i \in 1 .. Len(s) /\ u[i] = s[i] /\ s[i] \in ToSet(s)
      BY <1>1, <1>2, <2>1 DEF ToSet
    <3> QED
      BY <3>1 DEF JobCovers
  <2>2. CASE ~(i <= Len(s))
    BY <1>2, <2>2
  <2> QED
    BY <2>1, <2>2
<1>4. j.previous \intersect ToSet(u) = {}
  BY <1>3 DEF ToSet
<1> QED
  BY <1>3, <1>4 DEF JobCovers

\* A new summariser starts from what is remembered and summarised now.
LEMMA JobCoversStart ==
  ASSUME NEW s \in Seq(Message), StartJob(s), jobs = {},
         summary \intersect ToSet(s) = {},
         summary \union ToSet(s) \subseteq Answered'
  PROVE  \A j \in jobs' : /\ j.previous \union ToSet(j.snapshot) \subseteq Answered'
                          /\ JobCovers(j, s)
<1>1. jobs' = {[seq |-> seq + 1, snapshot |-> s, previous |-> summary]}
  BY DEF StartJob
<1> QED
  BY <1>1 DEF JobCovers

(***************************************************************************)
(* No message is both summarised and remembered verbatim (NothingTwice).   *)
(* The induction needs that what a summariser in flight will add and what  *)
(* the compaction after it will drop still fit the memory as it is now     *)
(* (CompactionCovers), and that there is one summariser (OneSummariser).   *)
(***************************************************************************)
Disjoint == NothingTwice /\ CompactionCovers

THEOREM NothingRememberedTwice == Spec => []NothingTwice
<1>1. Init => Disjoint
  <2> SUFFICES ASSUME Init PROVE Disjoint
    OBVIOUS
  <2>1. messages = <<>> /\ summary = {} /\ jobs = {}
    BY DEF Init
  <2>2. ToSet(messages) = {}
    BY <2>1, EmptySeq DEF ToSet
  <2> QED
    BY <2>1, <2>2 DEF Disjoint, NothingTwice, CompactionCovers
<1>2. TypeOK /\ TypeOK' /\ OneSummariser /\ Disjoint /\ [Next]_vars => Disjoint'
  <2> SUFFICES ASSUME TypeOK, TypeOK', OneSummariser, NothingTwice, CompactionCovers,
                      [Next]_vars
               PROVE  NothingTwice' /\ CompactionCovers'
    BY DEF Disjoint
  <2>1. /\ messages \in Seq(Message) /\ messages' \in Seq(Message)
        /\ jobs \subseteq Job /\ limit' \in Nat
        /\ summary \subseteq Answered /\ ToSet(messages) \subseteq Answered
    BY DEF TypeOK, CompactionCovers
  <2>2. ASSUME Answered \subseteq Answered', summary' = summary, jobs' \subseteq jobs,
               Shrinks(messages', messages)
        PROVE  NothingTwice' /\ CompactionCovers'
    <3>1. ToSet(messages') \subseteq ToSet(messages)
      BY <2>2, ShrinksElements
    <3>2. \A j \in jobs' : JobCovers(j, messages')
      BY <2>1, <2>2, JobCoversShrinks DEF CompactionCovers
    <3> QED
      BY <2>2, <3>1, <3>2 DEF NothingTwice, CompactionCovers
  <2>3. Shrinks(messages, messages) /\ Shrinks(<<>>, messages)
    BY <2>1, LenProperties, EmptySeq DEF Shrinks
  <2>4. ASSUME NEW q \in Turns, AskQuery(q) \/ FailQuery(q)
        PROVE  NothingTwice' /\ CompactionCovers'
    <3>1. Answered \subseteq Answered'
      BY <2>4 DEF AskQuery, FailQuery, Answered, TypeOK, Message
    <3> QED
      BY <2>2, <2>3, <2>4, <3>1 DEF AskQuery, FailQuery
  <2>5. ASSUME NEW q \in Turns, AnswerQuery(q)
        PROVE  NothingTwice' /\ CompactionCovers'
    <3> DEFINE all == messages \o Turn(q)
               kept == Newest(all, seenLimit[q])
    <3>1. /\ Answered \subseteq Answered'
          /\ \A m \in Answered : m.turn # q
          /\ \A m \in Message : m.turn = q => m \in Answered'
      BY <2>5 DEF AnswerQuery, Answered, TypeOK, Message
    <3>2. all \in Seq(Message) /\ kept \in Seq(Message) /\ seenLimit[q] \in Nat
      BY <2>1, TurnProperties, NewestProperties DEF TypeOK
    <3>3. Shrinks(kept, all)
      BY <3>2, NewestShrinks
    <3>4. ToSet(kept) \subseteq ToSet(all)
      BY <3>3, ShrinksElements
    <3>5. \A m \in ToSet(all) : m \in ToSet(messages) \/ (m \in Message /\ m.turn = q)
      <4> SUFFICES ASSUME NEW i \in 1 .. Len(all)
                   PROVE  \/ all[i] \in ToSet(messages)
                          \/ all[i] \in Message /\ all[i].turn = q
        BY <3>2, LenProperties DEF ToSet
      <4>1. Len(messages) \in Nat /\ Len(all) = Len(messages) + 2
        BY <2>1, LenProperties, TurnProperties
      <4>2. CASE i <= Len(messages)
        <5>1. i \in 1 .. Len(messages) /\ all[i] = messages[i]
          BY <2>1, <4>1, <4>2, TurnProperties
        <5> QED
          BY <5>1 DEF ToSet
      <4>3. CASE ~(i <= Len(messages))
        <5>1. i - Len(messages) \in 1 .. 2 /\ all[i] = Turn(q)[i - Len(messages)]
          BY <2>1, <4>1, <4>3, TurnProperties
        <5> QED
          BY <5>1, <2>1, TurnProperties
      <4> QED
        BY <4>2, <4>3
    <3>6. ToSet(kept) \subseteq Answered'
      BY <2>1, <3>1, <3>4, <3>5
    <3>7. summary \intersect ToSet(kept) = {}
      BY <2>1, <3>1, <3>4, <3>5 DEF NothingTwice
    <3>8. ASSUME NEW j \in jobs
          PROVE  JobCovers(j, kept)
      <4>1. j \in Job /\ JobCovers(j, messages)
        BY <2>1 DEF CompactionCovers
      <4>2. \A m \in j.previous \union ToSet(j.snapshot) : m.turn # q
        BY <3>1 DEF CompactionCovers
      <4>3. JobCovers(j, all)
        BY <2>1, <4>1, <4>2, JobCoversTurn
      <4> QED
        BY <3>2, <3>3, <4>1, <4>3, JobCoversShrinks
    <3>9. \A j \in jobs' : /\ j.previous \union ToSet(j.snapshot) \subseteq Answered'
                           /\ JobCovers(j, kept)
      <4>1. CASE ~summarizing /\ StartJob(kept)
        <5>1. jobs = {}
          BY <4>1 DEF OneSummariser
        <5> QED
          BY <2>1, <3>1, <3>2, <3>6, <3>7, <4>1, <5>1, JobCoversStart
      <4>2. CASE jobs' = jobs
        BY <3>1, <3>8, <4>2 DEF CompactionCovers
      <4> QED
        BY <2>5, <4>1, <4>2 DEF AnswerQuery
    <3>10. messages' = kept /\ summary' = summary
      BY <2>5 DEF AnswerQuery
    <3> QED
      BY <2>1, <3>1, <3>6, <3>7, <3>9, <3>10 DEF NothingTwice, CompactionCovers
  <2>6. CASE SummarizeMemory
    <3>1. /\ jobs = {} /\ StartJob(messages) /\ Answered' = Answered
          /\ messages' = messages /\ summary' = summary
      BY <2>6 DEF SummarizeMemory, OneSummariser, Answered
    <3>2. \A j \in jobs' : /\ j.previous \union ToSet(j.snapshot) \subseteq Answered'
                           /\ JobCovers(j, messages)
      BY <2>1, <3>1, JobCoversStart DEF NothingTwice
    <3> QED
      BY <2>1, <3>1, <3>2 DEF NothingTwice, CompactionCovers
  <2>7. ASSUME NEW j \in jobs, NEW transcript \in Transcripts(j.snapshot),
               SummaryArrives(j, transcript)
        PROVE  NothingTwice' /\ CompactionCovers'
    <3> DEFINE n == Len(j.snapshot)
    <3>1. /\ j \in Job /\ n \in Nat /\ JobCovers(j, messages)
          /\ j.snapshot \in Seq(Message)
      BY <2>1, LenProperties DEF Job, CompactionCovers
    <3>2. /\ messages' = WithoutOldest(messages, n) /\ jobs' = {} /\ Answered' = Answered
          /\ summary' = j.previous \union transcript
      BY <2>7 DEF SummaryArrives, OneSummariser, Answered
    <3>3. summary' \subseteq j.previous \union ToSet(j.snapshot)
      BY <3>1, <3>2, TranscriptProperties
    <3>4. ASSUME NEW i \in 1 .. Len(messages')
          PROVE  messages'[i] \in ToSet(messages) \ (j.previous \union ToSet(j.snapshot))
      <4>1. /\ Len(messages) \in Nat /\ n + i \in 1 .. Len(messages)
            /\ messages'[i] = messages[n + i]
        <5>1. Len(messages) \in Nat
          BY <2>1, LenProperties
        <5>2. /\ Len(messages') = IF Len(messages) > n THEN Len(messages) - n ELSE 0
              /\ messages'[i] = messages[n + i]
          BY <2>1, <3>1, <3>2, WithoutOldestProperties
        <5> QED
          BY <3>1, <5>1, <5>2
      <4>2. messages[n + i] \in ToSet(messages)
        BY <4>1 DEF ToSet
      <4>3. ~(n + i <= n)
        BY <3>1, <4>1
      <4>4. messages[n + i] \notin ToSet(j.snapshot)
        BY <3>1, <4>1, <4>3 DEF JobCovers
      <4> QED
        BY <3>1, <4>1, <4>2, <4>4 DEF JobCovers
    <3>5. ToSet(messages') \subseteq ToSet(messages) \ (j.previous \union ToSet(j.snapshot))
      BY <3>4, <2>1, LenProperties DEF ToSet
    <3> QED
      BY <2>1, <3>2, <3>3, <3>5 DEF NothingTwice, CompactionCovers
  <2>8. ASSUME NEW j \in jobs, SummaryDiscarded(j)
        PROVE  NothingTwice' /\ CompactionCovers'
    BY <2>2, <2>3, <2>8 DEF SummaryDiscarded, Answered
  <2>9. CASE ResetMemory
    <3>1. /\ messages' = <<>> /\ summary' = {} /\ jobs' = jobs /\ Answered' = Answered
      BY <2>9 DEF ResetMemory, Answered
    <3>2. ToSet(messages') = {} /\ Shrinks(messages', messages)
      BY <2>3, <3>1, EmptySeq DEF ToSet
    <3>3. \A j \in jobs' : JobCovers(j, messages')
      BY <2>1, <3>1, <3>2, JobCoversShrinks DEF CompactionCovers
    <3> QED
      BY <3>1, <3>2, <3>3 DEF NothingTwice, CompactionCovers
  <2>10. ASSUME NEW k \in Limits, SetMaxMemoryMessages(k)
        PROVE  NothingTwice' /\ CompactionCovers'
    <3>1. Shrinks(messages', messages) /\ summary' = summary /\ jobs' = jobs
          /\ Answered' = Answered
      BY <2>1, <2>10, NewestShrinks DEF SetMaxMemoryMessages, Answered
    <3> QED
      BY <2>2, <3>1
  <2>11. CASE UNCHANGED vars
    BY <2>2, <2>3, <2>11 DEF vars, Answered
  <2> QED
    BY <2>4, <2>5, <2>6, <2>7, <2>8, <2>9, <2>10, <2>11 DEF Next
<1>3. Disjoint => NothingTwice
  BY DEF Disjoint
<1> QED
  BY <1>1, <1>2, <1>3, TypeCorrect, SummariserIsAlone, PTL DEF Spec

-----------------------------------------------------------------------------
(***************************************************************************)
(* Only ResetMemory makes the summary forget: the summary a job starts     *)
(* from still holds all of the current one when its result arrives.        *)
(***************************************************************************)
PreviousIsCurrent == \A j \in jobs : summary \subseteq j.previous

THEOREM SummaryNeverLost == Spec => SummaryKept
<1>1. Init => PreviousIsCurrent
  BY DEF Init, PreviousIsCurrent
<1>2. OneSummariser /\ PreviousIsCurrent /\ [Next]_vars => PreviousIsCurrent'
  <2> SUFFICES ASSUME OneSummariser, PreviousIsCurrent, [Next]_vars
               PROVE  PreviousIsCurrent'
    OBVIOUS
  <2> USE DEF PreviousIsCurrent
  <2>1. ASSUME NEW s, StartJob(s), summary' = summary
        PROVE  PreviousIsCurrent'
    BY <2>1 DEF StartJob
  <2>2. ASSUME NEW j \in jobs, NEW transcript,
               SummaryArrives(j, transcript) \/ SummaryDiscarded(j)
        PROVE  PreviousIsCurrent'
    BY <2>2 DEF SummaryArrives, SummaryDiscarded, OneSummariser
  <2>3. CASE ResetMemory
    BY <2>3 DEF ResetMemory
  <2>4. CASE UNCHANGED <<summary, jobs>>
    BY <2>4
  <2>5. ASSUME NEW q \in Turns, AnswerQuery(q)
        PROVE  PreviousIsCurrent'
    BY <2>1, <2>4, <2>5 DEF AnswerQuery
  <2> QED
    BY <2>1, <2>2, <2>3, <2>4, <2>5
       DEF Next, AskQuery, FailQuery, SummarizeMemory, SetMaxMemoryMessages, vars
<1>3. PreviousIsCurrent /\ [Next]_vars => [ResetMemory \/ summary \subseteq summary']_vars
  <2> SUFFICES ASSUME PreviousIsCurrent, Next
               PROVE  ResetMemory \/ summary \subseteq summary'
    OBVIOUS
  <2>1. ASSUME NEW j \in jobs, NEW transcript \in Transcripts(j.snapshot),
               SummaryArrives(j, transcript)
        PROVE  summary \subseteq summary'
    BY <2>1 DEF SummaryArrives, PreviousIsCurrent
  <2> QED
    BY <2>1 DEF Next, AskQuery, FailQuery, AnswerQuery, SummarizeMemory,
                SummaryDiscarded, SetMaxMemoryMessages
<1> QED
  BY <1>1, <1>2, <1>3, SummariserIsAlone, PTL DEF Spec, SummaryKept
=============================================================================
