----------------------------- MODULE TaskProofs -----------------------------
(***************************************************************************)
(* Proofs about TaskPool and Scheduler for any finite sets of tasks and    *)
(* workers and any channel capacity.  The pool's lemmas are about single   *)
(* actions, so that they serve the specification of the scheduler too,     *)
(* which is made of the same actions and the dispatcher's.                 *)
(***************************************************************************)
EXTENDS Scheduler, SequenceFacts

-----------------------------------------------------------------------------
(***************************************************************************)
(* The channel as a set of tasks.                                          *)
(***************************************************************************)
Distinct(s) == \A i, j \in 1 .. Len(s) : s[i] = s[j] => i = j
Elements(s) == {s[i] : i \in 1 .. Len(s)}

LEMMA AppendElements ==
  ASSUME NEW s \in Seq(Tasks), NEW t \in Tasks
  PROVE  /\ Append(s, t) \in Seq(Tasks) /\ Len(Append(s, t)) = Len(s) + 1
         /\ Elements(Append(s, t)) = Elements(s) \union {t}
         /\ Distinct(s) /\ t \notin Elements(s) => Distinct(Append(s, t))
<1> DEFINE a == Append(s, t)
<1>1. /\ a \in Seq(Tasks) /\ Len(a) = Len(s) + 1 /\ Len(s) \in Nat
      /\ \A i \in 1 .. Len(s) : a[i] = s[i]
      /\ a[Len(s) + 1] = t
  BY LenProperties, AppendProperties
<1>2. 1 .. Len(s) + 1 = 1 .. Len(s) \union {Len(s) + 1}
  BY <1>1
<1>3. Elements(a) = Elements(s) \union {t}
  BY <1>1, <1>2 DEF Elements
<1>4. ASSUME Distinct(s), t \notin Elements(s)
      PROVE  Distinct(a)
  <2> SUFFICES ASSUME NEW i \in 1 .. Len(s) + 1, NEW j \in 1 .. Len(s) + 1, a[i] = a[j]
               PROVE  i = j
    BY <1>1 DEF Distinct
  <2>1. \A k \in 1 .. Len(s) : s[k] # t
    BY <1>4 DEF Elements
  <2>2. CASE i \in 1 .. Len(s) /\ j \in 1 .. Len(s)
    BY <1>1, <1>4, <2>2 DEF Distinct
  <2>3. CASE i \in 1 .. Len(s) /\ j = Len(s) + 1
    BY <1>1, <2>1, <2>3
  <2>4. CASE i = Len(s) + 1 /\ j \in 1 .. Len(s)
    BY <1>1, <2>1, <2>4
  <2> QED
    BY <1>2, <2>2, <2>3, <2>4
<1> QED
  BY <1>1, <1>3, <1>4

LEMMA TailElements ==
  ASSUME NEW s \in Seq(Tasks), s # <<>>
  PROVE  /\ Head(s) \in Elements(s) /\ Elements(s) \subseteq Tasks
         /\ Tail(s) \in Seq(Tasks) /\ Len(Tail(s)) = Len(s) - 1
         /\ Elements(s) = Elements(Tail(s)) \union {Head(s)}
         /\ Distinct(s) => Head(s) \notin Elements(Tail(s)) /\ Distinct(Tail(s))
<1>1. /\ Len(s) \in Nat \ {0} /\ Head(s) = s[1]
      /\ Tail(s) \in Seq(Tasks) /\ Len(Tail(s)) = Len(s) - 1
      /\ \A i \in 1 .. Len(Tail(s)) : Tail(s)[i] = s[i + 1]
  BY LenProperties, EmptySeq, HeadTailProperties
<1>2. Elements(s) \subseteq Tasks
  BY ElementOfSeq DEF Elements
<1>3. /\ \A i \in 1 .. Len(s) : i = 1 \/ (i - 1 \in 1 .. Len(Tail(s)) /\ (i - 1) + 1 = i)
      /\ \A i \in 1 .. Len(Tail(s)) : i + 1 \in 1 .. Len(s) /\ i + 1 # 1
  BY <1>1
<1>4. Elements(s) \subseteq Elements(Tail(s)) \union {Head(s)}
  <2> SUFFICES ASSUME NEW i \in 1 .. Len(s) PROVE s[i] \in Elements(Tail(s)) \union {Head(s)}
    BY DEF Elements
  <2>1. CASE i = 1
    BY <1>1, <2>1
  <2>2. CASE i # 1
    <3>1. i - 1 \in 1 .. Len(Tail(s)) /\ Tail(s)[i - 1] = s[i]
      BY <1>1, <1>3, <2>2
    <3> QED
      BY <3>1 DEF Elements
  <2> QED
    BY <2>1, <2>2
<1>5. Elements(Tail(s)) \union {Head(s)} \subseteq Elements(s)
  BY <1>1, <1>3 DEF Elements
<1>6. ASSUME Distinct(s)
      PROVE  Head(s) \notin Elements(Tail(s)) /\ Distinct(Tail(s))
  <2>1. Head(s) \notin Elements(Tail(s))
    BY <1>1, <1>3, <1>6 DEF Elements, Distinct
  <2>2. ASSUME NEW i \in 1 .. Len(Tail(s)), NEW j \in 1 .. Len(Tail(s)),
               Tail(s)[i] = Tail(s)[j]
        PROVE  i = j
    <3>1. s[i + 1] = s[j + 1] /\ i + 1 \in 1 .. Len(s) /\ j + 1 \in 1 .. Len(s)
      BY <1>1, <1>3, <2>2
    <3>2. i + 1 = j + 1
      BY <1>6, <3>1 DEF Distinct
    <3> QED
      BY <3>2
  <2> QED
    BY <2>1, <2>2 DEF Distinct
<1> QED
  BY <1>1, <1>2, <1>4, <1>5, <1>6

LEMMA ElementsFinite ==
  ASSUME NEW s \in Seq(Tasks)
  PROVE  IsFiniteSet(Elements(s)) /\ Elements(s) \subseteq Tasks
<1>1. Elements(s) \subseteq Tasks
  BY ElementOfSeq DEF Elements
<1> QED
  BY <1>1, PoolAssumption, FS_Subset

-----------------------------------------------------------------------------
(***************************************************************************)
(* Counting the workers at some statements.                                *)
(***************************************************************************)
LEMMA AtMoves ==
  ASSUME TypeOK, NEW w \in Workers, NEW from, NEW to, At(w, from, to), NEW S
  PROVE  /\ w \in AtStatement(S) <=> from \in S
         /\ AtStatement(S)' = IF to \in S THEN AtStatement(S) \union {w}
                              ELSE AtStatement(S) \ {w}
BY DEF TypeOK, At, AtStatement

LEMMA CountMoves ==
  ASSUME TypeOK, NEW w \in Workers, NEW from, NEW to, At(w, from, to), NEW S
  PROVE  /\ Cardinality(AtStatement(S)) \in Nat
         /\ from \in S => Cardinality(AtStatement(S)) > 0
         /\ Cardinality(AtStatement(S)') =
              Cardinality(AtStatement(S)) + (IF to \in S THEN 1 ELSE 0)
                                          - (IF from \in S THEN 1 ELSE 0)
<1> DEFINE A == AtStatement(S)
           B == AtStatement(S)'
<1>1. IsFiniteSet(A)
  <2>1. A \subseteq Workers
    BY DEF AtStatement
  <2> QED
    BY <2>1, PoolAssumption, FS_Subset
<1>2. Cardinality(A) \in Nat
  BY <1>1, FS_CardinalityType
<1>3. /\ w \in A <=> from \in S
      /\ B = IF to \in S THEN A \union {w} ELSE A \ {w}
  BY AtMoves
<1>4. /\ w \notin A => Cardinality(A \union {w}) = Cardinality(A) + 1
      /\ w \in A => Cardinality(A \ {w}) = Cardinality(A) - 1
  BY <1>1, FS_AddElement, FS_RemoveElement
<1>5. w \in A => Cardinality(A) > 0
  BY <1>1, <1>2, FS_EmptySet
<1>6. /\ w \in A => A \union {w} = A
      /\ w \notin A => A \ {w} = A
  OBVIOUS
<1>7. IsFiniteSet(A) /\ Cardinality(A) \in Nat
  BY <1>1, <1>2
<1>8. Cardinality(AtStatement(S)) \in Nat /\ (from \in S => Cardinality(AtStatement(S)) > 0)
  BY <1>2, <1>3, <1>5 DEF A
<1> HIDE DEF A, B
<1>9. CASE to \in S /\ from \in S
  <2>1. B = A
    BY <1>3, <1>6, <1>9
  <2>2. Cardinality(B) = Cardinality(A)
    BY <2>1
  <2> QED
    BY <1>9, <2>2, <1>7, <1>8 DEF A, B
<1>10. CASE to \in S /\ from \notin S
  <2>1. Cardinality(B) = Cardinality(A) + 1
    BY <1>3, <1>4, <1>10
  <2> QED
    BY <1>10, <2>1, <1>7, <1>8 DEF A, B
<1>11. CASE to \notin S /\ from \in S
  <2>1. Cardinality(B) = Cardinality(A) - 1
    BY <1>3, <1>4, <1>11
  <2> QED
    BY <1>11, <2>1, <1>7, <1>8 DEF A, B
<1>12. CASE to \notin S /\ from \notin S
  <2>1. B = A
    BY <1>3, <1>6, <1>12
  <2>2. Cardinality(B) = Cardinality(A)
    BY <2>1
  <2> QED
    BY <1>12, <2>2, <1>7, <1>8 DEF A, B
<1> QED
  BY <1>9, <1>10, <1>11, <1>12

-----------------------------------------------------------------------------
(***************************************************************************)
(* What every step of a worker keeps.  The four conjuncts are inductive    *)
(* together: the types of a step's results rely on OnePlace (a worker past *)
(* "receive" holds a task) and the counters rely on both.                  *)
(***************************************************************************)
PoolInv == TypeOK /\ OnePlace /\ RunningCount /\ WgCount

LEMMA HeldIsTask ==
  ASSUME TypeOK, OnePlace, NEW w \in Workers, pc[w] \notin {"receive", "exited"}
  PROVE  held[w] \in Tasks
BY DEF TypeOK, OnePlace

LEMMA PlacesAreTasks ==
  ASSUME TypeOK
  PROVE  /\ InChan \subseteq Tasks /\ IsFiniteSet(InChan)
         /\ OnItsWay \subseteq Tasks /\ NoTask \notin OnItsWay
<1>1. InChan = Elements(taskChan)
  BY DEF InChan, Elements
<1>2. taskChan \in Seq(Tasks) /\ sending \subseteq Tasks
  BY DEF TypeOK
<1> QED
  BY <1>1, <1>2, ElementsFinite, PoolAssumption DEF OnItsWay

LEMMA ChannelHead ==
  ASSUME TypeOK, OnePlace, taskChan # <<>>
  PROVE  /\ Head(taskChan) \in InChan /\ Head(taskChan) \in Tasks
         /\ Tail(taskChan) \in Seq(Tasks) /\ Len(Tail(taskChan)) <= QueueSize
         /\ InChan = Elements(Tail(taskChan)) \union {Head(taskChan)}
         /\ Head(taskChan) \notin Elements(Tail(taskChan))
         /\ Distinct(Tail(taskChan))
<1>1. taskChan \in Seq(Tasks) /\ Len(taskChan) <= QueueSize /\ QueueSize \in Nat
  BY PoolAssumption DEF TypeOK
<1>2. Distinct(taskChan) /\ InChan = Elements(taskChan)
  BY DEF OnePlace, Distinct, InChan, Elements
<1>3. Len(taskChan) \in Nat
  BY <1>1, LenProperties
<1> QED
  BY <1>1, <1>2, <1>3, TailElements

LEMMA WorkerTypes ==
  ASSUME TypeOK, OnePlace, NEW w \in Workers, Worker(w)
  PROVE  TypeOK'
<1> USE DEF TypeOK, At, Statements, Statuses, Outcomes
<1>1. CASE Receive(w)
  BY <1>1, ChannelHead DEF Receive
<1>2. CASE ExitLoop(w)
  BY <1>2 DEF ExitLoop
<1>3. CASE FindCanceled(w)
  BY <1>3 DEF FindCanceled
<1>4. CASE StoreSkip(w)
  BY <1>4 DEF StoreSkip, Store
<1>5. CASE SendSkip(w)
  BY <1>5, HeldIsTask DEF SendSkip, Close
<1>6. CASE DoneSkip(w)
  BY <1>6 DEF DoneSkip, WgDone
<1>7. CASE StartHandler(w)
  BY <1>7 DEF StartHandler
<1>8. ASSUME NEW o \in Outcomes, HandlerReturns(w, o) PROVE TypeOK'
  BY <1>8 DEF HandlerReturns
<1>9. CASE Uncount(w)
  BY <1>9 DEF Uncount
<1>10. CASE Done(w)
  BY <1>10 DEF Done, WgDone
<1>11. CASE StoreOutcome(w)
  BY <1>11, HeldIsTask DEF StoreOutcome, Store
<1>12. CASE SendOutcome(w)
  BY <1>12, HeldIsTask DEF SendOutcome, Close
<1> QED
  BY <1>1, <1>2, <1>3, <1>4, <1>5, <1>6, <1>7, <1>8, <1>9, <1>10, <1>11, <1>12 DEF Worker

LEMMA WorkerPlaces ==
  ASSUME TypeOK, OnePlace, NEW w \in Workers, Worker(w)
  PROVE  OnePlace'
<1> NoTask \notin OnItsWay /\ NoTask \notin Tasks
  BY PlacesAreTasks, PoolAssumption
<1>0. ASSUME Receive(w)
      PROVE  /\ Distinct(taskChan)' /\ Head(taskChan) \in Tasks
             /\ Head(taskChan) \in InChan /\ Head(taskChan) \notin InChan'
             /\ InChan = InChan' \union {Head(taskChan)}
  <2>1. taskChan # <<>> /\ taskChan' = Tail(taskChan)
    BY <1>0 DEF Receive
  <2>2. InChan' = Elements(Tail(taskChan))
    BY <2>1 DEF InChan, Elements
  <2> QED
    BY <2>1, <2>2, ChannelHead DEF Distinct
<1> USE DEF TypeOK, At, Outcomes, OnePlace, OnItsWay, InChan
<1>1. CASE Receive(w)
  <2>1. /\ Head(taskChan) \in InChan /\ Head(taskChan) \notin InChan'
        /\ InChan = InChan' \union {Head(taskChan)}
    BY <1>0, <1>1
  <2>2. \A i, j \in 1 .. Len(taskChan') : taskChan'[i] = taskChan'[j] => i = j
    BY <1>0, <1>1 DEF Distinct
  <2>3. Head(taskChan) \in Tasks /\ Head(taskChan) \in OnItsWay
    BY <1>0, <1>1
  <2> DEFINE h == Head(taskChan)
  <2>4. /\ held' = [held EXCEPT ![w] = h] /\ h \in Tasks
        /\ pc[w] = "receive" /\ pc' = [pc EXCEPT ![w] = "check"]
        /\ OnItsWay' \subseteq OnItsWay /\ h \in OnItsWay
        /\ UNCHANGED <<sending, status, outcome, closed>>
    BY <1>1, <2>1, <2>3 DEF Receive
  <2>5. h \notin OnItsWay' /\ sending' \intersect InChan' = {}
    BY <1>1, <2>1 DEF Receive
  <2> HIDE DEF InChan, h, OnItsWay
  <2>6. \A v \in Workers : held'[v] \notin OnItsWay'
    BY <2>4, <2>5
  <2>7. \A u, v \in Workers : held'[u] = held'[v] /\ held'[v] # NoTask => u = v
    BY <2>4
  <2>8. \A v \in Workers : held'[v] = NoTask <=> pc'[v] \in {"receive", "exited"}
    BY <2>4
  <2>9. status[h] # "none" /\ outcome[h] = "none" /\ ~closed[h]
    BY <2>4
  <2>10. \A v \in Workers : held'[v] # NoTask =>
        /\ status'[held'[v]] # "none"
        /\ outcome'[held'[v]] = "none" <=> pc'[v] \in {"check", "handle", "skip", "skipSend", "skipDone"}
        /\ closed'[held'[v]] <=> pc'[v] = "skipDone"
    BY <2>4, <2>9
  <2> QED
    BY <2>2, <2>4, <2>5, <2>6, <2>7, <2>8, <2>10
<1>2. CASE ExitLoop(w)
  BY <1>2 DEF ExitLoop
<1>3. CASE FindCanceled(w)
  BY <1>3 DEF FindCanceled
<1>4. CASE StoreSkip(w)
  BY <1>4, HeldIsTask DEF StoreSkip, Store
<1>5. CASE SendSkip(w)
  BY <1>5, HeldIsTask DEF SendSkip, Close
<1>6. CASE DoneSkip(w)
  BY <1>6, HeldIsTask DEF DoneSkip, WgDone
<1>7. CASE StartHandler(w)
  BY <1>7 DEF StartHandler
<1>8. ASSUME NEW o \in Outcomes, HandlerReturns(w, o) PROVE OnePlace'
  BY <1>8, HeldIsTask DEF HandlerReturns
<1>9. CASE Uncount(w)
  BY <1>9 DEF Uncount
<1>10. CASE Done(w)
  BY <1>10 DEF Done, WgDone
<1>11. CASE StoreOutcome(w)
  BY <1>11, HeldIsTask DEF StoreOutcome, Store
<1>12. CASE SendOutcome(w)
  BY <1>12, HeldIsTask DEF SendOutcome, Close
<1> QED
  BY <1>1, <1>2, <1>3, <1>4, <1>5, <1>6, <1>7, <1>8, <1>9, <1>10, <1>11, <1>12 DEF Worker

LEMMA WorkerRunning ==
  ASSUME TypeOK, RunningCount, NEW w \in Workers, Worker(w)
  PROVE  RunningCount'
<1> DEFINE S == {"handle", "uncount"}
<1>1. /\ RunningCount <=> running = Cardinality(AtStatement(S))
      /\ RunningCount' <=> running' = Cardinality(AtStatement(S)')
      /\ running \in Int
  BY DEF RunningCount, TypeOK
<1>2. ASSUME NEW from, NEW to, At(w, from, to),
             running' = running + (IF to \in S THEN 1 ELSE 0) - (IF from \in S THEN 1 ELSE 0)
      PROVE  RunningCount'
  <2>1. Cardinality(AtStatement(S)') =
          Cardinality(AtStatement(S)) + (IF to \in S THEN 1 ELSE 0)
                                      - (IF from \in S THEN 1 ELSE 0)
    BY <1>2, CountMoves
  <2> QED
    BY <1>1, <1>2, <2>1
<1>3. ASSUME NEW from, NEW to, At(w, from, to), running' = running,
             to \in S <=> from \in S
      PROVE  RunningCount'
  BY <1>1, <1>2, <1>3
<1>4. CASE Receive(w)
  BY <1>3, <1>4 DEF Receive
<1>5. CASE ExitLoop(w)
  BY <1>3, <1>5 DEF ExitLoop
<1>6. CASE FindCanceled(w)
  BY <1>3, <1>6 DEF FindCanceled
<1>7. CASE StoreSkip(w)
  BY <1>3, <1>7 DEF StoreSkip, Store
<1>8. CASE SendSkip(w)
  BY <1>3, <1>8 DEF SendSkip, Close
<1>9. CASE DoneSkip(w)
  BY <1>3, <1>9 DEF DoneSkip, WgDone
<1>10. CASE StartHandler(w)
  <2>1. At(w, "check", "handle") /\ running' = running + 1
    BY <1>10 DEF StartHandler
  <2> QED
    BY <1>1, <1>2, <2>1
<1>11. ASSUME NEW o \in Outcomes, HandlerReturns(w, o) PROVE RunningCount'
  BY <1>3, <1>11 DEF HandlerReturns
<1>12. CASE Uncount(w)
  <2>1. At(w, "uncount", "done") /\ running' = running - 1
    BY <1>12 DEF Uncount
  <2> QED
    BY <1>1, <1>2, <2>1
<1>13. CASE Done(w)
  BY <1>3, <1>13 DEF Done, WgDone
<1>14. CASE StoreOutcome(w)
  BY <1>3, <1>14 DEF StoreOutcome, Store
<1>15. CASE SendOutcome(w)
  BY <1>3, <1>15 DEF SendOutcome, Close
<1> QED
  BY <1>4, <1>5, <1>6, <1>7, <1>8, <1>9, <1>10, <1>11, <1>12, <1>13, <1>14, <1>15 DEF Worker

(***************************************************************************)
(* The WaitGroup counter of the tasks outstanding, and how a step of a     *)
(* worker changes them: not at all, or by the task that is done.           *)
(***************************************************************************)
LEMMA OutstandingFinite ==
  ASSUME TypeOK, OnePlace
  PROVE  IsFiniteSet(Outstanding) /\ Outstanding \subseteq Tasks
<1>1. Outstanding \subseteq Tasks
  BY PlacesAreTasks, HeldIsTask DEF Outstanding, OnItsWay, AtStatement, BeforeDone
<1> QED
  BY <1>1, PoolAssumption, FS_Subset

LEMMA WorkerOutstanding ==
  ASSUME TypeOK, OnePlace, NEW w \in Workers, Worker(w)
  PROVE  \/ wg' = wg /\ Outstanding' = Outstanding /\ (~crashed => ~crashed')
         \/ /\ wg' = wg - 1 /\ crashed' = (wg = 0)
            /\ held[w] \in Outstanding /\ Outstanding' = Outstanding \ {held[w]}
<1> DEFINE Same == wg' = wg /\ Outstanding' = Outstanding /\ (~crashed => ~crashed')
           Less == /\ wg' = wg - 1 /\ crashed' = (wg = 0)
                   /\ held[w] \in Outstanding /\ Outstanding' = Outstanding \ {held[w]}
<1>1. ASSUME NEW from, NEW to, At(w, from, to), UNCHANGED <<sending, taskChan>>,
             held' = held, from \in BeforeDone <=> to \in BeforeDone
      PROVE  Outstanding' = Outstanding
  <2>1. AtStatement(BeforeDone)' = AtStatement(BeforeDone)
    BY <1>1, AtMoves DEF BeforeDone
  <2> QED
    BY <1>1, <2>1 DEF Outstanding, InChan
<1>2. ASSUME NEW from, NEW to, At(w, from, to), UNCHANGED <<sending, taskChan>>,
             from \in BeforeDone, to \notin BeforeDone, held' \in {held, [held EXCEPT ![w] = NoTask]}
      PROVE  held[w] \in Outstanding /\ Outstanding' = Outstanding \ {held[w]}
  <2>1. w \in AtStatement(BeforeDone) /\ AtStatement(BeforeDone)' = AtStatement(BeforeDone) \ {w}
    BY <1>2, AtMoves DEF BeforeDone
  <2>2. /\ held[w] \notin sending \union InChan
        /\ \A v \in AtStatement(BeforeDone) \ {w} : held'[v] = held[v] /\ held[v] # held[w]
    BY <1>2, <2>1, HeldIsTask DEF OnePlace, OnItsWay, TypeOK, At, AtStatement, BeforeDone
  <2>3. AtStatement(BeforeDone) \subseteq Workers /\ InChan' = InChan /\ sending' = sending
    BY <1>2 DEF AtStatement, InChan
  <2> QED
    BY <2>1, <2>2, <2>3 DEF Outstanding
<1>3. CASE Receive(w)
  <2>1. /\ taskChan # <<>> /\ taskChan' = Tail(taskChan) /\ sending' = sending
        /\ held' = [held EXCEPT ![w] = Head(taskChan)] /\ At(w, "receive", "check")
        /\ UNCHANGED <<wg, crashed>>
    BY <1>3 DEF Receive
  <2>2. InChan = InChan' \union {Head(taskChan)}
    BY <2>1, ChannelHead DEF InChan, Elements
  <2>3. /\ AtStatement(BeforeDone)' = AtStatement(BeforeDone) \union {w}
        /\ w \notin AtStatement(BeforeDone)
    BY <2>1, AtMoves DEF BeforeDone
  <2>4. /\ AtStatement(BeforeDone) \subseteq Workers /\ held'[w] = Head(taskChan)
        /\ \A v \in AtStatement(BeforeDone) : held'[v] = held[v]
    BY <2>1, <2>3 DEF AtStatement, TypeOK
  <2>5. Outstanding' = Outstanding
    BY <2>1, <2>2, <2>3, <2>4 DEF Outstanding
  <2> QED
    BY <2>1, <2>5
<1>4. CASE ExitLoop(w)
  BY <1>1, <1>4 DEF ExitLoop, BeforeDone
<1>5. CASE FindCanceled(w)
  BY <1>1, <1>5 DEF FindCanceled, BeforeDone
<1>6. CASE StoreSkip(w)
  BY <1>1, <1>6 DEF StoreSkip, Store, BeforeDone
<1>7. CASE SendSkip(w)
  <2>1. ~closed[held[w]]
    BY <1>7, HeldIsTask, PoolAssumption DEF SendSkip, At, OnePlace
  <2> QED
    BY <1>1, <1>7, <2>1 DEF SendSkip, Close, BeforeDone
<1>8. CASE DoneSkip(w)
  BY <1>2, <1>8 DEF DoneSkip, WgDone, BeforeDone
<1>9. CASE StartHandler(w)
  BY <1>1, <1>9 DEF StartHandler, BeforeDone
<1>10. ASSUME NEW o \in Outcomes, HandlerReturns(w, o) PROVE Same
  BY <1>1, <1>10 DEF HandlerReturns, BeforeDone
<1>11. CASE Uncount(w)
  BY <1>1, <1>11 DEF Uncount, BeforeDone
<1>12. CASE Done(w)
  BY <1>2, <1>12 DEF Done, WgDone, BeforeDone
<1>13. CASE StoreOutcome(w)
  BY <1>1, <1>13 DEF StoreOutcome, Store, BeforeDone
<1>14. CASE SendOutcome(w)
  <2>1. ~closed[held[w]]
    BY <1>14, HeldIsTask, PoolAssumption DEF SendOutcome, At, OnePlace
  <2>2. At(w, "send", "receive") /\ UNCHANGED <<sending, taskChan, wg>> /\ ~crashed'
        /\ held' = [held EXCEPT ![w] = NoTask]
    BY <1>14, <2>1 DEF SendOutcome, Close
  <2>3. w \notin AtStatement(BeforeDone) /\ AtStatement(BeforeDone)' = AtStatement(BeforeDone)
    BY <2>2, AtMoves DEF BeforeDone
  <2>4. /\ AtStatement(BeforeDone) \subseteq Workers
        /\ \A v \in AtStatement(BeforeDone) : held'[v] = held[v]
    BY <2>2, <2>3 DEF AtStatement, TypeOK
  <2>5. Outstanding' = Outstanding
    BY <2>2, <2>3, <2>4 DEF Outstanding, InChan
  <2> QED
    BY <2>2, <2>5
<1> QED
  BY <1>3, <1>4, <1>5, <1>6, <1>7, <1>8, <1>9, <1>10, <1>11, <1>12, <1>13, <1>14 DEF Worker

LEMMA WorkerKeeps ==
  ASSUME PoolInv, ~crashed, NEW w \in Workers, Worker(w)
  PROVE  PoolInv' /\ ~crashed'
<1> USE DEF PoolInv
<1>1. TypeOK' /\ OnePlace' /\ RunningCount'
  BY WorkerTypes, WorkerPlaces, WorkerRunning
<1>2. IsFiniteSet(Outstanding) /\ wg = Cardinality(Outstanding) /\ wg \in Int
  BY OutstandingFinite DEF WgCount, TypeOK
<1>3. CASE wg' = wg /\ Outstanding' = Outstanding /\ (~crashed => ~crashed')
  BY <1>1, <1>2, <1>3 DEF WgCount
<1>4. CASE /\ wg' = wg - 1 /\ crashed' = (wg = 0)
           /\ held[w] \in Outstanding /\ Outstanding' = Outstanding \ {held[w]}
  <2>1. Cardinality(Outstanding \ {held[w]}) = Cardinality(Outstanding) - 1
    BY <1>2, <1>4, FS_RemoveElement
  <2>2. wg # 0
    BY <1>2, <1>4, FS_EmptySet
  <2> QED
    BY <1>1, <1>2, <1>4, <2>1, <2>2 DEF WgCount
<1> QED
  BY <1>3, <1>4, WorkerOutstanding

-----------------------------------------------------------------------------
(***************************************************************************)
(* What the steps of senders and cancellers keep.                          *)
(***************************************************************************)
LEMMA BeginSendKeeps ==
  ASSUME PoolInv, NEW t \in Tasks, BeginSend(t),
         t \notin OnItsWay, \A w \in Workers : held[w] # t,
         outcome[t] = "none", ~closed[t],
         status' \in {status, [status EXCEPT ![t] = "pending"]}, status'[t] # "none",
         UNCHANGED <<taskChan, running, pc, held, outcome, ctxDone, closed,
                     canceling, waiter, crashed>>
  PROVE  PoolInv'
<1> USE DEF PoolInv
<1>1. TypeOK'
  BY DEF TypeOK, BeginSend, Statuses
<1>2. OnePlace'
  BY PoolAssumption DEF OnePlace, OnItsWay, InChan, BeginSend, TypeOK
<1>3. RunningCount'
  BY DEF RunningCount, AtStatement
<1>4. Outstanding' = Outstanding \union {t}
  BY DEF Outstanding, InChan, AtStatement, BeginSend
<1>5. t \notin Outstanding
  BY DEF Outstanding, OnItsWay, AtStatement
<1>6. Cardinality(Outstanding \union {t}) = Cardinality(Outstanding) + 1
  BY <1>5, OutstandingFinite, FS_AddElement
<1>7. WgCount'
  BY <1>4, <1>6 DEF WgCount, BeginSend
<1> QED
  BY <1>1, <1>2, <1>3, <1>7

LEMMA SendTaskKeeps ==
  ASSUME PoolInv, NEW t \in Tasks, SendTask(t)
  PROVE  PoolInv' /\ crashed' = crashed
<1> USE DEF PoolInv
<1>1. /\ t \in sending /\ Len(taskChan) < QueueSize /\ taskChan' = Append(taskChan, t)
      /\ sending' = sending \ {t}
      /\ UNCHANGED <<wg, running, pc, held, outcome, status, ctxDone, closed,
                     canceling, waiter, crashed>>
  BY DEF SendTask
<1>2. taskChan \in Seq(Tasks) /\ Len(taskChan) \in Nat /\ QueueSize \in Nat
  BY LenProperties, PoolAssumption DEF TypeOK
<1>3. /\ Distinct(taskChan) /\ InChan = Elements(taskChan)
      /\ InChan' = Elements(taskChan')
      /\ t \notin InChan
  BY <1>1 DEF OnePlace, Distinct, InChan, Elements
<1>4. /\ taskChan' \in Seq(Tasks) /\ Len(taskChan') = Len(taskChan) + 1
      /\ InChan' = InChan \union {t} /\ Distinct(taskChan')
  BY <1>1, <1>2, <1>3, AppendElements
<1>5. TypeOK'
  BY <1>1, <1>2, <1>4 DEF TypeOK
<1>6. OnItsWay' = OnItsWay
  BY <1>1, <1>4 DEF OnItsWay
<1>7. OnePlace'
  BY <1>1, <1>3, <1>4, <1>6 DEF OnePlace, Distinct
<1>8. AtStatement({"handle", "uncount"})' = AtStatement({"handle", "uncount"})
  BY <1>1 DEF AtStatement
<1>9. Outstanding' = Outstanding
  BY <1>1, <1>4 DEF Outstanding, AtStatement
<1> QED
  BY <1>1, <1>5, <1>7, <1>8, <1>9 DEF RunningCount, WgCount

\* Steps that touch neither the places of the tasks nor their answers.
LEMMA OthersKeep ==
  ASSUME PoolInv,
         UNCHANGED <<taskChan, sending, wg, running, pc, held, outcome, closed>>,
         \A t \in Tasks : status[t] # "none" <=> status'[t] # "none",
         status' \in [Tasks -> Statuses], ctxDone' \in [Tasks -> BOOLEAN],
         canceling' \subseteq Tasks, waiter' \in {"none", "waiting", "returned"},
         crashed' \in BOOLEAN
  PROVE  PoolInv'
<1> USE DEF PoolInv
<1>1. TypeOK'
  BY DEF TypeOK
<1>2. InChan' = InChan /\ OnItsWay' = OnItsWay
  BY DEF InChan, OnItsWay
<1>3. OnItsWay \subseteq Tasks /\ \A w \in Workers : held[w] # NoTask => held[w] \in Tasks
  BY PlacesAreTasks DEF TypeOK
<1>4. OnePlace'
  BY <1>2, <1>3 DEF OnePlace
<1>5. RunningCount' /\ WgCount'
  BY <1>2 DEF RunningCount, WgCount, Outstanding, AtStatement
<1> QED
  BY <1>1, <1>4, <1>5

-----------------------------------------------------------------------------
(***************************************************************************)
(* The pool on its own.                                                    *)
(***************************************************************************)
LEMMA PoolInitInv == PoolInit => PoolInv
<1> SUFFICES ASSUME PoolInit PROVE PoolInv
  OBVIOUS
<1>1. /\ taskChan \in Seq(Tasks) /\ Len(taskChan) = 0 /\ InChan = {} /\ OnItsWay = {}
  BY EmptySeq DEF PoolInit, InChan, OnItsWay
<1>2. TypeOK
  <2>1. Len(taskChan) <= QueueSize
    BY <1>1, PoolAssumption
  <2>3. crashed \in BOOLEAN
    BY DEF PoolInit
  <2>2. ctxDone \in [Tasks -> BOOLEAN] /\ closed \in [Tasks -> BOOLEAN]
    BY DEF PoolInit
  <2> QED
    BY <1>1, <2>1, <2>2, <2>3 DEF PoolInit, TypeOK, Statements, Statuses, Outcomes
<1>3. OnePlace
  BY <1>1 DEF PoolInit, OnePlace
<1>4. AtStatement({"handle", "uncount"}) = {} /\ AtStatement(BeforeDone) = {}
  BY DEF PoolInit, AtStatement, BeforeDone
<1>5. Outstanding = {}
  BY <1>1, <1>4 DEF Outstanding, PoolInit
<1>6. RunningCount /\ WgCount
  BY <1>4, <1>5, FS_EmptySet DEF PoolInit, RunningCount, WgCount
<1> QED
  BY <1>2, <1>3, <1>6 DEF PoolInv

\* Wait's promise and the absence of panics are inductive with PoolInv.
CancelingAdded == \A t \in canceling : status[t] # "none" /\ ctxDone[t]
SafeInv == PoolInv /\ CancelingAdded /\ CrashOnlyByLateAdd /\ WaitCoversHandlers

LEMMA WorkerStatus ==
  ASSUME TypeOK, OnePlace, NEW w \in Workers, Worker(w)
  PROVE  /\ UNCHANGED <<canceling, ctxDone, waiter, sending>>
         /\ \A t \in Tasks : status[t] # "none" => status'[t] # "none"
<1>1. CASE Receive(w) \/ ExitLoop(w) \/ FindCanceled(w) \/ StartHandler(w) \/ Uncount(w)
           \/ \E o \in Outcomes : HandlerReturns(w, o)
  BY <1>1 DEF Receive, ExitLoop, FindCanceled, StartHandler, Uncount, HandlerReturns
<1>2. CASE SendSkip(w) \/ DoneSkip(w) \/ Done(w) \/ SendOutcome(w)
  BY <1>2 DEF SendSkip, DoneSkip, Done, SendOutcome, Close, WgDone
<1>3. CASE StoreSkip(w)
  BY <1>3 DEF StoreSkip, Store, TypeOK
<1>4. CASE StoreOutcome(w)
  <2>1. outcome[held[w]] # "none"
    BY <1>4, HeldIsTask, PoolAssumption DEF StoreOutcome, Store, At, OnePlace
  <2> QED
    BY <1>4, <2>1 DEF StoreOutcome, Store, TypeOK
<1> QED
  BY <1>1, <1>2, <1>3, <1>4 DEF Worker

LEMMA PoolNextInv == SafeInv /\ [PoolNext]_poolVars => SafeInv'
<1> SUFFICES ASSUME SafeInv, [PoolNext]_poolVars PROVE SafeInv'
  OBVIOUS
<1> USE DEF SafeInv
<1>1. CASE UNCHANGED poolVars
  <2>1. PoolInv'
    BY <1>1, OthersKeep DEF PoolInv, TypeOK, poolVars
  <2> QED
    BY <1>1, <2>1 DEF CrashOnlyByLateAdd, WaitCoversHandlers, CancelingAdded, InChan,
      AtStatement, poolVars
<1>2. ASSUME ~crashed, NEW w \in Workers, Worker(w) PROVE SafeInv'
  <2>1. PoolInv' /\ ~crashed'
    BY <1>2, WorkerKeeps
  <2>2. waiter' = waiter /\ sending' = sending
    BY <1>2, WorkerStatus DEF PoolInv
  <2>3. ASSUME waiter = "returned" PROVE WaitCoversHandlers'
    <3>1. InChan = {} /\ AtStatement(BeforeDone) = {}
      BY <2>3 DEF WaitCoversHandlers
    <3>2. taskChan = <<>>
      <4>1. taskChan # <<>> => Head(taskChan) \in InChan
        BY ChannelHead DEF PoolInv
      <4> QED
        BY <3>1, <4>1
    <3>3. pc[w] \notin BeforeDone
      BY <3>1 DEF AtStatement
    <3>4. ExitLoop(w) \/ StoreOutcome(w) \/ SendOutcome(w)
      BY <1>2, <3>2, <3>3 DEF Worker, BeforeDone, Receive, FindCanceled, StoreSkip, SendSkip,
        DoneSkip, StartHandler, HandlerReturns, Uncount, Done, Store, WgDone, At
    <3>5. PICK from, to : At(w, from, to) /\ to \notin BeforeDone /\ taskChan' = taskChan
      BY <3>4 DEF ExitLoop, StoreOutcome, SendOutcome, Store, Close, BeforeDone
    <3>6. AtStatement(BeforeDone)' = {}
      <4>1. AtStatement(BeforeDone)' = IF to \in BeforeDone
               THEN AtStatement(BeforeDone) \union {w} ELSE AtStatement(BeforeDone) \ {w}
        BY <3>5, AtMoves DEF PoolInv
      <4> QED
        BY <3>1, <3>5, <4>1
    <3>7. InChan' = {}
      BY <3>1, <3>5 DEF InChan
    <3> QED
      BY <3>6, <3>7 DEF WaitCoversHandlers
  <2>4. CancelingAdded'
    BY <1>2, WorkerStatus DEF PoolInv, CancelingAdded, TypeOK
  <2> QED
    BY <2>1, <2>2, <2>3, <2>4 DEF CrashOnlyByLateAdd, WaitCoversHandlers
<1>3. ASSUME ~crashed, NEW t \in Tasks, AddTask(t) PROVE SafeInv'
  <2>1. t \notin OnItsWay /\ outcome[t] = "none" /\ ~closed[t] /\ \A w \in Workers : held[w] # t
    BY <1>3, PoolAssumption DEF PoolInv, OnePlace, AddTask
  <2>2. status'[t] # "none"
    BY <1>3 DEF AddTask, PoolInv, TypeOK
  <2>3. PoolInv'
    BY <1>3, <2>1, <2>2, BeginSendKeeps DEF AddTask
  <2>4. CancelingAdded'
    BY <1>3, <2>2 DEF AddTask, CancelingAdded
  <2>5. CrashOnlyByLateAdd' /\ WaitCoversHandlers'
    BY <1>3 DEF AddTask, CrashOnlyByLateAdd, WaitCoversHandlers, InChan, AtStatement
  <2> QED
    BY <2>3, <2>4, <2>5
<1>4. ASSUME ~crashed, NEW t \in Tasks, SendTask(t) PROVE SafeInv'
  BY <1>4, SendTaskKeeps DEF SendTask, CrashOnlyByLateAdd, WaitCoversHandlers, CancelingAdded
<1>5. ASSUME NEW t \in Tasks, SendOnClosed(t) PROVE SafeInv'
  <2>1. /\ UNCHANGED <<taskChan, sending, wg, running, pc, held, outcome, status,
                       ctxDone, closed, canceling, waiter>>
        /\ t \in sending /\ waiter # "none" /\ crashed' \in BOOLEAN
    BY <1>5 DEF SendOnClosed
  <2>2. PoolInv'
    BY <2>1, OthersKeep DEF PoolInv, TypeOK
  <2>3. CrashOnlyByLateAdd' /\ CancelingAdded'
    BY <2>1 DEF CrashOnlyByLateAdd, CancelingAdded
  <2>4. WaitCoversHandlers'
    BY <2>1 DEF WaitCoversHandlers, InChan, AtStatement
  <2> QED
    BY <2>2, <2>3, <2>4
<1>6. ASSUME NEW t \in Tasks, ContextEnds(t) \/ CancelTask(t) \/ CancelStore(t)
      PROVE  SafeInv'
  <2>1. /\ UNCHANGED <<taskChan, sending, wg, running, pc, held, outcome, closed,
                       waiter, crashed>>
        /\ ctxDone' \in {ctxDone, [ctxDone EXCEPT ![t] = TRUE]}
        /\ canceling' \in {canceling, canceling \union {t}, canceling \ {t}}
    BY <1>6 DEF ContextEnds, CancelTask, CancelStore
  <2>2. \/ status' = status
        \/ status[t] # "none" /\ status' = [status EXCEPT ![t] = "canceled"]
    BY <1>6 DEF ContextEnds, CancelTask, CancelStore, CancelingAdded
  <2>5. CancelingAdded'
    BY <1>6 DEF ContextEnds, CancelTask, CancelStore, CancelingAdded, PoolInv, TypeOK
  <2>3. PoolInv'
    BY <2>1, <2>2, OthersKeep DEF PoolInv, TypeOK, Statuses
  <2>4. CrashOnlyByLateAdd' /\ WaitCoversHandlers'
    BY <2>1 DEF CrashOnlyByLateAdd, WaitCoversHandlers, InChan, AtStatement
  <2> QED
    BY <2>3, <2>4, <2>5
<1>7. ASSUME WaitClose \/ WaitReturn PROVE SafeInv'
  <2>1. /\ UNCHANGED <<taskChan, sending, wg, running, pc, held, outcome, status,
                       ctxDone, closed, canceling, crashed>>
        /\ waiter' \in {"waiting", "returned"}
        /\ waiter' = "returned" => WaitReturn
    BY <1>7 DEF WaitClose, WaitReturn
  <2>2. PoolInv'
    BY <2>1, OthersKeep DEF PoolInv, TypeOK
  <2>3. ASSUME WaitReturn PROVE InChan = {} /\ AtStatement(BeforeDone) = {}
    <3>1. Outstanding = {}
      BY <2>3, OutstandingFinite, FS_EmptySet DEF PoolInv, WgCount, WaitReturn
    <3> QED
      BY <3>1 DEF Outstanding
  <2>4. InChan' = InChan /\ AtStatement(BeforeDone)' = AtStatement(BeforeDone)
    BY <2>1 DEF InChan, AtStatement
  <2>5. CrashOnlyByLateAdd' /\ CancelingAdded'
    BY <2>1 DEF CrashOnlyByLateAdd, CancelingAdded
  <2>6. WaitCoversHandlers'
    BY <2>1, <2>3, <2>4 DEF WaitCoversHandlers
  <2> QED
    BY <2>2, <2>5, <2>6
<1> QED
  BY <1>1, <1>2, <1>3, <1>4, <1>5, <1>6, <1>7 DEF PoolNext

LEMMA PoolInvariant == PoolSpec => []SafeInv
<1>1. PoolInit => SafeInv
  BY PoolInitInv DEF SafeInv, PoolInit, CancelingAdded, CrashOnlyByLateAdd, WaitCoversHandlers
<1> QED
  BY <1>1, PoolNextInv, PTL DEF PoolSpec

(***************************************************************************)
(* What makes AnswerMatchesStatus inductive: what a worker that is about   *)
(* to answer knows of its task.                                            *)
(***************************************************************************)
Agrees(t) ==
  /\ status[t] \in {outcome[t], "canceled"}
  /\ ~ctxDone[t] => outcome[t] # "none" /\ status[t] = outcome[t]

AnswerReady == \A w \in Workers :
  /\ pc[w] = "send" => Agrees(held[w])
  /\ pc[w] \in {"skip", "skipSend", "skipDone"} => ctxDone[held[w]]
  /\ pc[w] = "skipSend" => status[held[w]] = "canceled"

AnswerInv == AnswerMatchesStatus /\ AnswerReady

LEMMA WorkerAnswers ==
  ASSUME TypeOK, OnePlace, AnswerInv, NEW w \in Workers, Worker(w)
  PROVE  AnswerInv'
<1> DEFINE h == held[w]
<1> USE DEF TypeOK, At, Outcomes, AnswerInv, AnswerMatchesStatus, AnswerReady, Agrees
<1>1. \A v \in Workers : held[v] = h /\ h # NoTask => v = w
  BY DEF OnePlace
<1>2. pc[w] \notin {"receive", "exited"} => h \in Tasks /\ h # NoTask
  BY HeldIsTask, PoolAssumption
<1>3. \A v \in Workers : pc[v] \in {"send", "skip", "skipSend", "skipDone"} => held[v] \in Tasks
  BY HeldIsTask
<1>4. closed[h] /\ h \in Tasks => pc[w] = "skipDone"
  BY PoolAssumption DEF OnePlace
<1> HIDE DEF h
<1>5. CASE Receive(w) \/ ExitLoop(w) \/ StartHandler(w) \/ Uncount(w)
  BY <1>5, <1>3 DEF Receive, ExitLoop, StartHandler, Uncount
<1>6. CASE FindCanceled(w)
  BY <1>6, <1>3 DEF FindCanceled
<1>7. ASSUME NEW o \in Outcomes, HandlerReturns(w, o) PROVE AnswerInv'
  BY <1>7, <1>1, <1>2, <1>3, <1>4 DEF HandlerReturns, h
<1>8. CASE DoneSkip(w) \/ Done(w)
  BY <1>8, <1>3 DEF DoneSkip, Done, WgDone
<1>9. CASE StoreSkip(w)
  BY <1>9, <1>1, <1>2, <1>3, <1>4 DEF StoreSkip, Store, h
<1>10. CASE StoreOutcome(w)
  <2>1. outcome[h] # "none"
    BY <1>10, <1>2 DEF StoreOutcome, Store, OnePlace, h
  <2> QED
    BY <1>10, <1>1, <1>2, <1>3, <1>4, <2>1 DEF StoreOutcome, Store, h
<1>11. CASE SendSkip(w)
  BY <1>11, <1>2, <1>3 DEF SendSkip, Close, h
<1>12. CASE SendOutcome(w)
  BY <1>12, <1>2, <1>3 DEF SendOutcome, Close, h
<1> QED
  BY <1>5, <1>6, <1>7, <1>8, <1>9, <1>10, <1>11, <1>12 DEF Worker

LEMMA PoolNextAnswers == SafeInv /\ AnswerInv /\ [PoolNext]_poolVars => AnswerInv'
<1> SUFFICES ASSUME SafeInv, AnswerInv, [PoolNext]_poolVars PROVE AnswerInv'
  OBVIOUS
<1>1. TypeOK /\ OnePlace /\ CancelingAdded
  BY DEF SafeInv, PoolInv
<1>2. \A v \in Workers : pc[v] \in {"send", "skip", "skipSend", "skipDone"} => held[v] \in Tasks
  BY <1>1, HeldIsTask
<1>3. ASSUME NEW w \in Workers, Worker(w) PROVE AnswerInv'
  BY <1>1, <1>3, WorkerAnswers
<1> USE DEF TypeOK, AnswerInv, AnswerMatchesStatus, AnswerReady, Agrees
<1>4. CASE UNCHANGED <<pc, held, outcome, status, ctxDone, closed>>
  BY <1>4
<1>5. ASSUME NEW t \in Tasks, AddTask(t) PROVE AnswerInv'
  <2>1. ~closed[t] /\ \A v \in Workers : held[v] # t
    BY <1>1, <1>5, PoolAssumption DEF AddTask, OnePlace
  <2> QED
    BY <1>1, <1>2, <1>5, <2>1 DEF AddTask
<1>6. ASSUME NEW t \in Tasks, SendTask(t) \/ SendOnClosed(t) PROVE AnswerInv'
  BY <1>4, <1>6 DEF SendTask, SendOnClosed
<1>7. ASSUME NEW t \in Tasks, ContextEnds(t) \/ CancelTask(t) PROVE AnswerInv'
  BY <1>1, <1>2, <1>7 DEF ContextEnds, CancelTask
<1>8. ASSUME NEW t \in Tasks, CancelStore(t) PROVE AnswerInv'
  BY <1>1, <1>2, <1>8 DEF CancelStore, CancelingAdded
<1> QED
  BY <1>3, <1>4, <1>5, <1>6, <1>7, <1>8 DEF PoolNext, poolVars, WaitClose, WaitReturn

LEMMA PoolAnswers == PoolSpec => [](SafeInv /\ AnswerInv)
<1>1. PoolInit => AnswerInv
  BY DEF PoolInit, AnswerInv, AnswerMatchesStatus, AnswerReady
<1> QED
  BY <1>1, PoolInvariant, PoolNextAnswers, PTL DEF PoolSpec

-----------------------------------------------------------------------------
(***************************************************************************)
(* PoolTypes: every variable of the pool keeps its type; in particular the *)
(* channel never holds more than its capacity.                             *)
(***************************************************************************)
THEOREM PoolTypes == PoolSpec => []TypeOK
BY PoolInvariant, PTL DEF SafeInv, PoolInv

(***************************************************************************)
(* RunningIsExact: the running counter is the number of workers inside a   *)
(* handler, for any number of workers.                                     *)
(***************************************************************************)
THEOREM RunningIsExact == PoolSpec => []RunningCount
BY PoolInvariant, PTL DEF SafeInv, PoolInv

(***************************************************************************)
(* WaitGroupIsExact: the WaitGroup counts the tasks that are not done.     *)
(***************************************************************************)
THEOREM WaitGroupIsExact == PoolSpec => []WgCount
BY PoolInvariant, PTL DEF SafeInv, PoolInv

(***************************************************************************)
(* BothCountersExact: the two counters that the dispatcher and Wait act on *)
(* are never off, for any number of workers and tasks.                     *)
(***************************************************************************)
THEOREM BothCountersExact == PoolSpec => []CountersExact
BY RunningIsExact, WaitGroupIsExact, PTL DEF CountersExact

(***************************************************************************)
(* TaskInOnePlace: no task is lost, duplicated or answered early between   *)
(* senders, channel and workers.                                           *)
(***************************************************************************)
THEOREM TaskInOnePlace == PoolSpec => []OnePlace
BY PoolInvariant, PTL DEF SafeInv, PoolInv

(***************************************************************************)
(* AnswersAgree: the status of an answered task is what its handler        *)
(* returned, or "canceled" if its context had ended.                       *)
(***************************************************************************)
THEOREM AnswersAgree == PoolSpec => []AnswerMatchesStatus
BY PoolAnswers, PTL DEF AnswerInv

(***************************************************************************)
(* WaitOutlivesHandlers: no handler runs after Wait has returned.          *)
(***************************************************************************)
THEOREM WaitOutlivesHandlers == PoolSpec => []WaitCoversHandlers
BY PoolInvariant, PTL DEF SafeInv

(***************************************************************************)
(* NoOtherCrash: a negative WaitGroup counter and a double close are       *)
(* impossible; only an AddTask that Wait overtakes panics.                 *)
(***************************************************************************)
THEOREM NoOtherCrash == PoolSpec => []CrashOnlyByLateAdd
BY PoolInvariant, PTL DEF SafeInv

-----------------------------------------------------------------------------
(***************************************************************************)
(* The pool implements TaskLifecycle: each of its steps is a step in the   *)
(* life of one task, or changes nothing that the life of tasks shows.      *)
(***************************************************************************)
PhaseAt(s) ==
  CASE s \in {"check", "skip", "skipSend"} -> "waiting"
    [] s = "handle" -> "running"
    [] s = "skipDone" -> "answered"
    [] OTHER -> "returned"

(***************************************************************************)
(* The phase of a task that a worker holds follows from the worker's next  *)
(* statement; a task in the channel or with a sender is waiting.           *)
(***************************************************************************)
HeldPhases ==
  \A w \in Workers, t \in Tasks : held[w] = t => Phase(t) = PhaseAt(pc[w])

LEMMA HeldPhase == TypeOK /\ OnePlace => HeldPhases
<1> SUFFICES ASSUME TypeOK, OnePlace, NEW w \in Workers, held[w] \in Tasks
             PROVE  Phase(held[w]) = PhaseAt(pc[w])
  BY DEF HeldPhases
<1> DEFINE h == held[w]
<1>1. /\ h # NoTask /\ pc[w] \notin {"receive", "exited"} /\ pc[w] \in Statements
      /\ status[h] # "none" /\ closed[h] \in BOOLEAN
      /\ outcome[h] = "none" <=> pc[w] \in {"check", "handle", "skip", "skipSend", "skipDone"}
      /\ closed[h] <=> pc[w] = "skipDone"
  BY PoolAssumption DEF TypeOK, OnePlace
<1>2. HeldAt(h, {"handle"}) <=> pc[w] = "handle"
  BY <1>1 DEF OnePlace, HeldAt
<1> HIDE DEF h
<1>3. Phase(h) = PhaseAt(pc[w])
  BY <1>1, <1>2 DEF Phase, PhaseAt, Statements
<1> QED
  BY <1>3 DEF h

LEMMA TravellingPhase ==
  TypeOK /\ OnePlace => \A t \in OnItsWay : Phase(t) = "waiting"
<1> SUFFICES ASSUME TypeOK, OnePlace, NEW t \in OnItsWay PROVE Phase(t) = "waiting"
  OBVIOUS
<1>1. status[t] # "none" /\ outcome[t] = "none" /\ ~closed[t] /\ \A w \in Workers : held[w] # t
  BY DEF OnePlace
<1> QED
  BY <1>1 DEF Phase, HeldAt

\* A step of one worker leaves alone the tasks it does not hold.
LEMMA OtherPhases ==
  ASSUME NEW w \in Workers, NEW u, u # held[w], u # held'[w],
         \A v \in Workers \ {w} : held'[v] = held[v] /\ pc'[v] = pc[v],
         status'[u] = status[u], closed'[u] = closed[u], outcome'[u] = outcome[u]
  PROVE  Phase(u)' = Phase(u)
<1>1. HeldAt(u, {"handle"})' = HeldAt(u, {"handle"})
  BY DEF HeldAt
<1> QED
  BY <1>1 DEF Phase

(***************************************************************************)
(* Beside a worker that is about to start a handler, fewer handlers run    *)
(* than there are workers.                                                 *)
(***************************************************************************)
LEMMA RoomToStart ==
  ASSUME TypeOK, OnePlace, NEW w \in Workers, pc[w] = "check"
  PROVE  Cardinality({u \in Tasks : Phase(u) = "running"}) < Cardinality(Workers)
<1> DEFINE A == AtStatement({"handle"})
           I == {held[v] : v \in A}
           f == [v \in A |-> held[v]]
           R == {u \in Tasks : Phase(u) = "running"}
<1>1. A \in SUBSET (Workers \ {w})
  BY DEF AtStatement
<1>2. IsFiniteSet(Workers \ {w}) /\ Cardinality(Workers \ {w}) = Cardinality(Workers) - 1
      /\ Cardinality(Workers) \in Nat
  BY PoolAssumption, FS_RemoveElement, FS_CardinalityType
<1>3. IsFiniteSet(A) /\ Cardinality(A) <= Cardinality(Workers) - 1
  <2> HIDE DEF A
  <2> QED
    BY <1>1, <1>2, FS_Subset
<1>4. R \in SUBSET I
  BY DEF Phase, HeldAt, AtStatement
<1>5. f \in Surjection(A, I)
  BY DEF Surjection
<1> HIDE DEF A, I, f, R
<1>6. IsFiniteSet(I) /\ Cardinality(I) <= Cardinality(A)
  BY <1>3, <1>5, FS_Surjection
<1>7. IsFiniteSet(R) /\ Cardinality(R) <= Cardinality(I)
  BY <1>4, <1>6, FS_Subset
<1>8. Cardinality(R) \in Nat /\ Cardinality(I) \in Nat /\ Cardinality(A) \in Nat
  BY <1>3, <1>6, <1>7, FS_CardinalityType
<1> QED
  BY <1>2, <1>3, <1>6, <1>7, <1>8 DEF R

-----------------------------------------------------------------------------
(***************************************************************************)
(* The steps of the abstract specification, read off the phases.           *)
(***************************************************************************)
SamePhases == \A u \in Tasks : Phase(u)' = Phase(u)

Moves(t, from, to) ==
  /\ Phase(t) = from /\ Phase(t)' = to
  /\ \A u \in Tasks \ {t} : Phase(u)' = Phase(u)

LEMMA SameIsStutter ==
  ASSUME SamePhases, UNCHANGED ctxDone
  PROVE  UNCHANGED Lifecycle!vars
BY DEF SamePhases, Lifecycle!vars

LEMMA MovesIsMove ==
  ASSUME NEW t \in Tasks, NEW from, NEW to, Moves(t, from, to)
  PROVE  Lifecycle!Move(t, from, to)
<1> DEFINE ph == [u \in Tasks |-> Phase(u)]
<1>1. ph' = [u \in Tasks |-> IF u = t THEN to ELSE Phase(u)]
  BY DEF Moves
<1>2. ph' = [ph EXCEPT ![t] = to] /\ ph[t] = from
  BY <1>1 DEF Moves
<1> QED
  BY <1>2 DEF Lifecycle!Move

(***************************************************************************)
(* One step of a worker.                                                   *)
(***************************************************************************)
LEMMA HolderMoves ==
  ASSUME TypeOK, OnePlace, TypeOK', OnePlace', NEW t \in Tasks,
         NEW w \in Workers, held[w] = t, NEW from, NEW to, At(w, from, to),
         UNCHANGED held,
         \A u \in Tasks \ {t} : /\ status'[u] = status[u] /\ closed'[u] = closed[u]
                                /\ outcome'[u] = outcome[u]
  PROVE  Moves(t, PhaseAt(from), PhaseAt(to))
<1>1. pc[w] = from /\ pc'[w] = to /\ \A v \in Workers \ {w} : pc'[v] = pc[v]
  BY DEF At, TypeOK
<1>2. Phase(t) = PhaseAt(from)
  BY <1>1, HeldPhase DEF HeldPhases
<1>3. HeldPhases'
  BY HeldPhase, PTL
<1>4. Phase(t)' = PhaseAt(to)
  BY <1>1, <1>3 DEF HeldPhases
<1>5. ASSUME NEW u \in Tasks \ {t} PROVE Phase(u)' = Phase(u)
  BY <1>1, <1>5, OtherPhases
<1> QED
  BY <1>2, <1>4, <1>5 DEF Moves

\* The last step at a task: the worker answers it, or has skipped it.
LEMMA HolderLeaves ==
  ASSUME TypeOK, OnePlace, NEW t \in Tasks, NEW w \in Workers, held[w] = t,
         NEW from, At(w, from, "receive"), held' = [held EXCEPT ![w] = NoTask],
         status' = status, outcome' = outcome, closed'[t],
         \A u \in Tasks \ {t} : closed'[u] = closed[u]
  PROVE  Moves(t, PhaseAt(from), "answered")
<1>1. /\ pc[w] = from /\ held'[w] = NoTask
      /\ \A v \in Workers \ {w} : pc'[v] = pc[v] /\ held'[v] = held[v]
  BY DEF At, TypeOK
<1>2. Phase(t) = PhaseAt(from)
  BY <1>1, HeldPhase DEF HeldPhases
<1>3. status'[t] # "none"
  BY PoolAssumption DEF OnePlace
<1>4. Phase(t)' = "answered"
  BY <1>3 DEF Phase
<1>5. ASSUME NEW u \in Tasks \ {t} PROVE Phase(u)' = Phase(u)
  <2>1. u # held'[w]
    BY <1>1, PoolAssumption
  <2> QED
    BY <1>1, <1>5, <2>1, OtherPhases
<1> QED
  BY <1>2, <1>4, <1>5 DEF Moves

LEMMA MovesNowhere ==
  ASSUME NEW t \in Tasks, NEW f, Moves(t, f, f)
  PROVE  SamePhases
BY DEF Moves, SamePhases

LEMMA ReceiveShowsNothing ==
  ASSUME TypeOK, OnePlace, TypeOK', OnePlace', NEW w \in Workers, Receive(w)
  PROVE  SamePhases
<1>0. PICK h : h = Head(taskChan)
  OBVIOUS
<1>1. h \in Tasks /\ h \in OnItsWay
  BY <1>0, ChannelHead DEF Receive, OnItsWay
<1>2. /\ held' = [held EXCEPT ![w] = h] /\ pc' = [pc EXCEPT ![w] = "check"]
      /\ held[w] = NoTask
      /\ UNCHANGED <<status, closed, outcome>>
  BY <1>0 DEF Receive, At, OnePlace
<1>3. held'[w] = h /\ pc'[w] = "check"
      /\ \A v \in Workers \ {w} : held'[v] = held[v] /\ pc'[v] = pc[v]
  BY <1>2 DEF TypeOK
<1>4. HeldPhases'
  BY HeldPhase, PTL
<1>5. Phase(h) = "waiting"
  BY <1>1, TravellingPhase
<1>6. Phase(h)' = PhaseAt("check")
  BY <1>1, <1>3, <1>4 DEF HeldPhases
<1>7. Phase(h)' = "waiting"
  BY <1>6 DEF PhaseAt
<1>8. ASSUME NEW u \in Tasks \ {h} PROVE Phase(u)' = Phase(u)
  <2>1. u # held[w] /\ u # held'[w]
    BY <1>2, <1>3, <1>8, PoolAssumption
  <2> QED
    BY <1>2, <1>3, <2>1, OtherPhases
<1> QED
  BY <1>5, <1>7, <1>8 DEF SamePhases

\* What a worker's step can do to the task it holds.
RoomLeft == Cardinality({u \in Tasks : Phase(u) = "running"}) < Cardinality(Workers)

Advances(t) ==
  \/ Moves(t, "waiting", "answered") /\ ctxDone[t]
  \/ Moves(t, "waiting", "running") /\ RoomLeft
  \/ Moves(t, "running", "returned")
  \/ Moves(t, "returned", "answered")

LEMMA WorkerMoves ==
  ASSUME TypeOK, OnePlace, AnswerReady, TypeOK', OnePlace', NEW w \in Workers, Worker(w)
  PROVE  UNCHANGED ctxDone /\ (SamePhases \/ \E t \in Tasks : held[w] = t /\ Advances(t))
<1>0. PICK h : h = held[w]
  OBVIOUS
<1>1. UNCHANGED ctxDone
  BY WorkerStatus
<1>2. pc[w] \notin {"receive", "exited"} => h \in Tasks
  BY <1>0, HeldIsTask
<1>3. CASE Receive(w)
  BY <1>1, <1>3, ReceiveShowsNothing
<1>4. CASE ExitLoop(w)
  <2>1. h = NoTask /\ held' = held /\ \A v \in Workers \ {w} : pc'[v] = pc[v]
    <3>1. pc[w] = "receive" /\ pc' = [pc EXCEPT ![w] = "exited"] /\ held' = held
      BY <1>4 DEF ExitLoop, At
    <3>2. held[w] = NoTask
      BY <3>1 DEF OnePlace
    <3> QED
      BY <1>0, <3>1, <3>2 DEF TypeOK
  <2>2. \A u \in Tasks : u # h /\ u # held'[w]
    BY <1>0, <2>1, PoolAssumption
  <2>3. SamePhases
    BY <1>0, <1>4, <2>1, <2>2, OtherPhases DEF ExitLoop, SamePhases
  <2> QED
    BY <1>1, <2>3
<1>5. CASE FindCanceled(w) \/ StoreSkip(w) \/ Uncount(w) \/ Done(w) \/ StoreOutcome(w)
  <2>1. PICK f, t :
          /\ At(w, f, t) /\ PhaseAt(f) = PhaseAt(t) /\ f \notin {"receive", "exited"}
          /\ UNCHANGED <<held, outcome, closed>>
          /\ \A u \in Tasks \ {h} : status'[u] = status[u]
    <3>1. CASE FindCanceled(w)
      <4>1. At(w, "check", "skip") /\ PhaseAt("check") = PhaseAt("skip")
        BY <3>1 DEF FindCanceled, PhaseAt
      <4> QED
        BY <3>1, <4>1 DEF FindCanceled
    <3>2. CASE StoreSkip(w)
      <4>1. At(w, "skip", "skipSend") /\ PhaseAt("skip") = PhaseAt("skipSend")
        BY <3>2 DEF StoreSkip, Store, PhaseAt
      <4> QED
        BY <1>0, <3>2, <4>1 DEF StoreSkip, Store, TypeOK
    <3>3. CASE Uncount(w)
      <4>1. At(w, "uncount", "done") /\ PhaseAt("uncount") = PhaseAt("done")
        BY <3>3 DEF Uncount, PhaseAt
      <4> QED
        BY <3>3, <4>1 DEF Uncount
    <3>4. CASE Done(w)
      <4>1. At(w, "done", "store") /\ PhaseAt("done") = PhaseAt("store")
        BY <3>4 DEF Done, WgDone, PhaseAt
      <4> QED
        BY <3>4, <4>1 DEF Done, WgDone
    <3>5. CASE StoreOutcome(w)
      <4>1. At(w, "store", "send") /\ PhaseAt("store") = PhaseAt("send")
        BY <3>5 DEF StoreOutcome, Store, PhaseAt
      <4> QED
        BY <1>0, <3>5, <4>1 DEF StoreOutcome, Store, TypeOK
    <3> QED
      BY <1>5, <3>1, <3>2, <3>3, <3>4, <3>5
  <2>2. h \in Tasks
    BY <1>2, <2>1 DEF At
  <2>3. Moves(h, PhaseAt(f), PhaseAt(t))
    BY <1>0, <2>1, <2>2, HolderMoves
  <2> QED
    BY <1>1, <2>1, <2>2, <2>3, MovesNowhere
<1>6. CASE SendSkip(w)
  <2>1. At(w, "skipSend", "skipDone") /\ h \in Tasks /\ ctxDone[h]
    BY <1>0, <1>2, <1>6 DEF SendSkip, At, AnswerReady
  <2>2. Moves(h, PhaseAt("skipSend"), PhaseAt("skipDone"))
    BY <1>0, <1>6, <2>1, HolderMoves DEF SendSkip, Close, TypeOK
  <2>3. Moves(h, "waiting", "answered")
    BY <2>2 DEF PhaseAt
  <2> QED
    BY <1>0, <1>1, <2>1, <2>3 DEF Advances
<1>7. CASE DoneSkip(w)
  <2>1. /\ At(w, "skipDone", "receive") /\ h \in Tasks /\ closed'[h]
        /\ held' = [held EXCEPT ![w] = NoTask]
        /\ status' = status /\ outcome' = outcome /\ closed' = closed
    BY <1>0, <1>2, <1>7, PoolAssumption DEF DoneSkip, WgDone, At, OnePlace
  <2>2. Moves(h, PhaseAt("skipDone"), "answered")
    BY <1>0, <2>1, HolderLeaves
  <2>3. Moves(h, "answered", "answered")
    BY <2>2 DEF PhaseAt
  <2> QED
    BY <1>1, <2>1, <2>3, MovesNowhere
<1>8. CASE StartHandler(w)
  <2>1. At(w, "check", "handle") /\ pc[w] = "check" /\ h \in Tasks
    BY <1>0, <1>2, <1>8 DEF StartHandler, At
  <2>2. Moves(h, PhaseAt("check"), PhaseAt("handle"))
    BY <1>0, <1>8, <2>1, HolderMoves DEF StartHandler
  <2>3. Moves(h, "waiting", "running")
    BY <2>2 DEF PhaseAt
  <2>4. RoomLeft
    BY <2>1, RoomToStart DEF RoomLeft
  <2> QED
    BY <1>0, <1>1, <2>1, <2>3, <2>4 DEF Advances
<1>9. ASSUME NEW o \in Outcomes, HandlerReturns(w, o)
      PROVE  UNCHANGED ctxDone /\ \E t \in Tasks : held[w] = t /\ Advances(t)
  <2>1. At(w, "handle", "uncount") /\ h \in Tasks
    BY <1>0, <1>2, <1>9 DEF HandlerReturns, At
  <2>2. Moves(h, PhaseAt("handle"), PhaseAt("uncount"))
    BY <1>0, <1>9, <2>1, HolderMoves DEF HandlerReturns, TypeOK
  <2>3. Moves(h, "running", "returned")
    BY <2>2 DEF PhaseAt
  <2> QED
    BY <1>0, <1>1, <2>1, <2>3 DEF Advances
<1>10. CASE SendOutcome(w)
  <2>1. /\ At(w, "send", "receive") /\ h \in Tasks /\ closed'[h]
        /\ held' = [held EXCEPT ![w] = NoTask]
        /\ status' = status /\ outcome' = outcome
        /\ \A u \in Tasks \ {h} : closed'[u] = closed[u]
    BY <1>0, <1>2, <1>10 DEF SendOutcome, Close, At, TypeOK
  <2>2. Moves(h, PhaseAt("send"), "answered")
    BY <1>0, <2>1, HolderLeaves
  <2>3. Moves(h, "returned", "answered")
    BY <2>2 DEF PhaseAt
  <2> QED
    BY <1>0, <1>1, <2>1, <2>3 DEF Advances
<1> QED
  BY <1>3, <1>4, <1>5, <1>6, <1>7, <1>8, <1>9, <1>10 DEF Worker

LEMMA WorkerSteps ==
  ASSUME TypeOK, OnePlace, AnswerReady, TypeOK', OnePlace', NEW w \in Workers, Worker(w)
  PROVE  Lifecycle!Next \/ UNCHANGED Lifecycle!vars
<1>1. UNCHANGED ctxDone /\ (SamePhases \/ \E t \in Tasks : held[w] = t /\ Advances(t))
  BY WorkerMoves
<1>2. CASE SamePhases
  BY <1>1, <1>2, SameIsStutter
<1>3. ASSUME NEW t \in Tasks, Advances(t) PROVE Lifecycle!Next
  <2>1. CASE Moves(t, "waiting", "answered") /\ ctxDone[t]
    BY <1>1, <2>1, MovesIsMove DEF Lifecycle!Skip, Lifecycle!Next
  <2>2. CASE Moves(t, "waiting", "running") /\ RoomLeft
    <3>1. {u \in Tasks : [v \in Tasks |-> Phase(v)][u] = "running"}
            = {u \in Tasks : Phase(u) = "running"}
      OBVIOUS
    <3>2. \A S : Lifecycle!Cardinality(S) = Cardinality(S)
      BY DEF Lifecycle!Cardinality, Cardinality
    <3>3. Lifecycle!Move(t, "waiting", "running")
      BY <2>2, MovesIsMove
    <3>4. Lifecycle!Start(t)
      BY <1>1, <2>2, <3>1, <3>2, <3>3 DEF Lifecycle!Start, RoomLeft
    <3> QED
      BY <3>4 DEF Lifecycle!Next
  <2>3. CASE Moves(t, "running", "returned")
    BY <1>1, <2>3, MovesIsMove DEF Lifecycle!Return, Lifecycle!Next
  <2>4. CASE Moves(t, "returned", "answered")
    BY <1>1, <2>4, MovesIsMove DEF Lifecycle!Answer, Lifecycle!Next
  <2> QED
    BY <1>3, <2>1, <2>2, <2>3, <2>4 DEF Advances
<1> QED
  BY <1>1, <1>2, <1>3

(***************************************************************************)
(* The operations of the pool's users, and the channel.                    *)
(***************************************************************************)
LEMMA AddTaskSteps ==
  ASSUME TypeOK, OnePlace, NEW t \in Tasks, AddTask(t)
  PROVE  Lifecycle!Submit(t)
<1>1. /\ status[t] = "none" /\ status' = [status EXCEPT ![t] = "pending"]
      /\ UNCHANGED <<pc, held, outcome, closed, ctxDone>>
  BY DEF AddTask
<1>2. outcome[t] = "none" /\ ~closed[t] /\ \A w \in Workers : held[w] # t
  BY <1>1, PoolAssumption DEF OnePlace
<1>3. \A u : HeldAt(u, {"handle"})' = HeldAt(u, {"handle"})
  BY <1>1 DEF HeldAt
<1>4. status'[t] = "pending" /\ \A u \in Tasks \ {t} : status'[u] = status[u]
  BY <1>1 DEF TypeOK
<1>5. ~HeldAt(t, {"handle"})
  BY <1>2 DEF HeldAt
<1>6. Moves(t, "new", "waiting")
  BY <1>1, <1>2, <1>3, <1>4, <1>5 DEF Moves, Phase
<1> QED
  BY <1>1, <1>6, MovesIsMove DEF Lifecycle!Submit

LEMMA CancelSteps ==
  ASSUME TypeOK, NEW t \in Tasks, ContextEnds(t) \/ CancelTask(t)
  PROVE  Lifecycle!Cancel(t)
<1>1. /\ status[t] # "none" /\ ctxDone' = [ctxDone EXCEPT ![t] = TRUE]
      /\ UNCHANGED <<pc, held, outcome, closed, status>>
  BY DEF ContextEnds, CancelTask
<1>2. Phase(t) # "new"
  BY <1>1 DEF Phase
<1>3. \A u \in Tasks : Phase(u)' = Phase(u)
  BY <1>1 DEF Phase, HeldAt
<1> QED
  BY <1>1, <1>2, <1>3 DEF Lifecycle!Cancel

LEMMA OthersShowNothing ==
  ASSUME SafeInv,
         \/ \E t \in Tasks : SendTask(t) \/ SendOnClosed(t) \/ CancelStore(t)
         \/ WaitClose \/ WaitReturn \/ UNCHANGED poolVars
  PROVE  UNCHANGED Lifecycle!vars
<1>1. UNCHANGED <<pc, held, outcome, closed, ctxDone>>
  BY DEF SendTask, SendOnClosed, CancelStore, WaitClose, WaitReturn, poolVars
<1>2. \A u \in Tasks : status'[u] = "none" <=> status[u] = "none"
  <2>1. CASE \E t \in Tasks : CancelStore(t)
    BY <2>1 DEF CancelStore, SafeInv, PoolInv, TypeOK, CancelingAdded
  <2>2. CASE status' = status
    BY <2>2
  <2> QED
    BY <2>1, <2>2 DEF SendTask, SendOnClosed, WaitClose, WaitReturn, poolVars
<1>3. SamePhases
  BY <1>1, <1>2 DEF SamePhases, Phase, HeldAt
<1> QED
  BY <1>1, <1>3, SameIsStutter

(***************************************************************************)
(* PoolImplements: in the pool, for any tasks, workers and capacity, a     *)
(* handler starts at most once, beside fewer others than there are         *)
(* workers, and a task is answered at most once: after its handler or,     *)
(* its context having ended, instead of it.                                *)
(***************************************************************************)
THEOREM PoolImplements == PoolSpec => ImplementsLifecycle
<1>1. PoolInit => Lifecycle!Init
  BY DEF PoolInit, Lifecycle!Init, Phase
<1>2. SafeInv /\ SafeInv' /\ AnswerInv /\ [PoolNext]_poolVars
        => [Lifecycle!Next]_(Lifecycle!vars)
  <2> SUFFICES ASSUME SafeInv, SafeInv', AnswerInv, [PoolNext]_poolVars
               PROVE  Lifecycle!Next \/ UNCHANGED Lifecycle!vars
    OBVIOUS
  <2>1. TypeOK /\ OnePlace /\ TypeOK' /\ OnePlace' /\ AnswerReady
    BY DEF SafeInv, PoolInv, AnswerInv
  <2>2. ASSUME NEW w \in Workers, Worker(w)
        PROVE  Lifecycle!Next \/ UNCHANGED Lifecycle!vars
    BY <2>1, <2>2, WorkerSteps
  <2>3. ASSUME NEW t \in Tasks, AddTask(t) PROVE Lifecycle!Next
    BY <2>1, <2>3, AddTaskSteps DEF Lifecycle!Next
  <2>4. ASSUME NEW t \in Tasks, ContextEnds(t) \/ CancelTask(t) PROVE Lifecycle!Next
    BY <2>1, <2>4, CancelSteps DEF Lifecycle!Next
  <2> QED
    BY <2>2, <2>3, <2>4, OthersShowNothing DEF PoolNext
<1> QED
  BY <1>1, <1>2, PoolAnswers, PTL
    DEF PoolSpec, ImplementsLifecycle, Lifecycle!Spec

-----------------------------------------------------------------------------
(***************************************************************************)
(* The scheduler, for any priorities too.  The pool's part of the          *)
(* invariant comes from the lemmas above; what is added is the waiting     *)
(* line and the dispatcher's hand between it and the channel.              *)
(***************************************************************************)
(***************************************************************************)
(* The waiting line: where an item goes in, and what is left when one      *)
(* leaves.                                                                 *)
(***************************************************************************)
\* The item in front of which a task is inserted, found by its priority.
LEMMA SlotSplits ==
  ASSUME NEW q \in Seq(Tasks), NEW pri \in [Tasks -> Int], NEW p \in Int
  PROVE  LET k == Slot(q, pri, p)
         IN /\ k \in 1 .. Len(q) + 1
            /\ k <= Len(q) => pri[q[k]] < p
            /\ \A i \in 1 .. Len(q) : i < k => pri[q[i]] >= p
<1> DEFINE S == {i \in 1 .. Len(q) + 1 : i <= Len(q) => pri[q[i]] < p}
           k == Slot(q, pri, p)
<1>1. Len(q) \in Nat /\ \A i \in 1 .. Len(q) : pri[q[i]] \in Int
  BY LenProperties, ElementOfSeq
<1>2. S \subseteq Nat /\ Len(q) + 1 \in S
  BY <1>1
<1>3. k \in S /\ \A i \in S : k <= i
  BY <1>2, LeastExists DEF Slot
<1>4. ASSUME NEW i \in 1 .. Len(q), i < k PROVE pri[q[i]] >= p
  <2>1. i \notin S /\ i \in 1 .. Len(q) + 1
    BY <1>1, <1>3, <1>4
  <2> QED
    BY <1>1, <2>1
<1> QED
  BY <1>3, <1>4

(***************************************************************************)
(* What the operations of the line keep.                                   *)
(***************************************************************************)
LEMMA PushKeeps ==
  ASSUME NEW q \in Seq(Tasks), NEW t \in Tasks, NEW pri \in [Tasks -> Int],
         NEW arr \in [Tasks -> Nat], NEW arrNew \in [Tasks -> Nat],
         Distinct(q), t \notin Elements(q), InOrder(q, pri, arr),
         \A u \in Elements(q) : arrNew[u] = arr[u] /\ arrNew[u] < arrNew[t]
  PROVE  LET r == Push(q, pri, t)
         IN /\ r \in Seq(Tasks) /\ Elements(r) = Elements(q) \union {t}
            /\ Distinct(r) /\ InOrder(r, pri, arrNew)
<1> DEFINE n == Len(q)  k == Slot(q, pri, pri[t])  r == InsertAt(q, k, t)
<1>1. /\ n \in Nat /\ \A i \in 1 .. n : q[i] \in Tasks /\ q[i] \in Elements(q)
      /\ pri[t] \in Int /\ \A i \in 1 .. n : pri[q[i]] \in Int /\ arr[q[i]] \in Nat
  BY LenProperties, ElementOfSeq DEF Elements
<1>2. /\ k \in 1 .. n + 1
      /\ k <= n => pri[q[k]] < pri[t]
      /\ \A i \in 1 .. n : i < k => pri[q[i]] >= pri[t]
  BY <1>1, SlotSplits
<1> HIDE DEF k
<1>3. /\ r \in Seq(Tasks) /\ Len(r) = n + 1
      /\ \A i \in 1 .. n + 1 : r[i] = IF i < k THEN q[i] ELSE IF i = k THEN t ELSE q[i - 1]
  BY <1>2, Inserted
<1> HIDE DEF r, n
<1>0. n \in Nat /\ k \in Nat /\ k \in 1 .. n + 1
  BY <1>1, <1>2
<1>left. ASSUME NEW i \in 1 .. n + 1, i < k PROVE i \in 1 .. n /\ r[i] = q[i]
  <2>1. i \in 1 .. n
    BY <1>0, <1>left
  <2> QED
    BY <1>3, <1>left, <2>1
<1>at. r[k] = t
  BY <1>0, <1>3
<1>right. ASSUME NEW i \in 1 .. n + 1, i > k
          PROVE  i - 1 \in 1 .. n /\ i - 1 >= k /\ r[i] = q[i - 1]
  <2>1. i - 1 \in 1 .. n /\ i - 1 >= k /\ ~(i < k) /\ i # k
    BY <1>0, <1>right
  <2> QED
    BY <1>3, <2>1
<1>4. ASSUME NEW i \in 1 .. n + 1
      PROVE  \/ i < k /\ i \in 1 .. n /\ r[i] = q[i]
             \/ i = k /\ r[i] = t
             \/ i > k /\ i - 1 \in 1 .. n /\ i - 1 >= k /\ r[i] = q[i - 1]
  <2>1. i < k \/ i = k \/ i > k
    BY <1>0
  <2> QED
    BY <1>left, <1>at, <1>right, <2>1
<1>range. Elements(r) = {r[i] : i \in 1 .. n + 1}
  BY <1>3 DEF Elements
<1>5. Elements(r) = Elements(q) \union {t}
  <2>1. Elements(r) \subseteq Elements(q) \union {t}
    <3>1. \A i \in 1 .. n + 1 : r[i] \in Elements(q) \union {t}
      BY <1>1, <1>4
    <3> QED
      BY <1>range, <3>1
  <2>2. t \in Elements(r)
    BY <1>0, <1>range, <1>at
  <2>3. ASSUME NEW i \in 1 .. n PROVE q[i] \in Elements(r)
    <3>1. CASE i < k
      <4>1. i \in 1 .. n + 1
        BY <1>0, <2>3
      <4> QED
        BY <1>left, <1>range, <3>1, <4>1
    <3>2. CASE i >= k
      <4>1. i + 1 \in 1 .. n + 1 /\ (i + 1) - 1 = i /\ i + 1 > k
        BY <1>0, <2>3, <3>2
      <4>2. r[i + 1] = q[i]
        BY <1>right, <4>1
      <4> QED
        BY <1>range, <4>1, <4>2
    <3> QED
      BY <1>0, <3>1, <3>2
  <2> QED
    BY <2>1, <2>2, <2>3 DEF Elements, n
<1>6. \A i \in 1 .. n : q[i] # t
  BY <1>1
<1>7. Distinct(r)
  <2> SUFFICES ASSUME NEW i \in 1 .. n + 1, NEW j \in 1 .. n + 1, r[i] = r[j] PROVE i = j
    BY <1>3 DEF Distinct
  <2>1. \A x, y \in 1 .. n : q[x] = q[y] => x = y
    BY DEF Distinct, n
  <2>2. CASE r[i] = t
    BY <1>4, <1>6, <2>2
  <2>3. CASE r[i] # t
    <3>1. PICK x \in 1 .. n : r[i] = q[x] /\ i = IF x < k THEN x ELSE x + 1
      <4>1. CASE i < k
        <5>1. i \in 1 .. n /\ r[i] = q[i]
          BY <1>left, <4>1
        <5> QED
          BY <4>1, <5>1
      <4>2. CASE i > k
        <5>1. i - 1 \in 1 .. n /\ ~(i - 1 < k) /\ i = (i - 1) + 1 /\ r[i] = q[i - 1]
          BY <1>0, <1>right, <4>2
        <5> QED
          BY <5>1
      <4> QED
        BY <1>0, <1>at, <2>3, <4>1, <4>2
    <3>2. PICK y \in 1 .. n : r[j] = q[y] /\ j = IF y < k THEN y ELSE y + 1
      <4>1. CASE j < k
        <5>1. j \in 1 .. n /\ r[j] = q[j]
          BY <1>left, <4>1
        <5> QED
          BY <4>1, <5>1
      <4>2. CASE j > k
        <5>1. j - 1 \in 1 .. n /\ ~(j - 1 < k) /\ j = (j - 1) + 1 /\ r[j] = q[j - 1]
          BY <1>0, <1>right, <4>2
        <5> QED
          BY <5>1
      <4> QED
        BY <1>0, <1>at, <2>3, <4>1, <4>2
    <3>3. x = y
      BY <2>1, <3>1, <3>2
    <3> QED
      BY <3>1, <3>2, <3>3
  <2> QED
    BY <2>2, <2>3
<1>8. \A x, y \in 1 .. n : x < y => Before(q[x], q[y], pri, arr)
  BY DEF InOrder, n
<1>9. \A u, v \in Elements(q) : Before(u, v, pri, arr) => Before(u, v, pri, arrNew)
  BY DEF Before
<1>10. \A x, y \in 1 .. n : x < y => Before(q[x], q[y], pri, arrNew)
  BY <1>1, <1>8, <1>9
<1>11. ASSUME NEW x \in 1 .. n, x < k PROVE Before(q[x], t, pri, arrNew)
  <2>1. pri[q[x]] >= pri[t] /\ pri[q[x]] \in Int /\ pri[t] \in Int
    BY <1>1, <1>2, <1>11
  <2>2. pri[q[x]] > pri[t] \/ pri[q[x]] = pri[t]
    BY <2>1
  <2>3. arrNew[q[x]] < arrNew[t]
    BY <1>1
  <2> QED
    BY <2>2, <2>3 DEF Before
<1>12. ASSUME NEW x \in 1 .. n, x >= k PROVE Before(t, q[x], pri, arrNew)
  <2>1. k \in 1 .. n /\ k <= n /\ (k = x \/ k < x)
    BY <1>0, <1>12
  <2>2. pri[q[k]] < pri[t]
    BY <1>2, <2>1, Zenon
  <2>3. k < x => pri[q[k]] > pri[q[x]] \/ pri[q[k]] = pri[q[x]]
    BY <1>8, <2>1 DEF Before
  <2>4. pri[q[k]] \in Int /\ pri[q[x]] \in Int /\ pri[t] \in Int
    BY <1>1, <2>1
  <2>5. CASE k = x
    BY <2>2, <2>4, <2>5 DEF Before
  <2>6. CASE k < x
    <3>1. pri[q[x]] <= pri[q[k]]
      <4>1. \A a, b \in Int : a > b \/ a = b => b <= a
        OBVIOUS
      <4> QED
        BY <2>3, <2>4, <2>6, <4>1
    <3>2. pri[t] > pri[q[x]]
      <4>1. \A a, b, c \in Int : a <= b /\ b < c => c > a
        OBVIOUS
      <4> QED
        BY <2>2, <2>4, <3>1, <4>1
    <3> QED
      BY <3>2 DEF Before
  <2> QED
    BY <2>1, <2>5, <2>6
<1>13. InOrder(r, pri, arrNew)
  <2> SUFFICES ASSUME NEW i \in 1 .. n + 1, NEW j \in 1 .. n + 1, i < j
               PROVE  Before(r[i], r[j], pri, arrNew)
    BY <1>3 DEF InOrder
  <2>1. CASE i < k /\ j < k
    <3>1. i \in 1 .. n /\ j \in 1 .. n /\ r[i] = q[i] /\ r[j] = q[j]
      BY <1>left, <2>1
    <3> QED
      BY <1>10, <3>1
  <2>2. CASE i < k /\ j = k
    <3>1. i \in 1 .. n /\ r[i] = q[i] /\ r[j] = t
      BY <1>left, <1>at, <2>2
    <3> QED
      BY <1>11, <2>2, <3>1
  <2>3. CASE i < k /\ j > k
    <3>1. i \in 1 .. n /\ r[i] = q[i] /\ j - 1 \in 1 .. n /\ j - 1 >= k /\ r[j] = q[j - 1]
      BY <1>left, <1>right, <2>3
    <3>2. i < j - 1
      BY <1>0, <2>3, <3>1
    <3> QED
      BY <1>10, <3>1, <3>2
  <2>4. CASE i = k /\ j > k
    <3>1. j - 1 \in 1 .. n /\ j - 1 >= k /\ r[i] = t /\ r[j] = q[j - 1]
      BY <1>at, <1>right, <2>4
    <3> QED
      BY <1>12, <3>1
  <2>5. CASE i > k
    <3>1. i - 1 \in 1 .. n /\ r[i] = q[i - 1]
      BY <1>right, <2>5
    <3>2. j > k
      BY <1>0, <2>5
    <3>3. j - 1 \in 1 .. n /\ r[j] = q[j - 1]
      BY <1>right, <3>2
    <3>4. i - 1 < j - 1
      BY <1>0
    <3> QED
      BY <1>10, <3>1, <3>3, <3>4
  <2> QED
    BY <1>0, <2>1, <2>2, <2>3, <2>4, <2>5
<1> QED
  BY <1>3, <1>5, <1>7, <1>13 DEF Push, r, k

LEMMA RemoveKeeps ==
  ASSUME NEW q \in Seq(Tasks), NEW t \in Tasks, NEW pri, NEW arr,
         Distinct(q), t \in Elements(q), InOrder(q, pri, arr)
  PROVE  LET r == RemoveTask(q, t)
         IN /\ r \in Seq(Tasks) /\ Elements(r) = Elements(q) \ {t}
            /\ Distinct(r) /\ InOrder(r, pri, arr)
<1> DEFINE n == Len(q)  I == {i \in 1 .. n : q[i] = t}  k == Min(I)  r == RemoveAt(q, k)
<1>1. n \in Nat /\ I \subseteq Nat /\ I # {}
  BY LenProperties DEF Elements
<1>2. k \in 1 .. n /\ q[k] = t
  BY <1>1, LeastExists
<1>3. RemoveTask(q, t) = r
  BY <1>1 DEF RemoveTask, RemoveFirst, SelectInSeq
<1> HIDE DEF I, k
<1>4. /\ r \in Seq(Tasks) /\ Len(r) = n - 1
      /\ \A i \in 1 .. n - 1 : r[i] = IF i < k THEN q[i] ELSE q[i + 1]
  BY <1>2, Removed
<1> HIDE DEF r, n
<1> DEFINE at(i) == IF i < k THEN i ELSE i + 1
<1>5. /\ \A i \in 1 .. n - 1 : at(i) \in 1 .. n /\ at(i) # k /\ r[i] = q[at(i)]
      /\ \A i, j \in 1 .. n - 1 : i < j => at(i) < at(j)
      /\ \A i, j \in 1 .. n - 1 : at(i) = at(j) => i = j
  BY <1>1, <1>2, <1>4
<1>6. \A x \in 1 .. n : x # k => \E i \in 1 .. n - 1 : at(i) = x
  <2> SUFFICES ASSUME NEW x \in 1 .. n, x # k PROVE \E i \in 1 .. n - 1 : at(i) = x
    OBVIOUS
  <2>1. CASE x < k
    BY <1>1, <1>2, <2>1
  <2>2. CASE x > k
    <3>1. x - 1 \in 1 .. n - 1 /\ at(x - 1) = x
      BY <1>1, <1>2, <2>2
    <3> QED
      BY <3>1
  <2> QED
    BY <1>1, <1>2, <2>1, <2>2
<1> HIDE DEF at
<1>7. \A x, y \in 1 .. n : q[x] = q[y] => x = y
  BY DEF Distinct, n
<1>8. Elements(r) = {q[x] : x \in {y \in 1 .. n : y # k}}
  BY <1>4, <1>5, <1>6 DEF Elements
<1>9. Elements(r) = Elements(q) \ {t}
  <2>1. \A x \in 1 .. n : x # k <=> q[x] # t
    BY <1>2, <1>7
  <2>2. Elements(q) = {q[x] : x \in 1 .. n}
    BY DEF Elements, n
  <2> QED
    BY <1>8, <2>1, <2>2
<1>10. Distinct(r)
  BY <1>4, <1>5, <1>7 DEF Distinct
<1>11. InOrder(r, pri, arr)
  BY <1>4, <1>5 DEF InOrder, n
<1> QED
  BY <1>3, <1>4, <1>9, <1>10, <1>11

LEMMA TailInOrder ==
  ASSUME NEW q \in Seq(Tasks), q # <<>>, NEW pri, NEW arr, InOrder(q, pri, arr)
  PROVE  InOrder(Tail(q), pri, arr)
<1>1. /\ Len(q) \in Nat \ {0} /\ Len(Tail(q)) = Len(q) - 1
      /\ \A i \in 1 .. Len(Tail(q)) : Tail(q)[i] = q[i + 1]
  BY LenProperties, EmptySeq, HeadTailProperties
<1>2. \A i \in 1 .. Len(Tail(q)) : i + 1 \in 1 .. Len(q)
  BY <1>1
<1>3. \A i, j \in 1 .. Len(Tail(q)) : i < j => i + 1 < j + 1
  BY <1>1
<1> QED
  BY <1>1, <1>2, <1>3 DEF InOrder

-----------------------------------------------------------------------------
(***************************************************************************)
(* The inductive invariant: where a task is.  Nobody closes the channel of *)
(* a scheduler's pool, and the only sender is the dispatcher.              *)
(***************************************************************************)
InPool(t) == t \in InChan \/ (\E w \in Workers : held[w] = t) \/ closed[t]

Undisturbed == waiter = "none" /\ canceling = {} /\ crashed = FALSE

SchedTypes ==
  /\ queue \in Seq(Tasks) /\ priority \in Rankings /\ arrival \in [Tasks -> Nat]
  /\ dispatcher \in {"check", "pop", "add", "send"}
  /\ hand \in Tasks \union {NoTask}
  /\ withdrawn \subseteq Tasks

HandInv ==
  /\ hand # NoTask <=> dispatcher \in {"add", "send"}
  /\ sending = IF dispatcher = "send" THEN {hand} ELSE {}

Places == \A t \in Tasks :
  /\ t \in InQueue => t \notin withdrawn /\ t # hand /\ ~InPool(t)
  /\ t \in withdrawn => t # hand /\ ~InPool(t)
  /\ t = hand => ~InPool(t)
  /\ status[t] # "none" <=> t \in InQueue \/ t \in withdrawn \/ t = hand \/ InPool(t)
  /\ outcome[t] # "none" => InPool(t)

Arrivals == \A t \in Submitted : arrival[t] < Cardinality(Submitted)

LineInv == Distinct(queue) /\ QueueInOrder /\ Arrivals

SchedInv == PoolInv /\ Undisturbed /\ SchedTypes /\ HandInv /\ Places /\ LineInv

LEMMA SubmittedFinite ==
  IsFiniteSet(Submitted) /\ Cardinality(Submitted) \in Nat
<1>1. Submitted \subseteq Tasks
  BY DEF Submitted
<1> QED
  BY <1>1, PoolAssumption, FS_Subset, FS_CardinalityType

LEMMA SchedStarts == Init => SchedInv
<1> SUFFICES ASSUME Init PROVE SchedInv
  OBVIOUS
<1>1. PoolInv
  BY PoolInitInv DEF Init
<1>2. Undisturbed
  BY DEF Init, PoolInit, Undisturbed
<1>3. queue \in Seq(Tasks) /\ Len(queue) = 0 /\ queue = <<>>
  BY EmptySeq DEF Init
<1>4. SchedTypes
  BY <1>3 DEF Init, SchedTypes
<1>5. HandInv
  BY DEF Init, PoolInit, HandInv
<1>6. InQueue = {} /\ InChan = {} /\ Submitted = {}
  <2>1. Len(taskChan) = 0
    BY EmptySeq DEF Init, PoolInit
  <2> QED
    BY <1>3, <2>1 DEF InQueue, InChan, Submitted, Init, PoolInit
<1>7. Places
  <2> SUFFICES ASSUME NEW t \in Tasks
               PROVE /\ t \notin InQueue /\ t \notin withdrawn /\ t # hand /\ ~InPool(t)
                     /\ status[t] = "none" /\ outcome[t] = "none"
    BY DEF Places
  <2>1. ~closed[t] /\ \A w \in Workers : held[w] # t
    BY PoolAssumption DEF Init, PoolInit
  <2> QED
    BY <1>6, <2>1, PoolAssumption DEF Init, PoolInit, InPool
<1>8. LineInv
  BY <1>3, <1>6 DEF LineInv, Distinct, QueueInOrder, InOrder, Arrivals
<1> QED
  BY <1>1, <1>2, <1>4, <1>5, <1>7, <1>8 DEF SchedInv

(***************************************************************************)
(* The workers: a task that reached the pool stays with it, no other task  *)
(* gets there, and only a task of the pool gets an outcome.                *)
(***************************************************************************)
LEMMA WorkerKeepsPool ==
  ASSUME TypeOK, OnePlace, NEW w \in Workers, Worker(w), NEW t \in Tasks
  PROVE  /\ InPool(t)' <=> InPool(t)
         /\ status'[t] # "none" <=> status[t] # "none"
         /\ outcome'[t] # "none" /\ outcome[t] = "none" => InPool(t)
<1> USE DEF TypeOK, At
<1>1. pc[w] \notin {"receive", "exited"} => held[w] \in Tasks /\ held[w] # NoTask
  BY HeldIsTask, PoolAssumption
<1>2. pc[w] \in {"receive", "exited"} => held[w] = NoTask
  BY DEF OnePlace
<1>3. t # NoTask
  BY PoolAssumption
<1>4. CASE Receive(w)
  <2>1. /\ Head(taskChan) \in Tasks /\ taskChan \in Seq(Tasks) /\ taskChan # <<>>
        /\ held' = [held EXCEPT ![w] = Head(taskChan)] /\ taskChan' = Tail(taskChan)
        /\ held[w] = NoTask
        /\ UNCHANGED <<status, outcome, closed>>
    BY <1>2, <1>4, ChannelHead DEF Receive
  <2>2. InChan = InChan' \union {Head(taskChan)}
    <3>1. InChan = Elements(taskChan) /\ InChan' = Elements(taskChan')
      BY DEF InChan, Elements
    <3> QED
      BY <2>1, <3>1, TailElements
  <2>3. (\E v \in Workers : held'[v] = t) <=> t = Head(taskChan) \/ \E v \in Workers : held[v] = t
    BY <1>3, <2>1
  <2> QED
    BY <2>1, <2>2, <2>3 DEF InPool
<1>5. CASE ExitLoop(w) \/ FindCanceled(w) \/ StartHandler(w) \/ Uncount(w)
  BY <1>5 DEF ExitLoop, FindCanceled, StartHandler, Uncount, InPool, InChan
<1>6. CASE \E o \in Outcomes : HandlerReturns(w, o)
  <2>1. /\ UNCHANGED <<taskChan, held, closed, status>> /\ pc[w] = "handle"
        /\ \E o \in Outcomes : outcome' = [outcome EXCEPT ![held[w]] = o]
    BY <1>6 DEF HandlerReturns
  <2>2. outcome'[t] = outcome[t] \/ held[w] = t
    BY <2>1
  <2> QED
    BY <2>1, <2>2 DEF InPool, InChan
<1>7. CASE StoreSkip(w) \/ StoreOutcome(w)
  <2>1. /\ UNCHANGED <<taskChan, held, closed, outcome>> /\ pc[w] \in {"skip", "store"}
        /\ \E s : status' = [status EXCEPT ![held[w]] = s] /\ s # "none"
    <3>1. pc[w] = "store" => outcome[held[w]] # "none"
      BY <1>1 DEF OnePlace
    <3>2. CASE StoreSkip(w)
      <4>1. /\ UNCHANGED <<taskChan, held, closed, outcome>> /\ pc[w] = "skip"
            /\ status' = [status EXCEPT ![held[w]] = "canceled"]
        BY <3>2 DEF StoreSkip, Store, At
      <4>2. "canceled" # "none"
        OBVIOUS
      <4>3. \E s : status' = [status EXCEPT ![held[w]] = s] /\ s # "none"
        BY <4>1, <4>2, Zenon
      <4> QED
        BY <4>1, <4>3
    <3>3. CASE StoreOutcome(w)
      <4>1. /\ UNCHANGED <<taskChan, held, closed, outcome>> /\ pc[w] = "store"
            /\ status' = [status EXCEPT ![held[w]] = outcome[held[w]]]
        BY <3>3 DEF StoreOutcome, Store, At
      <4> QED
        BY <3>1, <4>1
    <3> QED
      BY <1>7, <3>2, <3>3
  <2>2. status[held[w]] # "none"
    BY <1>1, <2>1 DEF OnePlace
  <2> QED
    BY <2>1, <2>2 DEF InPool, InChan
<1>8. CASE Done(w)
  BY <1>8 DEF Done, WgDone, InPool, InChan
<1>9. CASE SendSkip(w)
  <2>1. /\ UNCHANGED <<taskChan, held, status, outcome>> /\ pc[w] = "skipSend"
        /\ closed' = [closed EXCEPT ![held[w]] = TRUE]
    BY <1>9 DEF SendSkip, Close
  <2>2. closed'[t] <=> closed[t] \/ t = held[w]
    BY <1>1, <2>1
  <2> QED
    BY <2>1, <2>2 DEF InPool, InChan
<1>10. CASE SendOutcome(w)
  <2>1. /\ UNCHANGED <<taskChan, status, outcome>> /\ pc[w] = "send"
        /\ closed' = [closed EXCEPT ![held[w]] = TRUE]
        /\ held' = [held EXCEPT ![w] = NoTask]
    BY <1>10 DEF SendOutcome, Close
  <2>2. closed'[t] <=> closed[t] \/ t = held[w]
    BY <1>1, <2>1
  <2>3. (\E v \in Workers : held[v] = t) <=> t = held[w] \/ \E v \in Workers : held'[v] = t
    BY <1>3, <2>1
  <2> QED
    BY <2>1, <2>2, <2>3 DEF InPool, InChan
<1>11. CASE DoneSkip(w)
  <2>1. /\ UNCHANGED <<taskChan, status, outcome, closed>> /\ pc[w] = "skipDone"
        /\ held' = [held EXCEPT ![w] = NoTask]
    BY <1>11 DEF DoneSkip, WgDone
  <2>2. closed[held[w]]
    BY <1>1, <2>1 DEF OnePlace
  <2>3. (\E v \in Workers : held[v] = t) <=> t = held[w] \/ \E v \in Workers : held'[v] = t
    BY <1>3, <2>1
  <2> QED
    BY <2>1, <2>2, <2>3 DEF InPool, InChan
<1> QED
  BY <1>4, <1>5, <1>6, <1>7, <1>8, <1>9, <1>10, <1>11 DEF Worker

-----------------------------------------------------------------------------
(***************************************************************************)
(* The steps of the scheduler.                                             *)
(***************************************************************************)
\* Steps that leave the channel, the workers and the answers alone.
LEMMA PoolUntouched ==
  ASSUME UNCHANGED <<taskChan, held, closed, outcome>>
  PROVE  \A t \in Tasks : InPool(t)' <=> InPool(t)
BY DEF InPool, InChan

LEMMA QueueIsElements == InQueue = Elements(queue) /\ InQueue' = Elements(queue')
BY DEF InQueue, Elements

LEMMA SubmitKeeps ==
  ASSUME SchedInv, NEW t \in Tasks, SubmitTask(t)
  PROVE  SchedInv'
<1> USE DEF SchedInv
<1>1. /\ status[t] = "none" /\ status' = [status EXCEPT ![t] = "pending"]
      /\ arrival' = [arrival EXCEPT ![t] = Cardinality(Submitted)]
      /\ queue' = Push(queue, priority, t)
      /\ UNCHANGED <<taskChan, sending, wg, running, pc, held, outcome, ctxDone, closed,
                     canceling, waiter, crashed, priority, dispatcher, hand, withdrawn>>
  BY DEF SubmitTask
<1>2. TypeOK /\ OnePlace /\ RunningCount /\ WgCount
  BY DEF PoolInv
<1>3. /\ status' \in [Tasks -> Statuses] /\ status'[t] # "none"
      /\ \A u \in Tasks : u # t => status'[u] = status[u]
  BY <1>1, <1>2 DEF TypeOK, Statuses
<1>4. PoolInv'
  <2>1. TypeOK'
    BY <1>1, <1>2, <1>3 DEF TypeOK
  <2>2. InChan' = InChan /\ OnItsWay' = OnItsWay
    BY <1>1 DEF InChan, OnItsWay
  <2>3. OnItsWay \subseteq Tasks /\ \A w \in Workers : held[w] # NoTask => held[w] \in Tasks
    BY <1>2, PlacesAreTasks DEF TypeOK
  <2>4. OnePlace'
    BY <1>1, <1>2, <1>3, <2>2, <2>3 DEF OnePlace
  <2>5. RunningCount' /\ WgCount'
    BY <1>1, <1>2, <2>2 DEF RunningCount, WgCount, Outstanding, AtStatement
  <2> QED
    BY <2>1, <2>4, <2>5 DEF PoolInv
<1>5. /\ t \notin InQueue /\ t \notin withdrawn /\ t # hand /\ ~InPool(t) /\ outcome[t] = "none"
      /\ InQueue \subseteq Submitted
  <2>1. InQueue \subseteq Tasks
    BY ElementOfSeq DEF InQueue, SchedTypes
  <2>2. t \notin InQueue /\ t \notin withdrawn /\ t # hand /\ ~InPool(t) /\ outcome[t] = "none"
    BY <1>1 DEF Places
  <2>3. InQueue \subseteq Submitted
    BY <2>1 DEF Places, Submitted
  <2> QED
    BY <2>2, <2>3
<1>6. /\ t \notin Submitted /\ Submitted' = Submitted \union {t}
      /\ Cardinality(Submitted') = Cardinality(Submitted) + 1
  <2>1. t \notin Submitted /\ Submitted' = Submitted \union {t}
    BY <1>1, <1>3 DEF Submitted
  <2> QED
    BY <2>1, SubmittedFinite, FS_AddElement
<1>7. /\ arrival' \in [Tasks -> Nat] /\ arrival'[t] = Cardinality(Submitted)
      /\ \A u \in Tasks : u # t => arrival'[u] = arrival[u]
  BY <1>1, SubmittedFinite DEF SchedTypes
<1>8. \A u \in InQueue : u \in Tasks /\ arrival'[u] = arrival[u] /\ arrival'[u] < arrival'[t]
  BY <1>5, <1>7 DEF LineInv, Arrivals, Submitted
<1>9. /\ queue' \in Seq(Tasks) /\ InQueue' = InQueue \union {t}
      /\ Distinct(queue') /\ InOrder(queue', priority, arrival')
  <2>1. priority \in [Tasks -> Int]
    BY SchedulerAssumption DEF SchedTypes
  <2>2. /\ queue \in Seq(Tasks) /\ arrival \in [Tasks -> Nat] /\ Distinct(queue)
        /\ InOrder(queue, priority, arrival)
    BY DEF SchedTypes, LineInv, QueueInOrder
  <2>3. t \notin Elements(queue)
        /\ \A u \in Elements(queue) : arrival'[u] = arrival[u] /\ arrival'[u] < arrival'[t]
    BY <1>5, <1>8, QueueIsElements
  <2> QED
    BY <1>1, <1>7, <2>1, <2>2, <2>3, PushKeeps, QueueIsElements
<1>10. Arrivals'
  <2> SUFFICES ASSUME NEW u \in Submitted' PROVE arrival'[u] < Cardinality(Submitted')
    BY DEF Arrivals
  <2>1. u \in Tasks /\ arrival'[u] \in Nat
    BY <1>7 DEF Submitted
  <2>2. CASE u = t
    BY <1>6, <1>7, <2>2, SubmittedFinite
  <2>3. CASE u # t
    <3>1. u \in Submitted /\ arrival[u] < Cardinality(Submitted) /\ arrival'[u] = arrival[u]
      BY <1>6, <1>7, <2>1, <2>3 DEF LineInv, Arrivals
    <3> QED
      BY <1>6, <2>1, <3>1, SubmittedFinite
  <2> QED
    BY <2>2, <2>3
<1>11. Places'
  BY <1>1, <1>3, <1>5, <1>9, PoolUntouched DEF Places
<1>12. SchedTypes'
  BY <1>1, <1>7, <1>9 DEF SchedTypes
<1>13. Undisturbed' /\ HandInv'
  BY <1>1 DEF Undisturbed, HandInv
<1>14. LineInv'
  BY <1>1, <1>9, <1>10 DEF LineInv, QueueInOrder
<1> QED
  BY <1>4, <1>11, <1>12, <1>13, <1>14

\* Without a new submission, the order of what stays in the line is enough.
LEMMA WithdrawKeeps ==
  ASSUME SchedInv, NEW t \in Tasks, CancelTaskByID(t)
  PROVE  SchedInv'
<1> USE DEF SchedInv
<1>1. /\ t \in InQueue /\ queue' = RemoveTask(queue, t) /\ withdrawn' = withdrawn \union {t}
      /\ UNCHANGED <<poolVars, priority, arrival, dispatcher, hand>>
  BY DEF CancelTaskByID, InQueue
<1>2. UNCHANGED <<taskChan, sending, wg, running, pc, held, outcome, status,
                  ctxDone, closed, canceling, waiter, crashed>>
  BY <1>1 DEF poolVars
<1>3. PoolInv'
  BY <1>2, OthersKeep DEF PoolInv, TypeOK
<1>4. /\ queue' \in Seq(Tasks) /\ InQueue' = InQueue \ {t}
      /\ Distinct(queue') /\ InOrder(queue', priority, arrival)
  BY <1>1, RemoveKeeps, QueueIsElements DEF SchedTypes, LineInv, QueueInOrder
<1>5. Places'
  BY <1>1, <1>2, <1>4, PoolUntouched DEF Places
<1>6. SchedTypes' /\ HandInv' /\ Undisturbed'
  BY <1>1, <1>2, <1>4 DEF SchedTypes, HandInv, Undisturbed
<1>7. Submitted' = Submitted
  BY <1>2 DEF Submitted
<1>8. LineInv'
  BY <1>1, <1>4, <1>7 DEF LineInv, QueueInOrder, Arrivals
<1> QED
  BY <1>3, <1>5, <1>6, <1>8

\* Steps of the pool that leave the scheduler's own variables alone.
LEMMA PoolStepKeeps ==
  ASSUME SchedInv, PoolInv', Undisturbed', UNCHANGED schedVars, UNCHANGED sending,
         \A t \in Tasks :
           /\ InPool(t)' <=> InPool(t)
           /\ status'[t] # "none" <=> status[t] # "none"
           /\ outcome'[t] # "none" /\ outcome[t] = "none" => InPool(t)
  PROVE  SchedInv'
<1> USE DEF SchedInv
<1>1. UNCHANGED <<queue, priority, arrival, dispatcher, hand, withdrawn>>
  BY DEF schedVars
<1>2. InQueue' = InQueue /\ Submitted' = Submitted
  BY <1>1 DEF InQueue, Submitted
<1>3. Places'
  BY <1>1, <1>2 DEF Places
<1>4. SchedTypes' /\ HandInv'
  BY <1>1 DEF SchedTypes, HandInv
<1>5. LineInv'
  BY <1>1, <1>2 DEF LineInv, QueueInOrder, Arrivals
<1> QED
  BY <1>3, <1>4, <1>5

LEMMA WorkerKeepsSched ==
  ASSUME SchedInv, NEW w \in Workers, Worker(w), UNCHANGED schedVars
  PROVE  SchedInv'
<1>1. PoolInv /\ crashed = FALSE /\ TypeOK /\ OnePlace
  BY DEF SchedInv, PoolInv, Undisturbed
<1>2. PoolInv' /\ crashed' = FALSE
  <2>1. PoolInv' /\ ~crashed'
    BY <1>1, WorkerKeeps
  <2> QED
    BY <2>1 DEF PoolInv, TypeOK
<1>3. UNCHANGED <<canceling, waiter, sending>>
  BY <1>1, WorkerStatus
<1> QED
  BY <1>1, <1>2, <1>3, WorkerKeepsPool, PoolStepKeeps DEF SchedInv, Undisturbed

LEMMA ContextKeeps ==
  ASSUME SchedInv, NEW t \in Tasks, ContextEnds(t), UNCHANGED schedVars
  PROVE  SchedInv'
<1>1. /\ UNCHANGED <<taskChan, sending, wg, running, pc, held, outcome, status,
                     closed, canceling, waiter, crashed>>
      /\ ctxDone' = [ctxDone EXCEPT ![t] = TRUE]
  BY DEF ContextEnds
<1>2. PoolInv'
  BY <1>1, OthersKeep DEF SchedInv, PoolInv, TypeOK
<1> QED
  BY <1>1, <1>2, PoolUntouched, PoolStepKeeps DEF SchedInv, Undisturbed

-----------------------------------------------------------------------------
(***************************************************************************)
(* The dispatcher.                                                         *)
(***************************************************************************)
LEMMA PopKeeps ==
  ASSUME SchedInv, PopTask
  PROVE  SchedInv'
<1> USE DEF SchedInv
<1>1. /\ queue # <<>> /\ hand' = Head(queue) /\ queue' = Tail(queue)
      /\ dispatcher = "pop" /\ dispatcher' = "add"
      /\ UNCHANGED <<poolVars, priority, arrival, withdrawn>>
  BY DEF PopTask
<1>2. UNCHANGED <<taskChan, sending, wg, running, pc, held, outcome, status,
                  ctxDone, closed, canceling, waiter, crashed>>
  BY <1>1 DEF poolVars
<1>3. PoolInv'
  BY <1>2, OthersKeep DEF PoolInv, TypeOK
<1>4. /\ queue' \in Seq(Tasks) /\ hand' \in Tasks /\ hand' \in InQueue
      /\ InQueue' = InQueue \ {hand'} /\ Distinct(queue')
  <2>1. queue \in Seq(Tasks) /\ Distinct(queue)
    BY DEF SchedTypes, LineInv
  <2>2. /\ Head(queue) \in Elements(queue) /\ Elements(queue) \subseteq Tasks
        /\ Tail(queue) \in Seq(Tasks)
        /\ Elements(queue) = Elements(Tail(queue)) \union {Head(queue)}
        /\ Head(queue) \notin Elements(Tail(queue)) /\ Distinct(Tail(queue))
    BY <1>1, <2>1, TailElements
  <2> QED
    BY <1>1, <2>2, QueueIsElements
<1>5. InOrder(queue', priority, arrival)
  BY <1>1, TailInOrder DEF LineInv, QueueInOrder, SchedTypes
<1>6. hand = NoTask /\ hand' # NoTask /\ sending = {}
  BY <1>1, <1>4, PoolAssumption DEF HandInv
<1>7. Places'
  <2>1. \A u \in Tasks : u # hand
    BY <1>6, PoolAssumption
  <2> QED
    BY <1>1, <1>2, <1>4, <2>1, PoolUntouched DEF Places
<1>8. SchedTypes' /\ HandInv' /\ Undisturbed'
  BY <1>1, <1>2, <1>4, <1>6 DEF SchedTypes, HandInv, Undisturbed
<1>9. LineInv'
  BY <1>1, <1>2, <1>4, <1>5 DEF LineInv, QueueInOrder, Arrivals, Submitted
<1> QED
  BY <1>3, <1>7, <1>8, <1>9

LEMMA AddDirectlyKeeps ==
  ASSUME SchedInv, AddTaskDirectly
  PROVE  SchedInv'
<1> USE DEF SchedInv
<1>1. /\ dispatcher = "add" /\ dispatcher' = "send" /\ BeginSend(hand)
      /\ UNCHANGED <<taskChan, running, pc, held, outcome, status, ctxDone, closed,
                     canceling, waiter, crashed, queue, priority, arrival, hand, withdrawn>>
  BY DEF AddTaskDirectly
<1>2. hand \in Tasks /\ sending = {} /\ sending' = {hand}
  BY <1>1 DEF HandInv, SchedTypes, BeginSend
<1>3. ~InPool(hand) /\ status[hand] # "none" /\ outcome[hand] = "none"
  BY <1>2 DEF Places
<1>4. /\ hand \notin OnItsWay /\ ~closed[hand] /\ \A w \in Workers : held[w] # hand
      /\ status' \in {status, [status EXCEPT ![hand] = "pending"]} /\ status'[hand] # "none"
  BY <1>1, <1>2, <1>3 DEF InPool, OnItsWay
<1>5. PoolInv'
  BY <1>1, <1>2, <1>3, <1>4, BeginSendKeeps
<1>6. InQueue' = InQueue /\ Submitted' = Submitted
  BY <1>1 DEF InQueue, Submitted
<1>7. Places'
  BY <1>1, <1>6, PoolUntouched DEF Places
<1>8. SchedTypes' /\ HandInv' /\ Undisturbed'
  BY <1>1, <1>2, PoolAssumption DEF SchedTypes, HandInv, Undisturbed
<1>9. LineInv'
  BY <1>1, <1>6 DEF LineInv, QueueInOrder, Arrivals
<1> QED
  BY <1>5, <1>7, <1>8, <1>9

LEMMA SendDirectlyKeeps ==
  ASSUME SchedInv, SendDirectly
  PROVE  SchedInv'
<1> USE DEF SchedInv
<1>1. /\ dispatcher = "send" /\ dispatcher' = "check" /\ hand' = NoTask /\ SendTask(hand)
      /\ taskChan' = Append(taskChan, hand) /\ sending' = sending \ {hand}
      /\ UNCHANGED <<wg, running, pc, held, outcome, status, ctxDone, closed,
                     canceling, waiter, crashed, queue, priority, arrival, withdrawn>>
  BY DEF SendDirectly, SendTask
<1>2. hand \in Tasks /\ sending = {hand} /\ sending' = {}
  BY <1>1 DEF HandInv, SchedTypes
<1>3. PoolInv'
  BY <1>1, <1>2, SendTaskKeeps
<1>4. InChan' = InChan \union {hand}
  <2>1. InChan = Elements(taskChan) /\ InChan' = Elements(taskChan')
    BY DEF InChan, Elements
  <2>2. taskChan \in Seq(Tasks)
    BY DEF PoolInv, TypeOK
  <2> QED
    BY <1>1, <1>2, <2>1, <2>2, AppendElements
<1>5. \A u \in Tasks : InPool(u)' <=> InPool(u) \/ u = hand
  BY <1>1, <1>4 DEF InPool
<1>6. InQueue' = InQueue /\ Submitted' = Submitted
  BY <1>1 DEF InQueue, Submitted
<1>7. Places'
  <2>1. \A u \in Tasks : u # hand'
    BY <1>1, PoolAssumption
  <2> QED
    BY <1>1, <1>5, <1>6, <2>1 DEF Places
<1>8. SchedTypes' /\ HandInv' /\ Undisturbed'
  BY <1>1, <1>2 DEF SchedTypes, HandInv, Undisturbed
<1>9. LineInv'
  BY <1>1, <1>6 DEF LineInv, QueueInOrder, Arrivals
<1> QED
  BY <1>3, <1>7, <1>8, <1>9

\* The dispatcher looks at the counter or at an empty line.
LEMMA LookKeeps ==
  ASSUME SchedInv, SeeIdleWorker \/ PopNothing
  PROVE  SchedInv'
<1> USE DEF SchedInv
<1>1. /\ UNCHANGED <<poolVars, queue, priority, arrival, hand, withdrawn>>
      /\ dispatcher \in {"check", "pop"} /\ dispatcher' \in {"check", "pop"}
  BY DEF SeeIdleWorker, PopNothing
<1>2. UNCHANGED <<taskChan, sending, wg, running, pc, held, outcome, status,
                  ctxDone, closed, canceling, waiter, crashed>>
  BY <1>1 DEF poolVars
<1>3. PoolInv'
  BY <1>2, OthersKeep DEF PoolInv, TypeOK
<1>4. InQueue' = InQueue /\ Submitted' = Submitted
  BY <1>1, <1>2 DEF InQueue, Submitted
<1>5. Places'
  BY <1>1, <1>2, <1>4, PoolUntouched DEF Places
<1>6. SchedTypes' /\ HandInv' /\ Undisturbed'
  BY <1>1, <1>2 DEF SchedTypes, HandInv, Undisturbed
<1>7. LineInv'
  BY <1>1, <1>4 DEF LineInv, QueueInOrder, Arrivals
<1> QED
  BY <1>3, <1>5, <1>6, <1>7

LEMMA SchedStep == SchedInv /\ [Next]_vars => SchedInv'
<1> SUFFICES ASSUME SchedInv, [Next]_vars PROVE SchedInv'
  OBVIOUS
<1>1. CASE UNCHANGED vars
  <2>1. UNCHANGED <<taskChan, sending, wg, running, pc, held, outcome, status,
                    ctxDone, closed, canceling, waiter, crashed>> /\ UNCHANGED schedVars
    BY <1>1 DEF vars, poolVars
  <2>2. PoolInv'
    BY <2>1, OthersKeep DEF SchedInv, PoolInv, TypeOK
  <2> QED
    BY <2>1, <2>2, PoolUntouched, PoolStepKeeps DEF SchedInv, Undisturbed
<1>2. CASE Dispatch
  BY <1>2, LookKeeps, PopKeeps, AddDirectlyKeeps, SendDirectlyKeeps DEF Dispatch
<1> QED
  BY <1>1, <1>2, SubmitKeeps, WithdrawKeeps, ContextKeeps, WorkerKeepsSched DEF Next

LEMMA SchedInvariant == Spec => []SchedInv
BY SchedStarts, SchedStep, PTL DEF Spec

-----------------------------------------------------------------------------
(***************************************************************************)
(* SchedulerTypes: the scheduler's variables, the pool's among them, keep  *)
(* their types, for any tasks, workers, priorities and capacity.           *)
(***************************************************************************)
THEOREM SchedulerTypes == Spec => []SchedTypeOK
<1>1. SchedInv => SchedTypeOK
  BY DEF SchedInv, PoolInv, SchedTypes, SchedTypeOK
<1> QED
  BY <1>1, SchedInvariant, PTL

(***************************************************************************)
(* LineStaysInOrder: the waiting line is sorted by priority and, among     *)
(* equals, by arrival, after any number of submissions, withdrawals and    *)
(* pops - what the binary search of every Push relies on.                  *)
(***************************************************************************)
THEOREM LineStaysInOrder == Spec => []QueueInOrder
<1>1. SchedInv => QueueInOrder
  BY DEF SchedInv, LineInv
<1> QED
  BY <1>1, SchedInvariant, PTL

LEMMA PlacesMeanOnce == SchedInv => HandedOnce
<1> SUFFICES ASSUME SchedInv, NEW t \in Submitted
             PROVE  Cardinality({p \in 1 .. 4 :
                       CASE p = 1 -> t \in InQueue   [] p = 2 -> t \in withdrawn
                         [] p = 3 -> t = hand        [] p = 4 -> WithPool(t)}) = 1
  BY DEF HandedOnce
<1> DEFINE P(p) == CASE p = 1 -> t \in InQueue   [] p = 2 -> t \in withdrawn
                     [] p = 3 -> t = hand        [] p = 4 -> WithPool(t)
           S == {p \in 1 .. 4 : P(p)}
<1>1. t \in Tasks /\ status[t] # "none"
  BY DEF Submitted
<1>2. WithPool(t) <=> InPool(t)
  <2>1. sending \ {hand} = {}
    BY DEF SchedInv, HandInv
  <2> QED
    BY <2>1 DEF WithPool, InPool
<1>3. /\ P(1) <=> t \in InQueue
      /\ P(2) <=> t \in withdrawn
      /\ P(3) <=> t = hand
      /\ P(4) <=> WithPool(t)
  OBVIOUS
<1> HIDE DEF P
<1>4. /\ t \in InQueue => t \notin withdrawn /\ t # hand /\ ~WithPool(t)
      /\ t \in withdrawn => t # hand /\ ~WithPool(t)
      /\ t = hand => ~WithPool(t)
      /\ t \in InQueue \/ t \in withdrawn \/ t = hand \/ WithPool(t)
  BY <1>1, <1>2 DEF SchedInv, Places
<1>5. \E p \in 1 .. 4 : S = {p}
  <2>1. S \subseteq {1, 2, 3, 4}
    OBVIOUS
  <2>2. CASE t \in InQueue
    <3>1. S = {1}
      BY <1>3, <1>4, <2>1, <2>2
    <3> QED
      BY <3>1
  <2>3. CASE t \in withdrawn
    <3>1. S = {2}
      BY <1>3, <1>4, <2>1, <2>3
    <3> QED
      BY <3>1
  <2>4. CASE t = hand
    <3>1. S = {3}
      BY <1>3, <1>4, <2>1, <2>4
    <3> QED
      BY <3>1
  <2>5. CASE WithPool(t)
    <3>1. S = {4}
      BY <1>3, <1>4, <2>1, <2>5
    <3> QED
      BY <3>1
  <2> QED
    BY <1>4, <2>2, <2>3, <2>4, <2>5
<1>6. Cardinality(S) = 1
  BY <1>5, FS_Singleton
<1> QED
  BY <1>6 DEF P

(***************************************************************************)
(* NoTaskLostOrDoubled: a submitted task is in the line, withdrawn, in the *)
(* dispatcher's hand or with the pool, and in one of them only.            *)
(***************************************************************************)
THEOREM NoTaskLostOrDoubled == Spec => []HandedOnce
BY PlacesMeanOnce, SchedInvariant, PTL

-----------------------------------------------------------------------------
(***************************************************************************)
(* The scheduler implements TaskLifecycle too: what its pool shows of a    *)
(* task, and withdrawn for ever where CancelTaskByID answered true.        *)
(***************************************************************************)
LEMMA WaitingPhase ==
  ASSUME SchedInv, NEW t \in Tasks, status[t] # "none", ~InPool(t)
  PROVE  Phase(t) = "waiting"
<1>1. outcome[t] = "none" /\ ~closed[t] /\ \A w \in Workers : held[w] # t
  BY DEF SchedInv, Places, InPool
<1> QED
  BY <1>1 DEF Phase, HeldAt

LEMMA SchedMoves ==
  ASSUME NEW t \in Tasks, t \notin withdrawn, UNCHANGED withdrawn,
         NEW from, NEW to, Moves(t, from, to)
  PROVE  SchedLifecycle!Move(t, from, to)
<1> DEFINE ph == [u \in Tasks |-> SchedPhase(u)]
<1>1. SchedPhase(t) = from /\ SchedPhase(t)' = to
  BY DEF SchedPhase, Moves
<1>2. \A u \in Tasks \ {t} : SchedPhase(u)' = SchedPhase(u)
  BY DEF SchedPhase, Moves
<1>3. ph' = [u \in Tasks |-> IF u = t THEN to ELSE SchedPhase(u)]
  BY <1>1, <1>2
<1>4. ph' = [ph EXCEPT ![t] = to] /\ ph[t] = from
  BY <1>1, <1>3
<1> QED
  BY <1>4 DEF SchedLifecycle!Move

LEMMA SchedStutters ==
  ASSUME SamePhases, UNCHANGED <<ctxDone, withdrawn>>
  PROVE  UNCHANGED SchedLifecycle!vars
<1>1. \A u \in Tasks : SchedPhase(u)' = SchedPhase(u)
  BY DEF SamePhases, SchedPhase
<1> QED
  BY <1>1 DEF SchedLifecycle!vars

\* A withdrawn task shows itself as that, so no more handlers are seen.
LEMMA SchedRoom ==
  ASSUME RoomLeft
  PROVE  Cardinality({u \in Tasks : SchedPhase(u) = "running"}) < Cardinality(Workers)
<1> DEFINE R == {u \in Tasks : Phase(u) = "running"}
           Q == {u \in Tasks : SchedPhase(u) = "running"}
<1>1. Q \subseteq R
  BY DEF SchedPhase
<1>2. IsFiniteSet(R)
  BY PoolAssumption, FS_Subset
<1>3. Cardinality(Q) <= Cardinality(R) /\ Cardinality(Q) \in Nat /\ Cardinality(R) \in Nat
      /\ Cardinality(Workers) \in Nat
  <2> HIDE DEF Q, R
  <2> QED
    BY <1>1, <1>2, PoolAssumption, FS_Subset, FS_CardinalityType
<1>4. Cardinality(R) < Cardinality(Workers)
  BY DEF RoomLeft
<1> HIDE DEF Q, R
<1>5. Cardinality(Q) < Cardinality(Workers)
  BY <1>3, <1>4
<1> QED
  BY <1>5 DEF Q

LEMMA SchedWorkerSteps ==
  ASSUME SchedInv, SchedInv', AnswerInv, NEW w \in Workers, Worker(w), UNCHANGED schedVars
  PROVE  SchedLifecycle!Next \/ UNCHANGED SchedLifecycle!vars
<1>0. TypeOK /\ OnePlace /\ TypeOK' /\ OnePlace' /\ AnswerReady /\ UNCHANGED withdrawn
  BY DEF SchedInv, PoolInv, AnswerInv, schedVars
<1>1. UNCHANGED ctxDone /\ (SamePhases \/ \E t \in Tasks : held[w] = t /\ Advances(t))
  BY <1>0, WorkerMoves
<1>2. CASE SamePhases
  BY <1>0, <1>1, <1>2, SchedStutters
<1>3. ASSUME NEW t \in Tasks, held[w] = t, Advances(t) PROVE SchedLifecycle!Next
  <2>0. t \notin withdrawn
    BY <1>3 DEF SchedInv, Places, InPool
  <2>1. CASE Moves(t, "waiting", "answered") /\ ctxDone[t]
    BY <1>0, <1>1, <2>0, <2>1, SchedMoves DEF SchedLifecycle!Skip, SchedLifecycle!Next
  <2>2. CASE Moves(t, "waiting", "running") /\ RoomLeft
    <3>1. {u \in Tasks : [v \in Tasks |-> SchedPhase(v)][u] = "running"}
            = {u \in Tasks : SchedPhase(u) = "running"}
      OBVIOUS
    <3>2. \A S : SchedLifecycle!Cardinality(S) = Cardinality(S)
      BY DEF SchedLifecycle!Cardinality, Cardinality
    <3>3. SchedLifecycle!Move(t, "waiting", "running")
      BY <1>0, <2>0, <2>2, SchedMoves
    <3>4. Cardinality({u \in Tasks : SchedPhase(u) = "running"}) < Cardinality(Workers)
      BY <2>2, SchedRoom
    <3>5. SchedLifecycle!Start(t)
      BY <1>1, <3>1, <3>2, <3>3, <3>4 DEF SchedLifecycle!Start
    <3> QED
      BY <3>5 DEF SchedLifecycle!Next
  <2>3. CASE Moves(t, "running", "returned")
    BY <1>0, <1>1, <2>0, <2>3, SchedMoves DEF SchedLifecycle!Return, SchedLifecycle!Next
  <2>4. CASE Moves(t, "returned", "answered")
    BY <1>0, <1>1, <2>0, <2>4, SchedMoves DEF SchedLifecycle!Answer, SchedLifecycle!Next
  <2> QED
    BY <1>3, <2>1, <2>2, <2>3, <2>4 DEF Advances
<1> QED
  BY <1>1, <1>2, <1>3

LEMMA SubmitSteps ==
  ASSUME SchedInv, NEW t \in Tasks, SubmitTask(t)
  PROVE  SchedLifecycle!Submit(t)
<1>1. /\ status[t] = "none" /\ status' = [status EXCEPT ![t] = "pending"]
      /\ UNCHANGED <<pc, held, outcome, closed, ctxDone, withdrawn>>
  BY DEF SubmitTask
<1>2. t \notin withdrawn /\ ~InPool(t) /\ outcome[t] = "none"
  BY <1>1 DEF SchedInv, Places
<1>3. \A u : HeldAt(u, {"handle"})' = HeldAt(u, {"handle"})
  BY <1>1 DEF HeldAt
<1>4. status'[t] = "pending" /\ \A u \in Tasks \ {t} : status'[u] = status[u]
  BY <1>1 DEF SchedInv, PoolInv, TypeOK
<1>5. ~HeldAt(t, {"handle"}) /\ ~closed[t]
  BY <1>2 DEF HeldAt, InPool
<1>6. Moves(t, "new", "waiting")
  BY <1>1, <1>2, <1>3, <1>4, <1>5 DEF Moves, Phase
<1> QED
  BY <1>1, <1>2, <1>6, SchedMoves DEF SchedLifecycle!Submit

LEMMA WithdrawSteps ==
  ASSUME SchedInv, NEW t \in Tasks, CancelTaskByID(t)
  PROVE  SchedLifecycle!Withdraw(t)
<1>1. /\ t \in InQueue /\ withdrawn' = withdrawn \union {t}
      /\ UNCHANGED <<pc, held, outcome, closed, status, ctxDone>>
  BY DEF CancelTaskByID, InQueue, poolVars
<1>2. t \notin withdrawn /\ ~InPool(t) /\ status[t] # "none"
  BY <1>1 DEF SchedInv, Places
<1>3. SchedPhase(t) = "waiting" /\ SchedPhase(t)' = "withdrawn"
  BY <1>1, <1>2, WaitingPhase DEF SchedPhase
<1>4. SamePhases
  BY <1>1 DEF SamePhases, Phase, HeldAt
<1>5. \A u \in Tasks \ {t} : SchedPhase(u)' = SchedPhase(u)
  BY <1>1, <1>4 DEF SamePhases, SchedPhase
<1> DEFINE ph == [u \in Tasks |-> SchedPhase(u)]
<1>6. ph' = [u \in Tasks |-> IF u = t THEN "withdrawn" ELSE SchedPhase(u)]
  BY <1>3, <1>5
<1>7. ph' = [ph EXCEPT ![t] = "withdrawn"] /\ ph[t] = "waiting"
  BY <1>3, <1>6
<1> QED
  BY <1>1, <1>7 DEF SchedLifecycle!Withdraw, SchedLifecycle!Move

LEMMA ContextSteps ==
  ASSUME NEW t \in Tasks, ContextEnds(t), UNCHANGED schedVars
  PROVE  SchedLifecycle!Cancel(t)
<1>1. /\ status[t] # "none" /\ ctxDone' = [ctxDone EXCEPT ![t] = TRUE]
      /\ UNCHANGED <<pc, held, outcome, closed, status, withdrawn>>
  BY DEF ContextEnds, schedVars
<1>2. SchedPhase(t) # "new"
  BY <1>1 DEF SchedPhase, Phase
<1>3. \A u \in Tasks : SchedPhase(u)' = SchedPhase(u)
  BY <1>1 DEF SchedPhase, Phase, HeldAt
<1> QED
  BY <1>1, <1>2, <1>3 DEF SchedLifecycle!Cancel

LEMMA DispatchShowsNothing ==
  ASSUME Dispatch \/ UNCHANGED vars
  PROVE  UNCHANGED SchedLifecycle!vars
<1>1. UNCHANGED <<pc, held, outcome, closed, status, ctxDone, withdrawn>>
  BY DEF Dispatch, SeeIdleWorker, PopNothing, PopTask, AddTaskDirectly, SendDirectly, SendTask,
         vars, poolVars, schedVars
<1>2. SamePhases
  BY <1>1 DEF SamePhases, Phase, HeldAt
<1> QED
  BY <1>1, <1>2, SchedStutters

(***************************************************************************)
(* SchedulerAnswers: behind the scheduler too, the status of an answered   *)
(* task is what its handler returned, or "canceled" if its context had     *)
(* ended.                                                                  *)
(***************************************************************************)
LEMMA SchedStepAnswers == SchedInv /\ AnswerInv /\ [Next]_vars => AnswerInv'
<1> SUFFICES ASSUME SchedInv, AnswerInv, [Next]_vars PROVE AnswerInv'
  OBVIOUS
<1>1. TypeOK /\ OnePlace
  BY DEF SchedInv, PoolInv
<1>2. \A v \in Workers : pc[v] \in {"send", "skip", "skipSend", "skipDone"} => held[v] \in Tasks
  BY <1>1, HeldIsTask
<1>3. ASSUME NEW w \in Workers, Worker(w) PROVE AnswerInv'
  BY <1>1, <1>3, WorkerAnswers
<1> USE DEF TypeOK, AnswerInv, AnswerMatchesStatus, AnswerReady, Agrees
<1>4. CASE UNCHANGED <<pc, held, outcome, status, ctxDone, closed>>
  BY <1>4
<1>5. ASSUME NEW t \in Tasks, SubmitTask(t) PROVE AnswerInv'
  <2>1. ~closed[t] /\ \A v \in Workers : held[v] # t
    BY <1>5 DEF SubmitTask, SchedInv, Places, InPool
  <2> QED
    BY <1>1, <1>2, <1>5, <2>1 DEF SubmitTask
<1>6. ASSUME NEW t \in Tasks, ContextEnds(t) PROVE AnswerInv'
  BY <1>1, <1>2, <1>6 DEF ContextEnds
<1>7. CASE Dispatch \/ UNCHANGED vars \/ \E t \in Tasks : CancelTaskByID(t)
  BY <1>4, <1>7 DEF Dispatch, SeeIdleWorker, PopNothing, PopTask, AddTaskDirectly, SendDirectly,
                    SendTask, CancelTaskByID, vars, poolVars, schedVars
<1> QED
  BY <1>3, <1>5, <1>6, <1>7 DEF Next

LEMMA SchedAnswers == Spec => [](SchedInv /\ AnswerInv)
<1>1. Init => AnswerInv
  BY DEF Init, PoolInit, AnswerInv, AnswerMatchesStatus, AnswerReady
<1> QED
  BY <1>1, SchedInvariant, SchedStepAnswers, PTL DEF Spec

THEOREM SchedulerAnswers == Spec => []AnswerMatchesStatus
BY SchedAnswers, PTL DEF AnswerInv

(***************************************************************************)
(* SchedulerImplements, the safety part of ImplementsFairLifecycle: from   *)
(* its submission through queue, dispatcher, channel and workers, for any  *)
(* tasks, priorities and workers, a task is started at most once, beside   *)
(* fewer others than there are workers, answered at most once, and neither *)
(* started nor answered once CancelTaskByID has answered true for it.      *)
(***************************************************************************)
THEOREM SchedulerImplements == Spec => SchedLifecycle!Spec
<1>1. Init => SchedLifecycle!Init
  BY DEF Init, PoolInit, SchedLifecycle!Init, SchedPhase, Phase
<1>2. SchedInv /\ SchedInv' /\ AnswerInv /\ [Next]_vars
        => [SchedLifecycle!Next]_(SchedLifecycle!vars)
  <2> SUFFICES ASSUME SchedInv, SchedInv', AnswerInv, [Next]_vars
               PROVE  SchedLifecycle!Next \/ UNCHANGED SchedLifecycle!vars
    OBVIOUS
  <2>1. ASSUME NEW w \in Workers, Worker(w), UNCHANGED schedVars
        PROVE  SchedLifecycle!Next \/ UNCHANGED SchedLifecycle!vars
    BY <2>1, SchedWorkerSteps
  <2>2. ASSUME NEW t \in Tasks, SubmitTask(t) PROVE SchedLifecycle!Next
    BY <2>2, SubmitSteps DEF SchedLifecycle!Next
  <2>3. ASSUME NEW t \in Tasks, CancelTaskByID(t) PROVE SchedLifecycle!Next
    BY <2>3, WithdrawSteps DEF SchedLifecycle!Next
  <2>4. ASSUME NEW t \in Tasks, ContextEnds(t), UNCHANGED schedVars PROVE SchedLifecycle!Next
    BY <2>4, ContextSteps DEF SchedLifecycle!Next
  <2> QED
    BY <2>1, <2>2, <2>3, <2>4, DispatchShowsNothing DEF Next
<1> QED
  BY <1>1, <1>2, SchedAnswers, PTL DEF Spec, SchedLifecycle!Spec
=============================================================================
