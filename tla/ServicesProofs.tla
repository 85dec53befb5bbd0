--------------------------- MODULE ServicesProofs ---------------------------
(***************************************************************************)
(* Proofs about what goes from hand to hand: the query to a language model *)
(* and its interrupts, the tasks of the task runner, the steps of an agent *)
(* run, the packets of a pipeline and their routes.  Each component has an *)
(* inductive invariant, the proof that every operation keeps it, and what  *)
(* follows from it.  The last sections are about Services: a behaviour of  *)
(* it is projected to each of its services, is a behaviour of that service *)
(* or leaves it alone, and so keeps the inductive invariant that this      *)
(* module or StoreProofs proves of the service; the question in it is      *)
(* never another, and AlgorithmProofs has the answers to all.              *)
(***************************************************************************)
EXTENDS Services, StoreProofs, AlgorithmProofs

-----------------------------------------------------------------------------
(***************************************************************************)
(* The query to a language model, for any queries and any number of        *)
(* interrupts, for each of the six providers.                              *)
(***************************************************************************)
(***************************************************************************)
(* What the rows of LLMProviders have in common: an end of a tracker       *)
(* presupposes that one was opened, only an answer or the caller's own     *)
(* refusal of it is a success, and a query that takes a token is silent.   *)
(***************************************************************************)
RowIsSound(row, c) ==
  /\ row.opens.begin \in Nat /\ row.opens.ready \in Nat
  /\ \A way \in DOMAIN row.ways :
       /\ row.ways[way] \in {"complete", "error", "silent"}
       /\ row.ways[way] = "complete" => way \in {"done", "callback"}
       /\ row.ways[way] # "silent" => row.opens.begin + row.opens.ready >= 1
  /\ c = "answer" => ("done" \in DOMAIN row.ways => row.ways["done"] = "complete")

LEMMA RowsAreSound ==
  ASSUME NEW p \in Providers, NEW c \in {"answer", "stream"}
  PROVE  RowIsSound(QueryFunction(p, c), c)
<1>1. CASE p = "openai"
  BY <1>1 DEF RowIsSound, QueryFunction, Opens, OpenAIAnswerOpens, OpenAIAnswerWays,
     OpenAIStreamOpens, OpenAIStreamWays
<1>2. CASE p = "ollama"
  BY <1>2 DEF RowIsSound, QueryFunction, Opens, OllamaQueryWithOptions, OllamaQueryStream
<1>3. CASE p = "lmstudio"
  BY <1>3 DEF RowIsSound, QueryFunction, Opens, LMStudioQueryWithOptions, LMStudioQueryStream
<1>4. CASE p = "anthropic"
  BY <1>4 DEF RowIsSound, QueryFunction, Opens, AnthropicQueryWithOptions, AnthropicQueryStream
<1>5. CASE p = "coze"
  BY <1>5 DEF RowIsSound, QueryFunction, Opens, CozeQueryWithOptions, CozeQueryStream
<1>6. CASE p = "alibaba"
  BY <1>6 DEF RowIsSound, QueryFunction, Opens, AlibabaQueryWithOptions, AlibabaQueryStream
<1> QED
  BY <1>1, <1>2, <1>3, <1>4, <1>5, <1>6 DEF Providers

\* A query takes a token itself only with a provider that is silent about it.
LEMMA TakersAreSilent ==
  ASSUME NEW p \in Providers, NEW c \in {"answer", "stream"}, Hears[p] \in {"poll", "once"}
  PROVE  QueryFunction(p, c).ways["interrupted"] = "silent"
<1>1. p \in {"coze", "alibaba"}
  BY DEF Hears, Providers
<1>2. CASE p = "coze"
  BY <1>2 DEF QueryFunction, CozeQueryWithOptions, CozeQueryStream
<1>3. CASE p = "alibaba"
  BY <1>3 DEF QueryFunction, AlibabaQueryWithOptions, AlibabaQueryStream
<1> QED
  BY <1>1, <1>2, <1>3

LEMMA SlotIsOpenAI == \A p \in Providers : Hears[p] = "slot" <=> p = "openai"
BY DEF Hears, Providers

-----------------------------------------------------------------------------
(***************************************************************************)
(* The inductive invariant of the interrupts.  Wired: only what the        *)
(* provider uses is ever used.  Aims: an interrupt aims at a query that    *)
(* has registered, and found it in the slot after it did.                  *)
(***************************************************************************)
Wired ==
  /\ Hears[provider] # "slot" => slot = NoQuery /\ newest = NoQuery /\ aimed = {}
  /\ Hears[provider] = "slot" => ~token
  /\ \A q \in Queries : at[q] = "start" => Hears[provider] = "once"
  /\ \A q \in Queries : watcher[q] = "waiting" => Hears[provider] = "watcher"
  /\ \A q \in Queries : at[q] # "idle" => call[q] \in {"answer", "stream"}

Aims ==
  /\ \A q \in Queries : heardBy[q] <= interrupts
  /\ Hears[provider] = "slot" => \A q \in cancelled \union aimed :
       at[q] \in {"send", "receive", "clear", "returned"} /\ heardBy[q] < interrupts

NewestIsHeld ==
  /\ newest # NoQuery /\ Registered(newest) => slot = newest
  /\ slot # NoQuery => Registered(slot)

LLMInv == LLMTypeOK /\ Wired /\ Aims /\ NewestIsHeld /\ InterruptEndsOne

LEMMA LLMStarts == LLMInit => LLMInv
<1> SUFFICES ASSUME LLMInit PROVE LLMInv
  OBVIOUS
<1>1. provider \in Providers /\ reachable \in BOOLEAN
  <2>1. PICK name \in Providers \union {"", "other"}, option \in {"", "ollama"},
             baseURL \in {"none", "url", "id"} :
               /\ provider = Selected(name, option) /\ reachable = Reachable(provider, baseURL)
    BY DEF LLMInit, HandlerInit
  <2>2. provider \in Providers
    BY <2>1 DEF Selected, normalizeProvider, Providers
  <2>3. reachable \in BOOLEAN
    BY <2>1 DEF Reachable
  <2> QED
    BY <2>2, <2>3
<1>2. LLMTypeOK
  BY <1>1 DEF LLMInit, QueriesInit, LLMTypeOK, Stages
<1>3. Wired /\ Aims /\ NewestIsHeld
  BY DEF LLMInit, QueriesInit, Wired, Aims, NewestIsHeld
<1>4. InterruptEndsOne
  BY FS_EmptySet DEF LLMInit, QueriesInit, InterruptEndsOne, Tokens
<1> QED
  BY <1>2, <1>3, <1>4 DEF LLMInv

-----------------------------------------------------------------------------
(***************************************************************************)
(* The steps that only move a query on: nothing of the interrupts changes. *)
(***************************************************************************)
Quiet == UNCHANGED <<provider, token, slot, aimed, interrupts, cancelled, newest, heardBy>>

Onward(from, to) ==
  Hears[provider] = "slot" =>
    /\ from \in {"send", "receive"} => to \in {"send", "receive", "clear"}
    /\ from = "clear" => to = "clear"
    /\ from = "returned" => to = "returned"
    /\ to \in {"send", "receive", "clear"} => from \in {"send", "receive", "clear"}

LEMMA QuietKeeps ==
  ASSUME LLMInv, LLMTypeOK', Quiet, NEW q \in Queries,
         \A r \in Queries \ {q} : at'[r] = at[r] /\ call'[r] = call[r] /\ watcher'[r] = watcher[r],
         Onward(at[q], at'[q]),
         at'[q] = "start" => Hears[provider] = "once",
         at'[q] # "idle" => call'[q] \in {"answer", "stream"},
         watcher'[q] = "waiting" => Hears[provider] = "watcher"
  PROVE  LLMInv'
<1>1. Wired'
  BY DEF LLMInv, Wired, Quiet
<1>2. Aims'
  BY DEF LLMInv, LLMTypeOK, Aims, Quiet, Onward
<1>3. NewestIsHeld'
  BY DEF LLMInv, LLMTypeOK, NewestIsHeld, Quiet, Registered, Wired, Onward
<1>4. InterruptEndsOne'
  BY DEF LLMInv, InterruptEndsOne, Tokens, Quiet
<1> QED
  BY <1>1, <1>2, <1>3, <1>4 DEF LLMInv

(***************************************************************************)
(* Trackers keep their type.                                               *)
(***************************************************************************)
Trackers == [Queries -> [opened : Nat, complete : Nat, error : Nat]]

LEMMA OpeningKeepsType ==
  ASSUME tracker \in Trackers, NEW q \in Queries, NEW n \in Nat, NewLLMRequestTracker(q, n)
  PROVE  tracker' \in Trackers /\ tracker'[q].opened = tracker[q].opened + n
         /\ tracker'[q].complete = tracker[q].complete /\ tracker'[q].error = tracker[q].error
         /\ \A r \in Queries \ {q} : tracker'[r] = tracker[r]
BY DEF NewLLMRequestTracker, Trackers

LEMMA EndingKeepsType ==
  ASSUME tracker \in Trackers, NEW q \in Queries, NEW effect, EndTracker(q, effect)
  PROVE  tracker' \in Trackers
         /\ tracker'[q].opened = tracker[q].opened
         /\ tracker'[q].complete = tracker[q].complete + (IF effect = "complete" THEN 1 ELSE 0)
         /\ tracker'[q].error = tracker[q].error + (IF effect = "error" THEN 1 ELSE 0)
         /\ \A r \in Queries \ {q} : tracker'[r] = tracker[r]
<1>1. CASE effect = "complete" /\ Complete(q)
  BY <1>1 DEF Complete, Trackers
<1>2. CASE effect = "error" /\ Error(q)
  BY <1>2 DEF Error, Trackers
<1>3. CASE effect = "silent" /\ UNCHANGED tracker
  BY <1>3 DEF Trackers
<1> QED
  BY <1>1, <1>2, <1>3 DEF EndTracker

\* The row of a query that has begun.
LEMMA RowOfQuery ==
  ASSUME LLMInv, NEW q \in Queries, at[q] # "idle"
  PROVE  /\ call[q] \in {"answer", "stream"} /\ RowIsSound(Row(q), call[q])
         /\ Row(q).opens.begin \in Nat /\ Row(q).opens.ready \in Nat
BY RowsAreSound DEF LLMInv, LLMTypeOK, Wired, Row, RowIsSound

-----------------------------------------------------------------------------
LEMMA BeginKeeps ==
  ASSUME LLMInv, NEW q \in Queries, NEW c \in {"answer", "stream"}, BeginQuery(q, c)
  PROVE  LLMInv'
<1>1. Quiet
  BY DEF BeginQuery, Quiet
<1>2. QueryFunction(provider, c).opens.begin \in Nat
  BY RowsAreSound DEF RowIsSound, LLMInv, LLMTypeOK
<1>3. tracker' \in Trackers
  BY <1>2, OpeningKeepsType DEF BeginQuery, LLMInv, LLMTypeOK, Trackers
<1>4. /\ at' \in [Queries -> Stages] /\ at'[q] \in {"start", "rewrite"}
      /\ at'[q] = "start" => Hears[provider] = "once"
      /\ \A r \in Queries \ {q} : at'[r] = at[r]
  BY DEF BeginQuery, LLMInv, LLMTypeOK, Stages
<1>5. /\ watcher' \in [Queries -> {"none", "waiting", "gone"}]
      /\ watcher'[q] = "waiting" => Hears[provider] = "watcher"
      /\ \A r \in Queries \ {q} : watcher'[r] = watcher[r]
  BY DEF BeginQuery, LLMInv, LLMTypeOK
<1>6. /\ call' \in [Queries -> {"none", "answer", "stream"}] /\ call'[q] = c
      /\ \A r \in Queries \ {q} : call'[r] = call[r]
  BY DEF BeginQuery, LLMInv, LLMTypeOK
<1>7. LLMTypeOK'
  BY <1>1, <1>3, <1>4, <1>5, <1>6 DEF BeginQuery, LLMInv, LLMTypeOK, Trackers
<1>8. Onward(at[q], at'[q])
  BY <1>4 DEF BeginQuery, Onward
<1> QED
  BY <1>1, <1>4, <1>5, <1>6, <1>7, <1>8, QuietKeeps

\* Steps that change nothing but the stage and the notes of one query.
LEMMA StageKeeps ==
  ASSUME LLMInv, NEW q \in Queries, NEW to \in Stages,
         at' = [at EXCEPT ![q] = to], at[q] # "idle", to \notin {"idle", "start"},
         Onward(at[q], to),
         UNCHANGED <<provider, reachable, token, slot, aimed, interrupts, call, watcher, cancelled,
                     tracker, newest, heardBy>>
  PROVE  LLMInv'
<1>1. at' \in [Queries -> Stages] /\ at'[q] = to /\ \A r \in Queries \ {q} : at'[r] = at[r]
  BY DEF LLMInv, LLMTypeOK
<1>2. LLMTypeOK'
  BY <1>1 DEF LLMInv, LLMTypeOK
<1>3. Quiet
  BY DEF Quiet
<1>4. call'[q] \in {"answer", "stream"} /\ (watcher'[q] = "waiting" => Hears[provider] = "watcher")
  BY DEF LLMInv, Wired
<1> QED
  BY <1>1, <1>2, <1>3, <1>4, QuietKeeps

LEMMA PreparingKeeps ==
  ASSUME LLMInv, NEW q \in Queries,
         \/ StartUninterrupted(q) \/ Prepare(q, "rewrite") \/ Prepare(q, "expand") \/ Send(q)
  PROVE  LLMInv'
<1>1. CASE StartUninterrupted(q)
  BY <1>1, StageKeeps DEF StartUninterrupted, Stages, Onward
<1>2. CASE Prepare(q, "rewrite")
  BY <1>2, StageKeeps DEF Prepare, After, Stages, Onward
<1>3. CASE Prepare(q, "expand")
  BY <1>3, StageKeeps DEF Prepare, After, Stages, Onward
<1>4. CASE Send(q)
  BY <1>4, StageKeeps DEF Send, Stages, Onward
<1> QED
  BY <1>1, <1>2, <1>3, <1>4

LEMMA WayOutKeeps ==
  ASSUME LLMInv, NEW q \in Queries, WayOut(q)
  PROVE  LLMInv'
<1>1. PICK way \in WaysOut(q) : Leave(q, way)
  BY DEF WayOut
<1>2. at[q] \in {"send", "receive"}
  BY DEF WaysOut
<1>3. Quiet /\ UNCHANGED <<reachable, call, watcher>>
  BY <1>1 DEF WayOut, Leave, Quiet
<1>4. tracker' \in Trackers
  BY <1>1, EndingKeepsType DEF Leave, LLMInv, LLMTypeOK, Trackers
<1>5. /\ at' \in [Queries -> Stages] /\ \A r \in Queries \ {q} : at'[r] = at[r]
      /\ at'[q] = IF Hears[provider] = "slot" THEN "clear" ELSE "returned"
  BY <1>1 DEF Leave, LLMInv, LLMTypeOK, Stages
<1>6. LLMTypeOK'
  BY <1>3, <1>4, <1>5 DEF Quiet, LLMInv, LLMTypeOK, Trackers
<1>7. Onward(at[q], at'[q])
  BY <1>2, <1>5 DEF Onward
<1>8. call'[q] \in {"answer", "stream"} /\ (watcher'[q] = "waiting" => Hears[provider] = "watcher")
  BY <1>2, <1>3 DEF LLMInv, Wired
<1> QED
  BY <1>3, <1>5, <1>6, <1>7, <1>8, QuietKeeps

LEMMA WatcherLeavesKeeps ==
  ASSUME LLMInv, NEW q \in Queries, WatcherLeaves(q)
  PROVE  LLMInv'
<1>1. Quiet /\ UNCHANGED <<reachable, at, call, tracker>>
  BY DEF WatcherLeaves, Quiet
<1>2. /\ watcher' \in [Queries -> {"none", "waiting", "gone"}] /\ watcher'[q] = "gone"
      /\ \A r \in Queries \ {q} : watcher'[r] = watcher[r]
  BY DEF WatcherLeaves, LLMInv, LLMTypeOK
<1>3. LLMTypeOK'
  BY <1>1, <1>2 DEF Quiet, LLMInv, LLMTypeOK
<1>4. /\ at'[q] = "start" => Hears[provider] = "once"
      /\ at'[q] # "idle" => call'[q] \in {"answer", "stream"}
  BY <1>1 DEF LLMInv, Wired
<1>5. Onward(at[q], at'[q])
  BY <1>1 DEF Onward
<1> QED
  BY <1>1, <1>2, <1>3, <1>4, <1>5, QuietKeeps

-----------------------------------------------------------------------------
(***************************************************************************)
(* The slot.  A query that registers is the newest and is held; the one    *)
(* that clears the slot leaves a newer one alone.                          *)
(***************************************************************************)
LEMMA ReadyKeeps ==
  ASSUME LLMInv, NEW q \in Queries, Ready(q)
  PROVE  LLMInv'
<1>1. tracker' \in Trackers
  BY RowOfQuery, OpeningKeepsType DEF Ready, LLMInv, LLMTypeOK, Trackers
<1>2. /\ UNCHANGED <<provider, reachable, token, aimed, interrupts, call, watcher, cancelled>>
      /\ at[q] = "ready"
  BY DEF Ready
<1>3. /\ at' \in [Queries -> Stages] /\ at'[q] = "send"
      /\ \A r \in Queries \ {q} : at'[r] = at[r]
  BY DEF Ready, LLMInv, LLMTypeOK, Stages
<1>4. Hears[provider] = "slot" =>
        /\ slot' = q /\ newest' = q /\ heardBy'[q] = interrupts
        /\ heardBy' \in [Queries -> Nat] /\ \A r \in Queries \ {q} : heardBy'[r] = heardBy[r]
  BY DEF Ready, setCurrentCancel, LLMInv, LLMTypeOK
<1>5. Hears[provider] # "slot" => UNCHANGED <<slot, newest, heardBy>>
  BY DEF Ready
<1>6. LLMTypeOK'
  BY <1>1, <1>2, <1>3, <1>4, <1>5 DEF LLMInv, LLMTypeOK, Trackers
<1>7. Wired'
  BY <1>2, <1>3, <1>5 DEF LLMInv, Wired
<1>8. Aims'
  <2>1. \A r \in Queries : heardBy'[r] <= interrupts /\ (r # q => heardBy'[r] = heardBy[r])
    BY <1>4, <1>5 DEF LLMInv, LLMTypeOK, Aims
  <2>2. Hears[provider] = "slot" => q \notin cancelled \union aimed
    BY <1>2 DEF LLMInv, Aims
  <2> QED
    BY <1>2, <1>3, <2>1, <2>2 DEF LLMInv, LLMTypeOK, Aims
<1>9. NewestIsHeld'
  BY <1>3, <1>4, <1>5 DEF LLMInv, Wired, NewestIsHeld, Registered
<1>10. InterruptEndsOne'
  BY <1>2 DEF LLMInv, InterruptEndsOne, Tokens
<1> QED
  BY <1>6, <1>7, <1>8, <1>9, <1>10 DEF LLMInv

LEMMA ClearKeeps ==
  ASSUME LLMInv, NEW q \in Queries, ClearSlot(q)
  PROVE  LLMInv'
<1>1. /\ UNCHANGED <<provider, reachable, token, aimed, interrupts, call, watcher, cancelled,
                     tracker, newest, heardBy>>
      /\ at[q] = "clear" /\ slot' = IF slot = q THEN NoQuery ELSE slot
  BY DEF ClearSlot, clearCurrentCancel
<1>2. /\ at' \in [Queries -> Stages] /\ at'[q] = "returned"
      /\ \A r \in Queries \ {q} : at'[r] = at[r]
  BY DEF ClearSlot, LLMInv, LLMTypeOK, Stages
<1>3. LLMTypeOK'
  BY <1>1, <1>2 DEF LLMInv, LLMTypeOK
<1>4. Wired'
  BY <1>1, <1>2 DEF LLMInv, Wired
<1>5. Aims'
  BY <1>1, <1>2 DEF LLMInv, LLMTypeOK, Aims
<1>6. NewestIsHeld'
  BY <1>1, <1>2 DEF LLMInv, LLMTypeOK, NewestIsHeld, Registered
<1>7. InterruptEndsOne'
  BY <1>1 DEF LLMInv, InterruptEndsOne, Tokens
<1> QED
  BY <1>3, <1>4, <1>5, <1>6, <1>7 DEF LLMInv

-----------------------------------------------------------------------------
(***************************************************************************)
(* Counting.  One more query that is aimed at or cancelled costs a token   *)
(* or a call.                                                              *)
(***************************************************************************)
LEMMA OneMore ==
  ASSUME NEW S, IsFiniteSet(S), NEW T, NEW x, T \subseteq S \union {x}
  PROVE  /\ IsFiniteSet(T) /\ Cardinality(T) \in Nat /\ Cardinality(S) \in Nat
         /\ Cardinality(T) <= Cardinality(S) + 1
<1>1. IsFiniteSet(S \union {x}) /\ Cardinality(S \union {x}) <= Cardinality(S) + 1
  <2>1. IsFiniteSet(S \union {x}) /\ Cardinality(S) \in Nat
        /\ Cardinality(S \union {x}) = IF x \in S THEN Cardinality(S) ELSE Cardinality(S) + 1
    BY FS_AddElement, FS_CardinalityType
  <2> QED
    BY <2>1
<1>2. IsFiniteSet(T) /\ Cardinality(T) <= Cardinality(S \union {x})
  BY <1>1, FS_Subset
<1> QED
  BY <1>1, <1>2, FS_CardinalityType

LEMMA NoMore ==
  ASSUME NEW S, IsFiniteSet(S), NEW T, T \subseteq S
  PROVE  Cardinality(T) \in Nat /\ Cardinality(S) \in Nat /\ Cardinality(T) <= Cardinality(S)
BY FS_Subset, FS_CardinalityType

LEMMA EndedAreFinite == LLMInv => IsFiniteSet(cancelled \union aimed)
BY QueryAssumption, FS_Subset DEF LLMInv, LLMTypeOK

\* A token that is spent may cancel one query.
LEMMA TokenSpent ==
  ASSUME LLMInv, NEW q \in Queries, token, token' = FALSE,
         cancelled' \subseteq cancelled \union {q}, UNCHANGED <<aimed, interrupts>>
  PROVE  InterruptEndsOne'
<1> DEFINE before == cancelled \union aimed
           after == cancelled' \union aimed'
<1>1. /\ Cardinality(before) \in Nat /\ Cardinality(after) \in Nat
      /\ Cardinality(after) <= Cardinality(before) + 1
  BY EndedAreFinite, OneMore
<1> HIDE DEF before, after
<1>2. Cardinality(before) + 1 <= interrupts /\ interrupts \in Nat
  BY DEF LLMInv, LLMTypeOK, InterruptEndsOne, Tokens, before
<1>3. Cardinality(after) <= interrupts'
  BY <1>1, <1>2
<1>4. (Cardinality(cancelled \union aimed))' + Tokens' = Cardinality(after)
  BY <1>1 DEF Tokens, after
<1> QED
  BY <1>3, <1>4 DEF InterruptEndsOne

LEMMA TakeTokenKeeps ==
  ASSUME LLMInv, NEW q \in Queries, TakeToken(q)
  PROVE  LLMInv'
<1>1. /\ token /\ token' = FALSE /\ cancelled' = cancelled \union {q} /\ Leave(q, "interrupted")
      /\ UNCHANGED <<provider, reachable, slot, aimed, interrupts, call, watcher, newest, heardBy>>
  BY DEF TakeToken, Leave
<1>2. at[q] \in {"receive", "start"} /\ Hears[provider] \in {"poll", "once"}
  BY DEF TakeToken, LLMInv, Wired
<1>3. tracker' \in Trackers
  BY <1>1, EndingKeepsType DEF Leave, LLMInv, LLMTypeOK, Trackers
<1>4. /\ at' \in [Queries -> Stages] /\ at'[q] = "returned"
      /\ \A r \in Queries \ {q} : at'[r] = at[r]
  BY <1>1, <1>2 DEF Leave, LLMInv, LLMTypeOK, Stages
<1>5. LLMTypeOK'
  BY <1>1, <1>3, <1>4 DEF LLMInv, LLMTypeOK, Trackers
<1>6. Wired'
  BY <1>1, <1>2, <1>4 DEF LLMInv, Wired
<1>7. Aims'
  BY <1>1, <1>2 DEF LLMInv, Aims
<1>8. NewestIsHeld'
  BY <1>1, <1>2 DEF LLMInv, Wired, NewestIsHeld
<1>9. InterruptEndsOne'
  BY <1>1, TokenSpent
<1> QED
  BY <1>5, <1>6, <1>7, <1>8, <1>9 DEF LLMInv

LEMMA WatcherTakesKeeps ==
  ASSUME LLMInv, NEW q \in Queries, WatcherTakes(q)
  PROVE  LLMInv'
<1>1. /\ token /\ token' = FALSE /\ cancelled' \subseteq cancelled \union {q}
      /\ UNCHANGED <<provider, reachable, slot, aimed, interrupts, at, call, tracker, newest, heardBy>>
  BY DEF WatcherTakes
<1>2. Hears[provider] = "watcher"
  BY DEF WatcherTakes, LLMInv, Wired
<1>3. /\ watcher' \in [Queries -> {"none", "waiting", "gone"}] /\ watcher'[q] = "gone"
      /\ \A r \in Queries \ {q} : watcher'[r] = watcher[r]
  BY DEF WatcherTakes, LLMInv, LLMTypeOK
<1>4. LLMTypeOK'
  BY <1>1, <1>3 DEF LLMInv, LLMTypeOK
<1>5. Wired'
  BY <1>1, <1>2, <1>3 DEF LLMInv, Wired
<1>6. Aims'
  BY <1>1, <1>2 DEF LLMInv, Aims
<1>7. NewestIsHeld'
  BY <1>1, <1>2 DEF LLMInv, Wired, NewestIsHeld
<1>8. InterruptEndsOne'
  BY <1>1, TokenSpent
<1> QED
  BY <1>4, <1>5, <1>6, <1>7, <1>8 DEF LLMInv

(***************************************************************************)
(* A call of Interrupt aims at the query in the slot, or leaves a token.   *)
(***************************************************************************)
LEMMA InterruptKeeps == ASSUME LLMInv, Interrupt PROVE LLMInv'
<1>1. /\ interrupts \in Nat /\ interrupts' = interrupts + 1
      /\ UNCHANGED <<provider, reachable, slot, at, call, watcher, cancelled, tracker, newest, heardBy>>
  BY DEF Interrupt, LLMInv, LLMTypeOK
<1>2. CASE Hears[provider] = "slot"
  <2>1. /\ UNCHANGED token /\ ~token
        /\ aimed' = IF slot = NoQuery THEN aimed ELSE aimed \union {slot}
    BY <1>2 DEF Interrupt, LLMInv, Wired
  <2>2. LLMTypeOK'
    BY <1>1, <2>1 DEF LLMInv, LLMTypeOK
  <2>3. Wired'
    BY <1>1, <1>2, <2>1 DEF LLMInv, Wired
  <2>4. \A q \in Queries : heardBy[q] \in Nat
    BY DEF LLMInv, LLMTypeOK
  <2>5. slot # NoQuery => slot \in Queries /\ Registered(slot)
    BY DEF LLMInv, LLMTypeOK, NewestIsHeld
  <2>6. ASSUME NEW q \in cancelled \union aimed' PROVE
          q \in cancelled \union aimed \/ (q = slot /\ slot # NoQuery)
    BY <2>1
  <2>7. \A q \in cancelled \union aimed : q \in Queries
    BY DEF LLMInv, LLMTypeOK
  <2>8. Aims'
    BY <1>1, <1>2, <2>4, <2>5, <2>6, <2>7 DEF LLMInv, Aims, Registered
  <2>9. NewestIsHeld'
    BY <1>1 DEF LLMInv, NewestIsHeld, Registered
  <2> DEFINE before == cancelled \union aimed
             after == cancelled' \union aimed'
  <2>10. /\ Cardinality(before) \in Nat /\ Cardinality(after) \in Nat
         /\ Cardinality(after) <= Cardinality(before) + 1
    BY <1>1, <2>1, EndedAreFinite, OneMore
  <2> HIDE DEF before, after
  <2>11. Cardinality(before) <= interrupts
    BY <2>1, <2>10 DEF LLMInv, InterruptEndsOne, Tokens, before
  <2>12. Cardinality(after) <= interrupts'
    BY <1>1, <2>10, <2>11
  <2>13. (Cardinality(cancelled \union aimed))' + Tokens' = Cardinality(after)
    BY <2>1, <2>10 DEF Tokens, after
  <2>14. InterruptEndsOne'
    BY <2>12, <2>13 DEF InterruptEndsOne
  <2> QED
    BY <2>2, <2>3, <2>8, <2>9, <2>14 DEF LLMInv
<1>3. CASE Hears[provider] # "slot"
  <2>1. token' = TRUE /\ UNCHANGED aimed
    BY <1>3 DEF Interrupt
  <2>2. LLMTypeOK'
    BY <1>1, <2>1 DEF LLMInv, LLMTypeOK
  <2>3. Wired'
    BY <1>1, <1>3, <2>1 DEF LLMInv, Wired
  <2>4. Aims'
    BY <1>1, <1>3 DEF LLMInv, LLMTypeOK, Aims
  <2>5. NewestIsHeld'
    BY <1>1 DEF LLMInv, NewestIsHeld, Registered
  <2> DEFINE n == Cardinality(cancelled \union aimed)
  <2>6. n \in Nat
    BY EndedAreFinite, FS_CardinalityType
  <2>7. n' = n
    BY <1>1, <2>1
  <2> HIDE DEF n
  <2>8. n <= interrupts
    <3>1. n + Tokens <= interrupts /\ Tokens \in Nat
      BY DEF LLMInv, InterruptEndsOne, Tokens, n
    <3> QED
      BY <1>1, <2>6, <3>1
  <2>9. Tokens' = 1
    BY <2>1 DEF Tokens
  <2>10. n' + Tokens' <= interrupts'
    BY <1>1, <2>6, <2>7, <2>8, <2>9
  <2>11. InterruptEndsOne'
    BY <2>10 DEF InterruptEndsOne, n
  <2> QED
    BY <2>2, <2>3, <2>4, <2>5, <2>11 DEF LLMInv
<1> QED
  BY <1>2, <1>3

\* The cancel function that was read is called: nobody new is aimed at.
LEMMA CancelKeeps ==
  ASSUME LLMInv, NEW q \in Queries, CallCancel(q)
  PROVE  LLMInv'
<1>1. /\ q \in aimed /\ aimed' = aimed \ {q} /\ cancelled' \subseteq cancelled \union {q}
      /\ UNCHANGED <<provider, reachable, token, slot, interrupts, at, call, watcher, tracker,
                     newest, heardBy>>
  BY DEF CallCancel
<1>2. LLMTypeOK'
  BY <1>1 DEF LLMInv, LLMTypeOK
<1>3. Wired' /\ Aims' /\ NewestIsHeld'
  BY <1>1 DEF LLMInv, Wired, Aims, NewestIsHeld, Registered
<1> DEFINE before == cancelled \union aimed
           after == cancelled' \union aimed'
<1>4. /\ Cardinality(before) \in Nat /\ Cardinality(after) \in Nat
      /\ Cardinality(after) <= Cardinality(before)
  BY <1>1, EndedAreFinite, NoMore
<1> HIDE DEF before, after
<1>5. Cardinality(before) + Tokens <= interrupts /\ Tokens \in Nat /\ Tokens' = Tokens
  BY <1>1 DEF LLMInv, InterruptEndsOne, Tokens, before
<1>6. Cardinality(after) + Tokens' <= interrupts'
  BY <1>1, <1>4, <1>5 DEF LLMInv, LLMTypeOK
<1>7. InterruptEndsOne'
  BY <1>6 DEF InterruptEndsOne, after
<1> QED
  BY <1>2, <1>3, <1>7 DEF LLMInv

-----------------------------------------------------------------------------
LEMMA LLMStep == LLMInv /\ [LLMNext]_llmVars => LLMInv'
<1> SUFFICES ASSUME LLMInv, [LLMNext]_llmVars PROVE LLMInv'
  OBVIOUS
<1>1. CASE Interrupt
  BY <1>1, InterruptKeeps
<1>2. ASSUME NEW q \in Queries, NEW c \in {"answer", "stream"}, BeginQuery(q, c) PROVE LLMInv'
  BY <1>2, BeginKeeps
<1>3. ASSUME NEW q \in Queries, QueryStep(q) PROVE LLMInv'
  BY <1>3, PreparingKeeps, ReadyKeeps, WayOutKeeps, TakeTokenKeeps, ClearKeeps DEF QueryStep
<1>4. ASSUME NEW q \in Queries, WatcherStep(q) PROVE LLMInv'
  BY <1>4, WatcherTakesKeeps, WatcherLeavesKeeps DEF WatcherStep
<1>5. ASSUME NEW q \in Queries, CallCancel(q) PROVE LLMInv'
  BY <1>5, CancelKeeps
<1>6. CASE UNCHANGED llmVars
  <2>1. UNCHANGED <<provider, reachable, token, slot, aimed, interrupts, at, call, watcher,
                    cancelled, tracker, newest, heardBy>>
    BY <1>6 DEF llmVars
  <2> QED
    BY <2>1 DEF LLMInv, LLMTypeOK, Wired, Aims, NewestIsHeld, Registered, InterruptEndsOne, Tokens
<1> QED
  BY <1>1, <1>2, <1>3, <1>4, <1>5, <1>6 DEF LLMNext

LEMMA LLMInvariant == LLMSpec => []LLMInv
BY LLMStarts, LLMStep, PTL DEF LLMSpec

(***************************************************************************)
(* InterruptsAreRight: for any number of queries and interrupts, and every *)
(* provider, an interrupt ends at most one query, and while the newest     *)
(* OpenAI query runs it is the one an interrupt finds.                     *)
(***************************************************************************)
THEOREM InterruptsAreRight == LLMSpec => []InterruptsFindTheirQuery
<1>1. LLMInv => InterruptsFindTheirQuery
  BY SlotIsOpenAI DEF LLMInv, LLMTypeOK, NewestIsHeld, Aims, InterruptsFindTheirQuery, SlotHoldsNewest
<1> QED
  BY <1>1, LLMInvariant, PTL

-----------------------------------------------------------------------------
(***************************************************************************)
(* Trackers.  A running query has opened what its row says and ended       *)
(* nothing; once it has left, the way out it took decides.                 *)
(***************************************************************************)
Gone(q) == at[q] \in {"clear", "returned"}

Tracked(q) ==
  /\ ~Gone(q) => tracker[q].complete = 0 /\ tracker[q].error = 0 /\ left[q] = "none"
  /\ at[q] = "idle" => tracker[q].opened = 0
  /\ at[q] \in {"start", "rewrite", "expand", "ready"} => tracker[q].opened = Row(q).opens.begin
  /\ at[q] \in {"send", "receive"} =>
       tracker[q].opened = Row(q).opens.begin + Row(q).opens.ready
  /\ Gone(q) =>
       /\ tracker[q].complete + tracker[q].error <= 1
       /\ tracker[q].complete + tracker[q].error <= tracker[q].opened
       /\ left[q] = "done" /\ call[q] = "answer" => tracker[q].complete = 1
       /\ tracker[q].complete = 1 => left[q] \in {"done", "callback"}

AllTracked == DOMAIN left = Queries /\ \A q \in Queries : Tracked(q)

TrackInv == LLMInv /\ AllTracked

\* A query whose part of the state does not change stays as it is.
LEMMA SameIsTracked ==
  ASSUME NEW q \in Queries, Tracked(q), at'[q] = at[q], call'[q] = call[q],
         tracker'[q] = tracker[q], left'[q] = left[q], provider' = provider
  PROVE  Tracked(q)'
BY DEF Tracked, Row, Gone

\* Only query q moves: it has to be looked at, and no other.
LEMMA OneIsTracked ==
  ASSUME TrackInv, NEW q \in Queries, provider' = provider, DOMAIN left' = Queries,
         \A r \in Queries \ {q} : /\ at'[r] = at[r] /\ call'[r] = call[r]
                                  /\ tracker'[r] = tracker[r] /\ left'[r] = left[r],
         Tracked(q)'
  PROVE  AllTracked'
BY SameIsTracked DEF TrackInv, AllTracked

LEMMA BeginIsTracked ==
  ASSUME TrackInv, NEW q \in Queries, NEW c \in {"answer", "stream"}, BeginQuery(q, c)
  PROVE  AllTracked'
<1> DEFINE n == QueryFunction(provider, c).opens.begin
<1>1. n \in Nat
  BY RowsAreSound DEF RowIsSound, TrackInv, LLMInv, LLMTypeOK
<1>2. NewLLMRequestTracker(q, n)
  BY DEF BeginQuery
<1> HIDE DEF n
<1>3. /\ tracker'[q].opened = tracker[q].opened + n
      /\ tracker'[q].complete = tracker[q].complete /\ tracker'[q].error = tracker[q].error
      /\ \A r \in Queries \ {q} : tracker'[r] = tracker[r]
  BY <1>1, <1>2, OpeningKeepsType DEF TrackInv, LLMInv, LLMTypeOK, Trackers
<1>4. /\ at[q] = "idle" /\ at'[q] \in {"start", "rewrite"} /\ call'[q] = c
      /\ \A r \in Queries \ {q} : at'[r] = at[r] /\ call'[r] = call[r]
      /\ UNCHANGED <<left, provider>>
  BY DEF BeginQuery, TrackInv, LLMInv, LLMTypeOK
<1>5. Row(q)' = QueryFunction(provider, c)
  BY <1>4 DEF Row
<1>6. Tracked(q)'
  BY <1>1, <1>3, <1>4, <1>5 DEF TrackInv, AllTracked, Tracked, Gone, n
<1> QED
  BY <1>3, <1>4, <1>6, OneIsTracked DEF TrackInv, AllTracked

LEMMA StageIsTracked ==
  ASSUME TrackInv, NEW q \in Queries, NEW to,
         at' = [at EXCEPT ![q] = to], UNCHANGED <<call, tracker, left, provider>>,
         \/ at[q] \in {"start", "rewrite", "expand"} /\ to \in {"rewrite", "expand", "ready"}
         \/ at[q] = "send" /\ to = "receive"
         \/ at[q] = "clear" /\ to = "returned"
  PROVE  AllTracked'
<1>1. at'[q] = to /\ \A r \in Queries \ {q} : at'[r] = at[r]
  BY DEF TrackInv, LLMInv, LLMTypeOK
<1>2. Row(q)' = Row(q)
  BY DEF Row
<1>3. Tracked(q)'
  BY <1>1, <1>2 DEF TrackInv, AllTracked, Tracked, Gone
<1> QED
  BY <1>1, <1>3, OneIsTracked DEF TrackInv, AllTracked

LEMMA ReadyIsTracked ==
  ASSUME TrackInv, NEW q \in Queries, Ready(q)
  PROVE  AllTracked'
<1> DEFINE n == Row(q).opens.ready
<1>1. n \in Nat /\ Row(q).opens.begin \in Nat
  BY RowOfQuery DEF Ready, TrackInv
<1>2. NewLLMRequestTracker(q, n)
  BY DEF Ready
<1> HIDE DEF n
<1>3. /\ tracker'[q].opened = tracker[q].opened + n
      /\ tracker'[q].complete = tracker[q].complete /\ tracker'[q].error = tracker[q].error
      /\ \A r \in Queries \ {q} : tracker'[r] = tracker[r]
  BY <1>1, <1>2, OpeningKeepsType DEF TrackInv, LLMInv, LLMTypeOK, Trackers
<1>4. /\ at[q] = "ready" /\ at'[q] = "send" /\ \A r \in Queries \ {q} : at'[r] = at[r]
      /\ UNCHANGED <<left, provider, call>>
  BY DEF Ready, TrackInv, LLMInv, LLMTypeOK
<1>5. Row(q)' = Row(q)
  BY <1>4 DEF Row
<1>6. Tracked(q)'
  BY <1>3, <1>4, <1>5 DEF TrackInv, AllTracked, Tracked, Gone, n
<1> QED
  BY <1>3, <1>4, <1>6, OneIsTracked DEF TrackInv, AllTracked

(***************************************************************************)
(* A query leaves: its one report, if any, is that of its way out.         *)
(***************************************************************************)
LEMMA LeavingIsTracked ==
  ASSUME TrackInv, NEW q \in Queries, NEW way, Leave(q, way), at[q] \in Stages,
         at[q] \notin {"idle", "clear", "returned"},
         \/ at[q] \in {"send", "receive"} /\ way \in DOMAIN Row(q).ways
         \/ way = "interrupted" /\ Row(q).ways[way] = "silent"
  PROVE  AllTracked'
<1> DEFINE effect == Row(q).ways[way]
<1>1. /\ call[q] \in {"answer", "stream"} /\ RowIsSound(Row(q), call[q])
      /\ Row(q).opens.begin \in Nat /\ Row(q).opens.ready \in Nat
  BY RowOfQuery DEF TrackInv
<1>2. /\ effect = "complete" => way \in {"done", "callback"}
      /\ effect # "silent" => tracker[q].opened >= 1
      /\ way = "done" /\ call[q] = "answer" => effect = "complete"
  BY <1>1 DEF RowIsSound, TrackInv, AllTracked, Tracked
<1>3. EndTracker(q, effect)
  BY DEF Leave
<1> HIDE DEF effect
<1>4. /\ tracker'[q].opened = tracker[q].opened
      /\ tracker'[q].complete = tracker[q].complete + (IF effect = "complete" THEN 1 ELSE 0)
      /\ tracker'[q].error = tracker[q].error + (IF effect = "error" THEN 1 ELSE 0)
      /\ \A r \in Queries \ {q} : tracker'[r] = tracker[r]
  BY <1>3, EndingKeepsType DEF TrackInv, LLMInv, LLMTypeOK, Trackers
<1>5. /\ at'[q] \in {"clear", "returned"} /\ \A r \in Queries \ {q} : at'[r] = at[r]
      /\ UNCHANGED <<provider, call>>
  BY DEF Leave, TrackInv, LLMInv, LLMTypeOK
<1>6. left'[q] = way /\ DOMAIN left' = Queries /\ \A r \in Queries \ {q} : left'[r] = left[r]
  BY DEF Leave, TrackInv, AllTracked
<1>7. tracker[q].complete = 0 /\ tracker[q].error = 0 /\ tracker[q].opened \in Nat
  BY DEF TrackInv, AllTracked, Tracked, Gone, LLMInv, LLMTypeOK
<1>8. Tracked(q)'
  BY <1>2, <1>4, <1>5, <1>6, <1>7 DEF Tracked, Gone
<1> QED
  BY <1>4, <1>5, <1>6, <1>8, OneIsTracked

LEMMA QueryIsTracked ==
  ASSUME TrackInv, NEW q \in Queries, QueryStep(q)
  PROVE  AllTracked'
<1>1. CASE StartUninterrupted(q)
  BY <1>1, StageIsTracked DEF StartUninterrupted
<1>2. CASE Prepare(q, "rewrite")
  BY <1>2, StageIsTracked DEF Prepare, After
<1>3. CASE Prepare(q, "expand")
  BY <1>3, StageIsTracked DEF Prepare, After
<1>4. CASE Ready(q)
  BY <1>4, ReadyIsTracked
<1>5. CASE Send(q)
  BY <1>5, StageIsTracked DEF Send
<1>6. CASE WayOut(q)
  <2>1. PICK way \in WaysOut(q) : Leave(q, way)
    BY <1>6 DEF WayOut
  <2>2. way \in DOMAIN Row(q).ways /\ at[q] \in {"send", "receive"}
    BY DEF WaysOut
  <2> QED
    BY <2>1, <2>2, LeavingIsTracked DEF Stages
<1>7. CASE TakeToken(q)
  <2>1. Leave(q, "interrupted") /\ at[q] \in {"receive", "start"}
    BY <1>7 DEF TakeToken
  <2>2. Hears[provider] \in {"poll", "once"} /\ call[q] \in {"answer", "stream"}
    BY <1>7, <2>1 DEF TakeToken, TrackInv, LLMInv, Wired
  <2>3. Row(q).ways["interrupted"] = "silent"
    BY <2>2, TakersAreSilent DEF Row, TrackInv, LLMInv, LLMTypeOK
  <2> QED
    BY <2>1, <2>3, LeavingIsTracked DEF Stages
<1>8. CASE ClearSlot(q)
  BY <1>8, StageIsTracked DEF ClearSlot
<1> QED
  BY <1>1, <1>2, <1>3, <1>4, <1>5, <1>6, <1>7, <1>8 DEF QueryStep

LEMMA TrackInvariant == LLMSpec => []TrackInv
<1>1. LLMInit => TrackInv
  <2>1. LLMInit => AllTracked
    BY DEF LLMInit, QueriesInit, AllTracked, Tracked, Gone
  <2> QED
    BY <2>1, LLMStarts DEF TrackInv
<1>2. TrackInv /\ [LLMNext]_llmVars => TrackInv'
  <2> SUFFICES ASSUME TrackInv, [LLMNext]_llmVars PROVE AllTracked'
    BY LLMStep DEF TrackInv
  <2> DEFINE Unmoved == UNCHANGED <<provider, at, call, tracker, left>>
  <2>1. Unmoved => AllTracked'
    BY SameIsTracked DEF TrackInv, AllTracked
  <2>2. CASE Interrupt
    BY <2>1, <2>2 DEF Interrupt
  <2>3. ASSUME NEW q \in Queries, NEW c \in {"answer", "stream"}, BeginQuery(q, c) PROVE AllTracked'
    BY <2>3, BeginIsTracked
  <2>4. ASSUME NEW q \in Queries, QueryStep(q) PROVE AllTracked'
    BY <2>4, QueryIsTracked
  <2>5. ASSUME NEW q \in Queries, WatcherStep(q) PROVE AllTracked'
    BY <2>1, <2>5 DEF WatcherStep, WatcherTakes, WatcherLeaves
  <2>6. ASSUME NEW q \in Queries, CallCancel(q) PROVE AllTracked'
    BY <2>1, <2>6 DEF CallCancel
  <2>7. CASE UNCHANGED llmVars
    BY <2>1, <2>7 DEF llmVars
  <2> QED
    BY <2>2, <2>3, <2>4, <2>5, <2>6, <2>7 DEF LLMNext
<1> QED
  BY <1>1, <1>2, PTL DEF LLMSpec

(***************************************************************************)
(* ReportsAreTrue: for every provider and any queries, no running query is *)
(* reported as ended, none is reported twice or without its start, and the *)
(* success that is reported is the answer that was given.                  *)
(***************************************************************************)
THEOREM ReportsAreTrue == LLMSpec => []TrackersTell
<1>1. TrackInv => TrackersTell
  <2> SUFFICES ASSUME TrackInv, NEW q \in Queries
               PROVE  LET ends == tracker[q].complete + tracker[q].error IN
                      /\ ends <= 1 /\ ends <= tracker[q].opened
                      /\ (Running(q) => ends = 0)
                      /\ left[q] = "done" /\ call[q] = "answer" => tracker[q].complete = 1
                      /\ tracker[q].complete = 1 => left[q] \in {"done", "callback"}
    BY DEF TrackersTell
  <2>1. Tracked(q) /\ tracker[q].opened \in Nat
    BY DEF TrackInv, AllTracked, LLMInv, LLMTypeOK
  <2> QED
    BY <2>1 DEF Tracked, Gone, Running
<1> QED
  BY <1>1, TrackInvariant, PTL

-----------------------------------------------------------------------------
(***************************************************************************)
(* The task runner.  First its control: what a caller does and what a      *)
(* worker holds, the one caller that makes the pool, and what is left of   *)
(* it when an End in order has stopped it.                                 *)
(***************************************************************************)
Beginning == {"make", "activate", "spawn"}
Stopping  == {"stop", "wait", "stopAgain", "waitAgain", "close"}

RunnerTyped ==
  /\ RunnerTypeOK
  /\ unhandled \subseteq Requests /\ finished \subseteq Requests /\ lost \subseteq Requests
  /\ sessionDone \in BOOLEAN /\ began \in BOOLEAN /\ ended \in BOOLEAN /\ inOrder \in BOOLEAN

HandsFull ==
  /\ \A b \in RunnerCallers : sending[b] # NoRequest <=> caller[b] = "send"
  /\ \A w \in PoolWorkers : working[w] # NoRequest <=> poolWorker[w] = "run"

OneBeginning ==
  /\ \A b \in RunnerCallers : caller[b] \in Beginning =>
       began /\ \A w \in PoolWorkers : poolWorker[w] = "none"
  /\ \A b, c \in RunnerCallers : caller[b] \in Beginning /\ caller[c] \in Beginning => b = c
  /\ \A b \in RunnerCallers : caller[b] \in {"make", "activate"} => ~workersActive
  /\ \A b \in RunnerCallers : caller[b] = "make" => queueIs = "nil"
  /\ ~began => /\ ~workersActive /\ queueIs = "nil"
               /\ \A w \in PoolWorkers : poolWorker[w] = "none"
  /\ queueIs = "nil" => taskQueue = <<>>

StopsInOrder ==
  /\ ~ended => ~inOrder /\ queueIs # "dropped" /\ \A b \in RunnerCallers : caller[b] \notin Stopping
  /\ inOrder => began /\ \A b \in RunnerCallers : caller[b] \notin Beginning
  /\ began /\ ~ended => workersActive \/ \E b \in RunnerCallers : caller[b] \in {"make", "activate"}
  /\ inOrder /\ ~workersActive => \A w \in PoolWorkers : poolWorker[w] \notin AtWork
  /\ inOrder => \A b \in RunnerCallers :
       caller[b] \in {"stopAgain", "waitAgain", "close"} => ~workersActive
  /\ inOrder /\ queueIs = "dropped" => ~workersActive

(***************************************************************************)
(* Then where the requests are: each in one of six sets, and in the queue  *)
(* and in the hands of workers and callers once.                           *)
(***************************************************************************)
InQueue(s) == {s[i] : i \in 1 .. Len(s)}
Differ(s) == \A i, j \in 1 .. Len(s) : s[i] = s[j] => i = j

Carried(f, S) == {f[x] : x \in S} \ {NoRequest}
Gains(g, f, S, r) == Carried(g, S) = Carried(f, S) \union {r}
Loses(g, f, S, r) == r \in Carried(f, S) /\ Carried(g, S) = Carried(f, S) \ {r}
Single(f, S) == \A x, y \in S : f[x] = f[y] /\ f[x] # NoRequest => x = y

Queued    == InQueue(taskQueue)
Executing == Carried(working, PoolWorkers)
Offered   == Carried(sending, RunnerCallers)

Once ==
  /\ Differ(taskQueue)
  /\ Single(working, PoolWorkers)
  /\ Single(sending, RunnerCallers)

Apart ==
  /\ unhandled \intersect (finished \union lost \union Queued \union Executing \union Offered) = {}
  /\ finished \intersect (lost \union Queued \union Executing \union Offered) = {}
  /\ lost \intersect (Queued \union Executing \union Offered) = {}
  /\ Queued \intersect (Executing \union Offered) = {}
  /\ Executing \intersect Offered = {}

Nowhere == Requests \ (unhandled \union finished \union lost \union Queued \union Executing \union Offered)

RunnerControl == RunnerTyped /\ HandsFull /\ OneBeginning /\ StopsInOrder

PlacesInv == Once /\ Apart /\ Nowhere = {}

RunnerInv == RunnerControl /\ PlacesInv

LEMMA HandleBeginControl ==
  ASSUME RunnerControl, NEW b \in RunnerCallers, HandleBegin(b)
  PROVE  RunnerControl'
<1>1. RunnerTyped'
  BY RunnerAssumption DEF HandleBegin, Goes, Steps, RunnerControl, RunnerTyped, RunnerTypeOK
<1>2. HandsFull'
  BY RunnerAssumption DEF HandleBegin, Goes, Steps, RunnerControl, RunnerTyped, RunnerTypeOK, HandsFull
<1>3. OneBeginning'
  BY DEF HandleBegin, Goes, Steps, RunnerControl, RunnerTyped, RunnerTypeOK, HandsFull, OneBeginning,
     Beginning
<1>4. StopsInOrder'
  BY DEF HandleBegin, Goes, Steps, RunnerControl, RunnerTyped, RunnerTypeOK, HandsFull, OneBeginning,
     StopsInOrder, Beginning, Stopping
<1> QED
  BY <1>1, <1>2, <1>3, <1>4 DEF RunnerControl

LEMMA MakeQueueControl ==
  ASSUME RunnerControl, NEW b \in RunnerCallers, MakeQueue(b)
  PROVE  RunnerControl'
<1>1. RunnerTyped'
  BY RunnerAssumption, EmptySeq DEF MakeQueue, Goes, Steps, RunnerControl, RunnerTyped, RunnerTypeOK
<1>2. HandsFull'
  BY RunnerAssumption DEF MakeQueue, Goes, Steps, RunnerControl, RunnerTyped, RunnerTypeOK, HandsFull
<1>3. OneBeginning'
  BY DEF MakeQueue, Goes, Steps, RunnerControl, RunnerTyped, RunnerTypeOK, HandsFull, OneBeginning,
     Beginning
<1>4. StopsInOrder'
  BY DEF MakeQueue, Goes, Steps, RunnerControl, RunnerTyped, RunnerTypeOK, HandsFull, OneBeginning,
     StopsInOrder, Beginning, Stopping
<1> QED
  BY <1>1, <1>2, <1>3, <1>4 DEF RunnerControl

LEMMA ActivateControl ==
  ASSUME RunnerControl, NEW b \in RunnerCallers, Activate(b)
  PROVE  RunnerControl'
<1>1. RunnerTyped'
  BY RunnerAssumption DEF Activate, Goes, Steps, RunnerControl, RunnerTyped, RunnerTypeOK
<1>2. HandsFull'
  BY RunnerAssumption DEF Activate, Goes, Steps, RunnerControl, RunnerTyped, RunnerTypeOK, HandsFull
<1>3. OneBeginning'
  BY DEF Activate, Goes, Steps, RunnerControl, RunnerTyped, RunnerTypeOK, HandsFull, OneBeginning,
     Beginning
<1>4. StopsInOrder'
  BY DEF Activate, Goes, Steps, RunnerControl, RunnerTyped, RunnerTypeOK, HandsFull, OneBeginning,
     StopsInOrder, Beginning, Stopping
<1> QED
  BY <1>1, <1>2, <1>3, <1>4 DEF RunnerControl

LEMMA SpawnControl ==
  ASSUME RunnerControl, NEW b \in RunnerCallers, Spawn(b)
  PROVE  RunnerControl'
<1>1. \A w \in PoolWorkers : poolWorker[w] = "none" /\ working[w] = NoRequest
  BY DEF Spawn, RunnerControl, HandsFull, OneBeginning, Beginning
<1>2. RunnerTyped'
  BY RunnerAssumption DEF Spawn, Goes, Steps, AtWork, RunnerControl, RunnerTyped, RunnerTypeOK
<1>3. HandsFull'
  BY <1>1 DEF Spawn, Goes, RunnerControl, RunnerTyped, RunnerTypeOK, HandsFull
<1>4. OneBeginning'
  BY DEF Spawn, Goes, Steps, AtWork, RunnerControl, RunnerTyped, RunnerTypeOK, HandsFull, OneBeginning,
     Beginning
<1>5. StopsInOrder'
  BY DEF Spawn, Goes, Steps, AtWork, RunnerControl, RunnerTyped, RunnerTypeOK, HandsFull, OneBeginning,
     StopsInOrder, Beginning, Stopping
<1> QED
  BY <1>2, <1>3, <1>4, <1>5 DEF RunnerControl

LEMMA HandlePacketControl ==
  ASSUME RunnerControl, NEW b \in RunnerCallers, NEW r \in Requests, HandlePacket(b, r)
  PROVE  RunnerControl'
<1>1. RunnerTyped'
  BY RunnerAssumption DEF HandlePacket, Goes, Steps, RunnerControl, RunnerTyped, RunnerTypeOK
<1>2. HandsFull'
  BY RunnerAssumption DEF HandlePacket, Goes, Steps, RunnerControl, RunnerTyped, RunnerTypeOK, HandsFull
<1>3. OneBeginning'
  BY DEF HandlePacket, Goes, Steps, RunnerControl, RunnerTyped, RunnerTypeOK, HandsFull, OneBeginning,
     Beginning
<1>4. StopsInOrder'
  BY DEF HandlePacket, Goes, Steps, RunnerControl, RunnerTyped, RunnerTypeOK, HandsFull, OneBeginning,
     StopsInOrder, Beginning, Stopping
<1> QED
  BY <1>1, <1>2, <1>3, <1>4 DEF RunnerControl

LEMMA SendRequestControl ==
  ASSUME RunnerControl, NEW b \in RunnerCallers, SendRequest(b)
  PROVE  RunnerControl'
<1>1. sending[b] \in Requests /\ taskQueue \in Seq(Requests)
  BY DEF SendRequest, RunnerControl, RunnerTyped, RunnerTypeOK, HandsFull
<1>2. taskQueue' \in Seq(Requests) /\ Len(taskQueue') = Len(taskQueue) + 1 /\ Len(taskQueue) \in Nat
  BY <1>1, AppendProperties, LenProperties DEF SendRequest
<1>3. RunnerTyped'
  BY <1>2, RunnerAssumption DEF SendRequest, Goes, Steps, RunnerControl, RunnerTyped, RunnerTypeOK
<1>4. HandsFull'
  BY RunnerAssumption DEF SendRequest, Goes, Steps, RunnerControl, RunnerTyped, RunnerTypeOK, HandsFull
<1>5. OneBeginning'
  BY DEF SendRequest, Goes, Steps, RunnerControl, RunnerTyped, RunnerTypeOK, HandsFull, OneBeginning,
     Beginning
<1>6. StopsInOrder'
  BY DEF SendRequest, Goes, Steps, RunnerControl, RunnerTyped, RunnerTypeOK, HandsFull, OneBeginning,
     StopsInOrder, Beginning, Stopping
<1> QED
  BY <1>3, <1>4, <1>5, <1>6 DEF RunnerControl

LEMMA SendPanicsControl ==
  ASSUME RunnerControl, NEW b \in RunnerCallers, SendPanics(b)
  PROVE  RunnerControl'
<1>1. sending[b] \in Requests
  BY DEF SendPanics, RunnerControl, RunnerTyped, RunnerTypeOK, HandsFull
<1>2. RunnerTyped'
  BY <1>1 DEF SendPanics, Goes, Steps, RunnerControl, RunnerTyped, RunnerTypeOK
<1>3. HandsFull'
  BY RunnerAssumption DEF SendPanics, Goes, Steps, RunnerControl, RunnerTyped, RunnerTypeOK, HandsFull
<1>4. OneBeginning'
  BY DEF SendPanics, Goes, Steps, RunnerControl, RunnerTyped, RunnerTypeOK, HandsFull, OneBeginning,
     Beginning
<1>5. StopsInOrder'
  BY DEF SendPanics, Goes, Steps, RunnerControl, RunnerTyped, RunnerTypeOK, HandsFull, OneBeginning,
     StopsInOrder, Beginning, Stopping
<1> QED
  BY <1>2, <1>3, <1>4, <1>5 DEF RunnerControl

LEMMA HandleEndControl ==
  ASSUME RunnerControl, NEW b \in RunnerCallers, HandleEnd(b)
  PROVE  RunnerControl'
<1>1. RunnerTyped'
  BY RunnerAssumption DEF HandleEnd, Goes, Steps, RunnerControl, RunnerTyped, RunnerTypeOK
<1>2. HandsFull'
  BY RunnerAssumption DEF HandleEnd, Goes, Steps, RunnerControl, RunnerTyped, RunnerTypeOK, HandsFull
<1>3. OneBeginning'
  BY DEF HandleEnd, Goes, Steps, RunnerControl, RunnerTyped, RunnerTypeOK, HandsFull, OneBeginning,
     Beginning
<1>4. StopsInOrder'
  BY DEF HandleEnd, Goes, Steps, RunnerControl, RunnerTyped, RunnerTypeOK, HandsFull, OneBeginning,
     StopsInOrder, Beginning, Stopping
<1> QED
  BY <1>1, <1>2, <1>3, <1>4 DEF RunnerControl

LEMMA StopWorkersControl ==
  ASSUME RunnerControl, NEW b \in RunnerCallers, StopWorkers(b)
  PROVE  RunnerControl'
<1>1. RunnerTyped'
  BY RunnerAssumption DEF StopWorkers, Goes, Steps, RunnerControl, RunnerTyped, RunnerTypeOK
<1>2. HandsFull'
  BY RunnerAssumption DEF StopWorkers, Goes, Steps, RunnerControl, RunnerTyped, RunnerTypeOK, HandsFull
<1>3. OneBeginning'
  BY DEF StopWorkers, Goes, Steps, RunnerControl, RunnerTyped, RunnerTypeOK, HandsFull, OneBeginning,
     Beginning
<1>4. StopsInOrder'
  BY DEF StopWorkers, Goes, Steps, RunnerControl, RunnerTyped, RunnerTypeOK, HandsFull, OneBeginning,
     StopsInOrder, Beginning, Stopping
<1> QED
  BY <1>1, <1>2, <1>3, <1>4 DEF RunnerControl

LEMMA WorkersStoppedControl ==
  ASSUME RunnerControl, NEW b \in RunnerCallers, WorkersStopped(b)
  PROVE  RunnerControl'
<1>1. RunnerTyped'
  BY RunnerAssumption DEF WorkersStopped, Goes, Steps, RunnerControl, RunnerTyped, RunnerTypeOK
<1>2. HandsFull'
  BY RunnerAssumption DEF WorkersStopped, Goes, Steps, RunnerControl, RunnerTyped, RunnerTypeOK, HandsFull
<1>3. OneBeginning'
  BY DEF WorkersStopped, Goes, Steps, RunnerControl, RunnerTyped, RunnerTypeOK, HandsFull, OneBeginning,
     Beginning
<1>4. StopsInOrder'
  BY DEF WorkersStopped, Goes, Steps, RunnerControl, RunnerTyped, RunnerTypeOK, HandsFull, OneBeginning,
     StopsInOrder, Beginning, Stopping
<1> QED
  BY <1>1, <1>2, <1>3, <1>4 DEF RunnerControl

LEMMA CloseTaskQueueControl ==
  ASSUME RunnerControl, NEW b \in RunnerCallers, CloseTaskQueue(b)
  PROVE  RunnerControl'
<1>1. RunnerTyped'
  BY RunnerAssumption DEF CloseTaskQueue, Goes, Steps, RunnerControl, RunnerTyped, RunnerTypeOK
<1>2. HandsFull'
  BY RunnerAssumption DEF CloseTaskQueue, Goes, Steps, RunnerControl, RunnerTyped, RunnerTypeOK, HandsFull
<1>3. OneBeginning'
  BY DEF CloseTaskQueue, Goes, Steps, RunnerControl, RunnerTyped, RunnerTypeOK, HandsFull, OneBeginning,
     Beginning
<1>4. StopsInOrder'
  BY DEF CloseTaskQueue, Goes, Steps, RunnerControl, RunnerTyped, RunnerTypeOK, HandsFull, OneBeginning,
     StopsInOrder, Beginning, Stopping
<1> QED
  BY <1>1, <1>2, <1>3, <1>4 DEF RunnerControl

LEMMA WorkerLoopsControl ==
  ASSUME RunnerControl, NEW w \in PoolWorkers, WorkerLoops(w)
  PROVE  RunnerControl'
<1>1. RunnerTyped'
  BY RunnerAssumption DEF WorkerLoops, AtWork, RunnerControl, RunnerTyped, RunnerTypeOK
<1>2. HandsFull'
  BY RunnerAssumption DEF WorkerLoops, AtWork, RunnerControl, RunnerTyped, RunnerTypeOK, HandsFull
<1>3. OneBeginning'
  BY DEF WorkerLoops, AtWork, RunnerControl, RunnerTyped, RunnerTypeOK, HandsFull, OneBeginning,
     Beginning
<1>4. StopsInOrder'
  BY DEF WorkerLoops, AtWork, RunnerControl, RunnerTyped, RunnerTypeOK, HandsFull, OneBeginning,
     StopsInOrder, Beginning, Stopping
<1> QED
  BY <1>1, <1>2, <1>3, <1>4 DEF RunnerControl

LEMMA WorkerExitsControl ==
  ASSUME RunnerControl, NEW w \in PoolWorkers, WorkerExits(w)
  PROVE  RunnerControl'
<1>1. RunnerTyped'
  BY RunnerAssumption DEF WorkerExits, WorkerGone, AtWork, RunnerControl, RunnerTyped, RunnerTypeOK
<1>2. HandsFull'
  BY RunnerAssumption DEF WorkerExits, WorkerGone, AtWork, RunnerControl, RunnerTyped, RunnerTypeOK, HandsFull
<1>3. OneBeginning'
  BY DEF WorkerExits, WorkerGone, AtWork, RunnerControl, RunnerTyped, RunnerTypeOK, HandsFull, OneBeginning,
     Beginning
<1>4. StopsInOrder'
  BY DEF WorkerExits, WorkerGone, AtWork, RunnerControl, RunnerTyped, RunnerTypeOK, HandsFull, OneBeginning,
     StopsInOrder, Beginning, Stopping
<1> QED
  BY <1>1, <1>2, <1>3, <1>4 DEF RunnerControl

LEMMA WorkerTakesControl ==
  ASSUME RunnerControl, NEW w \in PoolWorkers, WorkerTakes(w)
  PROVE  RunnerControl'
<1>1. /\ Head(taskQueue) \in Requests /\ taskQueue' \in Seq(Requests)
      /\ Len(taskQueue') = Len(taskQueue) - 1 /\ Len(taskQueue) \in Nat
  BY HeadTailProperties, LenProperties DEF WorkerTakes, RunnerControl, RunnerTyped, RunnerTypeOK
<1> DEFINE r == Head(taskQueue)
<1>2. /\ UNCHANGED <<queueIs, workersActive, caller, sending, unhandled, lost, sessionDone, began,
                   ended, inOrder>>
      /\ finished' \in {finished, finished \union {r}} /\ poolCanceled' \in {poolCanceled, TRUE}
      /\ poolWorker' \in [PoolWorkers -> AtWork \union {"none", "gone"}]
      /\ working' \in {working, [working EXCEPT ![w] = r]}
  BY DEF WorkerTakes, WorkerGone, AtWork, RunnerControl, RunnerTyped, RunnerTypeOK
<1> HIDE DEF r
<1>3. RunnerTyped'
  <2>1. r \in Requests
    BY <1>1 DEF r
  <2>2. working' \in [PoolWorkers -> Requests \union {NoRequest}]
    BY <1>2, <2>1 DEF RunnerControl, RunnerTyped, RunnerTypeOK
  <2>3. taskQueue' \in Seq(Requests) /\ Len(taskQueue') <= TaskQueueSize
    BY <1>1, RunnerAssumption DEF RunnerControl, RunnerTyped, RunnerTypeOK
  <2> QED
    BY <1>2, <2>1, <2>2, <2>3 DEF RunnerControl, RunnerTyped, RunnerTypeOK
<1>4. HandsFull'
  BY <1>1, RunnerAssumption DEF WorkerTakes, WorkerGone, RunnerControl, RunnerTyped, RunnerTypeOK,
       HandsFull
<1>5. OneBeginning'
  BY DEF WorkerTakes, WorkerGone, AtWork, RunnerControl, RunnerTyped, RunnerTypeOK, HandsFull, OneBeginning,
     Beginning
<1>6. StopsInOrder'
  BY DEF WorkerTakes, WorkerGone, AtWork, RunnerControl, RunnerTyped, RunnerTypeOK, HandsFull, OneBeginning,
     StopsInOrder, Beginning, Stopping
<1> QED
  BY <1>3, <1>4, <1>5, <1>6 DEF RunnerControl

LEMMA TaskReturnsControl ==
  ASSUME RunnerControl, NEW w \in PoolWorkers, TaskReturns(w)
  PROVE  RunnerControl'
<1>1. working[w] \in Requests
  BY DEF TaskReturns, RunnerControl, RunnerTyped, RunnerTypeOK, HandsFull
<1>2. RunnerTyped'
  BY <1>1 DEF TaskReturns, AtWork, RunnerControl, RunnerTyped, RunnerTypeOK
<1>3. HandsFull'
  BY RunnerAssumption DEF TaskReturns, AtWork, RunnerControl, RunnerTyped, RunnerTypeOK, HandsFull
<1>4. OneBeginning'
  BY DEF TaskReturns, AtWork, RunnerControl, RunnerTyped, RunnerTypeOK, HandsFull, OneBeginning,
     Beginning
<1>5. StopsInOrder'
  BY DEF TaskReturns, AtWork, RunnerControl, RunnerTyped, RunnerTypeOK, HandsFull, OneBeginning,
     StopsInOrder, Beginning, Stopping
<1> QED
  BY <1>2, <1>3, <1>4, <1>5 DEF RunnerControl

LEMMA SessionContextEndsControl ==
  ASSUME RunnerControl, SessionContextEnds
  PROVE  RunnerControl'
<1>1. RunnerTyped'
  BY RunnerAssumption DEF SessionContextEnds, RunnerControl, RunnerTyped, RunnerTypeOK
<1>2. HandsFull'
  BY RunnerAssumption DEF SessionContextEnds, RunnerControl, RunnerTyped, RunnerTypeOK, HandsFull
<1>3. OneBeginning'
  BY DEF SessionContextEnds, RunnerControl, RunnerTyped, RunnerTypeOK, HandsFull, OneBeginning,
     Beginning
<1>4. StopsInOrder'
  BY DEF SessionContextEnds, RunnerControl, RunnerTyped, RunnerTypeOK, HandsFull, OneBeginning,
     StopsInOrder, Beginning, Stopping
<1> QED
  BY <1>1, <1>2, <1>3, <1>4 DEF RunnerControl

-----------------------------------------------------------------------------
(***************************************************************************)
(* A request that is taken up by someone without one, or put down.         *)
(***************************************************************************)
LEMMA TakesUp ==
  ASSUME NEW S, NEW f \in [S -> Requests \union {NoRequest}], Single(f, S),
         NEW x \in S, f[x] = NoRequest, NEW r \in Requests, r \notin Carried(f, S),
         NEW g, g = [f EXCEPT ![x] = r]
  PROVE  Single(g, S) /\ Gains(g, f, S, r)
<1>1. r # NoRequest /\ g[x] = r /\ \A y \in S \ {x} : g[y] = f[y]
  BY RunnerAssumption
<1>2. \A y \in S : f[y] # r
  BY <1>1 DEF Carried
<1>3. Single(g, S)
  BY <1>1, <1>2 DEF Single
<1>4. Carried(g, S) = Carried(f, S) \union {r}
  <2>1. Carried(g, S) \subseteq Carried(f, S) \union {r}
    BY <1>1 DEF Carried
  <2>2. ASSUME NEW y \in S, f[y] # NoRequest PROVE f[y] \in Carried(g, S)
    BY <1>1, <2>2 DEF Carried
  <2>3. r \in Carried(g, S)
    BY <1>1 DEF Carried
  <2> QED
    BY <2>1, <2>2, <2>3 DEF Carried
<1> QED
  BY <1>3, <1>4 DEF Gains

LEMMA PutsDown ==
  ASSUME NEW S, NEW f \in [S -> Requests \union {NoRequest}], Single(f, S),
         NEW x \in S, f[x] # NoRequest,
         NEW g, g = [f EXCEPT ![x] = NoRequest]
  PROVE  Single(g, S) /\ Loses(g, f, S, f[x])
<1>1. g[x] = NoRequest /\ \A y \in S \ {x} : g[y] = f[y]
  OBVIOUS
<1>2. \A y \in S \ {x} : f[y] # f[x]
  BY DEF Single
<1>3. Single(g, S) /\ f[x] \in Carried(f, S)
  BY <1>1 DEF Single, Carried
<1>4. Carried(g, S) = Carried(f, S) \ {f[x]}
  <2>1. Carried(g, S) \subseteq Carried(f, S) \ {f[x]}
    BY <1>1, <1>2 DEF Carried
  <2>2. ASSUME NEW y \in S, f[y] # NoRequest, f[y] # f[x] PROVE f[y] \in Carried(g, S)
    <3>1. y # x
      BY <2>2
    <3> QED
      BY <1>1, <2>2, <3>1 DEF Carried
  <2> QED
    BY <2>1, <2>2 DEF Carried
<1> QED
  BY <1>3, <1>4 DEF Loses

\* The queue as a set of requests, when one goes in and when one leaves.
LEMMA QueueGrows ==
  ASSUME NEW T, NEW s \in Seq(T), NEW r \in T, Differ(s), r \notin InQueue(s)
  PROVE  Differ(Append(s, r)) /\ InQueue(Append(s, r)) = InQueue(s) \union {r}
<1> DEFINE a == Append(s, r)  n == Len(s)
<1>1. n \in Nat /\ Len(a) = n + 1 /\ a[n + 1] = r /\ \A i \in 1 .. n : a[i] = s[i]
  BY LenProperties, AppendProperties
<1> HIDE DEF a
<1>2. \A i \in 1 .. n + 1 : i \in 1 .. n \/ i = n + 1
  BY <1>1
<1>3. \A i \in 1 .. n : s[i] # r /\ s[i] \in InQueue(s)
  BY DEF InQueue
<1>4. Differ(a)
  <2> SUFFICES ASSUME NEW i \in 1 .. n + 1, NEW j \in 1 .. n + 1, a[i] = a[j] PROVE i = j
    BY <1>1 DEF Differ
  <2>1. CASE i \in 1 .. n /\ j \in 1 .. n
    BY <1>1, <2>1 DEF Differ
  <2>2. CASE i = n + 1 \/ j = n + 1
    BY <1>1, <1>2, <1>3, <2>2
  <2> QED
    BY <1>2, <2>1, <2>2
<1>5. InQueue(a) \subseteq InQueue(s) \union {r}
  BY <1>1, <1>2 DEF InQueue
<1>6. r \in InQueue(a) /\ \A i \in 1 .. n : s[i] \in InQueue(a)
  BY <1>1 DEF InQueue
<1>7. InQueue(s) \subseteq InQueue(a)
  BY <1>6 DEF InQueue
<1> QED
  BY <1>4, <1>5, <1>6, <1>7 DEF a

LEMMA QueueShrinks ==
  ASSUME NEW T, NEW s \in Seq(T), s # <<>>, Differ(s)
  PROVE  /\ Differ(Tail(s)) /\ Head(s) \in InQueue(s)
         /\ InQueue(Tail(s)) = InQueue(s) \ {Head(s)}
<1> DEFINE t == Tail(s)  n == Len(s)
<1>1. /\ n \in Nat \ {0} /\ Head(s) = s[1] /\ Len(t) = n - 1
      /\ \A i \in 1 .. Len(t) : t[i] = s[i + 1]
  BY LenProperties, EmptySeq, HeadTailProperties
<1> HIDE DEF t
<1>2. /\ \A i \in 1 .. Len(t) : i + 1 \in 1 .. n /\ i + 1 # 1
      /\ \A i \in 1 .. n : i = 1 \/ (i - 1 \in 1 .. Len(t) /\ (i - 1) + 1 = i)
      /\ 1 \in 1 .. n
  BY <1>1
<1>3. Differ(t)
  <2> SUFFICES ASSUME NEW i \in 1 .. Len(t), NEW j \in 1 .. Len(t), t[i] = t[j] PROVE i = j
    BY DEF Differ
  <2>1. i + 1 = j + 1
    BY <1>1, <1>2 DEF Differ
  <2> QED
    BY <1>1, <2>1
<1>4. \A i \in 1 .. Len(t) : t[i] # s[1] /\ t[i] \in InQueue(s)
  BY <1>1, <1>2 DEF Differ, InQueue
<1>5. \A i \in 1 .. n : s[i] = s[1] \/ s[i] \in InQueue(t)
  <2> SUFFICES ASSUME NEW i \in 1 .. n, i # 1 PROVE s[i] \in InQueue(t)
    OBVIOUS
  <2>1. i - 1 \in 1 .. Len(t) /\ t[i - 1] = s[i]
    BY <1>1, <1>2
  <2> QED
    BY <2>1 DEF InQueue
<1>6. InQueue(t) = InQueue(s) \ {s[1]}
  BY <1>4, <1>5 DEF InQueue
<1>7. s[1] \in InQueue(s)
  BY <1>2 DEF InQueue
<1> QED
  BY <1>1, <1>3, <1>6, <1>7 DEF t

-----------------------------------------------------------------------------
(***************************************************************************)
(* Each step of the runner moves at most one request, from one place to    *)
(* another.                                                                *)
(***************************************************************************)
LEMMA RequestsRest ==
  ASSUME PlacesInv, UNCHANGED <<taskQueue, working, sending, unhandled, finished, lost>>
  PROVE  PlacesInv'
<1>1. UNCHANGED <<Queued, Executing, Offered>>
  BY DEF Queued, Executing, Offered, Carried, InQueue
<1>2. Once'
  BY DEF PlacesInv, Once, Single, Differ
<1> QED
  BY <1>1, <1>2 DEF PlacesInv, Apart, Nowhere

LEMMA HandlePacketPlaces ==
  ASSUME RunnerControl, PlacesInv, NEW b \in RunnerCallers, NEW r \in Requests, HandlePacket(b, r)
  PROVE  PlacesInv'
<1>1. /\ unhandled' = unhandled \ {r} /\ r \in unhandled
      /\ UNCHANGED <<finished, Queued, Executing>>
      /\ Differ(taskQueue)' /\ Single(working, PoolWorkers)'
  BY DEF HandlePacket, PlacesInv, Once, Queued, Executing, Single, Differ, Carried, InQueue
<1>2. CASE lost' = lost \union {r} /\ UNCHANGED sending
  <2>1. Single(sending, RunnerCallers)' /\ Offered' = Offered
    BY <1>2 DEF PlacesInv, Once, Offered, Single, Carried
  <2> QED
    BY <1>1, <1>2, <2>1 DEF PlacesInv, Once, Apart, Nowhere
<1>3. CASE sending' = [sending EXCEPT ![b] = r] /\ UNCHANGED lost
  <2>1. sending[b] = NoRequest /\ sending \in [RunnerCallers -> Requests \union {NoRequest}]
    BY DEF HandlePacket, RunnerControl, RunnerTyped, RunnerTypeOK, HandsFull
  <2>2. r \notin Carried(sending, RunnerCallers) /\ Single(sending, RunnerCallers)
    BY <1>1 DEF PlacesInv, Once, Apart, Offered
  <2>3. Single(sending', RunnerCallers)
    BY <1>3, <2>1, <2>2, TakesUp
  <2>4. Gains(sending', sending, RunnerCallers, r)
    BY <1>3, <2>1, <2>2, TakesUp
  <2>5. Single(sending, RunnerCallers)' /\ Offered' = Offered \union {r}
    BY <2>3, <2>4 DEF Offered, Gains
  <2> QED
    BY <1>1, <1>3, <2>5 DEF PlacesInv, Once, Apart, Nowhere
<1> QED
  BY <1>2, <1>3 DEF HandlePacket

LEMMA SendRequestPlaces ==
  ASSUME RunnerControl, PlacesInv, NEW b \in RunnerCallers, SendRequest(b)
  PROVE  PlacesInv'
<1> DEFINE r == sending[b]
<1>1. /\ UNCHANGED <<unhandled, finished, lost, Executing>> /\ Single(working, PoolWorkers)'
      /\ taskQueue' = Append(taskQueue, r) /\ sending' = [sending EXCEPT ![b] = NoRequest]
  BY DEF SendRequest, PlacesInv, Once, Executing, Single, Carried
<1>2. /\ r # NoRequest /\ r \in Requests /\ sending \in [RunnerCallers -> Requests \union {NoRequest}]
      /\ taskQueue \in Seq(Requests)
  BY DEF SendRequest, RunnerControl, RunnerTyped, RunnerTypeOK, HandsFull
<1>3. Single(sending, RunnerCallers)' /\ r \in Offered /\ Offered' = Offered \ {r}
  <2>1. Single(sending, RunnerCallers)
    BY DEF PlacesInv, Once
  <2>2. Single(sending', RunnerCallers)
    BY <1>1, <1>2, <2>1, PutsDown
  <2>3. Loses(sending', sending, RunnerCallers, r)
    BY <1>1, <1>2, <2>1, PutsDown
  <2> QED
    BY <2>2, <2>3 DEF Offered, Loses
<1>4. Differ(taskQueue)' /\ Queued' = Queued \union {r}
  <2>1. r \notin Queued /\ Differ(taskQueue)
    BY <1>3 DEF PlacesInv, Once, Apart
  <2> QED
    BY <1>1, <1>2, <2>1, QueueGrows DEF Queued
<1> QED
  BY <1>1, <1>3, <1>4 DEF PlacesInv, Once, Apart, Nowhere

LEMMA SendPanicsPlaces ==
  ASSUME RunnerControl, PlacesInv, NEW b \in RunnerCallers, SendPanics(b)
  PROVE  PlacesInv'
<1> DEFINE r == sending[b]
<1>1. /\ UNCHANGED <<unhandled, finished, Queued, Executing>>
      /\ Differ(taskQueue)' /\ Single(working, PoolWorkers)'
      /\ lost' = lost \union {r} /\ sending' = [sending EXCEPT ![b] = NoRequest]
  BY DEF SendPanics, PlacesInv, Once, Queued, Executing, Single, Differ, Carried, InQueue
<1>2. r # NoRequest /\ sending \in [RunnerCallers -> Requests \union {NoRequest}]
  BY DEF SendPanics, RunnerControl, RunnerTyped, RunnerTypeOK, HandsFull
<1>3. Single(sending, RunnerCallers)' /\ r \in Offered /\ Offered' = Offered \ {r}
  <2>1. Single(sending, RunnerCallers)
    BY DEF PlacesInv, Once
  <2>2. Single(sending', RunnerCallers)
    BY <1>1, <1>2, <2>1, PutsDown
  <2>3. Loses(sending', sending, RunnerCallers, r)
    BY <1>1, <1>2, <2>1, PutsDown
  <2> QED
    BY <2>2, <2>3 DEF Offered, Loses
<1> QED
  BY <1>1, <1>3 DEF PlacesInv, Once, Apart, Nowhere

LEMMA WorkerTakesPlaces ==
  ASSUME RunnerControl, PlacesInv, NEW w \in PoolWorkers, WorkerTakes(w)
  PROVE  PlacesInv'
<1> DEFINE r == Head(taskQueue)
<1>1. /\ UNCHANGED <<unhandled, lost, Offered>> /\ Single(sending, RunnerCallers)'
      /\ taskQueue' = Tail(taskQueue) /\ taskQueue # <<>> /\ taskQueue \in Seq(Requests)
      /\ working \in [PoolWorkers -> Requests \union {NoRequest}] /\ working[w] = NoRequest
  BY DEF WorkerTakes, RunnerControl, RunnerTyped, RunnerTypeOK, HandsFull, PlacesInv, Once, Offered,
         Single, Carried
<1>2. r \in Requests
  BY <1>1, HeadTailProperties
<1>3. Differ(taskQueue)' /\ r \in Queued /\ Queued' = Queued \ {r}
  BY <1>1, QueueShrinks DEF PlacesInv, Once, Queued
<1>4. r \notin Carried(working, PoolWorkers) /\ Single(working, PoolWorkers)
  BY <1>3 DEF PlacesInv, Once, Apart, Executing
<1>5. CASE finished' = finished \union {r} /\ UNCHANGED working
  <2>1. Single(working, PoolWorkers)' /\ Executing' = Executing
    BY <1>4, <1>5 DEF Executing, Single, Carried
  <2> QED
    BY <1>1, <1>3, <1>5, <2>1 DEF PlacesInv, Once, Apart, Nowhere
<1>6. CASE working' = [working EXCEPT ![w] = r] /\ UNCHANGED finished
  <2>1. Single(working', PoolWorkers)
    BY <1>1, <1>2, <1>4, <1>6, TakesUp
  <2>2. Gains(working', working, PoolWorkers, r)
    BY <1>1, <1>2, <1>4, <1>6, TakesUp
  <2>3. Single(working, PoolWorkers)' /\ Executing' = Executing \union {r}
    BY <2>1, <2>2 DEF Executing, Gains
  <2> QED
    BY <1>1, <1>3, <1>6, <2>3 DEF PlacesInv, Once, Apart, Nowhere
<1> QED
  BY <1>5, <1>6 DEF WorkerTakes

LEMMA TaskReturnsPlaces ==
  ASSUME RunnerControl, PlacesInv, NEW w \in PoolWorkers, TaskReturns(w)
  PROVE  PlacesInv'
<1> DEFINE r == working[w]
<1>1. /\ UNCHANGED <<unhandled, lost, Queued, Offered>>
      /\ Differ(taskQueue)' /\ Single(sending, RunnerCallers)'
      /\ finished' = finished \union {r} /\ working' = [working EXCEPT ![w] = NoRequest]
  BY DEF TaskReturns, PlacesInv, Once, Queued, Offered, Single, Differ, Carried, InQueue
<1>2. r # NoRequest /\ working \in [PoolWorkers -> Requests \union {NoRequest}]
  BY DEF TaskReturns, RunnerControl, RunnerTyped, RunnerTypeOK, HandsFull
<1>3. Single(working, PoolWorkers)' /\ r \in Executing /\ Executing' = Executing \ {r}
  <2>1. Single(working, PoolWorkers)
    BY DEF PlacesInv, Once
  <2>2. Single(working', PoolWorkers)
    BY <1>1, <1>2, <2>1, PutsDown
  <2>3. Loses(working', working, PoolWorkers, r)
    BY <1>1, <1>2, <2>1, PutsDown
  <2> QED
    BY <2>2, <2>3 DEF Executing, Loses
<1> QED
  BY <1>1, <1>3 DEF PlacesInv, Once, Apart, Nowhere

\* A queue is made when there is none, and then nothing waits in it.
LEMMA MakeQueuePlaces ==
  ASSUME RunnerControl, PlacesInv, NEW b \in RunnerCallers, MakeQueue(b)
  PROVE  PlacesInv'
<1>1. taskQueue = <<>>
  BY DEF MakeQueue, RunnerControl, OneBeginning
<1> QED
  BY <1>1, RequestsRest DEF MakeQueue

-----------------------------------------------------------------------------
LEMMA RunnerStarts == RunnerInit => RunnerInv
<1> SUFFICES ASSUME RunnerInit PROVE RunnerInv
  OBVIOUS
<1>1. RunnerTyped
  <2>1. taskQueue \in Seq(Requests) /\ Len(taskQueue) = 0
    BY EmptySeq DEF RunnerInit
  <2>2. Len(taskQueue) <= TaskQueueSize
    BY <2>1, RunnerAssumption
  <2> QED
    BY <2>1, <2>2 DEF RunnerInit, RunnerTyped, RunnerTypeOK, Steps
<1>2. HandsFull /\ OneBeginning /\ StopsInOrder
  BY DEF RunnerInit, HandsFull, OneBeginning, StopsInOrder, Beginning, Stopping
<1>3. Queued = {} /\ Differ(taskQueue)
  BY EmptySeq DEF RunnerInit, Queued, InQueue, Differ
<1>4. Executing = {} /\ Offered = {} /\ Single(working, PoolWorkers) /\ Single(sending, RunnerCallers)
  BY DEF RunnerInit, Executing, Offered, Carried, Single
<1>5. PlacesInv
  BY <1>3, <1>4 DEF RunnerInit, PlacesInv, Once, Apart, Nowhere
<1> QED
  BY <1>1, <1>2, <1>5 DEF RunnerInv, RunnerControl

LEMMA RunnerStep == RunnerInv /\ [RunnerNext]_runnerVars => RunnerInv'
<1> SUFFICES ASSUME RunnerControl, PlacesInv, [RunnerNext]_runnerVars
             PROVE  RunnerControl' /\ PlacesInv'
  BY DEF RunnerInv
<1>1. CASE SessionContextEnds
  <2>1. UNCHANGED <<taskQueue, working, sending, unhandled, finished, lost>>
    BY <1>1 DEF SessionContextEnds
  <2> QED
    BY <1>1, <2>1, SessionContextEndsControl, RequestsRest
<1>2. ASSUME NEW w \in PoolWorkers, PoolStep(w) PROVE RunnerControl' /\ PlacesInv'
  <2>1. CASE WorkerLoops(w) \/ WorkerExits(w)
    <3>1. UNCHANGED <<taskQueue, working, sending, unhandled, finished, lost>>
      BY <2>1 DEF WorkerLoops, WorkerExits
    <3> QED
      BY <2>1, <3>1, WorkerLoopsControl, WorkerExitsControl, RequestsRest
  <2>2. CASE WorkerTakes(w)
    BY <2>2, WorkerTakesControl, WorkerTakesPlaces
  <2>3. CASE TaskReturns(w)
    BY <2>3, TaskReturnsControl, TaskReturnsPlaces
  <2> QED
    BY <1>2, <2>1, <2>2, <2>3 DEF PoolStep
<1>3. ASSUME NEW b \in RunnerCallers, CallerStep(b) PROVE RunnerControl' /\ PlacesInv'
  <2>1. CASE MakeQueue(b)
    BY <2>1, MakeQueueControl, MakeQueuePlaces
  <2>2. CASE SendRequest(b)
    BY <2>2, SendRequestControl, SendRequestPlaces
  <2>3. CASE SendPanics(b)
    BY <2>3, SendPanicsControl, SendPanicsPlaces
  <2>4. CASE Activate(b) \/ Spawn(b) \/ StopWorkers(b) \/ WorkersStopped(b) \/ CloseTaskQueue(b)
    <3>1. UNCHANGED <<taskQueue, working, sending, unhandled, finished, lost>>
      BY <2>4 DEF Activate, Spawn, StopWorkers, WorkersStopped, CloseTaskQueue
    <3> QED
      BY <2>4, <3>1, ActivateControl, SpawnControl, StopWorkersControl, WorkersStoppedControl,
         CloseTaskQueueControl, RequestsRest
  <2> QED
    BY <1>3, <2>1, <2>2, <2>3, <2>4 DEF CallerStep
<1>4. ASSUME NEW b \in RunnerCallers, HandleBegin(b) \/ HandleEnd(b) PROVE RunnerControl' /\ PlacesInv'
  <2>1. UNCHANGED <<taskQueue, working, sending, unhandled, finished, lost>>
    BY <1>4 DEF HandleBegin, HandleEnd
  <2> QED
    BY <1>4, <2>1, HandleBeginControl, HandleEndControl, RequestsRest
<1>5. ASSUME NEW b \in RunnerCallers, NEW r \in Requests, HandlePacket(b, r)
      PROVE  RunnerControl' /\ PlacesInv'
  BY <1>5, HandlePacketControl, HandlePacketPlaces
<1>6. CASE UNCHANGED runnerVars
  <2>1. RunnerControl'
    BY <1>6 DEF runnerVars, RunnerControl, RunnerTyped, RunnerTypeOK, HandsFull, OneBeginning,
       StopsInOrder
  <2>2. PlacesInv'
    BY <1>6, RequestsRest DEF runnerVars
  <2> QED
    BY <2>1, <2>2
<1> QED
  BY <1>1, <1>2, <1>3, <1>4, <1>5, <1>6 DEF RunnerNext

LEMMA RunnerInvariant == RunnerSpec => []RunnerInv
BY RunnerStarts, RunnerStep, PTL DEF RunnerSpec

-----------------------------------------------------------------------------
\* One member, or none, of those that carry a request.
LEMMA CarriersCounted ==
  ASSUME NEW f, NEW S, Single(f, S), NEW r \in Requests
  PROVE  Cardinality({x \in S : f[x] = r}) = IF r \in Carried(f, S) THEN 1 ELSE 0
<1>1. r # NoRequest
  BY RunnerAssumption
<1>2. CASE r \in Carried(f, S)
  <2>1. PICK x \in S : f[x] = r
    BY <1>2 DEF Carried
  <2>2. {y \in S : f[y] = r} = {x}
    BY <1>1, <2>1 DEF Single
  <2> QED
    BY <1>2, <2>2, FS_Singleton
<1>3. CASE r \notin Carried(f, S)
  <2>1. {x \in S : f[x] = r} = {}
    BY <1>1, <1>3 DEF Carried
  <2> QED
    BY <1>3, <2>1, FS_EmptySet
<1> QED
  BY <1>2, <1>3

LEMMA QueuedCounted ==
  ASSUME Differ(taskQueue), NEW r
  PROVE  Cardinality({i \in 1 .. Len(taskQueue) : taskQueue[i] = r}) = IF r \in Queued THEN 1 ELSE 0
<1>1. CASE r \in Queued
  <2>1. PICK i \in 1 .. Len(taskQueue) : taskQueue[i] = r
    BY <1>1 DEF Queued, InQueue
  <2>2. {j \in 1 .. Len(taskQueue) : taskQueue[j] = r} = {i}
    BY <2>1 DEF Differ
  <2> QED
    BY <1>1, <2>2, FS_Singleton
<1>2. CASE r \notin Queued
  <2>1. {i \in 1 .. Len(taskQueue) : taskQueue[i] = r} = {}
    BY <1>2 DEF Queued, InQueue
  <2> QED
    BY <1>2, <2>1, FS_EmptySet
<1> QED
  BY <1>1, <1>2

LEMMA RunnerSafe == RunnerInv => TaskHandledOnce /\ PoolEndsWithEnd
<1> SUFFICES ASSUME RunnerControl, PlacesInv PROVE TaskHandledOnce /\ PoolEndsWithEnd
  BY DEF RunnerInv
<1>1. PoolEndsWithEnd
  BY DEF RunnerControl, StopsInOrder, PoolEndsWithEnd
<1>2. ASSUME NEW r \in Requests PROVE Places(r) = 1
  <2>1. /\ Cardinality({i \in 1 .. Len(taskQueue) : taskQueue[i] = r}) = IF r \in Queued THEN 1 ELSE 0
        /\ Cardinality({w \in PoolWorkers : working[w] = r}) = IF r \in Executing THEN 1 ELSE 0
        /\ Cardinality({b \in RunnerCallers : sending[b] = r}) = IF r \in Offered THEN 1 ELSE 0
    BY QueuedCounted, CarriersCounted DEF PlacesInv, Once, Executing, Offered
  <2>2. r \in unhandled \union finished \union lost \union Queued \union Executing \union Offered
    BY DEF PlacesInv, Nowhere
  <2> QED
    BY <2>1, <2>2 DEF PlacesInv, Apart, Places
<1> QED
  BY <1>1, <1>2 DEF TaskHandledOnce

-----------------------------------------------------------------------------
(***************************************************************************)
(* The agent run.  While the database answers, what it holds is what the   *)
(* function holds, and only the step at work is unfinished.                *)
(***************************************************************************)
RunRecord == [status : {"none", "queued", "running", "succeeded", "failed", "cancelled"},
              phase : {"none", "planning", "executing", "done"}]
StepStatus == {"running", "succeeded", "failed"}

RunTyped ==
  /\ RuntimeTypeOK
  /\ run \in RunRecord /\ runSaved \in RunRecord
  /\ place \in {"create", "start", "decompose", "loop", "step", "returned"}
  /\ dbFails \in BOOLEAN /\ dbFailed \in BOOLEAN

RunPlaces ==
  /\ place = "returned" <=> returned # "nothing"
  /\ ~dbFailed => runSaved = run
  /\ place \in {"decompose", "loop", "step"} => run.status = "running"
  /\ place \in {"create", "start", "decompose"} => steps = <<>>
  /\ place = "loop" /\ remaining = <<>> =>
       steps # <<>> /\ (~dbFailed => steps[Len(steps)] = "succeeded")
  /\ place = "step" =>
       /\ steps # <<>> /\ remaining # <<>>
       /\ ~dbFailed => \A i \in 1 .. Len(steps) - 1 : steps[i] # "running"

RuntimeInv == RunTyped /\ RunPlaces /\ RunIsTold

-----------------------------------------------------------------------------
LEMMA StepIsSet ==
  ASSUME steps \in Seq(StepStatus), steps # <<>>, NEW status \in StepStatus, SetStep(status)
  PROVE  /\ steps' \in Seq(StepStatus) /\ Len(steps') = Len(steps) /\ steps' # <<>>
         /\ ~dbFails => /\ steps'[Len(steps')] = status
                        /\ \A i \in 1 .. Len(steps) - 1 : steps'[i] = steps[i]
<1>1. Len(steps) \in Nat \ {0}
  BY EmptySeq
<1>2. CASE dbFails
  BY <1>2 DEF SetStep
<1>3. CASE ~dbFails
  <2>1. steps' = [steps EXCEPT ![Len(steps)] = status]
    BY <1>3 DEF SetStep
  <2>2. /\ steps' \in Seq(StepStatus) /\ Len(steps') = Len(steps)
        /\ \A j \in 1 .. Len(steps) : steps'[j] = IF j = Len(steps) THEN status ELSE steps[j]
    BY <1>1, <2>1, ExceptSeq
  <2>3. steps' # <<>>
    BY <1>1, <2>2, EmptySeq
  <2> QED
    BY <1>1, <2>2, <2>3
<1> QED
  BY <1>2, <1>3

\* A plan, what is left of one, and new tasks before what is left.
LEMMA TasksLeft ==
  ASSUME RunTyped, remaining # <<>>, NEW p \in Plans
  PROVE  /\ p \in Seq(TaskKinds) /\ p # <<>>
         /\ Tail(remaining) \in Seq(TaskKinds)
         /\ p \o Tail(remaining) \in Seq(TaskKinds) /\ p \o Tail(remaining) # <<>>
<1>1. p \in Seq(TaskKinds) /\ p # <<>>
  BY RuntimeAssumption
<1>2. Tail(remaining) \in Seq(TaskKinds)
  BY HeadTailProperties DEF RunTyped, RuntimeTypeOK
<1>3. p \o Tail(remaining) \in Seq(TaskKinds) /\ p \o Tail(remaining) # <<>>
  BY <1>1, <1>2, ConcatProperties, ConcatEqualIffEmpty
<1> QED
  BY <1>1, <1>2, <1>3

-----------------------------------------------------------------------------
LEMMA RuntimeStarts == RuntimeInit => RuntimeInv
<1> SUFFICES ASSUME RuntimeInit PROVE RuntimeInv
  OBVIOUS
<1>1. RunTyped
  BY EmptySeq DEF RuntimeInit, RunTyped, RuntimeTypeOK, NoRun, RunRecord
<1>2. RunPlaces
  BY DEF RuntimeInit, RunPlaces
<1>3. RunIsTold
  BY EmptySeq, RuntimeAssumption DEF RuntimeInit, RunIsTold
<1> QED
  BY <1>1, <1>2, <1>3 DEF RuntimeInv

LEMMA CreateRunKeeps == ASSUME RuntimeInv, CreateRun PROVE RuntimeInv'
<1>1. RunTyped'
  BY DEF RuntimeInv, RunTyped, RuntimeTypeOK, CreateRun, SaveRun, Notice, Returns, RunGoes, outside, RunRecord
<1>2. RunPlaces'
  BY DEF RuntimeInv, RunTyped, RuntimeTypeOK, RunPlaces, CreateRun, SaveRun, Notice, Returns, RunGoes, outside
<1>3. RunIsTold'
  BY DEF RuntimeInv, RunTyped, RuntimeTypeOK, RunPlaces, RunIsTold, CreateRun, SaveRun, Notice, Returns, RunGoes, outside
<1> QED
  BY <1>1, <1>2, <1>3 DEF RuntimeInv

LEMMA StartRunKeeps == ASSUME RuntimeInv, StartRun PROVE RuntimeInv'
<1>1. RunTyped'
  BY DEF RuntimeInv, RunTyped, RuntimeTypeOK, StartRun, SaveRun, Notice, Returns, RunGoes, outside, RunRecord
<1>2. RunPlaces'
  BY DEF RuntimeInv, RunTyped, RuntimeTypeOK, RunPlaces, StartRun, SaveRun, Notice, Returns, RunGoes, outside, RunRecord
<1>3. RunIsTold'
  BY DEF RuntimeInv, RunTyped, RuntimeTypeOK, RunPlaces, RunIsTold, StartRun, SaveRun, Notice, Returns, RunGoes, outside, RunRecord
<1> QED
  BY <1>1, <1>2, <1>3 DEF RuntimeInv

LEMMA DecomposeKeeps == ASSUME RuntimeInv, Decompose PROVE RuntimeInv'
<1>1. RunTyped'
  BY RuntimeAssumption DEF RuntimeInv, RunTyped, RuntimeTypeOK, Decompose, EndRun, SaveRun, Notice, Returns, RunGoes, outside, RunRecord
<1>2. RunPlaces'
  BY RuntimeAssumption DEF RuntimeInv, RunTyped, RuntimeTypeOK, RunPlaces, Decompose, EndRun, SaveRun, Notice, Returns, RunGoes, outside, RunRecord
<1>3. RunIsTold'
  BY DEF RuntimeInv, RunTyped, RuntimeTypeOK, RunPlaces, RunIsTold, Decompose, EndRun, SaveRun, Notice, Returns, RunGoes, outside, RunRecord
<1> QED
  BY <1>1, <1>2, <1>3 DEF RuntimeInv

LEMMA LoopEndsKeeps == ASSUME RuntimeInv, LoopEnds PROVE RuntimeInv'
<1>1. RunTyped'
  BY DEF RuntimeInv, RunTyped, RuntimeTypeOK, LoopEnds, EndRun, SaveRun, Notice, Returns, outside, RunRecord
<1>2. RunPlaces'
  BY DEF RuntimeInv, RunTyped, RuntimeTypeOK, RunPlaces, LoopEnds, EndRun, SaveRun, Notice, Returns, outside, RunRecord
<1>3. RunIsTold'
  BY DEF RuntimeInv, RunTyped, RuntimeTypeOK, RunPlaces, RunIsTold, LoopEnds, EndRun, SaveRun, Notice, Returns, outside, RunRecord
<1> QED
  BY <1>1, <1>2, <1>3 DEF RuntimeInv

LEMMA BeginStepKeeps == ASSUME RuntimeInv, BeginStep PROVE RuntimeInv'
<1> DEFINE more == Append(steps, "running")
<1>1. /\ more \in Seq(StepStatus) /\ more # <<>> /\ Len(more) = Len(steps) + 1 /\ Len(steps) \in Nat
      /\ \A i \in 1 .. Len(steps) : more[i] = steps[i]
  BY AppendProperties, LenProperties DEF RuntimeInv, RunTyped, RuntimeTypeOK, StepStatus
<1> HIDE DEF more
<1>2. /\ UNCHANGED <<run, runSaved, remaining, totalTokens, ctxEnded, clientGone, overtime, dbFails>>
      /\ dbFailed' = (dbFailed \/ dbFails) /\ place = "loop" /\ remaining # <<>>
      /\ ~(MaxSteps > 0 /\ Len(steps) >= MaxSteps)
      /\ \/ dbFails /\ place' = "returned" /\ returned' = "error" /\ UNCHANGED steps
         \/ ~dbFails /\ place' = "step" /\ UNCHANGED returned /\ steps' = more
  BY DEF BeginStep, StepsUsed, Notice, Returns, RunGoes, outside, more
<1>3. RunTyped'
  BY <1>1, <1>2 DEF RuntimeInv, RunTyped, RuntimeTypeOK, StepStatus
<1>4. RunPlaces'
  BY <1>1, <1>2 DEF RuntimeInv, RunTyped, RunPlaces, RunIsTold
<1>5. RunIsTold'
  BY <1>1, <1>2, RuntimeAssumption DEF RuntimeInv, RunTyped, RunPlaces, RunIsTold
<1> QED
  BY <1>3, <1>4, <1>5 DEF RuntimeInv

LEMMA StepSucceedsKeeps == ASSUME RuntimeInv, StepSucceeds PROVE RuntimeInv'
<1>1. /\ steps \in Seq(StepStatus) /\ steps # <<>> /\ remaining # <<>> /\ remaining \in Seq(TaskKinds)
      /\ Len(steps) \in Nat \ {0}
  BY EmptySeq DEF StepSucceeds, RuntimeInv, RunTyped, RuntimeTypeOK, RunPlaces, StepStatus
<1>2. /\ SetStep("succeeded") /\ totalTokens' \in Nat
      /\ UNCHANGED <<run, runSaved, returned, ctxEnded, clientGone, overtime, dbFails>>
      /\ place = "step" /\ place' = "loop" /\ dbFailed' = (dbFailed \/ dbFails)
      /\ remaining' \in Seq(TaskKinds)
  <2>1. totalTokens' \in Nat
    BY RuntimeAssumption DEF StepSucceeds, RuntimeInv, RunTyped, RuntimeTypeOK
  <2>2. remaining' \in Seq(TaskKinds)
    BY <1>1, TasksLeft, HeadTailProperties, RuntimeAssumption DEF StepSucceeds, reflectAndReplan
  <2> QED
    BY <2>1, <2>2 DEF StepSucceeds, Notice, RunGoes, outside
<1>3. /\ steps' \in Seq(StepStatus) /\ Len(steps') = Len(steps) /\ steps' # <<>>
      /\ ~dbFails => /\ steps'[Len(steps')] = "succeeded"
                     /\ \A i \in 1 .. Len(steps) - 1 : steps'[i] = steps[i]
  BY <1>1, <1>2, StepIsSet DEF StepStatus
<1>4. RunTyped'
  BY <1>2, <1>3 DEF RuntimeInv, RunTyped, RuntimeTypeOK, StepStatus
<1>5. RunPlaces'
  BY <1>2, <1>3 DEF RuntimeInv, RunTyped, RunPlaces
<1>6. ~dbFailed' => \A i \in 1 .. Len(steps') : steps'[i] # "running"
  BY <1>1, <1>2, <1>3 DEF RuntimeInv, RunTyped, RunPlaces
<1>7. RunIsTold'
  BY <1>1, <1>2, <1>3, <1>6 DEF RuntimeInv, RunPlaces, RunIsTold
<1> QED
  BY <1>4, <1>5, <1>7 DEF RuntimeInv

LEMMA StepFailsKeeps == ASSUME RuntimeInv, StepFails PROVE RuntimeInv'
<1>1. /\ steps \in Seq(StepStatus) /\ steps # <<>> /\ remaining # <<>> /\ remaining \in Seq(TaskKinds)
      /\ Len(steps) \in Nat \ {0}
  BY EmptySeq DEF StepFails, RuntimeInv, RunTyped, RuntimeTypeOK, RunPlaces, StepStatus
<1>2. /\ SetStep("failed") /\ place = "step" /\ UNCHANGED <<ctxEnded, clientGone, overtime, dbFails>>
      /\ totalTokens' \in Nat /\ dbFailed' = (dbFailed \/ dbFails)
      /\ \/ /\ place' = "loop" /\ UNCHANGED <<returned, run, runSaved>>
            /\ remaining' \in Seq(TaskKinds) /\ remaining' # <<>>
         \/ /\ place' = "returned" /\ returned' = "error" /\ UNCHANGED remaining
            /\ run' = [status |-> "failed", phase |-> run.phase]
            /\ runSaved' = IF dbFails THEN runSaved ELSE run'
  <2>1. totalTokens' \in Nat
    BY RuntimeAssumption DEF StepFails, RuntimeInv, RunTyped, RuntimeTypeOK
  <2>2. CASE \E new \in Plans : remaining' = new \o Tail(remaining) /\ RunGoes("loop") /\ Notice
                                /\ UNCHANGED <<run, runSaved>>
    BY <1>1, <2>1, <2>2, TasksLeft DEF StepFails, RunGoes, Notice, outside, RuntimeInv
  <2>3. CASE EndRun("failed", "error") /\ UNCHANGED remaining
    BY <2>1, <2>3 DEF StepFails, EndRun, SaveRun, Notice, Returns, outside
  <2> QED
    BY <2>2, <2>3 DEF StepFails, replanAfterFailure
<1>3. /\ steps' \in Seq(StepStatus) /\ Len(steps') = Len(steps) /\ steps' # <<>>
      /\ ~dbFails => /\ steps'[Len(steps')] = "failed"
                     /\ \A i \in 1 .. Len(steps) - 1 : steps'[i] = steps[i]
  BY <1>1, <1>2, StepIsSet DEF StepStatus
<1>4. RunTyped'
  BY <1>2, <1>3 DEF RuntimeInv, RunTyped, RuntimeTypeOK, StepStatus, RunRecord
<1>5. RunPlaces'
  BY <1>2, <1>3 DEF RuntimeInv, RunTyped, RunPlaces
<1>6. ~dbFailed' => \A i \in 1 .. Len(steps') : steps'[i] # "running"
  BY <1>1, <1>2, <1>3 DEF RuntimeInv, RunTyped, RunPlaces
<1>7. RunIsTold'
  BY <1>1, <1>2, <1>3, <1>6 DEF RuntimeInv, RunTyped, RunPlaces, RunIsTold
<1> QED
  BY <1>4, <1>5, <1>7 DEF RuntimeInv

LEMMA OutsideKeeps == ASSUME RuntimeInv, Outside PROVE RuntimeInv'
<1>1. UNCHANGED <<run, runSaved, steps, remaining, totalTokens, place, returned, dbFailed>> /\ place # "returned"
      /\ dbFails' \in BOOLEAN
  BY DEF Outside, ContextEnd, ClientLeaves, TimeIsUp, DatabaseTurns, RuntimeInv, RunTyped
<1>2. RunTyped' /\ RunPlaces'
  BY <1>1 DEF RuntimeInv, RunTyped, RuntimeTypeOK, RunPlaces
<1>3. RunIsTold'
  BY <1>1 DEF RuntimeInv, RunPlaces, RunIsTold
<1> QED
  BY <1>2, <1>3 DEF RuntimeInv

LEMMA RuntimeInvariant == RuntimeSpec => []RuntimeInv
<1>1. RuntimeInv /\ [RuntimeNext]_runtimeVars => RuntimeInv'
  <2> SUFFICES ASSUME RuntimeInv, [RuntimeNext]_runtimeVars PROVE RuntimeInv'
    OBVIOUS
  <2>1. CASE RuntimeStep
    BY <2>1, CreateRunKeeps, StartRunKeeps, DecomposeKeeps, LoopEndsKeeps, BeginStepKeeps,
       StepSucceedsKeeps, StepFailsKeeps DEF RuntimeStep
  <2>2. CASE Outside
    BY <2>2, OutsideKeeps
  <2>3. CASE UNCHANGED runtimeVars
    BY <2>3 DEF runtimeVars, RuntimeInv, RunTyped, RuntimeTypeOK, RunPlaces, RunIsTold
  <2> QED
    BY <2>1, <2>2, <2>3 DEF RuntimeNext
<1> QED
  BY <1>1, RuntimeStarts, PTL DEF RuntimeSpec

-----------------------------------------------------------------------------
(***************************************************************************)
(* The pipeline.  A packet that a running stage holds is newer than all    *)
(* that later stages hold and than all that have reached the outputs; the  *)
(* packet that the caller processes itself is newer than all of them.      *)
(***************************************************************************)
StagePackets == 1 .. MaxEmits

StageTyped ==
  /\ workerRunning \in [Stage -> BOOLEAN] /\ stageDone \in [Stage -> BOOLEAN]
  /\ queueClosed \in [Stage -> BOOLEAN]
  /\ stageLoop \in [Stage -> {"none", "select", "work", "gone"}]
  /\ processing \in [Stage -> 0 .. MaxEmits]
  /\ eventQueue \in [Stage -> Seq(StagePackets)]
  /\ \A s \in Stage : Len(eventQueue[s]) <= StageQueueSize
  /\ inline \in 0 .. MaxEmits /\ emitted \in 0 .. MaxEmits
  /\ delivered \in Seq(StagePackets)
  /\ crashed \in BOOLEAN

StageControl(s) ==
  /\ stageLoop[s] \in {"select", "work"} => workerRunning[s]
  /\ workerRunning[s] => stageLoop[s] # "none"
  /\ stageLoop[s] = "gone" \/ stageDone[s] => queueClosed[s]
  /\ stageLoop[s] = "none" => eventQueue[s] = <<>>
  /\ stageLoop[s] = "work" <=> processing[s] # 0

StageRuns(s) == stageLoop[s] \in {"select", "work"}

Queues(s, p) == \E i \in 1 .. Len(eventQueue[s]) : eventQueue[s][i] = p
Holds(s, p)  == StageRuns(s) /\ (processing[s] = p \/ Queues(s, p))
Reached(p)   == \E i \in 1 .. Len(delivered) : delivered[i] = p

FlowInv ==
  /\ \A s, t \in Stage, p, q \in StagePackets : s < t /\ Holds(s, q) /\ Holds(t, p) => p < q
  /\ \A s \in Stage, p, q \in StagePackets : Holds(s, q) /\ Reached(p) => p < q
  /\ \A s \in Stage, p \in StagePackets : Holds(s, p) => p <= emitted
  /\ \A p \in StagePackets : Reached(p) => p <= emitted
  /\ inline <= emitted
  /\ inline # 0 => \A p \in StagePackets :
       /\ Reached(p) => p < inline
       /\ \A s \in Stage : Holds(s, p) => p < inline /\ s # 1

Rising(seq) == \A i, j \in 1 .. Len(seq) : i < j => seq[i] < seq[j]

QueueInv(s) == StageRuns(s) =>
  /\ Rising(eventQueue[s])
  /\ processing[s] # 0 => \A i \in 1 .. Len(eventQueue[s]) : processing[s] < eventQueue[s][i]

StageInv ==
  /\ StageTyped /\ FlowInv /\ Rising(delivered)
  /\ \A s \in Stage : StageControl(s) /\ QueueInv(s)

LEMMA StageStart == StageInit => StageInv
<1> SUFFICES ASSUME StageInit PROVE StageInv
  OBVIOUS
<1>1. <<>> \in Seq(StagePackets) /\ Len(<<>>) = 0 /\ 1 .. 0 = {}
  OBVIOUS
<1>2. StageTyped
  <2>1. 0 \in 0 .. MaxEmits /\ 0 <= StageQueueSize
    BY StageAssumption
  <2> QED
    BY <1>1, <2>1 DEF StageInit, StageTyped
<1>3. Rising(<<>>) /\ \A p : ~Reached(p)
  BY <1>1 DEF StageInit, Rising, Reached
<1>4. \A s \in Stage : ~StageRuns(s) /\ StageControl(s)
  BY DEF StageInit, StageRuns, StageControl
<1>5. FlowInv
  BY <1>3, <1>4 DEF FlowInv, Holds, StageInit
<1> QED
  BY <1>2, <1>3, <1>4, <1>5 DEF StageInv, QueueInv, StageInit

-----------------------------------------------------------------------------
\* Packets that leave stages, and those that are dropped, disturb nothing.
LEMMA FlowShrinks ==
  ASSUME StageTyped, FlowInv, UNCHANGED <<delivered, emitted>>, inline' = inline \/ inline' = 0,
         \A s \in Stage, p \in StagePackets : Holds(s, p)' => Holds(s, p)
  PROVE  FlowInv'
<1>1. \A p \in StagePackets : Reached(p)' <=> Reached(p)
  BY DEF Reached
<1>2. inline' <= emitted'
  BY StageAssumption DEF StageTyped, FlowInv
<1> QED
  BY <1>1, <1>2 DEF FlowInv

\* A packet that enters a stage, older than what comes after it there and
\* newer than what went before.
LEMMA FlowEnters ==
  ASSUME StageTyped, FlowInv, UNCHANGED delivered,
         emitted' \in Nat, emitted <= emitted', inline' = inline \/ inline' = 0,
         NEW t \in Stage, NEW p \in StagePackets, p <= emitted',
         inline' # 0 => p < inline' /\ t # 1,
         \A q \in StagePackets : Reached(q) => q < p,
         \A s \in Stage, q \in StagePackets : s < t /\ Holds(s, q)' => p < q,
         \A s \in Stage, q \in StagePackets : t < s /\ Holds(s, q) => q < p,
         \A s \in Stage, q \in StagePackets : Holds(s, q)' => Holds(s, q) \/ (s = t /\ q = p)
  PROVE  FlowInv'
<1>1. \A q \in StagePackets : Reached(q)' <=> Reached(q)
  BY DEF Reached
<1>2. emitted \in Nat /\ inline \in Nat /\ \A q \in StagePackets : q \in Nat
  BY StageAssumption DEF StageTyped, StagePackets
<1>3. \A s, u \in Stage, a, b \in StagePackets : s < u /\ Holds(s, b)' /\ Holds(u, a)' => a < b
  <2> SUFFICES ASSUME NEW s \in Stage, NEW u \in Stage, NEW a \in StagePackets, NEW b \in StagePackets,
                      s < u, Holds(s, b)', Holds(u, a)'
               PROVE  a < b
    OBVIOUS
  <2>1. CASE u = t /\ a = p
    BY <2>1
  <2>2. CASE ~(u = t /\ a = p)
    <3>1. Holds(u, a)
      BY <2>2
    <3>2. CASE s = t /\ b = p
      BY <3>1, <3>2
    <3>3. CASE ~(s = t /\ b = p)
      <4>1. Holds(s, b)
        BY <3>3
      <4> QED
        BY <3>1, <4>1 DEF FlowInv
    <3> QED
      BY <3>2, <3>3
  <2> QED
    BY <2>1, <2>2
<1>4. \A s \in Stage, a, b \in StagePackets : Holds(s, b)' /\ Reached(a)' => a < b
  BY <1>1 DEF FlowInv
<1>5. \A s \in Stage, a \in StagePackets : Holds(s, a)' => a <= emitted'
  BY <1>2 DEF FlowInv
<1>6. \A a \in StagePackets : Reached(a)' => a <= emitted'
  BY <1>1, <1>2 DEF FlowInv
<1>7. inline' <= emitted'
  BY <1>2 DEF FlowInv
<1>8. inline' # 0 => \A a \in StagePackets :
        /\ Reached(a)' => a < inline'
        /\ \A s \in Stage : Holds(s, a)' => a < inline' /\ s # 1
  BY <1>1 DEF FlowInv
<1> QED
  BY <1>3, <1>4, <1>5, <1>6, <1>7, <1>8 DEF FlowInv

\* A packet that reaches the outputs, newer than those before it and older
\* than what the stages hold.
LEMMA FlowArrives ==
  ASSUME StageTyped, FlowInv, Rising(delivered), NEW p \in StagePackets, delivered' = Append(delivered, p),
         p <= emitted, UNCHANGED emitted, inline' = inline \/ inline' = 0, inline' # 0 => p < inline',
         \A q \in StagePackets : Reached(q) => q < p,
         \A s \in Stage, q \in StagePackets : Holds(s, q)' => Holds(s, q) /\ p < q
  PROVE  FlowInv' /\ Rising(delivered') /\ delivered' \in Seq(StagePackets)
<1>1. /\ delivered \in Seq(StagePackets) /\ Len(delivered) \in Nat
      /\ \A i \in 1 .. Len(delivered) : delivered[i] \in StagePackets
  BY LenProperties, ElementOfSeq DEF StageTyped
<1>2. /\ delivered' \in Seq(StagePackets) /\ Len(delivered') = Len(delivered) + 1
      /\ \A i \in 1 .. Len(delivered) : delivered'[i] = delivered[i]
      /\ delivered'[Len(delivered) + 1] = p
  BY <1>1, AppendProperties
<1>3. \A i \in 1 .. Len(delivered') : i \in 1 .. Len(delivered) \/ i = Len(delivered) + 1
  BY <1>1, <1>2
<1>4. \A q \in StagePackets : Reached(q)' => Reached(q) \/ q = p
  BY <1>2, <1>3 DEF Reached
<1>5. \A i \in 1 .. Len(delivered) : delivered[i] < p
  BY <1>1 DEF Reached
<1>6. Rising(delivered')
  <2> SUFFICES ASSUME NEW i \in 1 .. Len(delivered'), NEW j \in 1 .. Len(delivered'), i < j
               PROVE  delivered'[i] < delivered'[j]
    BY DEF Rising
  <2>1. i \in 1 .. Len(delivered)
    BY <1>1, <1>2
  <2>2. CASE j \in 1 .. Len(delivered)
    BY <1>2, <2>1, <2>2 DEF Rising
  <2>3. CASE j = Len(delivered) + 1
    BY <1>2, <1>5, <2>1, <2>3
  <2> QED
    BY <1>3, <2>2, <2>3
<1>7. emitted \in Nat /\ inline' <= emitted'
  BY StageAssumption DEF StageTyped, FlowInv
<1>8. FlowInv'
  BY <1>4, <1>7 DEF FlowInv
<1> QED
  BY <1>2, <1>6, <1>8

-----------------------------------------------------------------------------
(***************************************************************************)
(* enqueueEvent puts a packet at the end of a queue, and only into that of *)
(* a stage that runs.                                                      *)
(***************************************************************************)
LEMMA Enqueued ==
  ASSUME StageTyped, NEW t \in Stage, StageControl(t), NEW p \in StagePackets, enqueueEvent(t, p)
  PROVE  /\ crashed' \in BOOLEAN
         /\ \/ UNCHANGED eventQueue
            \/ /\ StageRuns(t) /\ eventQueue' = [eventQueue EXCEPT ![t] = Append(eventQueue[t], p)]
               /\ Len(eventQueue[t]) < StageQueueSize
<1>1. workerRunning[t] /\ ~queueClosed[t] => StageRuns(t)
  BY DEF StageTyped, StageControl, StageRuns
<1> QED
  BY <1>1 DEF enqueueEvent, StageTyped

LEMMA QueueGrowsBy ==
  ASSUME StageTyped, NEW t \in Stage, NEW p \in StagePackets, Len(eventQueue[t]) < StageQueueSize,
         eventQueue' = [eventQueue EXCEPT ![t] = Append(eventQueue[t], p)]
  PROVE  /\ eventQueue' \in [Stage -> Seq(StagePackets)]
         /\ \A s \in Stage : Len(eventQueue'[s]) <= StageQueueSize
         /\ \A s \in Stage \ {t} : eventQueue'[s] = eventQueue[s]
         /\ eventQueue'[t] # <<>>
         /\ \A q : Queues(t, q)' => Queues(t, q) \/ q = p
         /\ Rising(eventQueue[t]) /\ (\A i \in 1 .. Len(eventQueue[t]) : eventQueue[t][i] < p)
              => Rising(eventQueue'[t])
         /\ \A n : n < p /\ (\A i \in 1 .. Len(eventQueue[t]) : n < eventQueue[t][i])
              => \A i \in 1 .. Len(eventQueue'[t]) : n < eventQueue'[t][i]
<1> DEFINE l == eventQueue[t]
           m == eventQueue'[t]
<1>1. l \in Seq(StagePackets) /\ Len(l) \in Nat /\ StageQueueSize \in Nat
  BY StageAssumption, LenProperties DEF StageTyped
<1>2. m = Append(l, p)
  BY DEF StageTyped
<1>3. /\ m \in Seq(StagePackets) /\ Len(m) = Len(l) + 1
      /\ \A i \in 1 .. Len(l) : m[i] = l[i]
      /\ m[Len(l) + 1] = p
  BY <1>1, <1>2, AppendProperties
<1>4. /\ eventQueue' \in [Stage -> Seq(StagePackets)]
      /\ \A s \in Stage \ {t} : eventQueue'[s] = eventQueue[s]
  BY <1>2, <1>3 DEF StageTyped
<1>5. Len(m) <= StageQueueSize
  BY <1>1, <1>3
<1>6. \A s \in Stage : Len(eventQueue'[s]) <= StageQueueSize
  BY <1>4, <1>5 DEF StageTyped
<1> HIDE DEF l, m
<1>7. \A i \in 1 .. Len(m) : i \in 1 .. Len(l) \/ i = Len(l) + 1
  BY <1>1, <1>3
<1>8. m # <<>>
  BY <1>1, <1>3
<1>9. \A q : (\E i \in 1 .. Len(m) : m[i] = q) => (\E i \in 1 .. Len(l) : l[i] = q) \/ q = p
  BY <1>3, <1>7
<1>10. ASSUME Rising(l), \A i \in 1 .. Len(l) : l[i] < p PROVE Rising(m)
  <2> SUFFICES ASSUME NEW i \in 1 .. Len(m), NEW j \in 1 .. Len(m), i < j PROVE m[i] < m[j]
    BY DEF Rising
  <2>1. i \in 1 .. Len(l)
    BY <1>1, <1>3
  <2>2. CASE j \in 1 .. Len(l)
    BY <1>3, <1>10, <2>1, <2>2 DEF Rising
  <2>3. CASE j = Len(l) + 1
    BY <1>3, <1>10, <2>1, <2>3
  <2> QED
    BY <1>7, <2>2, <2>3
<1>11. ASSUME NEW n, n < p, \A i \in 1 .. Len(l) : n < l[i] PROVE \A i \in 1 .. Len(m) : n < m[i]
  BY <1>3, <1>7, <1>11
<1>12. \A q : Queues(t, q)' => Queues(t, q) \/ q = p
  BY <1>9 DEF Queues, l, m
<1> QED
  BY <1>4, <1>6, <1>8, <1>10, <1>11, <1>12 DEF l, m

\* A packet goes into the next stage, newer than all that it holds.
LEMMA EnqueueKeeps ==
  ASSUME StageInv, NEW t \in Stage, NEW p \in StagePackets, enqueueEvent(t, p),
         \A q \in StagePackets : Holds(t, q) => q < p,
         UNCHANGED <<workerRunning, queueClosed, stageDone>>,
         stageLoop'[t] = stageLoop[t], processing'[t] = processing[t]
  PROVE  /\ crashed' \in BOOLEAN
         /\ eventQueue' \in [Stage -> Seq(StagePackets)]
         /\ \A s \in Stage : Len(eventQueue'[s]) <= StageQueueSize
         /\ \A s \in Stage \ {t} : eventQueue'[s] = eventQueue[s]
         /\ StageControl(t)' /\ QueueInv(t)'
         /\ \A q \in StagePackets : Holds(t, q)' => Holds(t, q) \/ q = p
<1>0. StageTyped /\ StageControl(t) /\ QueueInv(t)
  BY DEF StageInv
<1>1. /\ crashed' \in BOOLEAN
      /\ \/ UNCHANGED eventQueue
         \/ /\ StageRuns(t) /\ eventQueue' = [eventQueue EXCEPT ![t] = Append(eventQueue[t], p)]
            /\ Len(eventQueue[t]) < StageQueueSize
  BY <1>0, Enqueued
<1>2. CASE UNCHANGED eventQueue
  BY <1>0, <1>1, <1>2 DEF StageTyped, StageControl, QueueInv, Holds, Queues, StageRuns
<1>3. CASE ~UNCHANGED eventQueue
  <2>1. /\ StageRuns(t) /\ eventQueue' = [eventQueue EXCEPT ![t] = Append(eventQueue[t], p)]
        /\ Len(eventQueue[t]) < StageQueueSize
    BY <1>1, <1>3
  <2>2. /\ eventQueue' \in [Stage -> Seq(StagePackets)]
        /\ \A s \in Stage : Len(eventQueue'[s]) <= StageQueueSize
        /\ \A s \in Stage \ {t} : eventQueue'[s] = eventQueue[s]
        /\ eventQueue'[t] # <<>>
        /\ \A q : Queues(t, q)' => Queues(t, q) \/ q = p
    BY <1>0, <2>1, QueueGrowsBy
  <2>3. /\ eventQueue[t] \in Seq(StagePackets) /\ processing[t] \in 0 .. MaxEmits
        /\ \A i \in 1 .. Len(eventQueue[t]) : eventQueue[t][i] \in StagePackets
    BY <1>0, ElementOfSeq DEF StageTyped
  <2>4. \A i \in 1 .. Len(eventQueue[t]) : eventQueue[t][i] < p
    BY <2>1, <2>3 DEF Holds, Queues
  <2>5. processing[t] # 0 => processing[t] < p
    <3>1. processing[t] # 0 => processing[t] \in StagePackets
      BY <2>3, StageAssumption DEF StagePackets
    <3> QED
      BY <2>1, <3>1 DEF Holds
  <2>6. Rising(eventQueue'[t])
    BY <1>0, <2>1, <2>4, QueueGrowsBy DEF QueueInv
  <2>7. processing[t] # 0 => \A i \in 1 .. Len(eventQueue'[t]) : processing[t] < eventQueue'[t][i]
    BY <1>0, <2>1, <2>5, QueueGrowsBy DEF QueueInv
  <2>8. QueueInv(t)'
    BY <2>6, <2>7 DEF QueueInv
  <2>9. StageControl(t)'
    BY <1>0, <2>1, <2>2 DEF StageControl, StageRuns
  <2>10. \A q \in StagePackets : Holds(t, q)' => Holds(t, q) \/ q = p
    BY <2>2 DEF Holds, StageRuns
  <2> QED
    BY <1>1, <2>2, <2>8, <2>9, <2>10
<1> QED
  BY <1>2, <1>3

\* Nothing happens to a stage.
LEMMA StageRests ==
  ASSUME NEW s \in Stage, StageControl(s), QueueInv(s),
         workerRunning'[s] = workerRunning[s], stageDone'[s] = stageDone[s], queueClosed'[s] = queueClosed[s],
         stageLoop'[s] = stageLoop[s], processing'[s] = processing[s], eventQueue'[s] = eventQueue[s]
  PROVE  StageControl(s)' /\ QueueInv(s)' /\ \A p : Holds(s, p)' <=> Holds(s, p)
BY DEF StageControl, QueueInv, Holds, Queues, StageRuns

-----------------------------------------------------------------------------
LEMMA EmitKeeps ==
  ASSUME StageInv, EmitToStage
  PROVE  StageInv'
<1> DEFINE p == emitted + 1
<1>0. StageTyped /\ FlowInv /\ emitted \in Nat /\ inline \in Nat /\ 1 \in Stage /\ StageControl(1)
  BY StageAssumption DEF StageInv, StageTyped, Stage
<1>1. /\ inline = 0 /\ emitted' = p /\ p \in StagePackets /\ emitted' \in 0 .. MaxEmits
      /\ UNCHANGED <<workerRunning, stageDone, queueClosed, stageLoop, processing, delivered>>
  BY <1>0, StageAssumption DEF EmitToStage, StagePackets
<1>2. \A q \in StagePackets : /\ Reached(q) => q < p
                              /\ \A s \in Stage : Holds(s, q) => q < p
  BY <1>0 DEF FlowInv, StagePackets
<1>3. CASE workerRunning[1]
  <2>1. enqueueEvent(1, p) /\ UNCHANGED inline
    BY <1>3 DEF EmitToStage
  <2> HIDE DEF p
  <2>2. /\ crashed' \in BOOLEAN
        /\ eventQueue' \in [Stage -> Seq(StagePackets)]
        /\ \A s \in Stage : Len(eventQueue'[s]) <= StageQueueSize
        /\ \A s \in Stage \ {1} : eventQueue'[s] = eventQueue[s]
        /\ StageControl(1)' /\ QueueInv(1)'
        /\ \A q \in StagePackets : Holds(1, q)' => Holds(1, q) \/ q = p
    BY <1>0, <1>1, <1>2, <2>1, EnqueueKeeps
  <2>3. \A s \in Stage \ {1} : StageControl(s)' /\ QueueInv(s)' /\ \A q : Holds(s, q)' <=> Holds(s, q)
    BY <1>1, <2>2, StageRests DEF StageInv
  <2>4. StageTyped'
    BY <1>1, <2>1, <2>2 DEF StageInv, StageTyped
  <2>5. FlowInv'
    <3>1. p <= emitted' /\ emitted <= emitted' /\ emitted' \in Nat /\ inline' = 0
      BY <1>0, <1>1, <2>1 DEF p
    <3>2. \A s \in Stage, q \in StagePackets : Holds(s, q)' => Holds(s, q) \/ (s = 1 /\ q = p)
      BY <2>2, <2>3
    <3>3. \A s \in Stage : ~(s < 1)
      BY StageAssumption DEF Stage
    <3> QED
      BY <1>0, <1>1, <1>2, <3>1, <3>2, <3>3, FlowEnters
  <2>6. Rising(delivered')
    BY <1>1 DEF StageInv
  <2> QED
    BY <2>2, <2>3, <2>4, <2>5, <2>6 DEF StageInv
<1>4. CASE ~workerRunning[1]
  <2>1. inline' = p /\ UNCHANGED <<eventQueue, crashed>>
    BY <1>4 DEF EmitToStage
  <2>2. ~StageRuns(1)
    BY <1>0, <1>4 DEF StageControl, StageRuns
  <2> HIDE DEF p
  <2>3. \A s \in Stage : StageControl(s)' /\ QueueInv(s)' /\ \A q : Holds(s, q)' <=> Holds(s, q)
    BY <1>1, <2>1, StageRests DEF StageInv
  <2>4. StageTyped'
    <3>1. inline' \in 0 .. MaxEmits
      BY <1>1, <2>1 DEF StagePackets
    <3> QED
      BY <1>1, <2>1, <3>1 DEF StageInv, StageTyped
  <2>5. \A q \in StagePackets : Reached(q)' <=> Reached(q)
    BY <1>1 DEF Reached
  <2>6. FlowInv'
    <3>1. p = emitted + 1 /\ emitted' = emitted + 1 /\ inline' = emitted' /\ emitted \in Nat
      BY <1>0, <1>1, <2>1 DEF p
    <3>2. \A q \in StagePackets : ~Holds(1, q)'
      BY <1>0, <2>2, <2>3 DEF Holds
    <3>3. \A q \in StagePackets : q \in Nat
      BY DEF StagePackets
    <3>4. \A s \in Stage, q \in StagePackets : Holds(s, q)' => q < p /\ q <= emitted' /\ s # 1
      BY <1>2, <2>3, <3>1, <3>2, <3>3
    <3>5. \A q \in StagePackets : Reached(q)' => q < p /\ q <= emitted'
      BY <1>2, <2>5, <3>1, <3>3
    <3>6. \A s, t \in Stage, a, b \in StagePackets : s < t /\ Holds(s, b)' /\ Holds(t, a)' => a < b
      BY <1>0, <2>3 DEF FlowInv
    <3>7. \A s \in Stage, a, b \in StagePackets : Holds(s, b)' /\ Reached(a)' => a < b
      BY <1>0, <2>3, <2>5 DEF FlowInv
    <3>8. inline' <= emitted' /\ p = inline'
      BY <1>0, <2>1, <3>1
    <3> QED
      BY <3>4, <3>5, <3>6, <3>7, <3>8 DEF FlowInv
  <2>7. Rising(delivered')
    BY <1>1 DEF StageInv
  <2> QED
    BY <2>3, <2>4, <2>6, <2>7 DEF StageInv
<1> QED
  BY <1>3, <1>4

(***************************************************************************)
(* processPacketAsync, by the goroutine of a stage that lets go of the     *)
(* packet, or by the caller.                                               *)
(***************************************************************************)
LEMMA ProcessKeeps ==
  ASSUME StageInv, NEW s \in Stage, NEW p \in StagePackets, processPacketAsync(s, p),
         UNCHANGED <<workerRunning, stageDone, queueClosed, emitted>>,
         inline' = inline \/ inline' = 0, inline' # 0 => p < inline',
         stageLoop' \in [Stage -> {"none", "select", "work", "gone"}],
         processing' \in [Stage -> 0 .. MaxEmits],
         \A t \in Stage \ {s} : stageLoop'[t] = stageLoop[t] /\ processing'[t] = processing[t],
         eventQueue'[s] = eventQueue[s] =>
           StageControl(s)' /\ QueueInv(s)' /\ \A q \in StagePackets : Holds(s, q)' => Holds(s, q) /\ p < q,
         p <= emitted,
         \A q \in StagePackets : Reached(q) => q < p,
         \A t \in Stage, q \in StagePackets : t < s /\ Holds(t, q) => p < q,
         \A t \in Stage, q \in StagePackets : s < t /\ Holds(t, q) => q < p
  PROVE  StageInv'
<1>0. /\ StageTyped /\ FlowInv /\ emitted \in Nat /\ inline \in Nat /\ s \in Nat /\ s >= 1 /\ StageCount \in Nat
      /\ \A t \in Stage : t \in Nat
  <2>1. StageTyped /\ FlowInv
    BY DEF StageInv
  <2>2. emitted \in Nat /\ inline \in Nat /\ StageCount \in Nat
    BY <2>1, StageAssumption DEF StageTyped
  <2>3. \A t \in Stage : t \in Nat /\ t >= 1
    BY <2>2 DEF Stage
  <2> QED
    BY <2>1, <2>2, <2>3
<1>1. CASE UNCHANGED <<eventQueue, delivered, crashed>>
  <2>1. \A t \in Stage \ {s} : StageControl(t)' /\ QueueInv(t)' /\ \A q : Holds(t, q)' <=> Holds(t, q)
    BY <1>1, StageRests DEF StageInv
  <2>2. FlowInv'
    BY <1>0, <1>1, <2>1, FlowShrinks
  <2>3. inline' \in 0 .. MaxEmits
    BY <1>0, StageAssumption DEF StageTyped
  <2>4. StageTyped' /\ Rising(delivered')
    BY <1>0, <1>1, <2>3 DEF StageTyped, StageInv
  <2> QED
    BY <1>1, <2>1, <2>2, <2>4 DEF StageInv
<1>2. CASE s = StageCount /\ delivered' = Append(delivered, p) /\ UNCHANGED <<eventQueue, crashed>>
  <2>1. \A t \in Stage \ {s} : StageControl(t)' /\ QueueInv(t)' /\ \A q : Holds(t, q)' <=> Holds(t, q)
    BY <1>2, StageRests DEF StageInv
  <2>2. \A t \in Stage \ {s} : t < s
    BY <1>0, <1>2 DEF Stage
  <2>3. \A t \in Stage, q \in StagePackets : Holds(t, q)' => Holds(t, q) /\ p < q
    BY <1>2, <2>1, <2>2
  <2>4. FlowInv' /\ Rising(delivered') /\ delivered' \in Seq(StagePackets)
    BY <1>0, <1>2, <2>3, FlowArrives DEF StageInv
  <2>5. inline' \in 0 .. MaxEmits
    BY <1>0, StageAssumption DEF StageTyped
  <2>6. StageTyped'
    BY <1>0, <1>2, <2>4, <2>5 DEF StageTyped
  <2> QED
    BY <1>2, <2>1, <2>4, <2>6 DEF StageInv
<1>3. CASE s < StageCount /\ enqueueEvent(s + 1, p) /\ UNCHANGED delivered
  <2> DEFINE t == s + 1
  <2>1. t \in Stage /\ t # s /\ s < t /\ t # 1 /\ s \in Stage \ {t} /\ \A u \in Stage : u < t => u = s \/ u < s
    BY <1>0, <1>3 DEF Stage
  <2>2. enqueueEvent(t, p)
    BY <1>3
  <2> HIDE DEF t
  <2>3. \A q \in StagePackets : Holds(t, q) => q < p
    BY <2>1
  <2>4. stageLoop'[t] = stageLoop[t] /\ processing'[t] = processing[t]
    BY <2>1
  <2>5. /\ crashed' \in BOOLEAN
        /\ eventQueue' \in [Stage -> Seq(StagePackets)]
        /\ \A u \in Stage : Len(eventQueue'[u]) <= StageQueueSize
        /\ \A u \in Stage \ {t} : eventQueue'[u] = eventQueue[u]
        /\ StageControl(t)' /\ QueueInv(t)'
        /\ \A q \in StagePackets : Holds(t, q)' => Holds(t, q) \/ q = p
    BY <2>1, <2>2, <2>3, <2>4, EnqueueKeeps
  <2>6. StageControl(s)' /\ QueueInv(s)' /\ \A q \in StagePackets : Holds(s, q)' => Holds(s, q) /\ p < q
    BY <2>1, <2>5
  <2>7. \A u \in Stage \ {s, t} : StageControl(u)' /\ QueueInv(u)' /\ \A q : Holds(u, q)' <=> Holds(u, q)
    BY <2>5, StageRests DEF StageInv
  <2>8. \A u \in Stage, q \in StagePackets : Holds(u, q)' => Holds(u, q) \/ (u = t /\ q = p)
    BY <2>5, <2>6, <2>7
  <2>9. \A u \in Stage, q \in StagePackets : u < t /\ Holds(u, q)' => p < q
    <3> SUFFICES ASSUME NEW u \in Stage, NEW q \in StagePackets, u < t, Holds(u, q)' PROVE p < q
      OBVIOUS
    <3>1. CASE u = s
      BY <2>6, <3>1
    <3>2. CASE u # s
      <4>1. u < s /\ u # t
        BY <1>0, <2>1, <3>2
      <4>2. Holds(u, q)
        BY <2>7, <3>2, <4>1
      <4> QED
        BY <4>1, <4>2
    <3> QED
      BY <3>1, <3>2
  <2>10. \A u \in Stage, q \in StagePackets : t < u /\ Holds(u, q) => q < p
    <3>1. \A u \in Stage : t < u => s < u
      BY <1>0, <2>1
    <3> QED
      BY <3>1
  <2>11. FlowInv'
    <3>1. emitted' \in Nat /\ emitted <= emitted' /\ p <= emitted'
      BY <1>0
    <3>2. UNCHANGED delivered /\ (inline' # 0 => p < inline' /\ t # 1)
      BY <1>3, <2>1
    <3> QED
      BY <1>0, <2>1, <2>8, <2>9, <2>10, <3>1, <3>2, FlowEnters
  <2>12. inline' \in 0 .. MaxEmits
    BY <1>0, StageAssumption DEF StageTyped
  <2>13. StageTyped' /\ Rising(delivered')
    BY <1>0, <1>3, <2>5, <2>12 DEF StageTyped, StageInv
  <2> QED
    BY <2>5, <2>6, <2>7, <2>11, <2>13 DEF StageInv
<1> QED
  BY <1>1, <1>2, <1>3 DEF processPacketAsync

LEMMA StageWorksKeeps ==
  ASSUME StageInv, NEW s \in Stage, StageWorks(s)
  PROVE  StageInv'
<1> DEFINE p == processing[s]
<1>1. /\ stageLoop[s] = "work" /\ processPacketAsync(s, p)
      /\ processing' = [processing EXCEPT ![s] = 0] /\ stageLoop' = [stageLoop EXCEPT ![s] = "select"]
      /\ UNCHANGED <<workerRunning, stageDone, queueClosed, inline, emitted>>
  BY DEF StageWorks
<1>2. StageTyped /\ FlowInv /\ StageControl(s) /\ QueueInv(s)
  BY DEF StageInv
<1>3. p \in StagePackets /\ p # 0 /\ StageRuns(s) /\ Holds(s, p)
  <2>1. p # 0 /\ p \in 0 .. MaxEmits
    BY <1>1, <1>2 DEF StageControl, StageTyped
  <2> QED
    BY <1>1, <2>1, StageAssumption DEF StagePackets, StageRuns, Holds
<1>4. /\ stageLoop' \in [Stage -> {"none", "select", "work", "gone"}]
      /\ processing' \in [Stage -> 0 .. MaxEmits]
      /\ \A t \in Stage \ {s} : stageLoop'[t] = stageLoop[t] /\ processing'[t] = processing[t]
      /\ stageLoop'[s] = "select" /\ processing'[s] = 0
  BY <1>1, <1>2, StageAssumption DEF StageTyped
<1>5. ASSUME eventQueue'[s] = eventQueue[s]
      PROVE  StageControl(s)' /\ QueueInv(s)' /\ \A q \in StagePackets : Holds(s, q)' => Holds(s, q) /\ p < q
  <2>1. StageControl(s)'
    BY <1>1, <1>2, <1>4, <1>5 DEF StageControl
  <2>2. QueueInv(s)'
    BY <1>2, <1>3, <1>4, <1>5 DEF QueueInv
  <2>3. \A q \in StagePackets : Holds(s, q)' => Queues(s, q)
    BY <1>4, <1>5 DEF Holds, Queues, StagePackets
  <2>4. \A q \in StagePackets : Queues(s, q) => p < q
    BY <1>2, <1>3 DEF QueueInv, Queues
  <2> QED
    BY <1>3, <2>1, <2>2, <2>3, <2>4 DEF Holds
<1>6. /\ p <= emitted
      /\ \A q \in StagePackets : Reached(q) => q < p
      /\ \A t \in Stage, q \in StagePackets : t < s /\ Holds(t, q) => p < q
      /\ \A t \in Stage, q \in StagePackets : s < t /\ Holds(t, q) => q < p
      /\ inline # 0 => p < inline
  BY <1>2, <1>3 DEF FlowInv
<1> HIDE DEF p
<1> QED
  BY <1>1, <1>3, <1>4, <1>5, <1>6, ProcessKeeps

LEMMA CallerKeeps ==
  ASSUME StageInv, CallerWorks
  PROVE  StageInv'
<1>1. /\ inline # 0 /\ processPacketAsync(1, inline) /\ inline' = 0
      /\ UNCHANGED <<workerRunning, stageDone, queueClosed, stageLoop, processing, emitted>>
  BY DEF CallerWorks
<1>2. StageTyped /\ FlowInv /\ 1 \in Stage /\ StageControl(1) /\ QueueInv(1)
  BY StageAssumption DEF StageInv, Stage
<1>3. inline \in StagePackets /\ inline <= emitted
  BY <1>1, <1>2, StageAssumption DEF StageTyped, StagePackets, FlowInv
<1>4. \A q \in StagePackets : /\ Reached(q) => q < inline
                              /\ \A t \in Stage : Holds(t, q) => q < inline /\ t # 1
  BY <1>1, <1>2 DEF FlowInv
<1>5. \A t \in Stage : ~(t < 1)
  BY StageAssumption DEF Stage
<1>6. ASSUME eventQueue'[1] = eventQueue[1]
      PROVE  StageControl(1)' /\ QueueInv(1)' /\ \A q \in StagePackets : Holds(1, q)' => Holds(1, q) /\ inline < q
  <2>1. StageControl(1)' /\ QueueInv(1)' /\ \A q : Holds(1, q)' <=> Holds(1, q)
    BY <1>1, <1>2, <1>6, StageRests
  <2> QED
    BY <1>2, <1>4, <2>1
<1>7. /\ stageLoop' \in [Stage -> {"none", "select", "work", "gone"}]
      /\ processing' \in [Stage -> 0 .. MaxEmits]
      /\ \A t \in Stage \ {1} : stageLoop'[t] = stageLoop[t] /\ processing'[t] = processing[t]
  BY <1>1, <1>2 DEF StageTyped
<1> QED
  BY <1>1, <1>2, <1>3, <1>4, <1>5, <1>6, <1>7, ProcessKeeps

LEMMA ControlStepKeeps ==
  ASSUME StageInv, NEW s \in Stage,
         startWorker(s) \/ stopWorker(s) \/ WorkerStopped(s) \/ EventLoopEnds(s)
  PROVE  StageInv'
<1>0. StageTyped /\ FlowInv /\ StageControl(s) /\ QueueInv(s)
  BY DEF StageInv
<1>1. /\ UNCHANGED <<eventQueue, processing, inline, emitted, delivered, crashed>>
      /\ \A t \in Stage \ {s} : /\ workerRunning'[t] = workerRunning[t] /\ stageDone'[t] = stageDone[t]
                                /\ queueClosed'[t] = queueClosed[t] /\ stageLoop'[t] = stageLoop[t]
  BY <1>0 DEF startWorker, stopWorker, WorkerStopped, EventLoopEnds, StageTyped
<1>2. StageTyped'
  BY <1>0, <1>1 DEF startWorker, stopWorker, WorkerStopped, EventLoopEnds, StageTyped
<1>3. StageControl(s)'
  BY <1>0 DEF startWorker, stopWorker, WorkerStopped, EventLoopEnds, StageTyped, StageControl
<1>4. QueueInv(s)' /\ \A p \in StagePackets : Holds(s, p)' => Holds(s, p)
  <2>1. CASE startWorker(s)
    <3>1. eventQueue'[s] = <<>> /\ processing'[s] = 0
      BY <1>0, <2>1 DEF startWorker, StageControl
    <3>2. Len(<<>>) = 0 /\ 1 .. 0 = {}
      OBVIOUS
    <3>3. \A p \in StagePackets : ~Queues(s, p)' /\ p # 0
      BY <3>1, <3>2 DEF Queues, StagePackets
    <3> QED
      BY <3>1, <3>2, <3>3 DEF QueueInv, Rising, Holds
  <2>2. CASE stopWorker(s) \/ WorkerStopped(s)
    BY <1>0, <2>2 DEF stopWorker, WorkerStopped, QueueInv, Holds, Queues, StageRuns
  <2>3. CASE EventLoopEnds(s)
    <3>1. ~StageRuns(s)'
      BY <1>0, <2>3 DEF EventLoopEnds, StageRuns, StageTyped
    <3> QED
      BY <3>1 DEF QueueInv, Holds
  <2> QED
    BY <2>1, <2>2, <2>3
<1>5. \A t \in Stage \ {s} : StageControl(t)' /\ QueueInv(t)' /\ \A p : Holds(t, p)' <=> Holds(t, p)
  BY <1>1, StageRests DEF StageInv
<1>6. FlowInv'
  BY <1>0, <1>1, <1>4, <1>5, FlowShrinks
<1> QED
  BY <1>1, <1>2, <1>3, <1>4, <1>5, <1>6 DEF StageInv

LEMMA TakePacketKeeps ==
  ASSUME StageInv, NEW s \in Stage, TakePacket(s)
  PROVE  StageInv'
<1> DEFINE l == eventQueue[s]
           rest == Tail(l)
<1>0. StageTyped /\ FlowInv /\ StageControl(s) /\ QueueInv(s)
  BY DEF StageInv
<1>1. /\ stageLoop[s] = "select" /\ l # <<>>
      /\ processing' = [processing EXCEPT ![s] = Head(l)] /\ eventQueue' = [eventQueue EXCEPT ![s] = rest]
      /\ stageLoop' = [stageLoop EXCEPT ![s] = "work"]
      /\ UNCHANGED <<workerRunning, stageDone, queueClosed, inline, emitted, delivered, crashed>>
  BY DEF TakePacket
<1>2. l \in Seq(StagePackets) /\ Len(l) \in Nat /\ Rising(l) /\ Len(l) <= StageQueueSize /\ StageQueueSize \in Nat
  BY <1>0, <1>1, StageAssumption, LenProperties DEF StageTyped, QueueInv, StageRuns
<1>3. /\ Head(l) = l[1] /\ l[1] \in StagePackets /\ Len(l) >= 1
      /\ rest \in Seq(StagePackets) /\ Len(rest) = Len(l) - 1
      /\ \A i \in 1 .. Len(rest) : rest[i] = l[i + 1] /\ i + 1 \in 1 .. Len(l) /\ 1 < i + 1
  <2>1. Len(l) >= 1
    BY <1>1, <1>2, EmptySeq
  <2>2. rest \in Seq(StagePackets) /\ Len(rest) = Len(l) - 1 /\ \A i \in 1 .. Len(rest) : rest[i] = l[i + 1]
    BY <1>1, <1>2, HeadTailProperties
  <2>3. \A i \in 1 .. Len(rest) : i + 1 \in 1 .. Len(l) /\ 1 < i + 1
    BY <1>2, <2>2
  <2>4. Head(l) = l[1] /\ l[1] \in StagePackets
    BY <1>2, <2>1
  <2> QED
    BY <2>1, <2>2, <2>3, <2>4
<1> HIDE DEF l, rest
<1>4. /\ processing'[s] = l[1] /\ eventQueue'[s] = rest /\ stageLoop'[s] = "work"
      /\ processing' \in [Stage -> 0 .. MaxEmits] /\ eventQueue' \in [Stage -> Seq(StagePackets)]
      /\ stageLoop' \in [Stage -> {"none", "select", "work", "gone"}]
      /\ \A t \in Stage \ {s} : /\ processing'[t] = processing[t] /\ eventQueue'[t] = eventQueue[t]
                                /\ stageLoop'[t] = stageLoop[t]
  <2>1. l[1] \in 0 .. MaxEmits
    BY <1>3 DEF StagePackets
  <2> QED
    BY <1>0, <1>1, <1>3, <2>1 DEF StageTyped
<1>5. Len(rest) <= StageQueueSize
  BY <1>2, <1>3
<1>6. StageTyped'
  BY <1>0, <1>1, <1>4, <1>5 DEF StageTyped
<1>7. StageControl(s)'
  BY <1>0, <1>1, <1>3, <1>4 DEF StageControl, StagePackets
<1>8. Rising(rest)
  <2> SUFFICES ASSUME NEW i \in 1 .. Len(rest), NEW j \in 1 .. Len(rest), i < j PROVE rest[i] < rest[j]
    BY DEF Rising
  <2>1. i + 1 < j + 1
    BY <1>2, <1>3
  <2> QED
    BY <1>2, <1>3, <2>1 DEF Rising
<1>9. \A i \in 1 .. Len(rest) : l[1] < rest[i]
  <2> SUFFICES ASSUME NEW i \in 1 .. Len(rest) PROVE l[1] < rest[i]
    OBVIOUS
  <2>1. 1 \in 1 .. Len(l) /\ i + 1 \in 1 .. Len(l) /\ 1 < i + 1 /\ rest[i] = l[i + 1]
    BY <1>2, <1>3
  <2> QED
    BY <1>2, <2>1 DEF Rising
<1>10. QueueInv(s)'
  BY <1>4, <1>8, <1>9 DEF QueueInv
<1>11. \A p \in StagePackets : Holds(s, p)' => Holds(s, p)
  <2>1. 1 \in 1 .. Len(l)
    BY <1>2, <1>3
  <2>2. ASSUME NEW p, Holds(s, p)' PROVE \E i \in 1 .. Len(l) : l[i] = p
    <3>1. CASE processing'[s] = p
      BY <1>4, <2>1, <3>1
    <3>2. CASE Queues(s, p)'
      <4>1. PICK i \in 1 .. Len(rest) : rest[i] = p
        BY <1>4, <3>2 DEF Queues
      <4> QED
        BY <1>3, <4>1
    <3> QED
      BY <2>2, <3>1, <3>2 DEF Holds
  <2>3. StageRuns(s)
    BY <1>1 DEF StageRuns
  <2> QED
    BY <2>2, <2>3 DEF Holds, Queues, l
<1>12. \A t \in Stage \ {s} : StageControl(t)' /\ QueueInv(t)' /\ \A p : Holds(t, p)' <=> Holds(t, p)
  BY <1>1, <1>4, StageRests DEF StageInv
<1>13. FlowInv'
  BY <1>0, <1>1, <1>11, <1>12, FlowShrinks
<1> QED
  BY <1>1, <1>6, <1>7, <1>10, <1>12, <1>13 DEF StageInv

LEMMA StageInvariant == StageSpec => []StageInv
<1>1. StageInv /\ [StageNext]_stageVars => StageInv'
  <2> SUFFICES ASSUME StageInv, [StageNext]_stageVars PROVE StageInv'
    OBVIOUS
  <2>1. CASE UNCHANGED stageVars
    BY <2>1 DEF stageVars, StageInv, StageTyped, FlowInv, StageControl, QueueInv, Holds, Queues, Reached, StageRuns
  <2> QED
    BY <2>1, EmitKeeps, CallerKeeps, ControlStepKeeps, TakePacketKeeps, StageWorksKeeps DEF StageNext
<1> QED
  BY <1>1, StageStart, PTL DEF StageSpec

LEMMA StageHolds == StageInv => StagesKeepOrder
BY DEF StageInv, Rising, StagesKeepOrder

-----------------------------------------------------------------------------
(***************************************************************************)
(* Routing.  While no route of an earlier period is under way, all of them *)
(* are over the active outputs.  An output's claim is what it got and what *)
(* is on its way to it; against the places that the index has passed since *)
(* the period began, the claims differ by no more than what was upset.     *)
(***************************************************************************)
Processors == [name : ProcessorNames, priority : ProcessorPriorities, nth : Nat]

RegistryInv ==
  /\ registrations \in 0 .. MaxRegistrations
  /\ processors \in Seq(Processors)
  /\ \A i \in 1 .. Len(processors) : processors[i].nth <= registrations
  /\ HigherFirst

RouteStates == [at : {"idle", "collected", "read", "wrote"}, outputs : Seq(OutputIDs), index : Nat]

RoutesTyped ==
  /\ strategy \in Strategies /\ period \in Periods
  /\ active \in Seq(OutputIDs) /\ IsInjective(active) /\ Len(active) <= Cardinality(OutputIDs)
  /\ routed \in [OutputIDs -> Nat] /\ upset \in Nat /\ begun \in 0 .. MaxRoutes
  /\ roundRobinIndex \in 0 .. Cardinality(OutputIDs)
  /\ routes \in [BusRouters -> RouteStates]
  /\ \A w \in Routing : /\ routes[w].outputs # <<>>
                        /\ Len(routes[w].outputs) <= Cardinality(OutputIDs)

Claim(i) == routed[active[i]] + Cardinality(TurnsOf(active[i]))

Passed(i, index) == IF i <= index + 1 THEN 1 ELSE 0

Even(first) == \A i, j \in 1 .. Len(active) :
  Claim(i) - Passed(i, roundRobinIndex) + Passed(i, first)
    <= Claim(j) - Passed(j, roundRobinIndex) + Passed(j, first) + upset

\* An index of an earlier period may be beyond the outputs until the first turn.
Untaken == \A i \in 1 .. Len(active) : Claim(i) = 0

TurnsInv ==
  /\ roundRobinIndex < Len(active) \/ Untaken
  /\ \E first \in Int : Even(first)
  /\ \A w \in BusRouters : routes[w].at = "wrote" =>
       roundRobinIndex < Len(active) /\ routes[w].index < Len(active)

CalmInv ==
  /\ upset = 0
  /\ \A v, w \in TakingTurns : v = w
  /\ \A w \in TakingTurns : routes[w].index = roundRobinIndex

RoutesInv ==
  /\ RoutesTyped
  /\ period # "mixed" =>
       /\ \A w \in Routing : routes[w].outputs = active
       /\ strategy # "roundRobin" => TakingTurns = {}
       /\ strategy = "broadcast" =>
            \A i, j \in 1 .. Len(active) : routed[active[i]] = routed[active[j]]
       /\ strategy = "roundRobin" => TurnsInv
  /\ period = "calm" => CalmInv

LEMMA OutputsCounted == Cardinality(OutputIDs) \in Nat
BY RoutingAssumption, FS_CardinalityType

LEMMA TurnsCounted ==
  ASSUME NEW o PROVE IsFiniteSet(TurnsOf(o)) /\ Cardinality(TurnsOf(o)) \in Nat
<1>1. TurnsOf(o) \subseteq BusRouters
  BY DEF TurnsOf
<1> QED
  BY <1>1, RoutingAssumption, FS_Subset, FS_CardinalityType

LEMMA RegistryStart == RegistryInit => RegistryInv
<1> SUFFICES ASSUME RegistryInit PROVE RegistryInv
  OBVIOUS
<1>1. <<>> \in Seq(Processors) /\ Len(<<>>) = 0 /\ 1 .. 0 = {}
  OBVIOUS
<1> QED
  BY <1>1, RoutingAssumption DEF RegistryInit, RegistryInv, HigherFirst

\* A period that begins while nobody routes is in order whatever the index is.
PeriodStarts == Routing = {} /\ routed = [o \in OutputIDs |-> 0] /\ upset = 0

LEMMA PeriodBegins == RoutesTyped /\ PeriodStarts => RoutesInv
<1> SUFFICES ASSUME RoutesTyped, Routing = {}, routed = [o \in OutputIDs |-> 0], upset = 0
             PROVE  RoutesInv
  BY DEF PeriodStarts
<1>1. TakingTurns = {} /\ \A w \in BusRouters : routes[w].at = "idle"
  BY DEF Routing, TakingTurns
<1>2. \A o : TurnsOf(o) = {}
  BY <1>1 DEF TurnsOf
<1>3. \A i \in 1 .. Len(active) : active[i] \in OutputIDs
  BY ElementOfSeq DEF RoutesTyped
<1>4. \A i \in 1 .. Len(active) : routed[active[i]] = 0 /\ Claim(i) = 0
  <2>1. \A o : Cardinality(TurnsOf(o)) = 0
    BY <1>2, FS_EmptySet
  <2> QED
    BY <1>3, <2>1 DEF Claim
<1>5. roundRobinIndex \in Int
  BY OutputsCounted DEF RoutesTyped
<1>6. Even(roundRobinIndex)
  BY <1>4, <1>5 DEF Even, Passed
<1>7. TurnsInv
  BY <1>1, <1>4, <1>5, <1>6 DEF TurnsInv, Untaken
<1>8. CalmInv
  BY <1>1 DEF CalmInv
<1> QED
  BY <1>1, <1>4, <1>7, <1>8 DEF RoutesInv

LEMMA RoutingStart == RoutingInit => RoutesInv
<1> SUFFICES ASSUME RoutingInit PROVE RoutesInv
  OBVIOUS
<1>1. <<>> \in Seq(OutputIDs) /\ Len(<<>>) = 0 /\ IsInjective(<<>>)
  BY DEF IsInjective
<1>2. Idle \in RouteStates
  BY <1>1 DEF Idle, RouteStates
<1>3. Routing = {}
  BY DEF RoutingInit, Routing, Idle
<1>4. RoutesTyped
  BY <1>1, <1>2, <1>3, OutputsCounted, RoutingAssumption DEF RoutingInit, RoutesTyped, Periods
<1> QED
  BY <1>3, <1>4, PeriodBegins DEF RoutingInit, PeriodStarts

-----------------------------------------------------------------------------
LEMMA RegisterKeeps ==
  ASSUME RegistryInv, NEW name \in ProcessorNames, NEW pri \in ProcessorPriorities,
         Register(name, pri)
  PROVE  RegistryInv'
<1> DEFINE p == [name |-> name, priority |-> pri, nth |-> registrations + 1]
           later == PlaceBefore(processors, p)
           n == Len(processors)
<1>1. /\ registrations' = registrations + 1 /\ registrations < MaxRegistrations
      /\ processors' = IF later = {} THEN Append(processors, p) ELSE InsertAt(processors, Min(later), p)
  BY DEF Register
<1>2. /\ registrations \in Nat /\ registrations' \in 0 .. MaxRegistrations
      /\ processors \in Seq(Processors) /\ n \in Nat
      /\ \A i \in 1 .. n : processors[i] \in Processors
  BY <1>1, RoutingAssumption, LenProperties, ElementOfSeq DEF RegistryInv
<1>3. p \in Processors /\ p.priority = pri /\ p.nth = registrations + 1 /\ pri \in Int
  BY <1>2, RoutingAssumption DEF Processors
<1>4. \A i \in 1 .. n : processors[i].priority \in Int /\ processors[i].nth \in Nat
  BY <1>2, RoutingAssumption DEF Processors
<1>5. \A i \in 1 .. n : i \in later <=> pri > processors[i].priority
  BY <1>3 DEF PlaceBefore
<1>6. later \subseteq 1 .. n /\ later \subseteq Nat
  <2>1. later \subseteq 1 .. n
    BY DEF PlaceBefore
  <2>2. \A i \in 1 .. n : i \in Nat
    OBVIOUS
  <2> QED
    BY <2>1, <2>2
<1>7. \A i, j \in 1 .. n : i < j =>
        \/ processors[i].priority > processors[j].priority
        \/ processors[i].priority = processors[j].priority /\ processors[i].nth < processors[j].nth
  BY DEF RegistryInv, HigherFirst
<1>8. \A i \in 1 .. n : processors[i].nth <= registrations
  BY DEF RegistryInv
<1> HIDE DEF p, later, n
<1>9. PICK k \in 1 .. n + 1 :
        /\ processors' \in Seq(Processors) /\ Len(processors') = n + 1
        /\ \A i \in 1 .. n + 1 :
             processors'[i] = IF i < k THEN processors[i] ELSE IF i = k THEN p ELSE processors[i - 1]
        /\ \A i \in 1 .. n : i < k <=> i \notin later
  <2>1. CASE later = {}
    <3>1. /\ processors' \in Seq(Processors) /\ Len(processors') = n + 1
          /\ \A i \in 1 .. n : processors'[i] = processors[i]
          /\ processors'[n + 1] = p
      BY <1>1, <1>2, <1>3, <2>1, AppendProperties DEF n
    <3> DEFINE k == n + 1
    <3>2. k \in 1 .. n + 1 /\ \A i \in 1 .. n + 1 : i = k \/ (i \in 1 .. n /\ i < k)
      BY <1>2
    <3>3. \A i \in 1 .. n : i < k
      BY <1>2
    <3>4. processors'[k] = p
      BY <3>1
    <3> HIDE DEF k
    <3>5. \A i \in 1 .. n + 1 :
            processors'[i] = IF i < k THEN processors[i] ELSE IF i = k THEN p ELSE processors[i - 1]
      <4> SUFFICES ASSUME NEW i \in 1 .. n + 1
                   PROVE  processors'[i] = IF i < k THEN processors[i] ELSE IF i = k THEN p ELSE processors[i - 1]
        OBVIOUS
      <4>1. CASE i = k
        <5>1. ~(i < k)
          BY <1>2, <4>1
        <5> QED
          BY <3>4, <4>1, <5>1
      <4>2. CASE i # k
        <5>1. i \in 1 .. n /\ i < k
          BY <3>2, <4>2
        <5> QED
          BY <3>1, <5>1
      <4> QED
        BY <4>1, <4>2
    <3>6. \A i \in 1 .. n : i < k <=> i \notin later
      BY <2>1, <3>3
    <3> QED
      BY <3>1, <3>2, <3>5, <3>6
  <2>2. CASE later # {}
    <3>1. Min(later) \in later /\ \A y \in later : Min(later) <= y
      BY <1>6, <2>2, LeastExists
    <3> DEFINE k == Min(later)
    <3>2. k \in 1 .. n + 1 /\ k \in 1 .. n /\ k \in later /\ \A y \in later : k <= y
      <4>1. k \in later /\ k \in 1 .. n /\ \A y \in later : k <= y
        BY <1>6, <3>1
      <4> HIDE DEF k
      <4>2. k \in 1 .. n + 1
        BY <1>2, <4>1
      <4> QED
        BY <4>1, <4>2
    <3>3. processors' = InsertAt(processors, k, p)
      BY <1>1, <2>2
    <3> HIDE DEF k
    <3>4. /\ processors' \in Seq(Processors) /\ Len(processors') = n + 1
          /\ \A i \in 1 .. n + 1 :
               processors'[i] = IF i < k THEN processors[i] ELSE IF i = k THEN p ELSE processors[i - 1]
      <4>1. p \in Processors /\ processors \in Seq(Processors) /\ k \in 1 .. Len(processors) + 1
        BY <1>2, <1>3, <3>2 DEF n
      <4>2. LET q == InsertAt(processors, k, p)
            IN /\ q \in Seq(Processors) /\ Len(q) = Len(processors) + 1
               /\ \A i \in 1 .. Len(processors) + 1 :
                    q[i] = IF i < k THEN processors[i] ELSE IF i = k THEN p ELSE processors[i - 1]
        <5> HIDE DEF n, p
        <5> QED
          BY <4>1, Inserted, SMTT(30)
      <4> QED
        BY <3>3, <4>2 DEF n
    <3>5. \A i \in 1 .. n : i < k => i \notin later
      BY <1>2, <3>2
    <3>6. ASSUME NEW i \in 1 .. n, i \notin later, ~(i < k) PROVE FALSE
      <4>1. k < i
        BY <1>2, <3>2, <3>6
      <4>2. processors[k].priority >= processors[i].priority
        BY <1>4, <1>7, <3>2, <4>1
      <4>3. pri > processors[k].priority /\ ~(pri > processors[i].priority)
        BY <1>5, <3>2, <3>6
      <4> QED
        BY <1>3, <1>4, <3>2, <4>2, <4>3
    <3> QED
      BY <3>2, <3>4, <3>5, <3>6
  <2> QED
    BY <2>1, <2>2
<1>10. ASSUME NEW i \in 1 .. n + 1, NEW j \in 1 .. n + 1, i < j
       PROVE  \/ processors'[i].priority > processors'[j].priority
              \/ processors'[i].priority = processors'[j].priority /\ processors'[i].nth < processors'[j].nth
  <2>1. CASE j < k
    <3>1. i \in 1 .. n /\ j \in 1 .. n /\ processors'[i] = processors[i] /\ processors'[j] = processors[j]
      BY <1>2, <1>9, <1>10, <2>1
    <3> QED
      BY <1>7, <1>10, <3>1
  <2>2. CASE j = k
    <3>1. i \in 1 .. n /\ i < k /\ processors'[i] = processors[i] /\ processors'[j] = p
      BY <1>2, <1>9, <1>10, <2>2
    <3>2. ~(pri > processors[i].priority) /\ processors[i].nth <= registrations
      BY <1>5, <1>8, <1>9, <3>1
    <3> QED
      BY <1>2, <1>3, <1>4, <3>1, <3>2
  <2>3. CASE j > k /\ i < k
    <3>1. i \in 1 .. n /\ j - 1 \in 1 .. n /\ i < j - 1 /\ processors'[i] = processors[i] /\ processors'[j] = processors[j - 1]
      BY <1>2, <1>9, <1>10, <2>3
    <3> QED
      BY <1>7, <3>1
  <2>4. CASE j > k /\ i = k
    <3>1. j - 1 \in 1 .. n /\ ~(j - 1 < k) /\ processors'[i] = p /\ processors'[j] = processors[j - 1]
      BY <1>2, <1>9, <1>10, <2>4
    <3>2. pri > processors[j - 1].priority
      BY <1>5, <1>9, <3>1
    <3> QED
      BY <1>3, <3>1, <3>2
  <2>5. CASE j > k /\ i > k
    <3>1. /\ i - 1 \in 1 .. n /\ j - 1 \in 1 .. n /\ i - 1 < j - 1
          /\ processors'[i] = processors[i - 1] /\ processors'[j] = processors[j - 1]
      BY <1>2, <1>9, <1>10, <2>5
    <3> QED
      BY <1>7, <3>1
  <2> QED
    BY <1>2, <1>9, <2>1, <2>2, <2>3, <2>4, <2>5
<1>0. registrations' = registrations + 1
  BY <1>1
<1>11. ASSUME NEW i \in 1 .. n + 1 PROVE processors'[i].nth <= registrations'
  <2>1. CASE i = k
    BY <1>0, <1>2, <1>3, <1>9, <2>1
  <2>2. CASE i < k
    <3>1. i \in 1 .. n /\ processors'[i] = processors[i]
      BY <1>2, <1>9, <2>2
    <3> QED
      BY <1>0, <1>2, <1>4, <1>8, <3>1
  <2>3. CASE i > k
    <3>1. i - 1 \in 1 .. n /\ processors'[i] = processors[i - 1]
      BY <1>2, <1>9, <2>3
    <3> QED
      BY <1>0, <1>2, <1>4, <1>8, <3>1
  <2> QED
    BY <1>2, <1>9, <2>1, <2>2, <2>3
<1> QED
  BY <1>2, <1>9, <1>10, <1>11 DEF RegistryInv, HigherFirst

LEMMA UnregisterKeeps ==
  ASSUME RegistryInv, NEW name \in ProcessorNames, Unregister(name)
  PROVE  RegistryInv'
<1> DEFINE n == Len(processors)
           named == {i \in 1 .. n : processors[i].name = name}
           k == Min(named)
<1>1. named # {} /\ processors' = RemoveAt(processors, k) /\ UNCHANGED registrations
  BY DEF Unregister
<1>2. processors \in Seq(Processors) /\ n \in Nat
  BY LenProperties DEF RegistryInv
<1>3. k \in 1 .. n
  <2>1. named \subseteq Nat /\ named \subseteq 1 .. n
    OBVIOUS
  <2>2. k \in named
    BY <1>1, <2>1, LeastExists
  <2> QED
    BY <2>1, <2>2
<1> HIDE DEF k, n, named
<1>4. /\ processors' \in Seq(Processors) /\ Len(processors') = n - 1
      /\ \A i \in 1 .. n - 1 : processors'[i] = IF i < k THEN processors[i] ELSE processors[i + 1]
  BY <1>1, <1>2, <1>3, Removed DEF n
<1>5. ASSUME NEW i \in 1 .. n - 1
      PROVE  \E m \in 1 .. n : m = (IF i < k THEN i ELSE i + 1) /\ processors'[i] = processors[m]
  BY <1>2, <1>3, <1>4
<1>6. /\ \A i \in 1 .. n : processors[i].nth <= registrations
      /\ \A i, j \in 1 .. n : i < j =>
           \/ processors[i].priority > processors[j].priority
           \/ processors[i].priority = processors[j].priority /\ processors[i].nth < processors[j].nth
  BY DEF RegistryInv, HigherFirst, n
<1>7. ASSUME NEW i \in 1 .. n - 1, NEW j \in 1 .. n - 1, i < j
      PROVE  \/ processors'[i].priority > processors'[j].priority
             \/ processors'[i].priority = processors'[j].priority /\ processors'[i].nth < processors'[j].nth
  <2>1. PICK a \in 1 .. n : a = (IF i < k THEN i ELSE i + 1) /\ processors'[i] = processors[a]
    BY <1>5
  <2>2. PICK b \in 1 .. n : b = (IF j < k THEN j ELSE j + 1) /\ processors'[j] = processors[b]
    BY <1>5
  <2>3. a < b
    BY <1>2, <1>3, <1>7, <2>1, <2>2
  <2> QED
    BY <1>6, <2>1, <2>2, <2>3
<1>8. \A i \in 1 .. n - 1 : processors'[i].nth <= registrations'
  BY <1>1, <1>5, <1>6
<1> QED
  BY <1>1, <1>4, <1>7, <1>8 DEF RegistryInv, HigherFirst

-----------------------------------------------------------------------------
LEMMA FreshRoutes ==
  ASSUME RoutesInv, strategy' \in Strategies,
         active' \in Seq(OutputIDs), IsInjective(active)', Len(active') <= Cardinality(OutputIDs),
         NewPeriod
  PROVE  RoutesInv'
<1>1. /\ begun' = 0 /\ routed' = [o \in OutputIDs |-> 0] /\ upset' = 0
      /\ UNCHANGED <<roundRobinIndex, routes, Routing>>
      /\ period' = IF Routing = {} THEN "calm" ELSE "mixed"
  BY DEF NewPeriod, Routing
<1>2. RoutesTyped'
  BY <1>1, RoutingAssumption DEF RoutesInv, RoutesTyped, Periods
<1>3. CASE Routing = {}
  <2>1. (RoutesTyped /\ PeriodStarts => RoutesInv)'
    BY PeriodBegins, PTL
  <2>2. PeriodStarts'
    BY <1>1, <1>3 DEF PeriodStarts
  <2> QED
    BY <1>2, <2>1, <2>2
<1>4. CASE Routing # {}
  BY <1>1, <1>2, <1>4 DEF RoutesInv
<1> QED
  BY <1>3, <1>4

LEMMA Remainders ==
  ASSUME NEW n \in Nat \ {0}, NEW x \in Nat
  PROVE  /\ x % n \in 0 .. n - 1
         /\ x < n => x % n = x
         /\ n % n = 0
<1>1. x % n \in 0 .. n - 1
  OBVIOUS
<1>2. x < n => x % n = x
  BY Z3
<1>3. n % n = 0
  BY Z3
<1> QED
  BY <1>1, <1>2, <1>3

\* What a routing step finds about the worker and the outputs it has collected.
LEMMA RouteUnderWay ==
  ASSUME RoutesInv, NEW w \in BusRouters, routes[w].at # "idle"
  PROVE  /\ routes[w] \in RouteStates /\ w \in Routing
         /\ routes[w].outputs \in Seq(OutputIDs)
         /\ Len(routes[w].outputs) \in Nat \ {0}
         /\ Len(routes[w].outputs) <= Cardinality(OutputIDs)
         /\ routes[w].index \in Nat
         /\ period # "mixed" => routes[w].outputs = active
<1>1. w \in Routing /\ routes[w] \in RouteStates
  BY DEF Routing, RoutesInv, RoutesTyped
<1>2. routes[w].outputs \in Seq(OutputIDs) /\ routes[w].index \in Nat
  BY <1>1 DEF RouteStates
<1>3. routes[w].outputs # <<>> /\ Len(routes[w].outputs) <= Cardinality(OutputIDs)
  BY <1>1 DEF RoutesInv, RoutesTyped
<1>4. Len(routes[w].outputs) \in Nat /\ Len(routes[w].outputs) # 0
  BY <1>2, <1>3, EmptySeq, LenProperties
<1>5. period # "mixed" => routes[w].outputs = active
  BY <1>1 DEF RoutesInv
<1> QED
  BY <1>1, <1>2, <1>3, <1>4, <1>5

\* The places of the active outputs.
LEMMA OutputPlaces ==
  ASSUME RoutesTyped
  PROVE  /\ Len(active) \in Nat /\ roundRobinIndex \in Nat /\ upset \in Nat
         /\ \A i \in 1 .. Len(active) :
              /\ active[i] \in OutputIDs /\ routed[active[i]] \in Nat
              /\ Cardinality(TurnsOf(active[i])) \in Nat /\ Claim(i) \in Nat
         /\ \A i, j \in 1 .. Len(active) : active[i] = active[j] => i = j
<1>1. Len(active) \in Nat /\ DOMAIN active = 1 .. Len(active)
  BY LenProperties DEF RoutesTyped
<1>2. \A i \in 1 .. Len(active) : active[i] \in OutputIDs
  BY ElementOfSeq DEF RoutesTyped
<1>3. \A i, j \in 1 .. Len(active) : active[i] = active[j] => i = j
  BY <1>1 DEF RoutesTyped, IsInjective
<1>4. \A i \in 1 .. Len(active) : routed[active[i]] \in Nat /\ Cardinality(TurnsOf(active[i])) \in Nat
  BY <1>2, TurnsCounted DEF RoutesTyped
<1> QED
  BY <1>1, <1>2, <1>3, <1>4, OutputsCounted DEF RoutesTyped, Claim

\* A step of one worker that takes no turn and gives none back.
LEMMA SameTurns ==
  ASSUME NEW w \in BusRouters, NEW r \in RouteStates, routes \in [BusRouters -> RouteStates],
         routes' = [routes EXCEPT ![w] = r], UNCHANGED active,
         routes[w].at # "wrote", r.at # "wrote"
  PROVE  /\ \A i \in 1 .. Len(active) : Cardinality(TurnsOf(active[i]))' = Cardinality(TurnsOf(active[i]))
         /\ \A v \in BusRouters : routes'[v].at = "wrote" => routes'[v] = routes[v]
<1>1. /\ routes'[w] = r
      /\ \A v \in BusRouters : v # w => routes'[v] = routes[v]
  OBVIOUS
<1>2. ASSUME NEW i \in 1 .. Len(active) PROVE TurnsOf(active[i])' = TurnsOf(active[i])
  BY <1>1 DEF TurnsOf
<1> QED
  BY <1>1, <1>2

\* ... nor changes the index or what was sent.
LEMMA SameEven ==
  ASSUME TurnsInv, UNCHANGED <<active, roundRobinIndex, routed, upset>>,
         \A i \in 1 .. Len(active) : Cardinality(TurnsOf(active[i]))' = Cardinality(TurnsOf(active[i])),
         \A v \in BusRouters : routes'[v].at = "wrote" => routes'[v] = routes[v]
  PROVE  TurnsInv'
<1>1. \A i \in 1 .. Len(active) : Claim(i)' = Claim(i)
  BY DEF Claim
<1>2. PICK first \in Int : Even(first)
  BY DEF TurnsInv
<1>3. Even(first)'
  BY <1>1, <1>2 DEF Even, Passed
<1>4. \A v \in BusRouters : routes'[v].at = "wrote" =>
         roundRobinIndex' < Len(active') /\ routes'[v].index < Len(active')
  BY DEF TurnsInv
<1>5. roundRobinIndex' < Len(active') \/ Untaken'
  BY <1>1 DEF TurnsInv, Untaken
<1> QED
  BY <1>3, <1>4, <1>5 DEF TurnsInv

LEMMA CollectKeeps ==
  ASSUME RoutesInv, NEW w \in BusRouters, CollectOutputs(w)
  PROVE  RoutesInv'
<1> DEFINE r == [at |-> "collected", outputs |-> active, index |-> 0]
<1>1. /\ routes[w].at = "idle" /\ active # <<>> /\ begun < MaxRoutes /\ begun' = begun + 1
      /\ routes' = [routes EXCEPT ![w] = r]
      /\ UNCHANGED <<roundRobinIndex, active, strategy, routed, upset, period>>
  BY DEF CollectOutputs
<1>2. RoutesTyped /\ routes \in [BusRouters -> RouteStates] /\ r \in RouteStates
  BY DEF RoutesInv, RoutesTyped, RouteStates
<1>3. /\ routes' \in [BusRouters -> RouteStates] /\ routes'[w] = r
      /\ \A v \in BusRouters : v # w => routes'[v] = routes[v]
  BY <1>1, <1>2
<1>4. \A v \in Routing' : v \in BusRouters /\ (v = w \/ (v # w /\ v \in Routing))
  BY <1>3 DEF Routing
<1>5. TakingTurns' = TakingTurns /\ w \notin TakingTurns
  BY <1>1, <1>3 DEF TakingTurns
<1>6. RoutesTyped'
  BY <1>1, <1>2, <1>3, <1>4, RoutingAssumption DEF RoutesTyped
<1>7. ASSUME period # "mixed" PROVE \A v \in Routing' : routes'[v].outputs = active
  <2>1. \A v \in Routing : routes[v].outputs = active
    BY <1>7 DEF RoutesInv
  <2>2. r.outputs = active
    OBVIOUS
  <2> HIDE DEF r
  <2> QED
    BY <1>3, <1>4, <2>1, <2>2
<1>8. TurnsInv => TurnsInv'
  BY <1>1, <1>2, SameTurns, SameEven
<1>9. CalmInv => CalmInv'
  BY <1>1, <1>3, <1>5 DEF CalmInv, TakingTurns
<1> QED
  BY <1>1, <1>5, <1>6, <1>7, <1>8, <1>9 DEF RoutesInv

LEMMA RouteAtOnceKeeps ==
  ASSUME RoutesInv, NEW w \in BusRouters, RouteAtOnce(w)
  PROVE  RoutesInv'
<1>1. /\ routes[w].at = "collected" /\ strategy # "roundRobin"
      /\ routed' = Sent(Targets(routes[w].outputs))
      /\ routes' = [routes EXCEPT ![w] = Idle]
      /\ UNCHANGED <<roundRobinIndex, active, strategy, begun, upset, period>>
  BY DEF RouteAtOnce
<1>2. RoutesTyped /\ routes \in [BusRouters -> RouteStates] /\ Idle \in RouteStates /\ Idle.at = "idle"
  BY EmptySeq DEF RoutesInv, RoutesTyped, RouteStates, Idle
<1>3. /\ routes' \in [BusRouters -> RouteStates] /\ routes'[w] = Idle
      /\ \A v \in BusRouters : v # w => routes'[v] = routes[v]
  BY <1>1, <1>2
<1>4. \A v \in Routing' : v \in Routing /\ routes'[v] = routes[v]
  BY <1>2, <1>3 DEF Routing
<1>5. TakingTurns' = TakingTurns /\ w \notin TakingTurns
  BY <1>1, <1>2, <1>3 DEF TakingTurns
<1>6. routed \in [OutputIDs -> Nat] /\ routed' \in [OutputIDs -> Nat]
  BY <1>1 DEF RoutesInv, RoutesTyped, Sent
<1>7. RoutesTyped'
  BY <1>1, <1>2, <1>3, <1>4, <1>6 DEF RoutesTyped
<1>8. ASSUME period # "mixed", strategy = "broadcast", NEW i \in 1 .. Len(active), NEW j \in 1 .. Len(active)
      PROVE  routed'[active[i]] = routed'[active[j]]
  <2>1. Targets(routes[w].outputs) = ToSet(active)
    BY <1>1, <1>8, RouteUnderWay DEF Targets
  <2>2. active[i] \in ToSet(active) /\ active[j] \in ToSet(active) /\ active[i] \in OutputIDs /\ active[j] \in OutputIDs
    BY <1>2, OutputPlaces, LenProperties DEF ToSet, RoutesTyped
  <2>3. routed[active[i]] = routed[active[j]]
    BY <1>8 DEF RoutesInv
  <2> QED
    BY <1>1, <2>1, <2>2, <2>3 DEF Sent
<1>9. CalmInv => CalmInv'
  BY <1>1, <1>3, <1>5 DEF CalmInv
<1> QED
  BY <1>1, <1>4, <1>5, <1>7, <1>8, <1>9 DEF RoutesInv

LEMMA ReadIndexKeeps ==
  ASSUME RoutesInv, NEW w \in BusRouters, ReadIndex(w)
  PROVE  RoutesInv'
<1> DEFINE r == [at |-> "read", outputs |-> routes[w].outputs, index |-> roundRobinIndex]
<1>1. /\ routes[w].at = "collected" /\ strategy = "roundRobin"
      /\ routes' = [routes EXCEPT ![w] = r]
      /\ period' = IF period = "calm" /\ TakingTurns # {} THEN "overlapping" ELSE period
      /\ UNCHANGED <<roundRobinIndex, active, strategy, begun, routed, upset>>
  BY DEF ReadIndex
<1>2. /\ RoutesTyped /\ routes \in [BusRouters -> RouteStates]
      /\ routes[w] \in RouteStates /\ r \in RouteStates /\ r.at = "read"
  BY OutputsCounted DEF RoutesInv, RoutesTyped, RouteStates
<1> HIDE DEF r
<1>4. /\ routes' \in [BusRouters -> RouteStates] /\ routes'[w] = r
      /\ \A v \in BusRouters : v # w => routes'[v] = routes[v]
  BY <1>1, <1>2
<1>5. w \in Routing /\ \A v \in Routing' : v \in Routing /\ routes'[v].outputs = routes[v].outputs
  BY <1>1, <1>4 DEF Routing, r
<1>6. /\ TakingTurns' = TakingTurns \union {w} /\ w \notin TakingTurns
      /\ \A v \in TakingTurns : v # w /\ routes'[v] = routes[v]
  BY <1>1, <1>2, <1>4 DEF TakingTurns
<1>7. period' \in Periods /\ (period' # "mixed" <=> period # "mixed")
      /\ (period' = "calm" <=> period = "calm" /\ TakingTurns = {})
  BY <1>1, <1>2 DEF RoutesTyped, Periods
<1>8. RoutesTyped'
  <2>1. \A v \in Routing' : routes'[v].outputs # <<>> /\ Len(routes'[v].outputs) <= Cardinality(OutputIDs)
    BY <1>2, <1>5 DEF RoutesTyped
  <2> QED
    BY <1>1, <1>2, <1>4, <1>7, <2>1 DEF RoutesTyped
<1>9. TurnsInv => TurnsInv'
  BY <1>1, <1>2, SameTurns, SameEven
<1>10. CASE period' = "calm"
  <2>1. CalmInv'
    BY <1>1, <1>4, <1>6, <1>7, <1>10 DEF CalmInv, RoutesInv, r
  <2> QED
    BY <1>1, <1>5, <1>7, <1>8, <1>9, <2>1 DEF RoutesInv
<1>11. CASE period' # "calm"
  BY <1>1, <1>5, <1>7, <1>8, <1>9, <1>11 DEF RoutesInv
<1> QED
  BY <1>10, <1>11

\* The index goes from `was` to `next`, and one more claim is on the next place.
LEMMA OneTurn ==
  ASSUME NEW n \in Nat \ {0}, NEW was \in Nat, was < n, NEW next \in 0 .. n - 1, NEW i \in 1 .. n
  PROVE  /\ next = was + 1 => (IF i = next + 1 THEN 1 ELSE 0) - Passed(i, next) + Passed(i, was) = 0
         /\ was + 1 = n /\ next = 0 => (IF i = next + 1 THEN 1 ELSE 0) - Passed(i, next) + Passed(i, was) = 1
         /\ was + 1 >= next => (IF i = next + 1 THEN 1 ELSE 0) - Passed(i, next) + Passed(i, was) \in {0, 1}
         /\ was + 1 < next => (IF i = next + 1 THEN 1 ELSE 0) - Passed(i, next) + Passed(i, was) \in {-1, 0}
BY DEF Passed

LEMMA WriteIndexKeeps ==
  ASSUME RoutesInv, NEW w \in BusRouters, WriteIndex(w)
  PROVE  RoutesInv'
<1> DEFINE n == Len(routes[w].outputs)
           read == routes[w].index
           next == NextIndex(read, n)
           r == [at |-> "wrote", outputs |-> routes[w].outputs, index |-> next]
           cost == IF roundRobinIndex = read THEN 0 ELSE 1
<1>1. /\ routes[w].at = "read"
      /\ roundRobinIndex' = next /\ routes' = [routes EXCEPT ![w] = r]
      /\ upset' = upset + cost
      /\ UNCHANGED <<active, strategy, begun, routed, period>>
  BY DEF WriteIndex
<1>2. /\ RoutesTyped /\ routes \in [BusRouters -> RouteStates] /\ routes[w] \in RouteStates
      /\ n \in Nat \ {0} /\ n <= Cardinality(OutputIDs) /\ read \in Nat /\ w \in Routing
      /\ roundRobinIndex \in Nat /\ upset \in Nat /\ Cardinality(OutputIDs) \in Nat
  <2>1. routes[w].at # "idle" /\ RoutesTyped
    BY <1>1 DEF RoutesInv
  <2>2. routes \in [BusRouters -> RouteStates]
    BY <2>1 DEF RoutesTyped
  <2> QED
    BY <2>1, <2>2, RouteUnderWay, OutputPlaces, OutputsCounted
<1> HIDE DEF n, read
<1>3. next \in 0 .. n - 1 /\ (read + 1 < n => next = read + 1) /\ (read + 1 = n => next = 0)
  <2>1. read + 1 \in Nat /\ next = (read + 1) % n
    BY <1>2 DEF NextIndex
  <2> HIDE DEF next
  <2>2. /\ (read + 1) % n \in 0 .. n - 1 /\ n % n = 0
        /\ read + 1 < n => (read + 1) % n = read + 1
    BY <1>2, <2>1, Remainders
  <2> QED
    BY <2>1, <2>2
<1>4. r \in RouteStates /\ r.at = "wrote" /\ r.index = next /\ r.outputs = routes[w].outputs
  BY <1>2, <1>3 DEF RouteStates
<1> HIDE DEF r, next
<1>5. /\ routes' \in [BusRouters -> RouteStates] /\ routes'[w] = r
      /\ \A v \in BusRouters : v # w => routes'[v] = routes[v]
  BY <1>1, <1>2, <1>4
<1>6. \A v \in Routing' : v \in Routing /\ routes'[v].outputs = routes[v].outputs
  BY <1>2, <1>4, <1>5 DEF Routing
<1>7. TakingTurns' = TakingTurns /\ w \in TakingTurns
  BY <1>1, <1>4, <1>5 DEF TakingTurns
<1>8. RoutesTyped'
  <2>1. \A v \in Routing' : routes'[v].outputs # <<>> /\ Len(routes'[v].outputs) <= Cardinality(OutputIDs)
    BY <1>2, <1>6 DEF RoutesTyped
  <2>2. roundRobinIndex' \in 0 .. Cardinality(OutputIDs) /\ upset' \in Nat
    BY <1>1, <1>2, <1>3
  <2> QED
    BY <1>1, <1>2, <1>5, <2>1, <2>2 DEF RoutesTyped
<1>9. ASSUME period # "mixed", TurnsInv PROVE TurnsInv'
  <2>1. routes[w].outputs = active /\ Len(active) = n
    <3>1. routes[w].at # "idle"
      BY <1>1
    <3> QED
      BY <1>9, <3>1, RouteUnderWay DEF n
  <2>2. /\ \A i \in 1 .. n : /\ Claim(i) \in Nat /\ routed[active[i]] \in Nat
                             /\ Cardinality(TurnsOf(active[i])) \in Nat
        /\ \A i, j \in 1 .. n : active[i] = active[j] => i = j
    BY <1>2, <2>1, OutputPlaces
  <2>3. ASSUME NEW i \in 1 .. n
        PROVE  Cardinality(TurnsOf(active[i]))' = Cardinality(TurnsOf(active[i])) + (IF i = next + 1 THEN 1 ELSE 0)
    <3>1. w \notin TurnsOf(active[i]) /\ IsFiniteSet(TurnsOf(active[i]))
      BY <1>1, TurnsCounted DEF TurnsOf
    <3>2. active[next + 1] = active[i] <=> i = next + 1
      BY <1>2, <1>3, <2>2
    <3>3. CASE i = next + 1
      <4>1. TurnsOf(active[i])' = TurnsOf(active[i]) \union {w}
        BY <1>1, <1>4, <1>5, <2>1, <3>2, <3>3 DEF TurnsOf
      <4> QED
        BY <3>1, <3>3, <4>1, FS_AddElement
    <3>4. CASE i # next + 1
      <4>1. TurnsOf(active[i])' = TurnsOf(active[i])
        BY <1>1, <1>4, <1>5, <2>1, <3>2, <3>4 DEF TurnsOf
      <4> QED
        BY <2>2, <3>4, <4>1
    <3> QED
      BY <3>3, <3>4
  <2>4. \A i \in 1 .. n : Claim(i)' = Claim(i) + (IF i = next + 1 THEN 1 ELSE 0)
    <3> SUFFICES ASSUME NEW i \in 1 .. n
                 PROVE  Claim(i)' = Claim(i) + (IF i = next + 1 THEN 1 ELSE 0)
      OBVIOUS
    <3>1. Claim(i)' = routed[active[i]] + Cardinality(TurnsOf(active[i]))'
      BY <1>1 DEF Claim
    <3>2. /\ Cardinality(TurnsOf(active[i]))' = Cardinality(TurnsOf(active[i])) + (IF i = next + 1 THEN 1 ELSE 0)
          /\ routed[active[i]] \in Nat /\ Cardinality(TurnsOf(active[i])) \in Nat
      BY <2>2, <2>3
    <3>3. Claim(i)' = routed[active[i]] + (Cardinality(TurnsOf(active[i])) + (IF i = next + 1 THEN 1 ELSE 0))
      BY <3>1, <3>2
    <3> QED
      BY <3>2, <3>3 DEF Claim
  <2>5. ASSUME roundRobinIndex >= n PROVE \E first \in Int : Even(first)'
    <3>1. \A i \in 1 .. n : Claim(i) = 0
      BY <1>2, <1>9, <2>1, <2>5 DEF TurnsInv, Untaken
    <3>2. PICK first \in Int : first = next - 1
      BY <1>3
    <3>3. \A i \in 1 .. n : Claim(i)' - Passed(i, next) + Passed(i, first) = 0
      BY <1>2, <1>3, <2>4, <3>1, <3>2 DEF Passed
    <3>4. upset' \in Nat
      BY <1>1, <1>2
    <3>5. \A i, j \in 1 .. n : Claim(i)' - Passed(i, next) + Passed(i, first)
                                 <= Claim(j)' - Passed(j, next) + Passed(j, first) + upset'
      BY <3>3, <3>4
    <3>6. Even(first)'
      BY <1>1, <2>1, <3>5 DEF Even, Passed
    <3> QED
      BY <3>2, <3>6
  <2>6. ASSUME roundRobinIndex < n PROVE \E first \in Int : Even(first)'
    <3>1. PICK first \in Int : Even(first)
      BY <1>9 DEF TurnsInv
    <3> DEFINE step(i) == (IF i = next + 1 THEN 1 ELSE 0) - Passed(i, next) + Passed(i, roundRobinIndex)
               d(i) == Claim(i) - Passed(i, roundRobinIndex) + Passed(i, first)
    <3>2. \A i \in 1 .. n : d(i) \in Int /\ step(i) \in Int
      BY <1>2, <2>2, <3>1 DEF Passed
    <3>3. \A i \in 1 .. n : Claim(i)' - Passed(i, next) + Passed(i, first) = d(i) + step(i)
      BY <1>2, <1>3, <2>2, <2>4, <3>1 DEF Passed
    <3>4. \A i, j \in 1 .. n : d(i) <= d(j) + upset
      BY <2>1, <3>1 DEF Even
    <3>5. \A i, j \in 1 .. n : step(i) <= step(j) + cost
      <4>0. ASSUME NEW i \in 1 .. n
            PROVE  /\ next = roundRobinIndex + 1 => step(i) = 0
                   /\ roundRobinIndex + 1 = n /\ next = 0 => step(i) = 1
                   /\ roundRobinIndex + 1 >= next => step(i) \in {0, 1}
                   /\ roundRobinIndex + 1 < next => step(i) \in {-1, 0}
        BY <1>2, <1>3, <2>6, OneTurn
      <4> HIDE DEF step
      <4>1. CASE roundRobinIndex = read
        <5>1. CASE read + 1 < n
          BY <1>2, <1>3, <4>0, <4>1, <5>1
        <5>2. CASE read + 1 = n
          BY <1>2, <1>3, <4>0, <4>1, <5>2
        <5> QED
          BY <1>2, <2>6, <4>1, <5>1, <5>2
      <4>2. CASE roundRobinIndex # read
        <5>1. CASE roundRobinIndex + 1 >= next
          BY <1>2, <1>3, <4>0, <4>2, <5>1
        <5>2. CASE roundRobinIndex + 1 < next
          BY <1>2, <1>3, <4>0, <4>2, <5>2
        <5> QED
          BY <1>2, <1>3, <5>1, <5>2
      <4> QED
        BY <4>1, <4>2
    <3>6. cost \in Nat
      OBVIOUS
    <3> HIDE DEF step, d, cost
    <3>7. \A i, j \in 1 .. n : d(i) + step(i) <= d(j) + step(j) + (upset + cost)
      BY <1>2, <3>2, <3>4, <3>5, <3>6
    <3>8. \A i, j \in 1 .. n : Claim(i)' - Passed(i, next) + Passed(i, first)
                                 <= Claim(j)' - Passed(j, next) + Passed(j, first) + (upset + cost)
      BY <3>3, <3>7
    <3>9. Even(first)'
      BY <1>1, <2>1, <3>8 DEF Even, Passed, cost
    <3> QED
      BY <3>1, <3>9
  <2>7. roundRobinIndex' < Len(active')
    BY <1>1, <1>2, <1>3, <2>1
  <2>8. \A v \in BusRouters : routes'[v].at = "wrote" =>
           roundRobinIndex' < Len(active') /\ routes'[v].index < Len(active')
    BY <1>1, <1>2, <1>3, <1>4, <1>5, <1>9, <2>1, <2>7 DEF TurnsInv
  <2> QED
    BY <1>2, <2>5, <2>6, <2>7, <2>8 DEF TurnsInv
<1>10. ASSUME CalmInv PROVE CalmInv'
  <2>1. read = roundRobinIndex /\ upset = 0
    BY <1>7, <1>10 DEF CalmInv, read
  <2>2. upset' = 0
    BY <1>1, <2>1
  <2> QED
    BY <1>1, <1>4, <1>5, <1>7, <1>10, <2>2 DEF CalmInv
<1> QED
  BY <1>1, <1>6, <1>7, <1>8, <1>9, <1>10 DEF RoutesInv

LEMMA UseIndexKeeps ==
  ASSUME RoutesInv, NEW w \in BusRouters, UseIndex(w)
  PROVE  RoutesInv'
<1> DEFINE own == routes[w].index
           outputs == routes[w].outputs
<1>1. PICK index \in {own, roundRobinIndex} :
        /\ routed' = IF index < Len(outputs) THEN Sent({outputs[index + 1]}) ELSE routed
        /\ upset' = upset + (IF index = own THEN 0 ELSE 2)
  BY DEF UseIndex
<1>2. /\ routes[w].at = "wrote"
      /\ routes' = [routes EXCEPT ![w] = Idle]
      /\ UNCHANGED <<roundRobinIndex, active, strategy, begun, period>>
  BY DEF UseIndex
<1>3. /\ RoutesTyped /\ routes \in [BusRouters -> RouteStates] /\ routes[w] \in RouteStates
      /\ Idle \in RouteStates /\ Idle.at = "idle" /\ own \in Nat
      /\ roundRobinIndex \in Nat /\ upset \in Nat
      /\ routed \in [OutputIDs -> Nat] /\ outputs \in Seq(OutputIDs)
  BY EmptySeq, OutputPlaces DEF RoutesInv, RoutesTyped, RouteStates, Idle
<1>4. /\ routes' \in [BusRouters -> RouteStates] /\ routes'[w] = Idle
      /\ \A v \in BusRouters : v # w => routes'[v] = routes[v]
  BY <1>2, <1>3
<1>5. \A v \in Routing' : v \in Routing /\ routes'[v] = routes[v]
  BY <1>3, <1>4 DEF Routing
<1>6. /\ TakingTurns' = TakingTurns \ {w} /\ w \in TakingTurns
      /\ \A v \in TakingTurns' : routes'[v] = routes[v]
  BY <1>2, <1>3, <1>4 DEF TakingTurns
<1>7. RoutesTyped'
  <2>1. routed' \in [OutputIDs -> Nat] /\ upset' \in Nat
    BY <1>1, <1>3 DEF Sent
  <2> QED
    BY <1>2, <1>3, <1>4, <1>5, <2>1 DEF RoutesTyped
<1>8. ASSUME period # "mixed", TurnsInv PROVE TurnsInv'
  <2> DEFINE n == Len(active)
  <2>1. outputs = active
    <3>1. routes[w].at # "idle"
      BY <1>2
    <3> QED
      BY <1>8, <3>1, RouteUnderWay
  <2>2. roundRobinIndex < n /\ own < n /\ index < n /\ index \in Nat /\ n \in Nat
    BY <1>1, <1>2, <1>3, <1>8, OutputPlaces DEF TurnsInv
  <2>3. /\ \A i \in 1 .. n : /\ Claim(i) \in Nat /\ routed[active[i]] \in Nat /\ active[i] \in OutputIDs
                             /\ Cardinality(TurnsOf(active[i])) \in Nat
        /\ \A i, j \in 1 .. n : active[i] = active[j] => i = j
    BY <1>3, OutputPlaces
  <2>4. ASSUME NEW i \in 1 .. n
        PROVE  Cardinality(TurnsOf(active[i]))' = Cardinality(TurnsOf(active[i])) - (IF i = own + 1 THEN 1 ELSE 0)
    <3>1. IsFiniteSet(TurnsOf(active[i]))
      BY TurnsCounted
    <3>2. w \in TurnsOf(active[i]) <=> i = own + 1
      <4>1. w \in TurnsOf(active[i]) <=> active[own + 1] = active[i]
        BY <1>2, <2>1 DEF TurnsOf
      <4>2. own + 1 \in 1 .. n
        BY <1>3, <2>2
      <4> QED
        BY <2>3, <4>1, <4>2
    <3>3. TurnsOf(active[i])' = TurnsOf(active[i]) \ {w}
      BY <1>2, <1>3, <1>4 DEF TurnsOf
    <3>4. Cardinality(TurnsOf(active[i]) \ {w}) =
            IF w \in TurnsOf(active[i]) THEN Cardinality(TurnsOf(active[i])) - 1
            ELSE Cardinality(TurnsOf(active[i]))
      BY <3>1, FS_RemoveElement
    <3>5. Cardinality(TurnsOf(active[i]))' = Cardinality(TurnsOf(active[i]) \ {w})
      BY <3>3
    <3> QED
      BY <2>3, <3>2, <3>4, <3>5
  <2>5. \A i \in 1 .. n : routed'[active[i]] = routed[active[i]] + (IF i = index + 1 THEN 1 ELSE 0)
    BY <1>1, <1>3, <2>1, <2>2, <2>3 DEF Sent
  <2>6. ASSUME NEW i \in 1 .. n
        PROVE  Claim(i)' = Claim(i) + (IF i = index + 1 THEN 1 ELSE 0) - (IF i = own + 1 THEN 1 ELSE 0)
    <3>1. Claim(i)' = routed'[active[i]] + Cardinality(TurnsOf(active[i]))'
      BY <1>2 DEF Claim
    <3>2. /\ Cardinality(TurnsOf(active[i]))' = Cardinality(TurnsOf(active[i])) - (IF i = own + 1 THEN 1 ELSE 0)
          /\ routed'[active[i]] = routed[active[i]] + (IF i = index + 1 THEN 1 ELSE 0)
          /\ routed[active[i]] \in Nat /\ Cardinality(TurnsOf(active[i])) \in Nat
      BY <2>3, <2>4, <2>5
    <3>3. Claim(i)' = routed[active[i]] + (IF i = index + 1 THEN 1 ELSE 0)
                        + (Cardinality(TurnsOf(active[i])) - (IF i = own + 1 THEN 1 ELSE 0))
      BY <3>1, <3>2
    <3> QED
      BY <3>2, <3>3 DEF Claim
  <2>7. PICK first \in Int : Even(first)
    BY <1>8 DEF TurnsInv
  <2>8. \E f \in Int : Even(f)'
    <3> DEFINE step(i) == (IF i = index + 1 THEN 1 ELSE 0) - (IF i = own + 1 THEN 1 ELSE 0)
               d(i) == Claim(i) - Passed(i, roundRobinIndex) + Passed(i, first)
               cost == IF index = own THEN 0 ELSE 2
    <3>1. \A i \in 1 .. n : d(i) \in Int /\ step(i) \in Int
      BY <1>3, <2>2, <2>3, <2>7 DEF Passed
    <3>2. ASSUME NEW i \in 1 .. n
          PROVE  Claim(i)' - Passed(i, roundRobinIndex) + Passed(i, first) = d(i) + step(i)
      <4>1. /\ Claim(i) \in Int /\ Passed(i, roundRobinIndex) \in Int /\ Passed(i, first) \in Int
            /\ step(i) \in Int
        BY <1>3, <2>2, <2>3, <2>7 DEF Passed
      <4>2. Claim(i)' = Claim(i) + step(i)
        BY <2>2, <2>3, <2>6
      <4> HIDE DEF step
      <4> QED
        BY <4>1, <4>2
    <3>3. \A i, j \in 1 .. n : d(i) <= d(j) + upset
      BY <2>7 DEF Even
    <3>4. \A i, j \in 1 .. n : step(i) <= step(j) + cost
      BY <1>3, <2>2
    <3>5. cost \in Nat /\ upset' = upset + cost
      BY <1>1
    <3> HIDE DEF step, d, cost
    <3>6. \A i, j \in 1 .. n : d(i) + step(i) <= d(j) + step(j) + (upset + cost)
      BY <1>3, <3>1, <3>3, <3>4, <3>5
    <3>7. \A i, j \in 1 .. n : Claim(i)' - Passed(i, roundRobinIndex) + Passed(i, first)
                                 <= Claim(j)' - Passed(j, roundRobinIndex) + Passed(j, first) + (upset + cost)
      BY <3>2, <3>6
    <3>8. Even(first)'
      BY <1>2, <3>5, <3>7 DEF Even, Passed
    <3> QED
      BY <2>7, <3>8
  <2>9. \A v \in BusRouters : routes'[v].at = "wrote" =>
           roundRobinIndex' < Len(active') /\ routes'[v].index < Len(active')
    BY <1>2, <1>3, <1>4, <1>8 DEF TurnsInv
  <2> QED
    BY <1>2, <2>2, <2>8, <2>9 DEF TurnsInv
<1>9. ASSUME CalmInv PROVE CalmInv'
  <2>1. index = own /\ upset' = 0
    BY <1>1, <1>6, <1>9 DEF CalmInv
  <2> QED
    BY <1>2, <1>6, <1>9, <2>1 DEF CalmInv
<1>10. ASSUME period # "mixed" PROVE strategy = "roundRobin"
  BY <1>6, <1>10 DEF RoutesInv
<1> QED
  BY <1>2, <1>5, <1>6, <1>7, <1>8, <1>9, <1>10 DEF RoutesInv

LEMMA ActivationKeeps ==
  ASSUME RoutesInv, NEW os \in SUBSET OutputIDs, NEW outputs \in SetToSeqs(os), Activation(outputs)
  PROVE  RoutesInv'
<1>1. IsFiniteSet(os) /\ Cardinality(os) <= Cardinality(OutputIDs) /\ Cardinality(os) \in Nat
  BY RoutingAssumption, FS_Subset, FS_CardinalityType
<1>2. outputs \in Seq(os) /\ IsInjective(outputs)
  BY <1>1, ListingOfSet
<1>3. outputs \in Seq(OutputIDs)
  BY <1>2, SeqMonotonic
<1>4. Len(outputs) = Cardinality(os)
  BY <1>1 DEF SetToSeqs
<1>5. active' = outputs /\ strategy' \in Strategies /\ NewPeriod
  BY DEF Activation, RoutesInv, RoutesTyped
<1>6. IsInjective(active)'
  BY <1>2, <1>5 DEF IsInjective
<1> QED
  BY <1>1, <1>3, <1>4, <1>5, <1>6, FreshRoutes

LEMMA RoutingInvariant == RoutingSpec => []RoutesInv
<1>1. RoutesInv /\ [RoutingNext]_routingVars => RoutesInv'
  <2> SUFFICES ASSUME RoutesInv, [RoutingNext]_routingVars PROVE RoutesInv'
    OBVIOUS
  <2>1. ASSUME NEW os \in SUBSET OutputIDs, NEW outputs \in SetToSeqs(os), Activation(outputs)
        PROVE  RoutesInv'
    BY <2>1, ActivationKeeps
  <2>2. ASSUME NEW s \in Strategies, ChooseStrategy(s) PROVE RoutesInv'
    <3>1. strategy' \in Strategies /\ active' = active /\ NewPeriod
      BY <2>2 DEF ChooseStrategy
    <3>2. active' \in Seq(OutputIDs) /\ IsInjective(active)' /\ Len(active') <= Cardinality(OutputIDs)
      BY <3>1 DEF RoutesInv, RoutesTyped, IsInjective
    <3> QED
      BY <3>1, <3>2, FreshRoutes
  <2>3. ASSUME NEW w \in BusRouters,
               CollectOutputs(w) \/ RouteAtOnce(w) \/ ReadIndex(w) \/ WriteIndex(w) \/ UseIndex(w)
        PROVE  RoutesInv'
    BY <2>3, CollectKeeps, RouteAtOnceKeeps, ReadIndexKeeps, WriteIndexKeeps, UseIndexKeeps
  <2>4. CASE UNCHANGED routingVars
    <3>1. RoutesTyped' /\ Routing' = Routing /\ TakingTurns' = TakingTurns
      BY <2>4 DEF routingVars, RoutesInv, RoutesTyped, Routing, TakingTurns, IsInjective
    <3>2. \A i \in 1 .. Len(active) : TurnsOf(active[i])' = TurnsOf(active[i])
      BY <2>4 DEF routingVars, TurnsOf
    <3>3. TurnsInv => TurnsInv'
      BY <2>4, <3>2, SameEven DEF routingVars
    <3>4. CalmInv => CalmInv'
      BY <2>4, <3>1 DEF routingVars, CalmInv
    <3> QED
      BY <2>4, <3>1, <3>3, <3>4 DEF routingVars, RoutesInv
  <2> QED
    BY <2>1, <2>2, <2>3, <2>4 DEF RoutingNext
<1> QED
  BY <1>1, RoutingStart, PTL DEF RoutingSpec

LEMMA RegistryInvariant == RegistrySpec => []RegistryInv
<1>1. RegistryInv /\ [RegistryNext]_registryVars => RegistryInv'
  <2> SUFFICES ASSUME RegistryInv, [RegistryNext]_registryVars PROVE RegistryInv'
    OBVIOUS
  <2>1. CASE UNCHANGED registryVars
    BY <2>1 DEF registryVars, RegistryInv, HigherFirst
  <2> QED
    BY <2>1, RegisterKeeps, UnregisterKeeps DEF RegistryNext
<1> QED
  BY <1>1, RegistryStart, PTL DEF RegistrySpec

LEMMA RegistryHolds == RegistryInv => HigherFirst
BY DEF RegistryInv

LEMMA RoutingHolds == RoutesInv => RoutesAreEven
<1> SUFFICES ASSUME RoutesInv, period # "mixed" PROVE RoutesAreEven
  BY DEF RoutesAreEven
<1>1. RoutesTyped
  BY DEF RoutesInv
<1>2. ASSUME strategy = "roundRobin", NEW i \in 1 .. Len(active), NEW j \in 1 .. Len(active)
      PROVE  routed[active[i]] <= routed[active[j]] + 1 + Cardinality(TurnsOf(active[j])) + upset
  <2>1. PICK first \in Int : Even(first)
    BY <1>2 DEF RoutesInv, TurnsInv
  <2>2. /\ routed[active[i]] \in Nat /\ Cardinality(TurnsOf(active[i])) \in Nat
        /\ routed[active[j]] \in Nat /\ Cardinality(TurnsOf(active[j])) \in Nat
        /\ Len(active) \in Nat /\ roundRobinIndex \in Nat /\ upset \in Nat
    BY <1>1, OutputPlaces
  <2>3. Claim(i) - Passed(i, roundRobinIndex) + Passed(i, first)
          <= Claim(j) - Passed(j, roundRobinIndex) + Passed(j, first) + upset
    BY <2>1 DEF Even
  <2>4. Passed(i, roundRobinIndex) - Passed(i, first) - Passed(j, roundRobinIndex) + Passed(j, first) <= 1
    BY <2>1, <2>2 DEF Passed
  <2>5. Claim(i) <= Claim(j) + 1 + upset
    <3> DEFINE a == Claim(i)  b == Passed(i, roundRobinIndex)  c == Passed(i, first)
               d == Claim(j)  e == Passed(j, roundRobinIndex)  f == Passed(j, first)
    <3>1. a \in Int /\ b \in Int /\ c \in Int /\ d \in Int /\ e \in Int /\ f \in Int
      BY <2>2 DEF Passed, Claim
    <3>2. a - b + c <= d - e + f + upset /\ b - c - e + f <= 1
      BY <2>3, <2>4
    <3> HIDE DEF a, b, c, d, e, f
    <3>3. a <= d + 1 + upset
      BY <2>2, <3>1, <3>2
    <3> QED
      BY <3>3 DEF a, d
  <2> QED
    BY <2>2, <2>5 DEF Claim
<1>3. ASSUME NEW w \in BusRouters, routes[w].at = "wrote"
      PROVE  roundRobinIndex < Len(routes[w].outputs)
  <2>1. w \in TakingTurns /\ w \in Routing
    BY <1>3 DEF TakingTurns, Routing
  <2>2. strategy = "roundRobin" /\ routes[w].outputs = active
    BY <2>1 DEF RoutesInv
  <2> QED
    BY <1>3, <2>2 DEF RoutesInv, TurnsInv
<1>4. period = "calm" => upset = 0
  BY DEF RoutesInv, CalmInv
<1>5. strategy = "broadcast" => \A i, j \in 1 .. Len(active) : routed[active[i]] = routed[active[j]]
  BY DEF RoutesInv
<1> QED
  BY <1>2, <1>3, <1>4, <1>5 DEF RoutesAreEven

-----------------------------------------------------------------------------
(***************************************************************************)
(* The projection.  A step of Services is a step of one service, and       *)
(* leaves the variables of the others as they are.                         *)
(***************************************************************************)
LEMMA OthersRest ==
  ASSUME [ServicesNext]_servicesVars
  PROVE  /\ UNCHANGED on
         /\ [LLMNext]_llmVars /\ [CaptchaNext]_captchaVars
         /\ [SearchNext]_searchVars /\ [RunnerNext]_runnerVars /\ [StageNext]_stageVars
         /\ [RegistryNext]_registryVars
         /\ [RoutingNext]_routingVars /\ [BailianNext]_bailianVars /\ [QdrantNext]_qdrantVars
         /\ [RuntimeNext]_runtimeVars /\ [SessionNext]_sessionVars /\ [TokensNext]_tokenVars
         /\ [SignalsNext]_signalVars /\ [ConfigNext]_configVars
<1>1. CASE UNCHANGED servicesVars
  BY <1>1 DEF servicesVars
<1>2. CASE ServicesNext
  <2>1. UNCHANGED on /\ [LLMNext]_llmVars /\ [CaptchaNext]_captchaVars
    BY <1>2 DEF ServicesNext, Rest
  <2>2. [SearchNext]_searchVars /\ [RunnerNext]_runnerVars /\ [StageNext]_stageVars
    BY <1>2 DEF ServicesNext, Rest
  <2>3. [RoutingNext]_routingVars /\ [BailianNext]_bailianVars /\ [QdrantNext]_qdrantVars
    BY <1>2 DEF ServicesNext, Rest
  <2>4. [RuntimeNext]_runtimeVars /\ [SessionNext]_sessionVars /\ [TokensNext]_tokenVars
    BY <1>2 DEF ServicesNext, Rest
  <2>5. [SignalsNext]_signalVars /\ [ConfigNext]_configVars /\ [RegistryNext]_registryVars
    BY <1>2 DEF ServicesNext, Rest
  <2> QED
    BY <2>1, <2>2, <2>3, <2>4, <2>5
<1> QED
  BY <1>1, <1>2

\* A service at rest was made by a handler too: the one for OpenAI.
LEMMA EachStarts ==
  ASSUME ServicesInit
  PROVE  /\ LLMInit /\ CaptchaInit /\ SearchInit /\ RunnerInit /\ StageInit /\ RoutingInit
         /\ BailianInit /\ QdrantInit /\ RuntimeInit /\ SessionInit /\ TokensInit
         /\ SignalsInit /\ ConfigInit /\ RegistryInit
<1>1. CASE on = "llm"
  BY <1>1 DEF ServicesInit, LLMInit
<1>2. CASE on # "llm"
  <2>1. provider = "openai" /\ reachable = TRUE
    BY <1>2 DEF ServicesInit
  <2>2. "openai" \in Providers /\ Selected("openai", "") = "openai"
    BY DEF Providers, Selected, normalizeProvider
  <2>3. Usable(provider, "none", TRUE) /\ reachable = Reachable(provider, "none")
    BY <2>1 DEF Usable, Reachable
  <2>4. HandlerInit
    BY <2>1, <2>2, <2>3 DEF HandlerInit
  <2> QED
    BY <1>2, <2>4 DEF ServicesInit, LLMInit
<1> QED
  BY <1>1, <1>2 DEF ServicesInit

-----------------------------------------------------------------------------
\* So a behaviour of Services is, for each service, a behaviour of that service.
LEMMA EachBehaves ==
  ServicesSpec => /\ LLMSpec /\ CaptchaSpec /\ SearchSpec /\ RunnerSpec
                  /\ StageSpec /\ RoutingSpec /\ BailianSpec /\ QdrantSpec
                  /\ RuntimeSpec /\ SessionSpec /\ TokensSpec
                  /\ SignalsSpec /\ ConfigSpec /\ RegistrySpec
<1>1. ServicesSpec => LLMSpec
  BY EachStarts, OthersRest, PTL DEF ServicesSpec, LLMSpec
<1>2. ServicesSpec => CaptchaSpec
  BY EachStarts, OthersRest, PTL DEF ServicesSpec, CaptchaSpec
<1>3. ServicesSpec => SearchSpec
  BY EachStarts, OthersRest, PTL DEF ServicesSpec, SearchSpec
<1>4. ServicesSpec => RunnerSpec
  BY EachStarts, OthersRest, PTL DEF ServicesSpec, RunnerSpec
<1>5. ServicesSpec => StageSpec
  BY EachStarts, OthersRest, PTL DEF ServicesSpec, StageSpec
<1>6. ServicesSpec => RoutingSpec
  BY EachStarts, OthersRest, PTL DEF ServicesSpec, RoutingSpec
<1>7. ServicesSpec => BailianSpec
  BY EachStarts, OthersRest, PTL DEF ServicesSpec, BailianSpec
<1>8. ServicesSpec => QdrantSpec
  BY EachStarts, OthersRest, PTL DEF ServicesSpec, QdrantSpec
<1>9. ServicesSpec => RuntimeSpec
  BY EachStarts, OthersRest, PTL DEF ServicesSpec, RuntimeSpec
<1>10. ServicesSpec => SessionSpec
  BY EachStarts, OthersRest, PTL DEF ServicesSpec, SessionSpec
<1>11. ServicesSpec => TokensSpec
  BY EachStarts, OthersRest, PTL DEF ServicesSpec, TokensSpec
<1>12. ServicesSpec => SignalsSpec
  BY EachStarts, OthersRest, PTL DEF ServicesSpec, SignalsSpec
<1>13. ServicesSpec => ConfigSpec
  BY EachStarts, OthersRest, PTL DEF ServicesSpec, ConfigSpec
<1>14. ServicesSpec => RegistrySpec
  BY EachStarts, OthersRest, PTL DEF ServicesSpec, RegistrySpec
<1> QED
  BY <1>1, <1>2, <1>3, <1>4, <1>5, <1>6, <1>7, <1>8, <1>9, <1>10, <1>11, <1>12, <1>13, <1>14

(***************************************************************************)
(* InterruptsFindTheirQuery (Interrupt, setCurrentCancel and               *)
(* clearCurrentCancel of openai.go, the watchers of the other providers):  *)
(* among all services too, an interrupt ends at most one query, and it     *)
(* finds the newest OpenAI query while that runs.                          *)
(***************************************************************************)
THEOREM ServicesFindQueries == ServicesSpec => []InterruptsFindTheirQuery
BY EachBehaves, InterruptsAreRight, PTL

(***************************************************************************)
(* TrackersTell (tracking.go and the ways out of every query function): a  *)
(* query is reported ended at most once, after a report of its start,      *)
(* never while it runs, and as a success exactly when it answered.         *)
(***************************************************************************)
THEOREM ServicesReport == ServicesSpec => []TrackersTell
BY EachBehaves, ReportsAreTrue, PTL

(***************************************************************************)
(* AcceptedIsGone (VerifyWithFunc): an accepted captcha is under no id of  *)
(* the store any more.                                                     *)
(***************************************************************************)
THEOREM ServicesAcceptOnce == ServicesSpec => []AcceptedIsGone
BY EachBehaves, AcceptedLeavesForGood, PTL

(***************************************************************************)
(* WritesAsTold (withDeadline, IndexBatch, Close of the search engine):    *)
(* whoever was told of a success has had all documents written, and a      *)
(* batch has written whole chunks in their order, whatever it was told,    *)
(* for any callers, documents and chunk size.                              *)
(***************************************************************************)
THEOREM WritesAreTold == ServicesSpec => []WritesAsTold
<1>1. SearchInv => WritesAsTold
  BY SearchTells
<1> QED
  BY <1>1, EachBehaves, SearchInvariant, PTL

(***************************************************************************)
(* PoolTasksSafe (AsyncTaskRunner): whatever bus workers race to make,     *)
(* fill, stop and stop again the task pool, a request is handled at most   *)
(* once and never while it is handled, and after an End in order no worker *)
(* executes anything.                                                      *)
(***************************************************************************)
THEOREM PoolTasksAreSafe == ServicesSpec => []PoolTasksSafe
<1>1. RunnerInv => PoolTasksSafe
  BY RunnerSafe DEF PoolTasksSafe
<1> QED
  BY <1>1, EachBehaves, RunnerInvariant, PTL

(***************************************************************************)
(* PacketsGoRight (PipelineStage, MediaRouting): a pipeline of any length  *)
(* puts out packets in the order of their emission, processors are called  *)
(* by priority, and round robin, whatever number of bus workers read,      *)
(* write and use its one index at once, visits any number of outputs       *)
(* evenly: exactly so while no two routes overlap, and otherwise up to one *)
(* packet for each update lost and two for each index of another worker    *)
(* that was used.                                                          *)
(***************************************************************************)
THEOREM PacketsAreRight == ServicesSpec => []PacketsGoRight
<1>1. StageInv => StagesKeepOrder
  BY StageHolds
<1>2. RegistryInv => HigherFirst
  BY RegistryHolds
<1>3. RoutesInv => RoutesAreEven
  BY RoutingHolds
<1>4. StagesKeepOrder /\ HigherFirst /\ RoutesAreEven => PacketsGoRight
  BY DEF PacketsGoRight
<1> QED
  BY <1>1, <1>2, <1>3, <1>4, EachBehaves, StageInvariant, RegistryInvariant, RoutingInvariant, PTL

(***************************************************************************)
(* KnowledgeRight (BailianIndex, QdrantStore): a listing that saw every    *)
(* page while nothing was deleted misses no document that was there        *)
(* throughout, a point holds the record that its id names, and a walk by   *)
(* offsets misses none, for any page and batch sizes.                      *)
(***************************************************************************)
THEOREM KnowledgeIsRight == ServicesSpec => []KnowledgeRight
<1>1. BailianInv => ReadersMissNothing
  BY ReadersHold
<1>2. QdrantInv => PointsAreRight /\ WalkMissesNothing
  BY PointsHold
<1>3. ReadersMissNothing /\ PointsAreRight /\ WalkMissesNothing => KnowledgeRight
  BY DEF KnowledgeRight
<1> QED
  BY <1>1, <1>2, <1>3, EachBehaves, BailianInvariant, QdrantInvariant, PTL

(***************************************************************************)
(* RecordsAreTrue (AgentRuntime, SessionMemory, Tokens): an agent run is   *)
(* recorded as it ended unless the database failed, the rows of a session  *)
(* tell of every message that did not come while a summary was made, and   *)
(* every token that is accepted goes back to a login.                      *)
(***************************************************************************)
THEOREM RecordsTell == ServicesSpec => []RecordsAreTrue
<1>1. RuntimeInv => RunIsTold
  BY DEF RuntimeInv
<1>2. SessionInv => SessionRemembers
  BY SessionHolds
<1>3. TokensInv => TokensLive
  BY TokensHold
<1>4. RunIsTold /\ SessionRemembers /\ TokensLive => RecordsAreTrue
  BY DEF RecordsAreTrue
<1> QED
  BY <1>1, <1>2, <1>3, <1>4, EachBehaves, RuntimeInvariant, SessionInvariant, TokensInvariant, PTL

(***************************************************************************)
(* EmitCallsEach (Emit, processEvents of signals.go): for any number of    *)
(* handlers and however deep Emits nest, an Emit that no inner Emit        *)
(* disturbed calls the handlers that were connected when it began, each    *)
(* once and in order, although disconnecting moves the handlers inside the *)
(* array that it reads.                                                    *)
(***************************************************************************)
THEOREM EmitsCallEach == ServicesSpec => []EmitCallsEach
<1>1. SignalsInv => EmitCallsEach
  BY SignalsHold
<1> QED
  BY <1>1, EachBehaves, SignalsInvariant, PTL

-----------------------------------------------------------------------------
\* The types that an invariant implies but does not name.
LEMMA RegistryTyped == RegistryInv => RegistryTypeOK
<1> SUFFICES ASSUME RegistryInv PROVE RegistryTypeOK
  OBVIOUS
<1>1. \A i \in 1 .. Len(processors) : processors[i].name \in ProcessorNames
  <2> SUFFICES ASSUME NEW i \in 1 .. Len(processors) PROVE processors[i].name \in ProcessorNames
    OBVIOUS
  <2>1. processors[i] \in Processors
    BY ElementOfSeq DEF RegistryInv
  <2> QED
    BY <2>1 DEF Processors
<1> QED
  BY <1>1 DEF RegistryInv, RegistryTypeOK

LEMMA RoutingTyped == RoutesInv => RoutingTypeOK
BY DEF RoutesInv, RoutesTyped, RouteStates, RoutingTypeOK

LEMMA QdrantTyped == QdrantInv => QdrantTypeOK
<1> SUFFICES ASSUME QdrantInv PROVE QdrantTypeOK
  OBVIOUS
<1>1. ASSUME NEW p \in DOMAIN points
      PROVE  p \in RandomIds \union {NamedPoint(n, up) : n \in Names, up \in BOOLEAN}
  <2>1. PICK id \in WrittenIds : p \in qdrantPointIDFromString(id)
    BY DEF QdrantInv, IsPoint
  <2> QED
    BY <2>1, PointIds
<1> QED
  BY <1>1 DEF QdrantInv, QdrantTypeOK

LEMMA StageIsTyped == StageInv => StageTypeOK
BY DEF StageInv, StageTyped, StageTypeOK, StagePackets

LEMMA OtherTypes ==
  /\ LLMInv => LLMTypeOK
  /\ CaptchaInv => CaptchaTypeOK
  /\ SearchInv => SearchTypeOK
  /\ RunnerInv => RunnerTypeOK
  /\ BailianInv => BailianTypeOK
  /\ RuntimeInv => RuntimeTypeOK
  /\ SessionInv => SessionTypeOK
  /\ TokensInv => TokensTypeOK
<1>1. (LLMInv => LLMTypeOK) /\ (CaptchaInv => CaptchaTypeOK) /\ (SearchInv => SearchTypeOK)
  BY DEF LLMInv, CaptchaInv, SearchInv
<1>2. (RunnerInv => RunnerTypeOK) /\ (RuntimeInv => RuntimeTypeOK)
  BY DEF RunnerInv, RunnerControl, RunnerTyped, RuntimeInv, RunTyped
<1>3. BailianInv => BailianTypeOK
  BY DEF BailianInv, BailianTyped, BailianTypeOK
<1>4. (SessionInv => SessionTypeOK) /\ (TokensInv => TokensTypeOK)
  BY DEF SessionInv, SessionParts, TokensInv
<1> QED
  BY <1>1, <1>2, <1>3, <1>4

(***************************************************************************)
(* ServicesTypeOK: each service keeps to its types, among them the bounds  *)
(* on the task queue of AsyncTaskRunner, on the queues of the pipeline     *)
(* stages and on the round robin index of the router.                      *)
(***************************************************************************)
THEOREM ServicesTypes == ServicesSpec => []ServicesTypeOK
<1>1. LLMTypeOK /\ CaptchaTypeOK /\ SignalsTypeOK /\ ConfigTypeOK /\ SearchTypeOK
      /\ RunnerTypeOK /\ StageTypeOK /\ RegistryTypeOK /\ RoutingTypeOK /\ BailianTypeOK /\ QdrantTypeOK
      /\ RuntimeTypeOK /\ SessionTypeOK /\ TokensTypeOK => ServicesTypeOK
  BY DEF ServicesTypeOK
<1>2. SignalsInv => SignalsTypeOK
  BY SignalsHold
<1>3. ServicesSpec => [](LLMTypeOK /\ CaptchaTypeOK /\ SearchTypeOK /\ RunnerTypeOK)
  BY OtherTypes, EachBehaves, LLMInvariant, CaptchaInvariant, SearchInvariant, RunnerInvariant, PTL
<1>4. ServicesSpec => [](BailianTypeOK /\ RuntimeTypeOK /\ SessionTypeOK /\ TokensTypeOK)
  BY OtherTypes, EachBehaves, BailianInvariant, RuntimeInvariant, SessionInvariant, TokensInvariant, PTL
<1>5. ServicesSpec => [](SignalsTypeOK /\ ConfigTypeOK /\ StageTypeOK /\ RegistryTypeOK
                        /\ RoutingTypeOK /\ QdrantTypeOK)
  BY <1>2, ConfigTyped, StageIsTyped, RegistryTyped, RoutingTyped, QdrantTyped, EachBehaves,
     SignalsInvariant, RegistryInvariant, ConfigInvariant, StageInvariant, RoutingInvariant, QdrantInvariant, PTL
<1> QED
  BY <1>1, <1>3, <1>4, <1>5, PTL

-----------------------------------------------------------------------------
\* Every question has its theorem.
LEMMA Sequences == ASSUME NEW s, IsSeq(s) PROVE s \in Seq(ToSet(s))
BY DEF IsSeq

LEMMA ProseIs ==
  ASSUME NEW s, NEW t, NEW U, IsProse(s, U), IsProse(t, U)
  PROVE  /\ s \in Seq(ToSet(s) \union ToSet(t)) /\ t \in Seq(ToSet(s) \union ToSet(t))
         /\ \A x \in U : x \notin ToSet(s) \union ToSet(t)
<1>1. s \in Seq(ToSet(s)) /\ t \in Seq(ToSet(t)) /\ ToSet(s) \intersect U = {} /\ ToSet(t) \intersect U = {}
  BY DEF IsProse, IsSeq
<1> DEFINE X == ToSet(s)  Y == ToSet(t)
<1>2. X \subseteq X \union Y /\ Y \subseteq X \union Y
  OBVIOUS
<1> HIDE DEF X, Y
<1>3. s \in Seq(X \union Y) /\ t \in Seq(X \union Y)
  <2>1. s \in Seq(X) /\ t \in Seq(Y)
    BY <1>1 DEF X, Y
  <2> QED
    BY <1>2, <2>1, SeqWider
<1> QED
  BY <1>1, <1>3 DEF X, Y

LEMMA QuestionsAgree == input = NoInput \/ IsQuestion(input) => AlgorithmsAgree
<1> DEFINE i == input
<1>0. CASE i = NoInput
  <2>1. i.algo = "none"
    BY <1>0 DEF NoInput
  <2> QED
    BY <2>1, Zenon DEF AlgorithmsAgree
<1>1. CASE i.algo = "expand" /\ IsSeq(i.answer) /\ i.wish \in Int
  <2>1. ExpansionKeepsFirst(i.answer, i.wish)
    BY <1>1, Sequences, ExpansionsKeepFirst
  <2> QED
    BY <1>1, <2>1, Zenon DEF AlgorithmsAgree
<1>2. CASE i.algo = "rewrite" /\ i.answer \in Text
  <2>1. RewriteIsOneLine(i.answer)
    BY <1>2, RewritesAreLines
  <2> QED
    BY <1>2, <2>1, Zenon DEF AlgorithmsAgree
<1>3. CASE i.algo = "balanced" /\ IsSeq(i.answer)
  <2>1. BalancedIsValue(i.answer, "{")
    <3>1. i.answer \in Seq(ToSet(i.answer)) /\ "{" \in {"{", "["}
      BY <1>3, Zenon DEF IsSeq
    <3> QED
      BY <3>1, ValuesAreBalanced, Zenon
  <2> QED
    BY <1>3, <2>1, Zenon DEF AlgorithmsAgree
<1>4. CASE /\ i.algo = "object" /\ i.names \in Seq(ObjectNames) /\ i.fence \in Kinds /\ i.limit \in Int
           /\ IsProse(i.before, {"fence", "json"}) /\ IsProse(i.after, {"fence", "json"}) /\ NoObject(i.before)
  <2> DEFINE P == ToSet(i.before) \union ToSet(i.after)
  <2>1. i.before \in Seq(P) /\ i.after \in Seq(P) /\ "fence" \notin P /\ "json" \notin P
    <3> DEFINE U == {"fence", "json"}  s == i.before  t == i.after
    <3>1. IsProse(s, U) /\ IsProse(t, U)
      BY <1>4, Zenon
    <3>2. "fence" \in U /\ "json" \in U
      OBVIOUS
    <3> HIDE DEF U, s, t
    <3>3. /\ s \in Seq(ToSet(s) \union ToSet(t)) /\ t \in Seq(ToSet(s) \union ToSet(t))
          /\ \A x \in U : x \notin ToSet(s) \union ToSet(t)
      BY <3>1, ProseIs
    <3> QED
      BY <3>2, <3>3 DEF s, t
  <2> HIDE DEF P
  <2>2. ObjectsAreFound(i.names, i.before, i.fence, i.after, i.limit)
    BY <1>4, <2>1, ObjectsFound
  <2> QED
    BY <1>4, <2>2, Zenon DEF AlgorithmsAgree
<1>5. CASE /\ i.algo = "chunks" /\ i.items \in ItemLists /\ i.open \in {"{", "["} /\ i.fence \in Kinds
           /\ IsProse(i.before, {"fence", "json", "quote"}) /\ IsProse(i.after, {"fence", "json", "quote"})
  <2> DEFINE P == ToSet(i.before) \union ToSet(i.after)
  <2>0. IsProse(i.before, {"fence", "json", "quote"}) /\ IsProse(i.after, {"fence", "json", "quote"})
    BY <1>5, Zenon
  <2>1. i.before \in Seq(P) /\ i.after \in Seq(P) /\ "fence" \notin P /\ "json" \notin P /\ "quote" \notin P
    <3> DEFINE U == {"fence", "json", "quote"}  s == i.before  t == i.after
    <3>1. IsProse(s, U) /\ IsProse(t, U)
      BY <2>0
    <3>2. "fence" \in U /\ "json" \in U /\ "quote" \in U
      OBVIOUS
    <3> HIDE DEF U, s, t
    <3>3. /\ s \in Seq(ToSet(s) \union ToSet(t)) /\ t \in Seq(ToSet(s) \union ToSet(t))
          /\ \A x \in U : x \notin ToSet(s) \union ToSet(t)
      BY <3>1, ProseIs
    <3> QED
      BY <3>2, <3>3 DEF s, t
  <2> HIDE DEF P
  <2>2. i.fence \in {"none", "plain", "tagged", "open"} /\ i.items \in ItemLists /\ i.open \in {"{", "["}
    BY <1>5, Zenon DEF Kinds
  <2>3. ChunksAreRead(i.items, i.open, i.before, i.fence, i.after)
    BY <2>1, <2>2, ChunksRead, Zenon
  <2> QED
    BY <1>5, <2>3, Zenon DEF AlgorithmsAgree
<1>6. CASE i.algo = "messages" /\ IsSeq(i.messages)
  <2>1. NothingIsLost(i.text, i.messages, i.base)
    BY <1>6, Sequences, MessagesReachProviders
  <2> QED
    BY <1>6, <2>1, Zenon DEF AlgorithmsAgree
<1>7. CASE i.algo = "filter"
  <2>1. \A doc \in i.docs : FilterMeansSpec(i.spec, doc)
    BY FilterIsMeant
  <2> QED
    BY <1>7, <2>1, Zenon DEF AlgorithmsAgree
<1>8. CASE /\ i.algo = "query" /\ IsRequest(i.request, STRING, STRING) /\ i.fields \in Seq(STRING)
           /\ \A doc \in i.docs : doc.number \in Int
  <2>1. \A doc \in i.docs : QueryMeansRequest(i.request, i.fields, doc)
    BY <1>8, QueriesFindRequested
  <2> QED
    BY <1>8, <2>1, Zenon DEF AlgorithmsAgree
<1>9. CASE /\ i.algo = "clicks" /\ i.stored \in Seq(Points) /\ i.answers \in Seq(Points)
           /\ i.tolerance \in Nat
  <2>1. ClicksAreMatched(i.stored, i.answers, i.tolerance)
    BY <1>9, ClicksPair
  <2> QED
    BY <1>9, <2>1, Zenon DEF AlgorithmsAgree
<1> QED
  BY <1>0, <1>1, <1>2, <1>3, <1>4, <1>5, <1>6, <1>7, <1>8, <1>9, Zenon DEF IsQuestion

(***************************************************************************)
(* AlgorithmsAgree (the functions without state, of Algorithms): whatever  *)
(* question is asked, of any length, the answer the code's steps give is   *)
(* what it should mean.  A question is never changed; each kind of it has  *)
(* its theorem in AlgorithmProofs.                                         *)
(***************************************************************************)
THEOREM AlgorithmsMeanIt == ServicesSpec => []AlgorithmsAgree
<1> DEFINE Posed == input = NoInput \/ IsQuestion(input)
<1>1. ServicesInit => Posed
  BY QuestionsAssumption DEF ServicesInit, AlgorithmsInit
<1>2. Posed /\ [ServicesNext]_servicesVars => Posed'
  <2>1. [ServicesNext]_servicesVars => UNCHANGED input
    BY DEF ServicesNext, Rest, servicesVars
  <2>2. ASSUME UNCHANGED input PROVE Posed => Posed'
    BY <2>2
  <2> QED
    BY <2>1, <2>2
<1>3. Posed => AlgorithmsAgree
  BY QuestionsAgree
<1> HIDE DEF Posed
<1> QED
  BY <1>1, <1>2, <1>3, PTL DEF ServicesSpec
=============================================================================
