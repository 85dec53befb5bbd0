------------------------------ MODULE LLMQuery ------------------------------
(***************************************************************************)
(* Queries of one LLM handler, overlapping and one after the other, and    *)
(* the calls of Interrupt that are meant for them.  What a query learns of *)
(* an interrupt goes through state that all queries of the handler share:  *)
(* the slot with the newest cancel function (OpenAI) or a channel that     *)
(* holds one token (all others).                                           *)
(***************************************************************************)
EXTENDS LLMProviders, FiniteSets

CONSTANTS Queries, MaxInterrupts, Wishes, NoQuery

ASSUME QueryAssumption ==
  /\ IsFiniteSet(Queries) /\ NoQuery \notin Queries
  /\ MaxInterrupts \in Nat
  /\ Wishes \subseteq SUBSET {"rewrite", "expand"}

VARIABLES
  provider,     \* the kind of the handler
  reachable,    \* its endpoint can be reached
  token,        \* interruptCh holds a token
  slot,         \* the query whose cancel is in currentCancel
  aimed,        \* cancel functions an Interrupt has read and not called yet
  interrupts,   \* history: calls of Interrupt so far
  at,           \* the stage each query is in
  call,         \* history: which function was called
  wishes,       \* EnableQueryRewrite, EnableQueryExpansion
  noted,        \* the steps the response will name, and what they did
  watcher,      \* the goroutine that waits for a token
  cancelled,    \* queries whose context an interrupt has cancelled
  tracker,      \* per query: trackers opened, ended with complete, with error
  left,         \* the way out the query took
  newest,       \* history: the query that registered last
  heardBy       \* history: Interrupt calls there had been when it registered

llmVars == <<provider, reachable, token, slot, aimed, interrupts, at, call, wishes, noted,
             watcher, cancelled, tracker, left, newest, heardBy>>

Stages == {"idle", "start", "rewrite", "expand", "ready", "send", "receive", "clear", "returned"}
Running(q) == at[q] \notin {"idle", "clear", "returned"}
Row(q) == QueryFunction(provider, call[q])

\* The handler that was made from the environment.
HandlerInit ==
  \E name \in Providers \union {"", "other"}, option \in {"", "ollama"},
     baseURL \in {"none", "url", "id"}, env \in BOOLEAN :
    /\ provider = Selected(name, option)
    /\ Usable(provider, baseURL, env)
    /\ reachable = Reachable(provider, baseURL)

QueriesInit ==
  /\ token = FALSE /\ slot = NoQuery /\ aimed = {} /\ interrupts = 0
  /\ at = [q \in Queries |-> "idle"]
  /\ call = [q \in Queries |-> "none"]
  /\ wishes = [q \in Queries |-> {}]
  /\ noted = [q \in Queries |-> <<>>]
  /\ watcher = [q \in Queries |-> "none"]
  /\ cancelled = {}
  /\ tracker = [q \in Queries |-> [opened |-> 0, complete |-> 0, error |-> 0]]
  /\ left = [q \in Queries |-> "none"]
  /\ newest = NoQuery
  /\ heardBy = [q \in Queries |-> 0]

LLMInit == HandlerInit /\ QueriesInit

-----------------------------------------------------------------------------
(***************************************************************************)
(* Trackers announce what they do as signals; a tracker is a local         *)
(* variable of the query, and opening a second one forgets the first.      *)
(***************************************************************************)
NewLLMRequestTracker(q, n) ==
  tracker' = [tracker EXCEPT ![q].opened = @ + n]

Complete(q) == tracker' = [tracker EXCEPT ![q].complete = @ + 1]
Error(q)    == tracker' = [tracker EXCEPT ![q].error = @ + 1]

EndTracker(q, effect) ==
  \/ effect = "complete" /\ Complete(q)
  \/ effect = "error" /\ Error(q)
  \/ effect = "silent" /\ UNCHANGED tracker

-----------------------------------------------------------------------------
BeginQuery(q, c) ==
  /\ at[q] = "idle"
  /\ call' = [call EXCEPT ![q] = c]
  /\ wishes' \in {[wishes EXCEPT ![q] = w] : w \in Wishes}
  /\ NewLLMRequestTracker(q, QueryFunction(provider, c).opens.begin)
  /\ watcher' = [watcher EXCEPT ![q] = IF Hears[provider] = "watcher" THEN "waiting" ELSE "none"]
  /\ at' = [at EXCEPT ![q] = IF Hears[provider] = "once" THEN "start" ELSE "rewrite"]
  /\ UNCHANGED <<provider, reachable, token, slot, aimed, interrupts, noted, cancelled,
                 left, newest, heardBy>>

\* Alibaba looks for a token once, before anything else.
StartUninterrupted(q) ==
  /\ at[q] = "start" /\ ~token
  /\ at' = [at EXCEPT ![q] = "rewrite"]
  /\ UNCHANGED <<provider, reachable, token, slot, aimed, interrupts, call, wishes, noted,
                 watcher, cancelled, tracker, left, newest, heardBy>>

After(stage) == IF stage = "rewrite" THEN "expand" ELSE "ready"

Replies(q, stage) ==
  LET p == PreparationOf(provider, stage) IN
  IF ~reachable \/ (p.context = "query" /\ q \in cancelled)
  THEN {"missing"} ELSE DOMAIN p.outcomes

Prepare(q, stage) ==
  /\ at[q] = stage
  /\ \/ /\ stage \notin wishes[q]
        /\ UNCHANGED noted
     \/ /\ stage \in wishes[q]
        /\ \E reply \in Replies(q, stage) :
             LET outcome == PreparationOf(provider, stage).outcomes[reply] IN
             noted' = IF outcome = "ignored" THEN noted
                      ELSE [noted EXCEPT ![q] = (stage :> outcome) @@ @]
  /\ at' = [at EXCEPT ![q] = After(stage)]
  /\ UNCHANGED <<provider, reachable, token, slot, aimed, interrupts, call, wishes,
                 watcher, cancelled, tracker, left, newest, heardBy>>

\* Fault for InterruptsFindTheirQuery: only an empty slot is filled.
SetIfEmpty(q) == slot' = IF slot = NoQuery THEN q ELSE slot

setCurrentCancel(q) == slot' = q

\* With the prompt ready, OpenAI registers its cancel function.
Ready(q) ==
  /\ at[q] = "ready"
  /\ NewLLMRequestTracker(q, Row(q).opens.ready)
  /\ IF Hears[provider] = "slot"
     THEN /\ setCurrentCancel(q)
          /\ newest' = q /\ heardBy' = [heardBy EXCEPT ![q] = interrupts]
     ELSE UNCHANGED <<slot, newest, heardBy>>
  /\ at' = [at EXCEPT ![q] = "send"]
  /\ UNCHANGED <<provider, reachable, token, aimed, interrupts, call, wishes, noted,
                 watcher, cancelled, left>>

\* A request on a context that is cancelled, or to nowhere, is not sent.
Send(q) ==
  /\ at[q] = "send" /\ reachable /\ q \notin cancelled
  /\ at' = [at EXCEPT ![q] = "receive"]
  /\ UNCHANGED <<provider, reachable, token, slot, aimed, interrupts, call, wishes, noted,
                 watcher, cancelled, tracker, left, newest, heardBy>>

\* The ways out of the stage the query is in.  A cancelled request may still
\* bring its answer, which can have arrived before.
WaysOut(q) == {way \in DOMAIN Row(q).ways :
  \/ at[q] = "send" /\ way \in {"refused", "status"}
  \/ at[q] = "receive" /\ way \in AfterSending /\ (way = "canceled" => q \in cancelled)}

Leave(q, way) ==
  /\ EndTracker(q, Row(q).ways[way])
  /\ left' = [left EXCEPT ![q] = way]
  /\ at' = [at EXCEPT ![q] = IF Hears[provider] = "slot" THEN "clear" ELSE "returned"]
  /\ UNCHANGED <<provider, reachable, slot, aimed, interrupts, call, wishes, noted, watcher,
                 newest, heardBy>>

WayOut(q) ==
  /\ \E way \in WaysOut(q) : Leave(q, way)
  /\ UNCHANGED <<token, cancelled>>

\* Coze polls before every Recv, Alibaba once at the start.
TakeToken(q) ==
  /\ token
  /\ \/ Hears[provider] = "poll" /\ at[q] = "receive"
     \/ at[q] = "start"
  /\ token' = FALSE
  /\ cancelled' = cancelled \union {q}
  /\ Leave(q, "interrupted")

\* Fault for InterruptsFindTheirQuery: a query clears whatever the slot holds.
ClearAnyway(q) == slot' = NoQuery

clearCurrentCancel(q) == slot' = IF slot = q THEN NoQuery ELSE slot

\* OpenAI's deferred function.
ClearSlot(q) ==
  /\ at[q] = "clear"
  /\ clearCurrentCancel(q)
  /\ at' = [at EXCEPT ![q] = "returned"]
  /\ UNCHANGED <<provider, reachable, token, aimed, interrupts, call, wishes, noted, watcher,
                 cancelled, tracker, left, newest, heardBy>>

-----------------------------------------------------------------------------
(***************************************************************************)
(* The watcher's select: with a token and an ended query, either is taken. *)
(***************************************************************************)
\* Fault for InterruptsFindTheirQuery: the token is looked at and left.
WatcherSees(q) ==
  /\ watcher[q] = "waiting" /\ token
  /\ watcher' = [watcher EXCEPT ![q] = "gone"]
  /\ cancelled' = cancelled \union {q}
  /\ UNCHANGED <<provider, reachable, token, slot, aimed, interrupts, at, call, wishes,
                 noted, tracker, left, newest, heardBy>>

WatcherTakes(q) ==
  /\ watcher[q] = "waiting" /\ token
  /\ token' = FALSE
  /\ watcher' = [watcher EXCEPT ![q] = "gone"]
  /\ cancelled' = IF Running(q) THEN cancelled \union {q} ELSE cancelled
  /\ UNCHANGED <<provider, reachable, slot, aimed, interrupts, at, call, wishes, noted,
                 tracker, left, newest, heardBy>>

WatcherLeaves(q) ==
  /\ watcher[q] = "waiting" /\ ~Running(q)
  /\ watcher' = [watcher EXCEPT ![q] = "gone"]
  /\ UNCHANGED <<provider, reachable, token, slot, aimed, interrupts, at, call, wishes,
                 noted, cancelled, tracker, left, newest, heardBy>>

-----------------------------------------------------------------------------
(***************************************************************************)
(* Interrupt.  OpenAI's reads the slot under its lock and calls what it    *)
(* found after the lock is released; the others put a token in the channel *)
(* unless there is one.                                                    *)
(***************************************************************************)
Interrupt ==
  /\ interrupts < MaxInterrupts
  /\ interrupts' = interrupts + 1
  /\ \/ /\ Hears[provider] = "slot"
        /\ aimed' = IF slot = NoQuery THEN aimed ELSE aimed \union {slot}
        /\ UNCHANGED token
     \/ /\ Hears[provider] # "slot"
        /\ token' = TRUE
        /\ UNCHANGED aimed
  /\ UNCHANGED <<provider, reachable, slot, at, call, wishes, noted, watcher, cancelled,
                 tracker, left, newest, heardBy>>

CallCancel(q) ==
  /\ q \in aimed
  /\ aimed' = aimed \ {q}
  /\ cancelled' = IF Running(q) THEN cancelled \union {q} ELSE cancelled
  /\ UNCHANGED <<provider, reachable, token, slot, interrupts, at, call, wishes, noted,
                 watcher, tracker, left, newest, heardBy>>

QueryStep(q) ==
  \/ StartUninterrupted(q) \/ Prepare(q, "rewrite") \/ Prepare(q, "expand")
  \/ Ready(q) \/ Send(q) \/ WayOut(q) \/ TakeToken(q) \/ ClearSlot(q)

WatcherStep(q) == WatcherTakes(q) \/ WatcherLeaves(q)

LLMNext ==
  \/ Interrupt
  \/ \E q \in Queries :
       \/ \E c \in {"answer", "stream"} : BeginQuery(q, c)
       \/ QueryStep(q) \/ WatcherStep(q) \/ CallCancel(q)

LLMSpec == LLMInit /\ [][LLMNext]_llmVars

(***************************************************************************)
(* Watchers are goroutines, and requests end: every client has a timeout   *)
(* or its caller's deadline.                                               *)
(***************************************************************************)
LLMFairness == \A q \in Queries : WF_llmVars(QueryStep(q)) /\ WF_llmVars(WatcherStep(q))

LLMFairSpec == LLMSpec /\ LLMFairness

-----------------------------------------------------------------------------
LLMTypeOK ==
  /\ provider \in Providers /\ reachable \in BOOLEAN
  /\ token \in BOOLEAN
  /\ slot \in Queries \union {NoQuery} /\ newest \in Queries \union {NoQuery}
  /\ aimed \subseteq Queries /\ cancelled \subseteq Queries
  /\ interrupts \in Nat
  /\ at \in [Queries -> Stages]
  /\ call \in [Queries -> {"none", "answer", "stream"}]
  /\ watcher \in [Queries -> {"none", "waiting", "gone"}]
  /\ tracker \in [Queries -> [opened : Nat, complete : Nat, error : Nat]]
  /\ heardBy \in [Queries -> Nat]

(***************************************************************************)
(* InterruptEndsOne (Interrupt of every provider): however queries overlap,*)
(* the interrupts called so far are at least as many as the queries they   *)
(* have ended, are about to end and, as a token, are still going to end.   *)
(***************************************************************************)
Tokens == IF token THEN 1 ELSE 0

InterruptEndsOne == Cardinality(cancelled \union aimed) + Tokens <= interrupts

(***************************************************************************)
(* SlotHoldsNewest (openai.go 259-284): while the query that registered    *)
(* last is running, an Interrupt finds it in the slot, also when an older  *)
(* query clears the slot on its way out; a slot never holds a query that   *)
(* has gone; and what an Interrupt cancels had registered before the call. *)
(***************************************************************************)
Registered(q) == at[q] \in {"send", "receive", "clear"}

SlotHoldsNewest ==
  /\ newest # NoQuery /\ Registered(newest) => slot = newest
  /\ slot # NoQuery => Registered(slot)
  /\ provider = "openai" => \A q \in cancelled \union aimed : heardBy[q] < interrupts

(***************************************************************************)
(* InterruptsFindTheirQuery (Interrupt, setCurrentCancel and               *)
(* clearCurrentCancel of openai.go, the watchers of the others): an        *)
(* interrupt ends at most one query, and while the newest OpenAI query     *)
(* runs it is the one that an interrupt finds.                             *)
(***************************************************************************)
InterruptsFindTheirQuery == InterruptEndsOne /\ SlotHoldsNewest

(***************************************************************************)
(* TrackersTell (tracking.go and the ways out of every query function): a  *)
(* running query is never reported as ended, no query is reported ended    *)
(* twice or without a report of its start, and an answer of                *)
(* QueryWithOptions is always reported as a success and nothing else is.   *)
(***************************************************************************)
TrackersTell == \A q \in Queries :
  LET ends == tracker[q].complete + tracker[q].error IN
  /\ ends <= 1 /\ ends <= tracker[q].opened
  /\ (Running(q) => ends = 0)
  /\ left[q] = "done" /\ call[q] = "answer" => tracker[q].complete = 1
  /\ tracker[q].complete = 1 => left[q] \in {"done", "callback"}

(***************************************************************************)
(* InterruptIsFelt (the watchers of Ollama, LM Studio and Anthropic): a    *)
(* token that meets a watcher is taken before the last watcher leaves, or  *)
(* outlives them all; no token and watcher wait for each other for ever.   *)
(***************************************************************************)
TokenMeetsWatcher == token /\ \E q \in Queries : watcher[q] = "waiting"
TokenOrWatchersGo == ~token \/ \A q \in Queries : watcher[q] # "waiting"

InterruptIsFelt == TokenMeetsWatcher ~> TokenOrWatchersGo
=============================================================================
