----------------------------- MODULE ChatMemory -----------------------------
(***************************************************************************)
(* The conversation memory of OpenaiHandler (src/llm/openai.go): a bounded *)
(* list of messages, a running summary, and a summariser that works on a   *)
(* snapshot while queries, resets and limit changes go on.  Everything the *)
(* code does under one hold of its mutex is one step; API calls happen     *)
(* between steps.  QueryStream and QueryWithOptions treat the memory alike *)
(* and are one pair of actions; queries with external messages bypass it.  *)
(*                                                                         *)
(* A message is the turn it belongs to and its role; a summary is the set  *)
(* of messages whose content went into it, {} being the empty string.      *)
(***************************************************************************)
EXTENDS Integers, Sequences, SequencesExt, FiniteSets

CONSTANTS Turns,            \* queries that may be asked, each once
          DefaultLimit,     \* defaultMaxMemoryMessages
          Limits,           \* arguments given to SetMaxMemoryMessages
          TranscriptLimit,  \* so many messages always fit in maxSummarizeInputChars
          MaxManual         \* bound: SummarizeMemory is called while seq is below

ASSUME MemoryAssumption ==
  /\ DefaultLimit \in Nat \ {0} /\ TranscriptLimit \in Nat
  /\ Limits \subseteq Int /\ MaxManual \in Nat

VARIABLES
  messages,     \* the remembered messages, oldest first
  summary,      \* what the summary covers
  limit,        \* maxMemoryMessages
  summarizing,  \* the flag that admits one summariser
  seq,          \* summarizeSeq
  jobs,         \* summarisations between their snapshot and their result
  query,        \* progress of each query
  seenLimit,    \* the limit each query read before it called the API
  log           \* history: all messages ever remembered, in order

vars == <<messages, summary, limit, summarizing, seq, jobs, query, seenLimit, log>>

Message == [turn : Turns, role : {"user", "assistant"}]
Job == [seq : Nat, snapshot : Seq(Message), previous : SUBSET Message]

Init ==
  /\ messages = <<>> /\ summary = {} /\ limit = DefaultLimit
  /\ summarizing = FALSE /\ seq = 0 /\ jobs = {}
  /\ query = [q \in Turns |-> "new"]
  /\ seenLimit = [q \in Turns |-> 0]
  /\ log = <<>>

\* Fault for MemoryIsRecent: the trim keeps the wrong end.
OldestOnly(s, n) == SubSeq(s, 1, IF Len(s) > n THEN n ELSE Len(s))
\* Fault for NothingTwice: one message too many survives.
WithoutOldestButOne(s, n) == SubSeq(s, n, Len(s))

\* The newest n messages of s, and s without its oldest n.
Newest(s, n) == SubSeq(s, IF Len(s) > n THEN Len(s) - n + 1 ELSE 1, Len(s))
WithoutOldest(s, n) == SubSeq(s, n + 1, Len(s))

\* buildTranscriptForSummary takes messages from the oldest until it has enough
\* characters, then keeps the end of what it took: an unbroken part of s, all of
\* it when s is short.
Transcripts(s) ==
  IF Len(s) <= TranscriptLimit THEN {ToSet(s)}
  ELSE UNION {{ToSet(SubSeq(s, i, j)) : j \in i .. Len(s)} : i \in 1 .. Len(s)}

\* Fault for SummaryKept: the new summary starts from nothing.
StartJobAfresh(snapshot) ==
  /\ summarizing' = TRUE
  /\ seq' = seq + 1
  /\ jobs' = jobs \union {[seq |-> seq + 1, snapshot |-> snapshot, previous |-> {}]}

StartJob(snapshot) ==
  /\ summarizing' = TRUE
  /\ seq' = seq + 1
  /\ jobs' = jobs \union {[seq |-> seq + 1, snapshot |-> snapshot, previous |-> summary]}

-----------------------------------------------------------------------------
\* Read summary, history and limit under the mutex, then call the API.
AskQuery(q) ==
  /\ query[q] = "new"
  /\ query' = [query EXCEPT ![q] = "asking"]
  /\ seenLimit' = [seenLimit EXCEPT ![q] = limit]
  /\ UNCHANGED <<messages, summary, limit, summarizing, seq, jobs, log>>

\* API error, interruption, or an error from the stream callback.
FailQuery(q) ==
  /\ query[q] = "asking"
  /\ query' = [query EXCEPT ![q] = "failed"]
  /\ UNCHANGED <<messages, summary, limit, summarizing, seq, jobs, seenLimit, log>>

Turn(q) == <<[turn |-> q, role |-> "user"], [turn |-> q, role |-> "assistant"]>>

\* Remember the turn, trim to the limit read before the call, and start a
\* summary when the memory is full and none is being made.
AnswerQuery(q) ==
  LET kept == Newest(messages \o Turn(q), seenLimit[q])
  IN /\ query[q] = "asking"
     /\ query' = [query EXCEPT ![q] = "answered"]
     /\ messages' = kept
     /\ log' = log \o Turn(q)
     /\ IF Len(kept) >= seenLimit[q] /\ ~summarizing
        THEN StartJob(kept)
        ELSE UNCHANGED <<summarizing, seq, jobs>>
     /\ UNCHANGED <<summary, limit, seenLimit>>

\* Fault for OneSummariser: the flag is not looked at.
SummarizeBesides ==
  /\ messages # <<>> /\ seq < MaxManual
  /\ StartJob(messages)
  /\ UNCHANGED <<messages, summary, limit, query, seenLimit, log>>

\* SummarizeMemory on an empty memory, or beside another one, does nothing.
SummarizeMemory ==
  /\ messages # <<>> /\ ~summarizing
  /\ seq < MaxManual
  /\ StartJob(messages)
  /\ UNCHANGED <<messages, summary, limit, query, seenLimit, log>>

SummaryArrives(j, transcript) ==
  /\ j \in jobs /\ j.seq = seq
  /\ summary' = j.previous \union transcript
  /\ messages' = WithoutOldest(messages, Len(j.snapshot))
  /\ jobs' = jobs \ {j}
  /\ summarizing' = FALSE
  /\ UNCHANGED <<limit, seq, query, seenLimit, log>>

\* The API failed, answered with nothing, or a newer request was made.
SummaryDiscarded(j) ==
  /\ j \in jobs
  /\ jobs' = jobs \ {j}
  /\ summarizing' = FALSE
  /\ UNCHANGED <<messages, summary, limit, seq, query, seenLimit, log>>

ResetMemory ==
  /\ messages' = <<>> /\ summary' = {}
  /\ UNCHANGED <<limit, summarizing, seq, jobs, query, seenLimit, log>>

\* Fault for TypeOK: a limit below one is taken as it is.
SetMaxUnchecked(n) ==
  /\ limit' = n
  /\ messages' = Newest(messages, limit')
  /\ UNCHANGED <<summary, summarizing, seq, jobs, query, seenLimit, log>>

SetMaxMemoryMessages(n) ==
  /\ limit' = IF n <= 0 THEN DefaultLimit ELSE n
  /\ messages' = Newest(messages, limit')
  /\ UNCHANGED <<summary, summarizing, seq, jobs, query, seenLimit, log>>

Next ==
  \/ \E q \in Turns : AskQuery(q) \/ FailQuery(q) \/ AnswerQuery(q)
  \/ SummarizeMemory
  \/ \E j \in jobs : \/ \E transcript \in Transcripts(j.snapshot) : SummaryArrives(j, transcript)
                     \/ SummaryDiscarded(j)
  \/ ResetMemory
  \/ \E n \in Limits : SetMaxMemoryMessages(n)

Spec == Init /\ [][Next]_vars

-----------------------------------------------------------------------------
TypeOK ==
  /\ messages \in Seq(Message) /\ log \in Seq(Message)
  /\ summary \subseteq Message
  /\ limit \in Nat \ {0}
  /\ summarizing \in BOOLEAN /\ seq \in Nat
  /\ jobs \subseteq Job
  /\ query \in [Turns -> {"new", "asking", "answered", "failed"}]
  /\ seenLimit \in [Turns -> Nat]

(***************************************************************************)
(* OneSummariser (openai.go 117-122, 202, 562-564): manual and automatic   *)
(* summaries together never overlap, the flag is up exactly while one is   *)
(* in flight, and so the sequence check of its result always passes.       *)
(***************************************************************************)
OneSummariser ==
  /\ summarizing <=> jobs # {}
  /\ \A j, k \in jobs : j = k
  /\ \A j \in jobs : j.seq = seq

(***************************************************************************)
(* MemoryIsRecent: whatever trims, compactions and resets happen, what is  *)
(* remembered verbatim is the unbroken end of the conversation: messages   *)
(* are lost from the old end only, never reordered and never duplicated.   *)
(***************************************************************************)
Recent(s, t) ==
  Len(s) <= Len(t) /\ \A i \in 1 .. Len(s) : s[i] = t[Len(t) - Len(s) + i]

MemoryIsRecent == Recent(messages, log)

(***************************************************************************)
(* NothingTwice: a message is never both in the summary and in the         *)
(* verbatim memory, so that a prompt does not repeat it.  It depends on    *)
(* the compaction count still covering the snapshot's messages after the   *)
(* trims that happened while the summary was being made.                   *)
(***************************************************************************)
NothingTwice == summary \intersect ToSet(messages) = {}

(***************************************************************************)
(* What makes NothingTwice inductive: only answered turns are remembered   *)
(* or summarised; what a summariser in flight will add to the old summary  *)
(* is disjoint from it; and of the messages that are still remembered, its *)
(* snapshot holds only some among the oldest Len(snapshot).                *)
(***************************************************************************)
Answered == {m \in Message : query[m.turn] = "answered"}

JobCovers(j, s) ==
  /\ j.previous \intersect ToSet(s) = {}
  /\ \A i \in 1 .. Len(s) : s[i] \in ToSet(j.snapshot) => i <= Len(j.snapshot)

CompactionCovers ==
  /\ summary \union ToSet(messages) \subseteq Answered
  /\ \A j \in jobs :
       j.previous \union ToSet(j.snapshot) \subseteq Answered /\ JobCovers(j, messages)

(***************************************************************************)
(* SummaryKept: only ResetMemory makes the summary forget; a summariser    *)
(* never overwrites what another one has added since its snapshot.         *)
(***************************************************************************)
SummaryKept == [][ResetMemory \/ summary \subseteq summary']_vars

(***************************************************************************)
(* What docs/llm_chain_summary.md:13 says of the compaction: it drops the  *)
(* turns that were summarised and keeps the newer ones.  The code drops by *)
(* count, and the oldest may have been trimmed since the snapshot.         *)
(***************************************************************************)
CompactionDropsSummarized ==
  [][ \A j \in jobs : (\E t \in Transcripts(j.snapshot) : SummaryArrives(j, t)) =>
        ToSet(messages) \ ToSet(messages') \subseteq summary' ]_vars
=============================================================================
