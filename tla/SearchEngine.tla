---------------------------- MODULE SearchEngine ----------------------------
(***************************************************************************)
(* The search engine of src/search/engine.go around its index.  A caller   *)
(* passes the guard, then a goroutine works on the index while the caller  *)
(* waits for it or for the deadline; Close may come between any two steps. *)
(* A batch has no deadline and is written chunk by chunk.                  *)
(***************************************************************************)
EXTENDS Naturals, Sequences, FiniteSets, SequencesExt

CONSTANTS SearchCallers, Docs, BatchSize

ASSUME SearchAssumption == BatchSize \in Nat \ {0} /\ IsFiniteSet(Docs)

VARIABLES
  closed,     \* bleveEngine.closed
  indexed,    \* documents in the index, in the state of the last write
  indexOpen,  \* the index is open
  searcher,   \* where each caller is
  work,       \* the function that runs for the caller on the index, its request,
              \* and how far a batch is
  told        \* what the caller was told: "none", "ok", "error", "timeout"

searchVars == <<closed, indexed, indexOpen, searcher, work, told>>

NoWork == [op |-> "none"]

\* The requests: writes of one document, batches, and reads.
SearchRequests ==
  [op : {"index", "delete", "get"}, docs : {<<d>> : d \in Docs}]
    \union [op : {"batch"}, docs : SetToSeqs(Docs)]
    \union [op : {"search"}, docs : {<<>>}]

SearchInit ==
  /\ closed = FALSE /\ indexOpen = TRUE
  /\ indexed = {}
  /\ searcher = [c \in SearchCallers |-> "idle"]
  /\ work = [c \in SearchCallers |-> NoWork]
  /\ told = [c \in SearchCallers |-> "none"]

-----------------------------------------------------------------------------
Tell(c, answer) ==
  /\ told' = [told EXCEPT ![c] = answer]
  /\ searcher' = [searcher EXCEPT ![c] = "told"]

\* guard lets go of its lock before the operation runs.
guard(c) ==
  /\ searcher[c] = "idle"
  /\ IF closed THEN Tell(c, "error")
     ELSE searcher' = [searcher EXCEPT ![c] = "passed"] /\ UNCHANGED told
  /\ UNCHANGED <<closed, indexed, indexOpen, work>>

BeginSearch(c, request) ==
  /\ searcher[c] = "passed"
  /\ work' = [work EXCEPT ![c] = [op |-> request.op, docs |-> request.docs, at |-> 0,
                                  done |-> {}, result |-> "running"]]
  /\ searcher' = [searcher EXCEPT ![c] = "waits"]
  /\ UNCHANGED <<closed, indexed, indexOpen, told>>

-----------------------------------------------------------------------------
(***************************************************************************)
(* The work.  The index refuses every operation once it is closed, and may *)
(* fail on its own.                                                        *)
(***************************************************************************)
WorkRuns(c) == work[c] # NoWork /\ work[c].result = "running"

Ends(c, result) == work' = [work EXCEPT ![c].result = result]

\* A request is done at once, but for a batch, which is written chunk by chunk.
ChunkEnd(c) == Min({work[c].at + BatchSize, Len(work[c].docs)})
NextDocs(c) ==
  IF work[c].op # "batch" THEN ToSet(work[c].docs)
  ELSE ToSet(SubSeq(work[c].docs, work[c].at + 1, ChunkEnd(c)))

ApplyToIndex(op, docs) ==
  IF op = "delete" THEN indexed \ docs
  ELSE IF op \in {"index", "batch"} THEN indexed \union docs ELSE indexed

Work(c) ==
  /\ WorkRuns(c) /\ indexOpen
  /\ LET docs == NextDocs(c) IN
     /\ ~(work[c].op = "get" /\ docs \intersect indexed = {})
     /\ indexed' = ApplyToIndex(work[c].op, docs)
     /\ work' = [work EXCEPT ![c].done = @ \union docs,
                             ![c].at = ChunkEnd(c),
                             ![c].result = IF work[c].op = "batch" /\ ChunkEnd(c) < Len(work[c].docs)
                                           THEN "running" ELSE "ok"]
  /\ UNCHANGED <<closed, indexOpen, searcher, told>>

WorkFails(c) ==
  /\ WorkRuns(c)
  /\ Ends(c, "error")
  /\ UNCHANGED <<closed, indexed, indexOpen, searcher, told>>

WorkStep(c) == Work(c) \/ WorkFails(c)

-----------------------------------------------------------------------------
\* withDeadline: the caller takes what comes first.  A batch has no deadline.
Answered(c) ==
  /\ searcher[c] = "waits" /\ ~WorkRuns(c)
  /\ Tell(c, work[c].result)
  /\ UNCHANGED <<closed, indexed, indexOpen, work>>

\* Fault for WritesAsTold: the deadline is taken for the end of the work.
DeadlineIsSuccess(c) ==
  /\ searcher[c] = "waits" /\ work[c].op # "batch"
  /\ Tell(c, "ok")
  /\ UNCHANGED <<closed, indexed, indexOpen, work>>

Deadline(c) ==
  /\ searcher[c] = "waits" /\ work[c].op # "batch"
  /\ Tell(c, "timeout")
  /\ UNCHANGED <<closed, indexed, indexOpen, work>>

\* The next call of a caller; work it no longer waits for goes on.
Again(c) ==
  /\ searcher[c] = "told" /\ ~WorkRuns(c)
  /\ searcher' = [searcher EXCEPT ![c] = "idle"]
  /\ work' = [work EXCEPT ![c] = NoWork]
  /\ told' = [told EXCEPT ![c] = "none"]
  /\ UNCHANGED <<closed, indexed, indexOpen>>

CloseEngine ==
  /\ ~closed
  /\ closed' = TRUE /\ indexOpen' = FALSE
  /\ UNCHANGED <<indexed, searcher, work, told>>

SearchNext ==
  \/ CloseEngine
  \/ \E c \in SearchCallers :
       \/ guard(c) \/ WorkStep(c) \/ Answered(c) \/ Deadline(c) \/ Again(c)
       \/ \E request \in SearchRequests : BeginSearch(c, request)

SearchSpec == SearchInit /\ [][SearchNext]_searchVars

-----------------------------------------------------------------------------
SearchTypeOK ==
  /\ closed \in BOOLEAN /\ indexOpen \in BOOLEAN
  /\ indexed \subseteq Docs
  /\ searcher \in [SearchCallers -> {"idle", "passed", "waits", "told"}]
  /\ told \in [SearchCallers -> {"none", "ok", "error", "timeout"}]

(***************************************************************************)
(* WritesAsTold (withDeadline, IndexBatch): a caller who was told of       *)
(* success has had its whole request done; one who was told of a timeout   *)
(* may see it done later, while the index is open; and the documents that  *)
(* a batch has written are whole chunks in order, whatever it was told.    *)
(***************************************************************************)
WritesAsTold ==
  /\ \A c \in SearchCallers : work[c] # NoWork =>
       /\ told[c] = "ok" => ToSet(work[c].docs) \subseteq work[c].done
       /\ told[c] = "error" /\ work[c].op # "batch" => work[c].done = {}
       /\ work[c].op = "batch" =>
            \E n \in 0 .. Len(work[c].docs) :
              /\ work[c].done = ToSet(SubSeq(work[c].docs, 1, n))
              /\ n % BatchSize = 0 \/ n = Len(work[c].docs)
  /\ closed => ~indexOpen
=============================================================================
