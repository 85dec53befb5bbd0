------------------------------ MODULE TaskPool ------------------------------
(***************************************************************************)
(* The worker pool of src/task/task.go: a bounded channel of tasks, worker *)
(* goroutines that drain it, a WaitGroup and an atomic counter of running  *)
(* handlers.  The program counter of a worker names the statement it is    *)
(* about to execute, so that the steps of workers, of callers of AddTask   *)
(* and CancelTask and of the caller of Wait interleave as the goroutines   *)
(* of the code do.  Sends and closes of a task's Result and Err channels   *)
(* are one step: only the worker that holds the task touches them and the  *)
(* buffers of size one never block it.                                     *)
(***************************************************************************)
EXTENDS Integers, Sequences, SequencesExt, FiniteSets

CONSTANTS Tasks,      \* tasks that may ever be added
          Workers,    \* worker goroutines (WorkerCount of them)
          QueueSize,  \* capacity of taskChan
          NoTask      \* what an idle worker holds

ASSUME PoolAssumption ==
  /\ IsFiniteSet(Tasks) /\ IsFiniteSet(Workers) /\ Workers # {}
  /\ QueueSize \in Nat \ {0}
  /\ NoTask \notin Tasks

VARIABLES
  taskChan,    \* contents of the buffered channel
  sending,     \* tasks whose sender has done wg.Add and is blocked at the send
  wg,          \* the WaitGroup counter
  running,     \* the atomic counter of running handlers
  pc,          \* the next statement of each worker
  held,        \* the task each worker holds
  outcome,     \* what the task's handler returned
  status,      \* Task.Status, "none" before the task exists
  ctxDone,     \* the task's context has been cancelled (or has expired)
  closed,      \* Result and Err of the task have been filled and closed
  canceling,   \* tasks whose CancelTask has cancelled but not yet stored
  waiter,      \* the caller of Wait: "none", "waiting" or "returned"
  crashed      \* a goroutine panicked: the process is gone

poolVars == <<taskChan, sending, wg, running, pc, held, outcome, status,
              ctxDone, closed, canceling, waiter, crashed>>

Statuses == {"none", "pending", "success", "failed", "canceled"}
\* A handler returns a value, an error, or an error that is context.Canceled.
Outcomes == {"success", "failed", "canceled"}
Statements == {"receive", "check", "skip", "skipSend", "skipDone", "handle",
               "uncount", "done", "store", "send", "exited"}

PoolInit ==
  /\ taskChan = <<>> /\ sending = {}
  /\ wg = 0 /\ running = 0
  /\ pc = [w \in Workers |-> "receive"]
  /\ held = [w \in Workers |-> NoTask]
  /\ outcome = [t \in Tasks |-> "none"]
  /\ status = [t \in Tasks |-> "none"]
  /\ ctxDone = [t \in Tasks |-> FALSE]
  /\ closed = [t \in Tasks |-> FALSE]
  /\ canceling = {} /\ waiter = "none" /\ crashed = FALSE

-----------------------------------------------------------------------------
(***************************************************************************)
(* Handing a task to the channel: the counter goes up first, then the      *)
(* sender blocks until there is room.  A send on the channel that Wait has *)
(* closed panics.                                                          *)
(***************************************************************************)
BeginSend(t) ==
  /\ wg' = wg + 1
  /\ sending' = sending \union {t}

\* Fault for TypeOK: the channel takes more than its capacity.
SendTaskUnbounded(t) ==
  /\ t \in sending /\ waiter = "none"
  /\ taskChan' = Append(taskChan, t)
  /\ sending' = sending \ {t}
  /\ UNCHANGED <<wg, running, pc, held, outcome, status, ctxDone, closed,
                 canceling, waiter, crashed>>

SendTask(t) ==
  /\ t \in sending
  /\ waiter = "none"
  /\ Len(taskChan) < QueueSize
  /\ taskChan' = Append(taskChan, t)
  /\ sending' = sending \ {t}
  /\ UNCHANGED <<wg, running, pc, held, outcome, status, ctxDone, closed,
                 canceling, waiter, crashed>>

SendOnClosed(t) ==
  /\ t \in sending
  /\ waiter # "none"
  /\ crashed' = TRUE
  /\ UNCHANGED <<taskChan, sending, wg, running, pc, held, outcome, status,
                 ctxDone, closed, canceling, waiter>>

\* The context the caller passed in is cancelled, or its deadline passes.
ContextEnds(t) ==
  /\ status[t] # "none" /\ ~ctxDone[t]
  /\ ctxDone' = [ctxDone EXCEPT ![t] = TRUE]
  /\ UNCHANGED <<taskChan, sending, wg, running, pc, held, outcome, status,
                 closed, canceling, waiter, crashed>>

-----------------------------------------------------------------------------
(***************************************************************************)
(* The worker loop, statement by statement.                                *)
(***************************************************************************)
At(w, from, to) == pc[w] = from /\ pc' = [pc EXCEPT ![w] = to]

Receive(w) ==
  /\ taskChan # <<>>
  /\ At(w, "receive", "check")
  /\ held' = [held EXCEPT ![w] = Head(taskChan)]
  /\ taskChan' = Tail(taskChan)
  /\ UNCHANGED <<sending, wg, running, outcome, status, ctxDone, closed,
                 canceling, waiter, crashed>>

\* range over a closed and drained channel ends the goroutine.
ExitLoop(w) ==
  /\ taskChan = <<>> /\ waiter # "none"
  /\ At(w, "receive", "exited")
  /\ UNCHANGED <<taskChan, sending, wg, running, held, outcome, status,
                 ctxDone, closed, canceling, waiter, crashed>>

\* Fault for ImplementsLifecycle: a task is skipped whatever its context says.
SkipAlways(w) ==
  /\ At(w, "check", "skip")
  /\ UNCHANGED <<taskChan, sending, wg, running, held, outcome, status,
                 ctxDone, closed, canceling, waiter, crashed>>

FindCanceled(w) ==
  /\ At(w, "check", "skip")
  /\ ctxDone[held[w]]
  /\ UNCHANGED <<taskChan, sending, wg, running, held, outcome, status,
                 ctxDone, closed, canceling, waiter, crashed>>

StartHandler(w) ==
  /\ At(w, "check", "handle")
  /\ ~ctxDone[held[w]]
  /\ running' = running + 1
  /\ UNCHANGED <<taskChan, sending, wg, held, outcome, status, ctxDone,
                 closed, canceling, waiter, crashed>>

HandlerReturns(w, o) ==
  /\ At(w, "handle", "uncount")
  /\ outcome' = [outcome EXCEPT ![held[w]] = o]
  /\ UNCHANGED <<taskChan, sending, wg, running, held, status, ctxDone,
                 closed, canceling, waiter, crashed>>

\* Fault for CountersExact: the counter is not taken back.
UncountForgotten(w) ==
  /\ At(w, "uncount", "done")
  /\ UNCHANGED <<taskChan, sending, wg, running, held, outcome, status,
                 ctxDone, closed, canceling, waiter, crashed>>

Uncount(w) ==
  /\ At(w, "uncount", "done")
  /\ running' = running - 1
  /\ UNCHANGED <<taskChan, sending, wg, held, outcome, status, ctxDone,
                 closed, canceling, waiter, crashed>>

\* wg.Done panics when the counter would become negative.
WgDone(w, from, to) ==
  /\ At(w, from, to)
  /\ wg' = wg - 1
  /\ crashed' = (wg = 0)
  /\ UNCHANGED <<taskChan, sending, running, outcome, status, ctxDone,
                 closed, canceling, waiter>>

Done(w) == WgDone(w, "done", "store") /\ UNCHANGED held

Store(w, from, to, s) ==
  /\ At(w, from, to)
  /\ status' = [status EXCEPT ![held[w]] = s]
  /\ UNCHANGED <<taskChan, sending, wg, running, held, outcome, ctxDone,
                 closed, canceling, waiter, crashed>>

\* Fault for AnswerMatchesStatus: the handler's error is not looked at.
StoreSuccess(w) == Store(w, "store", "send", "success")
StoreOutcome(w) == Store(w, "store", "send", outcome[held[w]])
StoreSkip(w) == Store(w, "skip", "skipSend", "canceled")

\* Fill and close the task's channels; a second close would panic.
Close(t) ==
  /\ crashed' = closed[t]
  /\ closed' = [closed EXCEPT ![t] = TRUE]
  /\ UNCHANGED <<taskChan, sending, wg, running, outcome, status, ctxDone,
                 canceling, waiter>>

\* Fault for CrashOnlyByLateAdd: the two exits of the loop are not kept apart.
SendTwice(w) ==
  /\ At(w, "send", "skipSend")
  /\ Close(held[w])
  /\ UNCHANGED held

SendOutcome(w) ==
  /\ At(w, "send", "receive")
  /\ Close(held[w])
  /\ held' = [held EXCEPT ![w] = NoTask]

\* Fault for PoolEnds: a skipped task gets no answer.
SkipSilently(w) ==
  /\ At(w, "skipSend", "skipDone")
  /\ UNCHANGED <<taskChan, sending, wg, running, held, outcome, status,
                 ctxDone, closed, canceling, waiter, crashed>>

SendSkip(w) ==
  /\ At(w, "skipSend", "skipDone")
  /\ Close(held[w])
  /\ UNCHANGED held

\* Fault for OnePlace: the skip does not continue with the next task.
DoneSkipFallsThrough(w) == WgDone(w, "skipDone", "handle") /\ UNCHANGED held

DoneSkip(w) ==
  /\ WgDone(w, "skipDone", "receive")
  /\ held' = [held EXCEPT ![w] = NoTask]

Worker(w) ==
  \/ Receive(w) \/ ExitLoop(w)
  \/ FindCanceled(w) \/ StoreSkip(w) \/ SendSkip(w) \/ DoneSkip(w)
  \/ StartHandler(w) \/ \E o \in Outcomes : HandlerReturns(w, o)
  \/ Uncount(w) \/ Done(w) \/ StoreOutcome(w) \/ SendOutcome(w)

-----------------------------------------------------------------------------
(***************************************************************************)
(* The exported operations of a pool that is used on its own.              *)
(***************************************************************************)
AddTask(t) ==
  /\ status[t] = "none"
  /\ status' = [status EXCEPT ![t] = "pending"]
  /\ BeginSend(t)
  /\ UNCHANGED <<taskChan, running, pc, held, outcome, ctxDone, closed,
                 canceling, waiter, crashed>>

\* AddTask returns the task, so only an added one can be cancelled.
CancelTask(t) ==
  /\ status[t] # "none" /\ t \notin sending \union canceling
  /\ ctxDone' = [ctxDone EXCEPT ![t] = TRUE]
  /\ canceling' = canceling \union {t}
  /\ UNCHANGED <<taskChan, sending, wg, running, pc, held, outcome, status,
                 closed, waiter, crashed>>

CancelStore(t) ==
  /\ t \in canceling
  /\ status' = [status EXCEPT ![t] = "canceled"]
  /\ canceling' = canceling \ {t}
  /\ UNCHANGED <<taskChan, sending, wg, running, pc, held, outcome, ctxDone,
                 closed, waiter, crashed>>

\* Wait closes the channel and then blocks on the WaitGroup.
WaitClose ==
  /\ waiter = "none"
  /\ waiter' = "waiting"
  /\ UNCHANGED <<taskChan, sending, wg, running, pc, held, outcome, status,
                 ctxDone, closed, canceling, crashed>>

\* Fault for WaitCoversHandlers: Wait only waits for the channel to drain.
WaitReturnDrained ==
  /\ waiter = "waiting" /\ taskChan = <<>>
  /\ waiter' = "returned"
  /\ UNCHANGED <<taskChan, sending, wg, running, pc, held, outcome, status,
                 ctxDone, closed, canceling, crashed>>

WaitReturn ==
  /\ waiter = "waiting" /\ wg = 0
  /\ waiter' = "returned"
  /\ UNCHANGED <<taskChan, sending, wg, running, pc, held, outcome, status,
                 ctxDone, closed, canceling, crashed>>

\* The process is over: every goroutine of the pool has ended, or one panicked.
Stopped ==
  \/ crashed
  \/ waiter = "returned" /\ \A t \in Tasks : status[t] # "none" /\ t \notin canceling
     /\ \A w \in Workers : pc[w] = "exited"

PoolNext ==
  \/ /\ ~crashed
     /\ \/ \E w \in Workers : Worker(w)
        \/ \E t \in Tasks : \/ AddTask(t) \/ SendTask(t) \/ SendOnClosed(t)
                            \/ ContextEnds(t) \/ CancelTask(t) \/ CancelStore(t)
        \/ WaitClose \/ WaitReturn
  \/ Stopped /\ UNCHANGED poolVars

(***************************************************************************)
(* Go runs every goroutine that can run: the workers (handlers are assumed *)
(* to return), a blocked sender, the rest of CancelTask and of Wait.       *)
(* Nobody has to add a task, to cancel one or to call Wait.                *)
(***************************************************************************)
PoolStep(A) == ~crashed /\ A

WorkerFairness ==
  /\ \A w \in Workers : WF_poolVars(PoolStep(Worker(w)))
  /\ \A t \in Tasks : WF_poolVars(PoolStep(SendTask(t)))

PoolFairness ==
  /\ WorkerFairness
  /\ \A t \in Tasks : WF_poolVars(PoolStep(SendOnClosed(t) \/ CancelStore(t)))
  /\ WF_poolVars(PoolStep(WaitReturn))

PoolSpec == PoolInit /\ [][PoolNext]_poolVars
FairPoolSpec == PoolSpec /\ PoolFairness

-----------------------------------------------------------------------------
TypeOK ==
  /\ taskChan \in Seq(Tasks) /\ Len(taskChan) <= QueueSize
  /\ sending \subseteq Tasks
  /\ wg \in Int /\ running \in Int
  /\ pc \in [Workers -> Statements]
  /\ held \in [Workers -> Tasks \union {NoTask}]
  /\ outcome \in [Tasks -> Outcomes \union {"none"}]
  /\ status \in [Tasks -> Statuses]
  /\ ctxDone \in [Tasks -> BOOLEAN]
  /\ closed \in [Tasks -> BOOLEAN]
  /\ canceling \subseteq Tasks
  /\ waiter \in {"none", "waiting", "returned"}
  /\ crashed \in BOOLEAN

InChan == {taskChan[i] : i \in 1 .. Len(taskChan)}
\* Statements at which a worker's task still counts in the WaitGroup.
BeforeDone == {"check", "skip", "skipSend", "skipDone", "handle", "uncount", "done"}
AtStatement(S) == {w \in Workers : pc[w] \in S}
Outstanding == sending \union InChan \union {held[w] : w \in AtStatement(BeforeDone)}

(***************************************************************************)
(* RunningCount (the running counter, task.go 61, 106, 110): what          *)
(* Running() reports, and what the scheduler's dispatcher steers by, is    *)
(* the number of workers in a handler.                                     *)
(***************************************************************************)
RunningCount == running = Cardinality(AtStatement({"handle", "uncount"}))

(***************************************************************************)
(* WgCount (task.go 59, 103, 111, 143): the WaitGroup counts exactly the   *)
(* tasks that were added and are not done, so Wait can neither return      *)
(* early nor hang and Done can never drive the counter negative.           *)
(***************************************************************************)
WgCount == wg = Cardinality(Outstanding)

(***************************************************************************)
(* CountersExact: both counters agree with what the workers are doing, at  *)
(* every step of every goroutine: the one the dispatcher steers by and the *)
(* one Wait blocks on.                                                     *)
(***************************************************************************)
CountersExact == RunningCount /\ WgCount

(***************************************************************************)
(* OnePlace: a task that was added is with one sender, in one slot of the  *)
(* channel or with one worker, never in two of them; it is not answered    *)
(* while it is on its way, and once answered it is nowhere any more (a     *)
(* worker that skipped it still has to do wg.Done).                        *)
(***************************************************************************)
OnItsWay == sending \union InChan

OnePlace ==
  /\ sending \intersect InChan = {}
  /\ \A i, j \in 1 .. Len(taskChan) : taskChan[i] = taskChan[j] => i = j
  /\ \A w \in Workers : held[w] \notin OnItsWay
  /\ \A v, w \in Workers : held[v] = held[w] /\ held[w] # NoTask => v = w
  /\ \A w \in Workers : held[w] = NoTask <=> pc[w] \in {"receive", "exited"}
  /\ \A t \in OnItsWay : status[t] # "none" /\ outcome[t] = "none" /\ ~closed[t]
  /\ \A w \in Workers : held[w] # NoTask =>
        /\ status[held[w]] # "none"
        /\ outcome[held[w]] = "none" <=> pc[w] \in {"check", "handle", "skip", "skipSend", "skipDone"}
        /\ closed[held[w]] <=> pc[w] = "skipDone"
  /\ \A t \in Tasks : status[t] = "none" => outcome[t] = "none" /\ ~closed[t]

(***************************************************************************)
(* AnswerMatchesStatus (task.go 97-124): a task whose channels were closed *)
(* has a final status; unless somebody cancelled it, its handler ran and   *)
(* the status is what the handler returned.                                *)
(***************************************************************************)
AnswerMatchesStatus ==
  \A t \in Tasks : closed[t] =>
    /\ status[t] \in {outcome[t], "canceled"}
    /\ ~ctxDone[t] => outcome[t] # "none" /\ status[t] = outcome[t]

(***************************************************************************)
(* WaitCoversHandlers (Wait, task.go 164-167): when Wait has returned, no  *)
(* handler of any task that reached the channel is running or will run.    *)
(***************************************************************************)
WaitCoversHandlers ==
  waiter = "returned" => InChan = {} /\ AtStatement(BeforeDone) = {}

(***************************************************************************)
(* CrashOnlyByLateAdd: the pool never panics by itself (negative WaitGroup *)
(* counter, double close); the only panic is an AddTask that Wait overtook.*)
(***************************************************************************)
CrashOnlyByLateAdd == crashed => waiter # "none" /\ sending # {}

(***************************************************************************)
(* AddedIsAnswered: every added task is answered on its channels, unless   *)
(* the process dies.                                                       *)
(***************************************************************************)
AddedIsAnswered == \A t \in Tasks : status[t] # "none" ~> closed[t] \/ crashed

(***************************************************************************)
(* WaitTerminates: a call of Wait returns, unless the process dies.        *)
(***************************************************************************)
WaitTerminates == waiter = "waiting" ~> waiter = "returned" \/ crashed

(***************************************************************************)
(* PoolEnds: nobody waits for ever, neither the callers that read a task's *)
(* channels nor the one in Wait.                                           *)
(***************************************************************************)
PoolEnds == AddedIsAnswered /\ WaitTerminates

(***************************************************************************)
(* What task_test.go:155 says of Wait ("waits for all tasks to complete"): *)
(* after it every task that was added before has its result.  The code     *)
(* calls wg.Done before it stores and sends the result.                    *)
(***************************************************************************)
WaitCoversAnswers ==
  waiter = "returned" /\ ~crashed =>
    \A t \in Tasks : status[t] # "none" /\ t \notin sending => closed[t]

-----------------------------------------------------------------------------
(***************************************************************************)
(* The life of each task, as the abstract specification sees it.           *)
(***************************************************************************)
HeldAt(t, S) == \E w \in Workers : held[w] = t /\ pc[w] \in S

Phase(t) ==
  IF status[t] = "none" THEN "new"
  ELSE IF closed[t] THEN "answered"
  ELSE IF HeldAt(t, {"handle"}) THEN "running"
  ELSE IF outcome[t] # "none" THEN "returned" ELSE "waiting"

Lifecycle == INSTANCE TaskLifecycle WITH
  Limit <- Cardinality(Workers),
  phase <- [t \in Tasks |-> Phase(t)],
  canceled <- ctxDone

\* The pool implements the life of a task: a handler starts at most once and
\* a task is answered at most once, after its handler or instead of it.
ImplementsLifecycle == Lifecycle!Spec
=============================================================================
