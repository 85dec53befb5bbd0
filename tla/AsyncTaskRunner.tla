-------------------------- MODULE AsyncTaskRunner --------------------------
(***************************************************************************)
(* The task runner of src/media/executor.go inside a media session.  The   *)
(* workers of the event bus call HandleMediaData, several at a time and    *)
(* without a lock: Begin makes the queue and the pool, packets go into the *)
(* queue, End stops the pool and closes the queue.  The session publishes  *)
(* Begin and End once each; its context may end at any time.               *)
(***************************************************************************)
EXTENDS Naturals, Sequences, FiniteSets, SequencesExt

CONSTANTS PoolWorkers, RunnerCallers, Requests, Interrupts, TaskQueueSize, NoRequest

ASSUME RunnerAssumption ==
  /\ IsFiniteSet(PoolWorkers) /\ IsFiniteSet(Requests)
  /\ Interrupts \subseteq Requests /\ NoRequest \notin Requests
  /\ TaskQueueSize \in Nat \ {0}

VARIABLES
  taskQueue,      \* the requests in the channel
  queueIs,        \* "nil", "open", or "dropped": closed and nil again
  workersActive,
  poolCanceled,   \* poolCtx is done
  poolWorker,     \* where each worker of the pool is
  working,        \* the request a worker executes
  caller,         \* what each worker of the bus is doing
  sending,        \* the request a bus worker wants to put into the queue
  unhandled,      \* requests the session has not published yet
  finished,       \* history: requests executed
  lost,           \* history: requests that found no queue, or a closed one
  sessionDone,    \* the session's context is done
  began, ended,   \* Begin and End have been published
  inOrder         \* history: Begin had been handled when End came

runnerVars == <<taskQueue, queueIs, workersActive, poolCanceled, poolWorker, working, caller,
                sending, unhandled, finished, lost, sessionDone, began, ended, inOrder>>

AtWork == {"loop", "select", "deaf", "run"}
Steps == {"free", "send", "make", "activate", "spawn", "stop", "wait", "stopAgain", "waitAgain", "close"}

RunnerInit ==
  /\ taskQueue = <<>> /\ queueIs = "nil"
  /\ workersActive = FALSE /\ poolCanceled = FALSE
  /\ poolWorker = [w \in PoolWorkers |-> "none"]
  /\ working = [w \in PoolWorkers |-> NoRequest]
  /\ caller = [b \in RunnerCallers |-> "free"]
  /\ sending = [b \in RunnerCallers |-> NoRequest]
  /\ unhandled = Requests /\ finished = {} /\ lost = {}
  /\ sessionDone = FALSE /\ began = FALSE /\ ended = FALSE /\ inOrder = FALSE

Goes(b, step) == caller' = [caller EXCEPT ![b] = step]

-----------------------------------------------------------------------------
(***************************************************************************)
(* Begin: startMultiWorkerPool.                                            *)
(***************************************************************************)
HandleBegin(b) ==
  /\ caller[b] = "free" /\ ~began
  /\ began' = TRUE
  /\ Goes(b, IF workersActive THEN "free" ELSE "make")
  /\ UNCHANGED <<taskQueue, queueIs, workersActive, poolCanceled, poolWorker, working, sending,
                 unhandled, finished, lost, sessionDone, ended, inOrder>>

MakeQueue(b) ==
  /\ caller[b] = "make"
  /\ taskQueue' = <<>> /\ queueIs' = "open"
  /\ Goes(b, "activate")
  /\ UNCHANGED <<workersActive, poolCanceled, poolWorker, working, sending, unhandled, finished,
                 lost, sessionDone, began, ended, inOrder>>

\* poolCtx is a child of the session's context.
Activate(b) ==
  /\ caller[b] = "activate"
  /\ poolCanceled' = sessionDone
  /\ workersActive' = TRUE
  /\ Goes(b, "spawn")
  /\ UNCHANGED <<taskQueue, queueIs, poolWorker, working, sending, unhandled, finished, lost,
                 sessionDone, began, ended, inOrder>>

Spawn(b) ==
  /\ caller[b] = "spawn"
  /\ poolWorker' = [w \in PoolWorkers |-> "loop"]
  /\ Goes(b, "free")
  /\ UNCHANGED <<taskQueue, queueIs, workersActive, poolCanceled, working, sending, unhandled,
                 finished, lost, sessionDone, began, ended, inOrder>>

-----------------------------------------------------------------------------
(***************************************************************************)
(* A packet: HandlePacket.  The request may be missing (an error, or the   *)
(* builder wants none), find no queue, or wait for room in it; a send on a *)
(* closed queue panics, and the bus recovers.                              *)
(***************************************************************************)
HandlePacket(b, r) ==
  /\ caller[b] = "free" /\ r \in unhandled
  /\ unhandled' = unhandled \ {r}
  /\ \/ lost' = lost \union {r} /\ UNCHANGED <<caller, sending>>
     \/ /\ queueIs = "open"
        /\ Goes(b, "send") /\ sending' = [sending EXCEPT ![b] = r]
        /\ UNCHANGED lost
  /\ UNCHANGED <<taskQueue, queueIs, workersActive, poolCanceled, poolWorker, working, finished,
                 sessionDone, began, ended, inOrder>>

\* Fault for ServicesTypeOK: a request is queued beyond the capacity, and kept
\* in the hand as well.
SendRequestAnyway(b) ==
  /\ caller[b] = "send" /\ queueIs = "open"
  /\ taskQueue' = Append(taskQueue, sending[b])
  /\ IF Len(taskQueue) < TaskQueueSize
     THEN Goes(b, "free") /\ sending' = [sending EXCEPT ![b] = NoRequest]
     ELSE UNCHANGED <<caller, sending>>
  /\ UNCHANGED <<queueIs, workersActive, poolCanceled, poolWorker, working, unhandled, finished,
                 lost, sessionDone, began, ended, inOrder>>

SendRequest(b) ==
  /\ caller[b] = "send" /\ queueIs = "open"
  /\ Len(taskQueue) < TaskQueueSize
  /\ taskQueue' = Append(taskQueue, sending[b])
  /\ Goes(b, "free") /\ sending' = [sending EXCEPT ![b] = NoRequest]
  /\ UNCHANGED <<queueIs, workersActive, poolCanceled, poolWorker, working, unhandled, finished,
                 lost, sessionDone, began, ended, inOrder>>

SendPanics(b) ==
  /\ caller[b] = "send" /\ queueIs = "dropped"
  /\ lost' = lost \union {sending[b]}
  /\ Goes(b, "free") /\ sending' = [sending EXCEPT ![b] = NoRequest]
  /\ UNCHANGED <<taskQueue, queueIs, workersActive, poolCanceled, poolWorker, working, unhandled,
                 finished, sessionDone, began, ended, inOrder>>

-----------------------------------------------------------------------------
(***************************************************************************)
(* End: CancelActiveTask and ReleaseResources, both of which stop the      *)
(* workers if they are active, and then the queue is closed.               *)
(***************************************************************************)
HandleEnd(b) ==
  /\ caller[b] = "free" /\ ~ended
  /\ ended' = TRUE
  /\ inOrder' = (began /\ \A c \in RunnerCallers : caller[c] \notin {"make", "activate", "spawn"})
  /\ Goes(b, "stop")
  /\ UNCHANGED <<taskQueue, queueIs, workersActive, poolCanceled, poolWorker, working, sending,
                 unhandled, finished, lost, sessionDone, began>>

StopWorkers(b) ==
  /\ caller[b] \in {"stop", "stopAgain"}
  /\ IF workersActive
     THEN poolCanceled' = TRUE /\ Goes(b, IF caller[b] = "stop" THEN "wait" ELSE "waitAgain")
     ELSE UNCHANGED poolCanceled /\ Goes(b, IF caller[b] = "stop" THEN "stopAgain" ELSE "close")
  /\ UNCHANGED <<taskQueue, queueIs, workersActive, poolWorker, working, sending, unhandled,
                 finished, lost, sessionDone, began, ended, inOrder>>

\* Fault for PoolTasksSafe: the WaitGroup is not waited for.
StopWithoutWait(b) ==
  /\ caller[b] \in {"wait", "waitAgain"}
  /\ workersActive' = FALSE
  /\ Goes(b, IF caller[b] = "wait" THEN "stopAgain" ELSE "close")
  /\ UNCHANGED <<taskQueue, queueIs, poolCanceled, poolWorker, working, sending, unhandled,
                 finished, lost, sessionDone, began, ended, inOrder>>

WorkersStopped(b) ==
  /\ caller[b] \in {"wait", "waitAgain"}
  /\ \A w \in PoolWorkers : poolWorker[w] \notin AtWork
  /\ workersActive' = FALSE
  /\ Goes(b, IF caller[b] = "wait" THEN "stopAgain" ELSE "close")
  /\ UNCHANGED <<taskQueue, queueIs, poolCanceled, poolWorker, working, sending, unhandled,
                 finished, lost, sessionDone, began, ended, inOrder>>


CloseTaskQueue(b) ==
  /\ caller[b] = "close"
  /\ queueIs' = IF queueIs = "open" THEN "dropped" ELSE queueIs
  /\ Goes(b, "free")
  /\ UNCHANGED <<taskQueue, workersActive, poolCanceled, poolWorker, working, sending, unhandled,
                 finished, lost, sessionDone, began, ended, inOrder>>

-----------------------------------------------------------------------------
(***************************************************************************)
(* workerLoop.  A worker reads the field taskQueue again in every turn; on *)
(* a nil channel it is deaf to everything but its context.                 *)
(***************************************************************************)
WorkerLoops(w) ==
  /\ poolWorker[w] = "loop"
  /\ poolWorker' = [poolWorker EXCEPT ![w] = IF queueIs = "open" THEN "select" ELSE "deaf"]
  /\ UNCHANGED <<taskQueue, queueIs, workersActive, poolCanceled, working, caller, sending,
                 unhandled, finished, lost, sessionDone, began, ended, inOrder>>

WorkerGone(w) == poolWorker' = [poolWorker EXCEPT ![w] = "gone"]

WorkerExits(w) ==
  /\ \/ poolWorker[w] \in {"select", "deaf"} /\ poolCanceled
     \/ poolWorker[w] = "select" /\ queueIs = "dropped" /\ taskQueue = <<>>
  /\ WorkerGone(w)
  /\ UNCHANGED <<taskQueue, queueIs, workersActive, poolCanceled, working, caller, sending,
                 unhandled, finished, lost, sessionDone, began, ended, inOrder>>

WorkerTakes(w) ==
  /\ poolWorker[w] = "select" /\ taskQueue # <<>>
  /\ taskQueue' = Tail(taskQueue)
  /\ IF Head(taskQueue) \in Interrupts
     THEN /\ poolCanceled' = TRUE /\ WorkerGone(w)
          /\ finished' = finished \union {Head(taskQueue)}
          /\ UNCHANGED working
     ELSE /\ poolWorker' = [poolWorker EXCEPT ![w] = "run"]
          /\ working' = [working EXCEPT ![w] = Head(taskQueue)]
          /\ UNCHANGED <<poolCanceled, finished>>
  /\ UNCHANGED <<queueIs, workersActive, caller, sending, unhandled, lost, sessionDone,
                 began, ended, inOrder>>

\* executeTask returns: the executor is given a timeout.
TaskReturns(w) ==
  /\ poolWorker[w] = "run"
  /\ finished' = finished \union {working[w]}
  /\ working' = [working EXCEPT ![w] = NoRequest]
  /\ poolWorker' = [poolWorker EXCEPT ![w] = "loop"]
  /\ UNCHANGED <<taskQueue, queueIs, workersActive, poolCanceled, caller, sending, unhandled,
                 lost, sessionDone, began, ended, inOrder>>

SessionContextEnds ==
  /\ ~sessionDone
  /\ sessionDone' = TRUE
  /\ poolCanceled' = (poolCanceled \/ workersActive)
  /\ UNCHANGED <<taskQueue, queueIs, workersActive, poolWorker, working, caller, sending,
                 unhandled, finished, lost, began, ended, inOrder>>

CallerStep(b) ==
  \/ MakeQueue(b) \/ Activate(b) \/ Spawn(b) \/ SendRequest(b) \/ SendPanics(b)
  \/ StopWorkers(b) \/ WorkersStopped(b) \/ CloseTaskQueue(b)

PoolStep(w) == WorkerLoops(w) \/ WorkerExits(w) \/ WorkerTakes(w) \/ TaskReturns(w)

RunnerNext ==
  \/ SessionContextEnds
  \/ \E w \in PoolWorkers : PoolStep(w)
  \/ \E b \in RunnerCallers : \/ HandleBegin(b) \/ HandleEnd(b) \/ CallerStep(b)
                              \/ \E r \in Requests : HandlePacket(b, r)

RunnerSpec == RunnerInit /\ [][RunnerNext]_runnerVars

\* Goroutines go on, and a task ends: it is given a context with a timeout.
RunnerFairness ==
  /\ \A w \in PoolWorkers : WF_runnerVars(PoolStep(w))
  /\ \A b \in RunnerCallers : WF_runnerVars(CallerStep(b))

-----------------------------------------------------------------------------
RunnerTypeOK ==
  /\ taskQueue \in Seq(Requests) /\ Len(taskQueue) <= TaskQueueSize
  /\ queueIs \in {"nil", "open", "dropped"}
  /\ workersActive \in BOOLEAN /\ poolCanceled \in BOOLEAN
  /\ poolWorker \in [PoolWorkers -> AtWork \union {"none", "gone"}]
  /\ working \in [PoolWorkers -> Requests \union {NoRequest}]
  /\ caller \in [RunnerCallers -> Steps]
  /\ sending \in [RunnerCallers -> Requests \union {NoRequest}]

(***************************************************************************)
(* TaskHandledOnce (HandlePacket, workerLoop): a request is published,     *)
(* offered, queued, executed, finished or lost, and never two of these;    *)
(* whatever stops the pool, none is executed twice.                        *)
(***************************************************************************)
Places(r) ==
  (IF r \in unhandled THEN 1 ELSE 0) + (IF r \in finished THEN 1 ELSE 0) + (IF r \in lost THEN 1 ELSE 0)
    + Cardinality({i \in 1 .. Len(taskQueue) : taskQueue[i] = r})
    + Cardinality({w \in PoolWorkers : working[w] = r})
    + Cardinality({b \in RunnerCallers : sending[b] = r})

TaskHandledOnce == \A r \in Requests : Places(r) = 1

(***************************************************************************)
(* PoolEndsWithEnd (stopWorkers, ReleaseResources): once the handler of an *)
(* End that came after Begin was handled has closed the queue, no task is  *)
(* executed any more and no worker is left.                                *)
(***************************************************************************)
PoolEndsWithEnd ==
  inOrder /\ queueIs = "dropped" => \A w \in PoolWorkers : poolWorker[w] \notin AtWork

(***************************************************************************)
(* SendersAreFreed (executor.go 135-137): a bus worker that waits for room *)
(* in the queue gets on, unless the workers were told to leave, by an      *)
(* interrupting request or by the session's end, and no End in order comes *)
(* to close the queue.  In that case it waits for ever.                    *)
(***************************************************************************)
Sends(b) == caller[b] = "send"
IsFreed(b) == ~Sends(b) \/ (poolCanceled /\ ~(ended /\ inOrder))

SendersAreFreed == \A b \in RunnerCallers : Sends(b) ~> IsFreed(b)
=============================================================================
