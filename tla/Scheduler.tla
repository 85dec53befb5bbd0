----------------------------- MODULE Scheduler -----------------------------
(***************************************************************************)
(* The priority scheduler of src/task/scheduler.go: a priority queue, a    *)
(* worker pool of its own, and one dispatcher goroutine that moves tasks   *)
(* from the first to the second.  Reading the running counter, popping a   *)
(* task, wg.Add and the channel send are four separate steps of the        *)
(* dispatcher; submitters, cancellers and workers run between them.        *)
(***************************************************************************)
EXTENDS TaskPool, PriorityQueue

CONSTANT Rankings  \* the priorities submitters may give to the tasks

ASSUME SchedulerAssumption == Rankings \subseteq [Tasks -> Int]

VARIABLES
  queue,       \* the priority queue, next task first
  priority,    \* Task.Priority
  arrival,     \* history: how many tasks were submitted before this one
  dispatcher,  \* the dispatcher's next statement
  hand,        \* the task the dispatcher has popped and not sent yet
  withdrawn    \* tasks for which CancelTaskByID answered true

schedVars == <<queue, priority, arrival, dispatcher, hand, withdrawn>>
vars == <<poolVars, schedVars>>

Init ==
  /\ PoolInit
  /\ queue = <<>>
  /\ priority \in Rankings
  /\ arrival = [t \in Tasks |-> 0]
  /\ dispatcher = "check" /\ hand = NoTask
  /\ withdrawn = {}

Submitted == {t \in Tasks : status[t] # "none"}

-----------------------------------------------------------------------------
SubmitTask(t) ==
  /\ status[t] = "none"
  /\ status' = [status EXCEPT ![t] = "pending"]
  /\ arrival' = [arrival EXCEPT ![t] = Cardinality(Submitted)]
  /\ queue' = Push(queue, priority, t)
  /\ UNCHANGED <<taskChan, sending, wg, running, pc, held, outcome, ctxDone,
                 closed, canceling, waiter, crashed,
                 priority, dispatcher, hand, withdrawn>>

\* CancelTaskByID answers false, and does nothing, when the task has left.
CancelTaskByID(t) ==
  /\ \E i \in 1 .. Len(queue) : queue[i] = t
  /\ queue' = RemoveTask(queue, t)
  /\ withdrawn' = withdrawn \union {t}
  /\ UNCHANGED <<poolVars, priority, arrival, dispatcher, hand>>

-----------------------------------------------------------------------------
(***************************************************************************)
(* The dispatcher.  Its sleeps change nothing: while all workers are busy  *)
(* it stays at "check".                                                    *)
(***************************************************************************)
SeeIdleWorker ==
  /\ dispatcher = "check"
  /\ running < Cardinality(Workers)
  /\ dispatcher' = "pop"
  /\ UNCHANGED <<poolVars, queue, priority, arrival, hand, withdrawn>>

PopNothing ==
  /\ dispatcher = "pop" /\ queue = <<>>
  /\ dispatcher' = "check"
  /\ UNCHANGED <<poolVars, queue, priority, arrival, hand, withdrawn>>

\* Fault for HandedOnce: the task is read, not popped.
PeekTask ==
  /\ dispatcher = "pop" /\ queue # <<>>
  /\ hand' = Head(queue)
  /\ dispatcher' = "add"
  /\ UNCHANGED <<poolVars, queue, priority, arrival, withdrawn>>

PopTask ==
  /\ dispatcher = "pop" /\ queue # <<>>
  /\ hand' = Head(queue)
  /\ queue' = Tail(queue)
  /\ dispatcher' = "add"
  /\ UNCHANGED <<poolVars, priority, arrival, withdrawn>>

AddTaskDirectly ==
  /\ dispatcher = "add"
  /\ BeginSend(hand)
  /\ dispatcher' = "send"
  /\ UNCHANGED <<taskChan, running, pc, held, outcome, status, ctxDone, closed,
                 canceling, waiter, crashed,
                 queue, priority, arrival, hand, withdrawn>>

SendDirectly ==
  /\ dispatcher = "send"
  /\ SendTask(hand)
  /\ dispatcher' = "check"
  /\ hand' = NoTask
  /\ UNCHANGED <<queue, priority, arrival, withdrawn>>

Dispatch == SeeIdleWorker \/ PopNothing \/ PopTask \/ AddTaskDirectly \/ SendDirectly

Next ==
  /\ ~crashed
  /\ \/ \E t \in Tasks : \/ SubmitTask(t) \/ CancelTaskByID(t)
                         \/ ContextEnds(t) /\ UNCHANGED schedVars
     \/ Dispatch
     \/ \E w \in Workers : Worker(w) /\ UNCHANGED schedVars

Spec == Init /\ [][Next]_vars

(***************************************************************************)
(* The dispatcher and the workers are goroutines that nothing stops, and   *)
(* handlers are assumed to return.                                         *)
(***************************************************************************)
Fairness ==
  /\ WF_vars(~crashed /\ Dispatch)
  /\ \A w \in Workers : WF_vars(~crashed /\ Worker(w) /\ UNCHANGED schedVars)

FairSpec == Spec /\ Fairness

-----------------------------------------------------------------------------
SchedTypeOK ==
  /\ TypeOK
  /\ queue \in Seq(Tasks)
  /\ priority \in Rankings
  /\ arrival \in [Tasks -> Nat]
  /\ dispatcher \in {"check", "pop", "add", "send"}
  /\ hand \in Tasks \union {NoTask}
  /\ withdrawn \subseteq Tasks

InQueue == {queue[i] : i \in 1 .. Len(queue)}

(***************************************************************************)
(* QueueInOrder (queue.go 24-64): however submissions, withdrawals and     *)
(* pops interleave, the waiting line is sorted by priority and, among      *)
(* equal priorities, by arrival.  The binary search of Push relies on it.  *)
(***************************************************************************)
QueueInOrder == InOrder(queue, priority, arrival)

(***************************************************************************)
(* HandedOnce: a submitted task is in the queue, withdrawn, in the         *)
(* dispatcher's hand or with the pool - exactly one of them - so no task   *)
(* is lost or run twice between the queue and the workers.                 *)
(***************************************************************************)
WithPool(t) ==
  \/ t \in InChan \union (sending \ {hand})
  \/ \E w \in Workers : held[w] = t
  \/ closed[t]

HandedOnce == \A t \in Submitted :
  Cardinality({p \in 1 .. 4 :
     CASE p = 1 -> t \in InQueue   [] p = 2 -> t \in withdrawn
       [] p = 3 -> t = hand        [] p = 4 -> WithPool(t)}) = 1

(***************************************************************************)
(* What the comment at scheduler.go:35-36 claims: while all workers are    *)
(* busy, tasks that wait are in the scheduler's queue, where GetTaskPosition*)
(* sees them.  A task that waits in the pool's channel has no position.    *)
(***************************************************************************)
BusyKeepsQueue == running >= Cardinality(Workers) => InChan = {}

-----------------------------------------------------------------------------
SchedPhase(t) == IF t \in withdrawn THEN "withdrawn" ELSE Phase(t)

SchedLifecycle == INSTANCE TaskLifecycle WITH
  Limit <- Cardinality(Workers),
  phase <- [t \in Tasks |-> SchedPhase(t)],
  canceled <- ctxDone

\* The scheduler implements the life of a task, fairness included.
ImplementsFairLifecycle == SchedLifecycle!FairSpec
=============================================================================
