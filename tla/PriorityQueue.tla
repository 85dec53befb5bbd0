--------------------------- MODULE PriorityQueue ---------------------------
(***************************************************************************)
(* The waiting line of src/task/queue.go as operators on a sequence of     *)
(* tasks, first to be popped first.  Every method of the Go type runs      *)
(* under its mutex, so each is one operator; the priorities of the tasks   *)
(* are a function kept by the client.                                      *)
(***************************************************************************)
EXTENDS Integers, Sequences, SequencesExt

(***************************************************************************)
(* Where Push inserts a task of priority p: before the first item of       *)
(* strictly smaller priority, which is what sort.Search finds on a line    *)
(* that is in order.                                                       *)
(***************************************************************************)
\* Fault for QueueInOrder: equal priorities are overtaken.
SlotOvertaking(q, pri, p) ==
  Min({i \in 1 .. Len(q) + 1 : i <= Len(q) => pri[q[i]] <= p})

Slot(q, pri, p) ==
  Min({i \in 1 .. Len(q) + 1 : i <= Len(q) => pri[q[i]] < p})

Push(q, pri, t) == InsertAt(q, Slot(q, pri, pri[t]), t)

\* The line left by a successful Remove; a failed one leaves the line alone.
RemoveTask(q, t) == RemoveFirst(q, t)

\* GetPosition counts from 0 and answers -1 for a task that is not waiting.
GetPosition(q, t) == SelectInSeq(q, LAMBDA u : u = t) - 1

(***************************************************************************)
(* The order the line must keep: higher priorities first and, among equal  *)
(* priorities, the order of arrival.                                       *)
(***************************************************************************)
Before(t, u, pri, arrival) ==
  \/ pri[t] > pri[u]
  \/ pri[t] = pri[u] /\ arrival[t] < arrival[u]

InOrder(q, pri, arrival) ==
  \A i, j \in 1 .. Len(q) : i < j => Before(q[i], q[j], pri, arrival)
=============================================================================
