------------------------------ MODULE EventBus ------------------------------
(***************************************************************************)
(* The event bus of src/media/eventbus.go: a bounded queue, workers that   *)
(* select between the bus context and the queue, a Publish that never      *)
(* blocks, and a Close that cancels, closes the queue and waits.  What a   *)
(* handler does is the subscriber's business: the session's handlers are   *)
(* in MediaSession.                                                        *)
(***************************************************************************)
EXTENDS Integers, Sequences, FiniteSets

CONSTANTS BusWorkers,  \* the bus's worker goroutines
          BusSize,     \* capacity of eventQueue
          NoEvent      \* what a worker outside dispatch holds

ASSUME BusAssumption == IsFiniteSet(BusWorkers) /\ BusSize \in Nat \ {0}

VARIABLES
  busQueue,   \* eventQueue
  busClosed,  \* eventQueue has been closed
  busDone,    \* the bus context, a child of the session's, is done
  busPc,      \* where each worker is
  busEvent    \* the event each worker dispatches

busVars == <<busQueue, busClosed, busDone, busPc, busEvent>>

BusInit ==
  /\ busQueue = <<>> /\ busClosed = FALSE /\ busDone = FALSE
  /\ busPc = [b \in BusWorkers |-> "select"]
  /\ busEvent = [b \in BusWorkers |-> NoEvent]

\* Fault for MediaTypeOK: the queue takes more than its capacity.
PublishUnbounded(e) ==
  busQueue' = IF busClosed THEN busQueue ELSE Append(busQueue, e)

\* A full queue drops the event; the panic of a closed one is recovered.
Publish(e) ==
  busQueue' = IF busClosed \/ Len(busQueue) >= BusSize
                THEN busQueue ELSE Append(busQueue, e)

\* With the context done and events waiting, select takes either branch.
TakeEvent(b) ==
  /\ busPc[b] = "select" /\ busQueue # <<>>
  /\ busEvent' = [busEvent EXCEPT ![b] = Head(busQueue)]
  /\ busQueue' = Tail(busQueue)
  /\ busPc' = [busPc EXCEPT ![b] = "dispatch"]
  /\ UNCHANGED <<busClosed, busDone>>

LeaveBus(b) ==
  /\ busPc[b] = "select"
  /\ busDone \/ (busClosed /\ busQueue = <<>>)
  /\ busPc' = [busPc EXCEPT ![b] = "exited"]
  /\ UNCHANGED <<busQueue, busClosed, busDone, busEvent>>

\* The last handler of the event has returned.
Dispatched(b) ==
  /\ busPc' = [busPc EXCEPT ![b] = "select"]
  /\ busEvent' = [busEvent EXCEPT ![b] = NoEvent]

\* Close: cancel and close the queue, then wait for the workers.
CloseQueue ==
  /\ busDone' = TRUE /\ busClosed' = TRUE
  /\ UNCHANGED <<busQueue, busPc, busEvent>>

WorkersGone == \A b \in BusWorkers : busPc[b] = "exited"
=============================================================================
