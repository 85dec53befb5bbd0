--------------------------- MODULE TaskLifecycle ---------------------------
(***************************************************************************)
(* What src/task promises of each task, whatever queue, channel and worker *)
(* it passes through: it waits, its handler runs at most once beside fewer *)
(* than Limit others, and it is answered at most once, with what the       *)
(* handler returned or, if its context was cancelled first, without it.  A *)
(* waiting task may be withdrawn: it then never runs and is never answered.*)
(***************************************************************************)
EXTENDS Naturals, FiniteSets

CONSTANTS Tasks, Limit
VARIABLES phase, canceled
vars == <<phase, canceled>>

Phases == {"new", "waiting", "running", "returned", "answered", "withdrawn"}

Init ==
  /\ phase = [t \in Tasks |-> "new"]
  /\ canceled = [t \in Tasks |-> FALSE]

Move(t, from, to) == phase[t] = from /\ phase' = [phase EXCEPT ![t] = to]

Submit(t) == Move(t, "new", "waiting") /\ UNCHANGED canceled

\* The context may end at any time after the submission, to any effect or none.
Cancel(t) ==
  /\ phase[t] # "new"
  /\ canceled' = [canceled EXCEPT ![t] = TRUE]
  /\ UNCHANGED phase

Start(t) ==
  /\ Cardinality({u \in Tasks : phase[u] = "running"}) < Limit
  /\ Move(t, "waiting", "running")
  /\ UNCHANGED canceled

Return(t) == Move(t, "running", "returned") /\ UNCHANGED canceled
Answer(t) == Move(t, "returned", "answered") /\ UNCHANGED canceled

\* Answered without having run.
Skip(t) ==
  /\ canceled[t]
  /\ Move(t, "waiting", "answered")
  /\ UNCHANGED canceled

Withdraw(t) == Move(t, "waiting", "withdrawn") /\ UNCHANGED canceled

Next == \E t \in Tasks :
  \/ Submit(t) \/ Cancel(t) \/ Start(t) \/ Return(t) \/ Answer(t)
  \/ Skip(t) \/ Withdraw(t)

Spec == Init /\ [][Next]_vars

(***************************************************************************)
(* A task does not wait for ever while others are served, a handler        *)
(* returns and what it returned is delivered.                              *)
(***************************************************************************)
Fairness == \A t \in Tasks :
  /\ SF_vars(Start(t) \/ Skip(t) \/ Withdraw(t))
  /\ WF_vars(Return(t))
  /\ WF_vars(Answer(t))

FairSpec == Spec /\ Fairness
=============================================================================
