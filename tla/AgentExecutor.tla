--------------------------- MODULE AgentExecutor ---------------------------
(***************************************************************************)
(* The agent executor: Run of src/agent/exec/executor.go with topoOrder of *)
(* topo.go.  Tasks of a plan are ordered by Kahn's algorithm (Go's random  *)
(* map order makes the choice among ready tasks arbitrary) and run one     *)
(* after the other, each with up to MaxAttempts attempts as long as the    *)
(* evaluator rejects the output.  Texts are abstracted: an output, or a    *)
(* feedback, is there or not.                                              *)
(***************************************************************************)
EXTENDS Integers, Sequences, SequencesExt, FiniteSets

CONSTANTS Tasks,       \* identifiers a plan or a dependency list may name
          MaxTasks,    \* Options.MaxTasks (64 when unset)
          MaxAttempts  \* Options.MaxAttempts (2 when unset)

ASSUME AgentAssumption ==
  /\ IsFiniteSet(Tasks) /\ MaxTasks \in Nat \ {0} /\ MaxAttempts \in Nat \ {0}

VARIABLES
  plan,         \* the tasks of the plan
  deps,         \* DependsOn of each of them, without empty names
  distinct,     \* no identifier is empty or used twice
  stopOnError,  \* Options.StopOnError
  evaluator,    \* there is an Evaluator
  phase,        \* where Run is
  inDeg,        \* topoOrder: dependencies not yet in out
  queue,        \* topoOrder: tasks without such dependencies
  out,          \* topoOrder: the order
  attempts,     \* attempts made at the current task
  outputs,      \* tasks with an entry in State.Outputs
  feedback,     \* tasks with an entry in State.Feedback
  approved,     \* tasks whose last output was accepted
  results       \* Result.TaskResults: task and status

inputVars == <<plan, deps, distinct, stopOnError, evaluator>>
sortVars == <<inDeg, queue, out>>
runVars == <<attempts, outputs, feedback, approved, results>>
vars == <<inputVars, sortVars, runVars, phase>>

Init ==
  /\ plan \in SUBSET Tasks
  /\ deps \in [plan -> SUBSET Tasks]
  /\ distinct \in BOOLEAN /\ stopOnError \in BOOLEAN /\ evaluator \in BOOLEAN
  /\ phase = "call"
  /\ inDeg = [t \in plan |-> 0] /\ queue = <<>> /\ out = <<>>
  /\ attempts = 0 /\ outputs = {} /\ feedback = {} /\ approved = {}
  /\ results = <<>>

-----------------------------------------------------------------------------
(***************************************************************************)
(* topoOrder.                                                              *)
(***************************************************************************)
Acceptable ==
  /\ Cardinality(plan) <= MaxTasks /\ distinct
  /\ \A t \in plan : deps[t] \subseteq plan

Reject ==
  /\ phase = "call" /\ ~Acceptable
  /\ phase' = "rejected"
  /\ UNCHANGED <<inputVars, sortVars, runVars>>

Count ==
  /\ phase = "call" /\ Acceptable
  /\ inDeg' = [t \in plan |-> Cardinality(deps[t])]
  /\ queue' \in SetToSeqs({t \in plan : deps[t] = {}})
  /\ phase' = "sort"
  /\ UNCHANGED <<inputVars, out, runVars>>

Children(t) == {c \in plan : t \in deps[c]}

\* Fault for DepsFirst: a child is ready when one of its dependencies is out.
TakeReadyEarly ==
  LET t == Head(queue) IN
  /\ phase = "sort" /\ queue # <<>>
  /\ out' = Append(out, t)
  /\ inDeg' = [c \in plan |-> IF c \in Children(t) THEN 0 ELSE inDeg[c]]
  /\ \E ready \in SetToSeqs({c \in Children(t) : inDeg[c] > 0}) :
       queue' = Tail(queue) \o ready
  /\ UNCHANGED <<inputVars, phase, runVars>>

TakeReady ==
  LET t == Head(queue) IN
  /\ phase = "sort" /\ queue # <<>>
  /\ out' = Append(out, t)
  /\ inDeg' = [c \in plan |-> inDeg[c] - (IF c \in Children(t) THEN 1 ELSE 0)]
  /\ \E ready \in SetToSeqs({c \in Children(t) : inDeg[c] = 1}) :
       queue' = Tail(queue) \o ready
  /\ UNCHANGED <<inputVars, phase, runVars>>

\* Fault for AcceptsExactly: a cycle goes unnoticed.
SortedAlways ==
  /\ phase = "sort" /\ queue = <<>>
  /\ phase' = IF out = <<>> THEN "done" ELSE "run"
  /\ UNCHANGED <<inputVars, sortVars, runVars>>

Sorted ==
  /\ phase = "sort" /\ queue = <<>>
  /\ phase' = IF Len(out) # Cardinality(plan) THEN "rejected"
              ELSE IF out = <<>> THEN "done" ELSE "run"
  /\ UNCHANGED <<inputVars, sortVars, runVars>>

-----------------------------------------------------------------------------
(***************************************************************************)
(* The loop over the ordered tasks.                                        *)
(***************************************************************************)
Current == out[Len(results) + 1]

\* The current task is over; the next one starts, or Run returns.
Report(status, stop) ==
  /\ results' = Append(results, [task |-> Current, status |-> status])
  /\ attempts' = 0
  /\ phase' = IF stop \/ Len(results) + 1 = Len(out) THEN "done" ELSE "run"

Fail ==
  /\ Report("failed", stopOnError)
  /\ UNCHANGED <<outputs, feedback>>

\* Fault for ReportMatchesState: the feedback of an accepted task stays.
SucceedDirty ==
  /\ Report("succeeded", FALSE)
  /\ outputs' = outputs \union {Current}
  /\ UNCHANGED feedback

Succeed ==
  /\ Report("succeeded", FALSE)
  /\ outputs' = outputs \union {Current}
  /\ feedback' = feedback \ {Current}

\* RunTask returns an output (accepted as it is without an evaluator) or an
\* error.  The context is the runner's business: Run itself never looks at it.
RunTask ==
  /\ phase = "run"
  /\ \/ Fail /\ UNCHANGED approved
     \/ ~evaluator /\ Succeed /\ approved' = approved \union {Current}
     \/ /\ evaluator /\ phase' = "evaluate" /\ attempts' = attempts + 1
        /\ UNCHANGED <<outputs, feedback, approved, results>>
  /\ UNCHANGED <<inputVars, sortVars>>

\* Fault for RunEnds: every retry starts counting anew.
RejectOutputAnew ==
  /\ feedback' = feedback \union {Current}
  /\ phase' = "run" /\ attempts' = 0 /\ UNCHANGED <<outputs, results>>

\* Fault for AgentTypeOK: one attempt too many.
RejectOutputOnceMore ==
  IF attempts <= MaxAttempts
    THEN /\ feedback' = feedback \union {Current}
         /\ phase' = "run" /\ UNCHANGED <<attempts, outputs, results>>
    ELSE Succeed

\* A rejected output is retried; after the last attempt the loop ends, and
\* what follows treats the task like an accepted one.
RejectOutput ==
  IF attempts < MaxAttempts
    THEN /\ feedback' = feedback \union {Current}
         /\ phase' = "run" /\ UNCHANGED <<attempts, outputs, results>>
    ELSE Succeed

Evaluate ==
  /\ phase = "evaluate"
  /\ \/ Fail /\ UNCHANGED approved
     \/ Succeed /\ approved' = approved \union {Current}
     \/ RejectOutput /\ UNCHANGED approved
  /\ UNCHANGED <<inputVars, sortVars>>

Next == Reject \/ Count \/ TakeReady \/ Sorted \/ RunTask \/ Evaluate

Spec == Init /\ [][Next]_vars
FairSpec == Spec /\ WF_vars(Next)

-----------------------------------------------------------------------------
Reported == {results[n].task : n \in 1 .. Len(results)}
Succeeded == {results[n].task : n \in {m \in 1 .. Len(results) :
                                         results[m].status = "succeeded"}}

AgentTypeOK ==
  /\ phase \in {"call", "sort", "run", "evaluate", "done", "rejected"}
  /\ inDeg \in [plan -> Nat]
  /\ queue \in Seq(plan) /\ out \in Seq(plan)
  /\ attempts \in 0 .. MaxAttempts
  /\ outputs \subseteq plan /\ feedback \subseteq plan /\ approved \subseteq plan
  /\ results \in Seq([task : plan, status : {"succeeded", "failed"}])

\* No task waits, through others, for itself.
Acyclic == \A S \in SUBSET plan : S # {} => \E t \in S : deps[t] \intersect S = {}

(***************************************************************************)
(* AcceptsExactly (topo.go 9-64): Run rejects a plan exactly when it is    *)
(* too large, malformed, depends on an unknown task or on itself.          *)
(***************************************************************************)
AcceptsExactly ==
  /\ phase = "rejected" => ~(Acceptable /\ Acyclic)
  /\ phase \in {"run", "evaluate", "done"} => Acceptable /\ Acyclic

(***************************************************************************)
(* DepsFirst (architecture.md 74): no task is attempted before every task  *)
(* it depends on has been reported, and a retry carries feedback.          *)
(***************************************************************************)
DepsFirst ==
  phase \in {"run", "evaluate"} =>
    /\ Current \notin Reported /\ deps[Current] \subseteq Reported
    /\ phase = "run" /\ attempts > 0 => Current \in feedback

(***************************************************************************)
(* ReportMatchesState (executor.go 79-97): State.Outputs has exactly the   *)
(* tasks reported as succeeded, leftover feedback belongs to failed ones,  *)
(* and Run returns with every task reported once, in order, or cut off by  *)
(* the failure StopOnError stops at.                                       *)
(***************************************************************************)
ReportMatchesState ==
  /\ outputs = Succeeded
  /\ feedback \intersect Succeeded = {}
  /\ \A n \in 1 .. Len(results) : results[n].task = out[n]
  /\ phase = "done" => \/ Len(results) = Len(out)
                       \/ stopOnError /\ Last(results).status = "failed"

(***************************************************************************)
(* RunEnds: every plan is answered, cycles and endless rejections too.     *)
(***************************************************************************)
RunEnds == <>(phase \in {"done", "rejected"})

(***************************************************************************)
(* What architecture.md:81-86 says: a task is recorded as a success when   *)
(* the evaluator says ok.                                                  *)
(***************************************************************************)
SucceededWasApproved == Succeeded \subseteq approved
=============================================================================
