---------------------------- MODULE AgentRuntime ----------------------------
(***************************************************************************)
(* The agent run behind the agent endpoint of the example server           *)
(* (examples/internal/handlers/agent_runtime.go): a plan is executed task  *)
(* by task, a failed task may be replaced, the remaining ones may be       *)
(* planned anew, and run and steps are recorded in a database.  Meanwhile  *)
(* the client may leave, its context end, the time run out and the         *)
(* database fail; most failing writes are ignored.                         *)
(***************************************************************************)
EXTENDS Naturals, Sequences

CONSTANTS Plans, MaxSteps, MaxCostTokens, StepTokens

\* A task for the model, for a tool with a valid input, or for a tool or an
\* input that validateToolInvocation refuses.
TaskKinds == {"model", "tool", "refused"}

\* Plans: what a decomposition may give, never an empty list.
ASSUME RuntimeAssumption ==
  /\ \A p \in Plans : p \in Seq(TaskKinds) /\ p # <<>>
  /\ MaxSteps \in Nat /\ MaxCostTokens \in Nat /\ StepTokens \subseteq Nat

VARIABLES
  run,         \* the run as the function holds it: status and phase
  runSaved,    \* the run in the database
  steps,       \* the steps' statuses, as they are in the database
  remaining,   \* the tasks to do, by what they ask for
  totalTokens,
  place,       \* where the function is
  returned,    \* what it has returned: "nothing", "ok", "error", "canceled"
  ctxEnded, clientGone, overtime,
  dbFails,     \* the database does not answer
  dbFailed     \* history: it has ignored something

runtimeVars == <<run, runSaved, steps, remaining, totalTokens, place, returned, ctxEnded,
                 clientGone, overtime, dbFails, dbFailed>>

outside == <<ctxEnded, clientGone, overtime, dbFails>>

NoRun == [status |-> "none", phase |-> "none"]
Terminal == {"succeeded", "failed", "cancelled"}

RuntimeInit ==
  /\ run = NoRun /\ runSaved = NoRun
  /\ steps = <<>> /\ remaining = <<>> /\ totalTokens = 0
  /\ place = "create" /\ returned = "nothing"
  /\ ctxEnded = FALSE /\ clientGone = FALSE /\ overtime = FALSE
  /\ dbFails = FALSE /\ dbFailed = FALSE

-----------------------------------------------------------------------------
SaveRun(r) ==
  /\ run' = r
  /\ runSaved' = IF dbFails THEN runSaved ELSE r

Notice == dbFailed' = (dbFailed \/ dbFails)

Returns(what) == place' = "returned" /\ returned' = what
RunGoes(to) == place' = to /\ UNCHANGED returned

\* Fault for RecordsAreTrue: the way out leaves the recorded status as it is.
EndRunUnsaved(status, what) ==
  /\ run' = [run EXCEPT !.status = status] /\ UNCHANGED runSaved
  /\ Notice
  /\ Returns(what)

EndRun(status, what) ==
  /\ SaveRun([status |-> status, phase |-> IF status = "succeeded" THEN "done" ELSE run.phase])
  /\ Notice
  /\ Returns(what)

CreateRun ==
  /\ place = "create"
  /\ SaveRun([status |-> "queued", phase |-> "planning"])
  /\ Notice
  /\ IF dbFails THEN Returns("error") ELSE RunGoes("start")
  /\ UNCHANGED <<steps, remaining, totalTokens, outside>>

StartRun ==
  /\ place = "start"
  /\ SaveRun([run EXCEPT !.status = "running"])
  /\ Notice
  /\ IF dbFails THEN Returns("error")
     ELSE IF clientGone THEN Returns("canceled") ELSE RunGoes("decompose")
  /\ UNCHANGED <<steps, remaining, totalTokens, outside>>

\* LLMDecomposer.Decompose gives no empty plan.
Decompose ==
  /\ place = "decompose"
  /\ \/ EndRun("failed", "error") /\ UNCHANGED remaining
     \/ \E p \in Plans :
          /\ remaining' = p
          /\ IF clientGone THEN Returns("canceled") /\ UNCHANGED <<run, runSaved>>
             ELSE RunGoes("loop") /\ SaveRun([run EXCEPT !.phase = "executing"])
          /\ Notice
  /\ UNCHANGED <<steps, totalTokens, outside>>

-----------------------------------------------------------------------------
(***************************************************************************)
(* The loop: the limits are looked at before every step.                   *)
(***************************************************************************)
StepsUsed == MaxSteps > 0 /\ Len(steps) >= MaxSteps
CostUsed  == MaxCostTokens > 0 /\ totalTokens >= MaxCostTokens

LoopEnds ==
  /\ place = "loop"
  /\ IF remaining = <<>> THEN EndRun("succeeded", "ok")
     ELSE IF ctxEnded THEN EndRun("cancelled", "canceled")
     ELSE (StepsUsed \/ overtime \/ CostUsed) /\ EndRun("failed", "error")
  /\ UNCHANGED <<steps, remaining, totalTokens, outside>>

BeginStep ==
  /\ place = "loop" /\ remaining # <<>>
  /\ ~ctxEnded /\ ~StepsUsed /\ ~overtime /\ ~CostUsed
  /\ Notice
  /\ IF dbFails THEN Returns("error") /\ UNCHANGED steps
     ELSE RunGoes("step") /\ steps' = Append(steps, "running")
  /\ UNCHANGED <<run, runSaved, remaining, totalTokens, outside>>

SetStep(status) ==
  steps' = IF dbFails THEN steps ELSE [steps EXCEPT ![Len(steps)] = status]

\* runTaskWithFallback: the fast model's second answer is not evaluated; the
\* usage of the last answer alone is counted.
Succeeds(task, tokens) ==
  \/ task = "model" /\ tokens \in StepTokens
  \/ task = "tool" /\ tokens = 0

Fails(task, tokens) ==
  \/ task = "model" /\ tokens \in StepTokens \union {0}
  \/ task \in {"tool", "refused"} /\ tokens = 0

\* Reflection replaces what remains; there is none when nothing remains.
reflectAndReplan ==
  \/ remaining' = Tail(remaining)
  \/ Len(remaining) > 1 /\ remaining' \in Plans

StepSucceeds ==
  /\ place = "step"
  /\ \E tokens \in StepTokens \union {0} :
       /\ Succeeds(Head(remaining), tokens)
       /\ totalTokens' = totalTokens + tokens
  /\ SetStep("succeeded")
  /\ reflectAndReplan
  /\ Notice /\ RunGoes("loop")
  /\ UNCHANGED <<run, runSaved, outside>>

\* New tasks go before the remaining ones; without any, the run fails.
replanAfterFailure ==
  \/ /\ \E new \in Plans : remaining' = new \o Tail(remaining)
     /\ RunGoes("loop") /\ Notice /\ UNCHANGED <<run, runSaved>>
  \/ EndRun("failed", "error") /\ UNCHANGED remaining

StepFails ==
  /\ place = "step"
  /\ \E tokens \in StepTokens \union {0} :
       /\ Fails(Head(remaining), tokens)
       /\ totalTokens' = totalTokens + tokens
  /\ SetStep("failed")
  /\ replanAfterFailure
  /\ UNCHANGED outside

-----------------------------------------------------------------------------
\* What happens around the run.
ContextEnd == ~ctxEnded /\ ctxEnded' = TRUE /\ UNCHANGED <<clientGone, overtime, dbFails>>
ClientLeaves == ~clientGone /\ clientGone' = TRUE /\ UNCHANGED <<ctxEnded, overtime, dbFails>>
TimeIsUp == ~overtime /\ overtime' = TRUE /\ UNCHANGED <<ctxEnded, clientGone, dbFails>>
DatabaseTurns == dbFails' = ~dbFails /\ UNCHANGED <<ctxEnded, clientGone, overtime>>

Outside ==
  /\ place # "returned"
  /\ ContextEnd \/ ClientLeaves \/ TimeIsUp \/ DatabaseTurns
  /\ UNCHANGED <<run, runSaved, steps, remaining, totalTokens, place, returned, dbFailed>>

RuntimeStep ==
  \/ CreateRun \/ StartRun \/ Decompose \/ LoopEnds \/ BeginStep \/ StepSucceeds \/ StepFails

RuntimeNext == RuntimeStep \/ Outside

RuntimeSpec == RuntimeInit /\ [][RuntimeNext]_runtimeVars

\* The function goes on: models and tools have timeouts.
RuntimeFairness == WF_runtimeVars(RuntimeStep)

-----------------------------------------------------------------------------
RuntimeTypeOK ==
  /\ steps \in Seq({"running", "succeeded", "failed"})
  /\ remaining \in Seq(TaskKinds)
  /\ returned \in {"nothing", "ok", "error", "canceled"}
  /\ totalTokens \in Nat

(***************************************************************************)
(* RunIsTold (runAgentRuntime): while the database answers, a run that has *)
(* returned is recorded as what it returned, unless its client left before *)
(* the first step, when it stays "running" for good; a run is a success    *)
(* only if its last step was one; and no step is left unfinished, nor is   *)
(* there one more than the limit.                                          *)
(***************************************************************************)
RunIsTold ==
  /\ returned # "nothing" /\ ~dbFailed =>
       \/ returned = "canceled" /\ clientGone /\ steps = <<>> /\ runSaved.status = "running"
       \/ returned = "ok" /\ runSaved = [status |-> "succeeded", phase |-> "done"]
       \/ returned = "error" /\ runSaved.status = "failed"
       \/ returned = "canceled" /\ ctxEnded /\ runSaved.status = "cancelled"
  /\ returned = "ok" => steps # <<>>
  /\ ~dbFailed /\ place # "step" => "running" \notin {steps[i] : i \in 1 .. Len(steps)}
  /\ ~dbFailed /\ returned = "ok" => steps[Len(steps)] = "succeeded"
  /\ MaxSteps > 0 => Len(steps) <= MaxSteps

(***************************************************************************)
(* RuntimeEnds: with a limit on steps a run returns, however often the     *)
(* models ask for other tasks.                                             *)
(***************************************************************************)
Ended == returned # "nothing"

RuntimeEnds == <>Ended
=============================================================================
