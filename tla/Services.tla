------------------------------ MODULE Services ------------------------------
(***************************************************************************)
(* The services that share nothing with each other: each is modelled in a  *)
(* module of its own, and a behaviour of Services is a behaviour of one of *)
(* them while the others rest in their initial states.  Since they share   *)
(* neither variables nor locks, every interleaving of all of them projects *)
(* to such behaviours, and their state spaces add instead of multiplying.  *)
(***************************************************************************)
EXTENDS LLMQuery, CaptchaStore, Signals, ConfigCache, SearchEngine,
        AsyncTaskRunner, PipelineStage, MediaRouting, BailianIndex, QdrantStore,
        AgentRuntime, SessionMemory, Tokens, Algorithms

VARIABLE on     \* the service this behaviour is about

servicesVars ==
  <<on, llmVars, captchaVars, signalVars, configVars, searchVars, runnerVars, stageVars,
    registryVars, routingVars, bailianVars, qdrantVars, runtimeVars, sessionVars, tokenVars, input>>

ServiceNames == {"llm", "captcha", "signals", "config", "search", "runner", "stage",
                 "registry", "routing", "bailian", "qdrant", "runtime", "session",
                 "tokens", "algorithms"}

\* A service that is not on stays as it is.
Rest(service) ==
  /\ UNCHANGED on
  /\ (service # "llm" => UNCHANGED llmVars)
  /\ (service # "captcha" => UNCHANGED captchaVars)
  /\ (service # "signals" => UNCHANGED signalVars)
  /\ (service # "config" => UNCHANGED configVars)
  /\ (service # "search" => UNCHANGED searchVars)
  /\ (service # "runner" => UNCHANGED runnerVars)
  /\ (service # "stage" => UNCHANGED stageVars)
  /\ (service # "registry" => UNCHANGED registryVars)
  /\ (service # "routing" => UNCHANGED routingVars)
  /\ (service # "bailian" => UNCHANGED bailianVars)
  /\ (service # "qdrant" => UNCHANGED qdrantVars)
  /\ (service # "runtime" => UNCHANGED runtimeVars)
  /\ (service # "session" => UNCHANGED sessionVars)
  /\ (service # "tokens" => UNCHANGED tokenVars)
  /\ UNCHANGED input

\* ... and has one initial state only.
ServicesInit ==
  /\ on \in ServiceNames
  /\ QueriesInit /\ IF on = "llm" THEN HandlerInit ELSE provider = "openai" /\ reachable = TRUE
  /\ CaptchaInit
  /\ SignalsInit
  /\ ConfigInit
  /\ SearchInit
  /\ RunnerInit
  /\ StageInit
  /\ RegistryInit
  /\ RoutingInit /\ (on # "routing" => strategy = "broadcast")
  /\ BailianInit
  /\ QdrantInit /\ (on # "qdrant" => ~collection)
  /\ RuntimeInit
  /\ SessionInit
  /\ TokensInit
  /\ IF on = "algorithms" THEN AlgorithmsInit ELSE input = NoInput

ServicesNext ==
  \/ on = "llm" /\ LLMNext /\ Rest("llm")
  \/ on = "captcha" /\ CaptchaNext /\ Rest("captcha")
  \/ on = "signals" /\ SignalsNext /\ Rest("signals")
  \/ on = "config" /\ ConfigNext /\ Rest("config")
  \/ on = "search" /\ SearchNext /\ Rest("search")
  \/ on = "runner" /\ RunnerNext /\ Rest("runner")
  \/ on = "stage" /\ StageNext /\ Rest("stage")
  \/ on = "registry" /\ RegistryNext /\ Rest("registry")
  \/ on = "routing" /\ RoutingNext /\ Rest("routing")
  \/ on = "bailian" /\ BailianNext /\ Rest("bailian")
  \/ on = "qdrant" /\ QdrantNext /\ Rest("qdrant")
  \/ on = "runtime" /\ RuntimeNext /\ Rest("runtime")
  \/ on = "session" /\ SessionNext /\ Rest("session")
  \/ on = "tokens" /\ TokensNext /\ Rest("tokens")

(***************************************************************************)
(* The fairness of LLMQuery, ConfigCache, AsyncTaskRunner and AgentRuntime: *)
(* goroutines go on, requests and tasks have timeouts, entries get older.  *)
(***************************************************************************)
ServicesFairness ==
  /\ \A q \in Queries : WF_llmVars(on = "llm" /\ QueryStep(q))
  /\ \A q \in Queries : WF_llmVars(on = "llm" /\ WatcherStep(q))
  /\ \A k \in Keys : WF_configVars(on = "config" /\ Grow(k))
  /\ \A u \in Users : WF_configVars(on = "config" /\ UserProceeds(u))
  /\ \A w \in PoolWorkers : WF_runnerVars(on = "runner" /\ PoolStep(w))
  /\ \A b \in RunnerCallers : WF_runnerVars(on = "runner" /\ CallerStep(b))
  /\ WF_runtimeVars(on = "runtime" /\ RuntimeStep)

ServicesSpec == ServicesInit /\ [][ServicesNext]_servicesVars /\ ServicesFairness

-----------------------------------------------------------------------------
\* The types of the services; those at rest do not change.
ServicesTypeOK ==
  /\ (on = "llm" => LLMTypeOK)
  /\ (on = "captcha" => CaptchaTypeOK)
  /\ (on = "signals" => SignalsTypeOK)
  /\ (on = "config" => ConfigTypeOK)
  /\ (on = "search" => SearchTypeOK)
  /\ (on = "runner" => RunnerTypeOK)
  /\ (on = "stage" => StageTypeOK)
  /\ (on = "registry" => RegistryTypeOK)
  /\ (on = "routing" => RoutingTypeOK)
  /\ (on = "bailian" => BailianTypeOK)
  /\ (on = "qdrant" => QdrantTypeOK)
  /\ (on = "runtime" => RuntimeTypeOK)
  /\ (on = "session" => SessionTypeOK)
  /\ (on = "tokens" => TokensTypeOK)

(***************************************************************************)
(* PoolTasksSafe (AsyncTaskRunner): a request is handled once, and when    *)
(* the session's End was handled in order nothing is executed any more.    *)
(***************************************************************************)
PoolTasksSafe == TaskHandledOnce /\ PoolEndsWithEnd

(***************************************************************************)
(* PacketsGoRight (PipelineStage, MediaRouting): a stage emits the packets *)
(* of its queue in their order, processors with a higher priority come     *)
(* first, and round robin visits the active transports evenly, up to what  *)
(* the updates have cost that bus workers lost between them.               *)
(***************************************************************************)
PacketsGoRight == StagesKeepOrder /\ HigherFirst /\ RoutesAreEven

(***************************************************************************)
(* KnowledgeRight (BailianIndex, QdrantStore): a listing that saw every    *)
(* page missed no document that was there throughout, a point holds the    *)
(* record its id names, and a walk of pages misses none.                   *)
(***************************************************************************)
KnowledgeRight == ReadersMissNothing /\ PointsAreRight /\ WalkMissesNothing

(***************************************************************************)
(* RecordsAreTrue (AgentRuntime, SessionMemory, Tokens): an agent run is   *)
(* recorded as it ended, a session's rows tell of every message unless it  *)
(* came while a summary was made, and an accepted token goes back to a     *)
(* login.                                                                  *)
(***************************************************************************)
RecordsAreTrue == RunIsTold /\ SessionRemembers /\ TokensLive

(***************************************************************************)
(* ServicesLive: StaleValuesLeave of ConfigCache, and, of the service that *)
(* is on, InterruptIsFelt - a token and a watcher do not wait for each     *)
(* other; SendersAreFreed - a bus worker that waits for room in the task   *)
(* queue gets on unless it cannot; RuntimeEnds - an agent run returns.     *)
(***************************************************************************)
Waits(b) == \/ on = "llm" /\ TokenMeetsWatcher
            \/ on = "runner" /\ Sends(b)
            \/ on = "runtime"

Served(b) == \/ on = "llm" /\ TokenOrWatchersGo
             \/ on = "runner" /\ IsFreed(b)
             \/ on = "runtime" /\ Ended

=============================================================================
