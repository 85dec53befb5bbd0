SPECIFICATION ServicesSpec
CONSTANTS
  q1 = q1  q2 = q2  c1 = c1  c2 = c2  u1 = u1  u2 = u2  r1 = r1  r2 = r2  r3 = r3
  Queries = {q1, q2}
  MaxInterrupts = 1
  Wishes <- MCWishes
  NoQuery = NoQuery
  Ids = {1}
  Clients = {c1, c2}
  MaxCaptchas = 2
  MaxTime = 1
  Expiration = 0
  NoEntry = NoEntry
  MaxHandlers = 3
  MaxDepth = 2
  Keys = {"key"}
  Users = {u1, u2}
  MaxWrites = 2
  MaxAge = 1
  NoValue = NoValue
  SearchCallers = {c1, c2}
  Docs = {1, 2}
  BatchSize = 1
  PoolWorkers = {"w1"}
  RunnerCallers = {"b1", "b2"}
  Requests = {r1, r2, r3}
  Interrupts = {r3}
  TaskQueueSize = 1
  NoRequest = NoRequest
  StageCount = 2
  MaxEmits = 3
  StageQueueSize = 2
  ProcessorNames = {"a", "b"}
  ProcessorPriorities = {0, 50}
  MaxRegistrations = 3
  OutputIDs = {"x", "y"}
  MaxRoutes = 3
  BusRouters = {"b1", "b2"}
  Indexes = {"kb"}
  DefaultIndex = "kb"
  Documents = {"d1", "d2", "d3"}
  Readers = {"r"}
  PageSize = 1
  MaxPages = 3
  MaxChanges = 2
  Names = {1, 2}
  UUIDs = {2}
  Upserters = {u1, u2}
  Batches <- MCBatches
  EmbedBatch = 1
  ScrollLimit = 1
  MaxUpserts = 2
  Plans <- MCPlans
  MaxSteps = 2
  MaxCostTokens = 3
  StepTokens = {2}
  Chats = {"c1", "c2"}
  AgentChats = {"a"}
  MaxSessionMessages = 1
  TokenUsers = {"u", "v"}
  Instances <- MCInstances
  AccessExpire = 1
  RefreshExpire = 2
  LastSecond = 4
  MaxTokens = 4
  MaxItems = 2
  TagSpelling <- MCTagSpelling
  AlgorithmInputs <- MCInputs
INVARIANTS
  ServicesTypeOK
  InterruptsFindTheirQuery
  TrackersTell
  AcceptedIsGone
  WritesAsTold
  PoolTasksSafe
  PacketsGoRight
  KnowledgeRight
  RecordsAreTrue
  AlgorithmsAgree
  EmitCallsEach

  
CHECK_DEADLOCK FALSE
