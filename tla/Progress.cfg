\* One job under a cap that changes, one session, three guarded calls, a batch of
\* two calls, a run of two steps, two producers of a value each, a graph of four
\* nodes that may fail, two workflows on one slot.
SPECIFICATION ProgressSpec
CONSTANTS
  j1 = j1
  alice = alice
  s1 = s1
  d1 = d1
  c1 = c1
  c2 = c2
  c3 = c3
  Entries <- OneEntry
  Owners <- OneOwner
  NoOwner = NoOwner
  NoId = NoId
  ExplicitIds <- NoneOf
  CapSettings <- CapChanges
  DefaultCap = 1
  Sessions <- OneSession
  Disposers <- OneDisposer
  ChanCap = 2
  MaxMessages = 2
  GuardedCalls <- ThreeCalls
  MaxFail = 2
  HalfOpenMax = 2
  HookFails = FALSE
  NumCalls = 2
  MaxConcurrency = 1
  MaxRetries = 1
  Budgeted <- BudgetedCalls
  DefaultSteps = 2
  Interval = 1
  Barriers <- NoneOf
  Asks <- AskSizes
  MaxResumes = 1
  NumSources = 2
  NumValues <- OneEach
  BatchSize = 2
  Kinds <- SequentialKinds
  Cases <- OneGraph
  NoState = NoState
  NoBranch = NoBranch
  Docs <- TwoDocs
  MaxConcurrent = 1
  MaxTotalAgents = 5
  MaxItemsPerCall = 2
PROPERTIES
  WorkersGoOn
  RunsEnd
  OrchestrationEnds
CHECK_DEADLOCK FALSE
