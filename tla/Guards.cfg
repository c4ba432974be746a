\* Four calls at a breaker that trips at two failures; two tool calls under nine
\* setups of the host; two model calls over two routes with one repetition in
\* all; two runs of two steps in all in a context of eight tokens.
SPECIFICATION GuardsSpec
CONSTANTS
  c1 = c1
  c2 = c2
  c3 = c3
  c4 = c4
  p1 = p1
  p2 = p2
  ta = ta
  tb = tb
  Calls <- FourCalls
  MaxFail = 2
  HalfOpenMax = 2
  HookFails = TRUE
  MaxCalls = 2
  MaxEnters = 1
  Settings <- SomeSettings
  Requests <- SomeRequests
  Callers <- TwoCallers
  Routes <- TwoRoutes
  RouteSetups <- SomeRouteSetups
  Answers = {"ok", "transient", "permanent", "circuit", "later"}
  MaxRetries = 1
  MaxRepeats = 1
  BaseDelay = 2
  MaxDelay = 5
  Width = 5
  Capacity = 1
  MaxRefills = 1
  ContextSetups <- SomeContextSetups
  Budget = 8
  NearBudget = 6
  Reserve = 3
  Truncate = 3
  MaxLines = 4
  HeadPercent = 50
  MinPreserve = 1
  SummarySizes <- OneSize
  PruneThreshold = 5
  PruneHead = 2
  PruneTail = 2
  ResultSizes <- ThreeSizes
  Tools <- TwoTools
  Ratios <- TwoRatios
  Thresholds <- TwoOrThree
  MaxRuns = 2
  MaxSteps = 2
SYMMETRY GuardSymmetry
INVARIANTS
  TypesOK
  OpensOnThreshold
  SlotsAreCovered
  DecisionsAreKept
  
  RequestsAreSound
CHECK_DEADLOCK FALSE
