SPECIFICATION OrchestrationSpec
CONSTANTS
  Cases <- SmallCases
  NoState = NoState
  NoBranch = NoBranch
  Keys = {k1, k2}
  Values = {v1, v2}
  Absent = Absent
  Writers = {w1, w2}
  Watchers = {t1}
  MaxChanges = 3
  k1 = k1
  t1 = t1
  Visits = {x1, x2, x3}
  MaxInputs = 3
  Docs <- SmallDocs
  MaxConcurrent = 1
  MaxTotalAgents = 5
  MaxItemsPerCall = 2
  NumAgents = 3
  Forms = {"parallel", "spawn", "chain", "pipe", "transform"}
  Limits = {0, 1, 2}
  WatchedRuns = {1}
  MaxSteps = 2
  MaxAttempts = 2
  NumTools = 1
  Rates <- TwoThirds
  MaxInitFailures = 1
INVARIANTS TypesOK GraphsAreSound AgentsAreSound SlotsAreConserved
PROPERTIES SlotsAreFifo
CHECK_DEADLOCK FALSE
