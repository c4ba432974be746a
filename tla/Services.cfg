\* One subagent (they share nothing but the registry), two disposers, four follow-ups
\* through a channel of two; a batch of three tool calls on two slots with one retry
\* round; two callers of three calls at a tool source that starts twice; three calls on three files
\* within one second; one command with one child, under a cap of three seconds; two
\* workers over three or four files.
SPECIFICATION ServicesSpec
CONSTANTS
  s1 = s1
  d1 = d1
  d2 = d2
  m1 = m1
  m2 = m2
  Sessions <- OneSession
  Disposers <- TwoDisposers
  ChanCap = 2
  MaxMessages = 4
  NumCalls = 3
  MaxConcurrency = 2
  ToolRetries = 1
  Budgeted <- SecondCall
  Callers <- TwoCallers
  MaxCalls = 3
  MaxStarts = 2
  Operations <- SomeOperations
  Files <- ThreeFiles
  MaxFileCalls = 3
  MaxSeconds = 1
  CommandKinds = {"terminal", "streamed", "task"}
  Declared = {0, 1, 5}
  DefaultTimeout = 2
  MaxTimeout = 3
  WaitDelay = 1
  MaxClock = 7
  MaxChunks = 3
  Trees <- FewTrees
  Lines = {1, 2, 3, 4}
  SearchLimits = {0, 1, 2}
  Contexts <- NoneOrSome
  Workers = {1, 2}
  FileChanCap = 1
INVARIANTS
  TypesOK
  SubagentsAreFaithful
  BatchIsHonest
  
PROPERTIES
  DisposalIsFinal
CHECK_DEADLOCK FALSE
