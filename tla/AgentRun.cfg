\* Runs of three steps with one retry, one crash and one resume;
\* two producers, of two values and of one;
\* streams of five chunks with two tool calls; two callers of a provider;
\* two runs at once or three in a row that are remembered; three callers that save
\* one attachment, results of four sizes, two callers of the title and the task list.
SPECIFICATION RunSpec
CONSTANTS
  DefaultSteps = 3
  MaxRetries = 1
  Interval = 1
  Barriers <- ModelBarrier
  Asks <- AskSizes
  MaxResumes = 1
  NumSources = 2
  NumValues <- TwoAndOne
  ChanCap = 1
  BatchSize = 2
  Kinds <- AllKinds
  Readers <- SevenReaders
  ToolCalls = {1, 2}
  MaxChunks = 5
  Callers = {"one", "two"}
  Providers <- NineProviders
  Histories <- SmallHistories
  Lifetimes = {1, 3}
  Margin = 1
  MaxClock = 3
  MaxTokens = 3
  Loads <- TwoLoads
  MaxRuns = 3
  MaxInteractions = 2
  GroupSize = 2
  MaxArchiveSessions = 2
  ArchiveSaveInterval = 1
  MaxForget = 1
  MaxBreaks = 1
  Scores = {1, 2}
  ArtifactKinds = {"attachment", "spill", "title", "todo"}
  Savers = {1, 2, 3}
  Sizes = {4, 8, 9, 12}
  Filters <- Geometries
  MarkerSize = 2
  NoticeSize = 4
  MidSize = 1
  MinPreview = 3
  MaxEvents = 4
  MaxFailures = 1
INVARIANTS
  TypesOK
  TranscriptsAreAnswered
  RunIsClosed
  RecoveryPointIsPrefix
  AnswersAreFaithful
  
PROPERTIES
  RecoveryPointKept
CHECK_DEADLOCK FALSE
