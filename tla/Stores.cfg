\* A three-byte tail store with two readers; a log of three events with one
\* trim, two saves and one listener; both checkpoint stores with three ids; two
\* reminders and one restart; a goal of two rounds with two armed sessions; a
\* hub with two subscribers; two runs that end in two sessions, with one
\* restart; two projections of two events; two names in two layers; three
\* directories of two skills.
SPECIFICATION StoresSpec
CONSTANTS
  readerA = readerA
  readerB = readerB
  trimA = trimA
  saveA = saveA
  saveB = saveB
  watcherA = watcherA
  idA = idA
  idB = idB
  idC = idC
  sessionA = sessionA
  sessionB = sessionB
  subA = subA
  subB = subB
  runA = runA
  runB = runB
  unitA = unitA
  unitB = unitB
  nameA = nameA
  nameB = nameB
  callerA = callerA
  callerB = callerB
  Readers <- TwoReaders
  Cap = 3
  WriteSizes <- Sizes
  MaxTotal = 8
  Trims <- OneTrim
  Saves <- TwoSaves
  Watchers <- OneWatcher
  KeepSizes <- Keep
  MaxEvents = 3
  Ids <- ThreeIds
  MaxKept = 2
  MaxSaves = 5
  Stores <- BothStores
  IDs <- TwoIds
  Kinds <- OnceAndEvery
  Cadence = 2
  MaxTime = 4
  MaxCrashes = 1
  Sessions <- TwoSessions
  Host = Host
  Reasons = {"no access"}
  MaxRounds = 2
  BlockThreshold = 2
  MaxArms = 2
  MaxRevision = 4
  Subscribers <- TwoSubscribers
  SubBuffer = 1
  ReplayCap = 2
  MaxSeq = 3
  Services <- TwoServices
  Runs <- TwoRuns
  MaxSessions = 2
  MaxObjects = 4
  MaxRestarts = 1
  MaxDeletes = 1
  Units <- TwoUnits
  MaxLog = 2
  MaxAttaches = 2
  Depth = 2
  Names <- TwoNames
  Callers <- TwoCallers
  MaxCalls = 4
  Dirs <- ThreeDirs
  Skills <- TwoNames
  Tools <- TwoNames
  MaxEdits = 2
  MaxRefreshes = 2
  MaxToolCalls = 3
INVARIANTS
  TypesOK
  OutputIsExact
  LogIsFaithful
  
  SavesAreKept
  
  GoalsAreSound
  ReadersKeepUp
CHECK_DEADLOCK FALSE
