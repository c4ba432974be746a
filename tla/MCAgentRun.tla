------------------------------- MODULE MCAgentRun -------------------------------
(***************************************************************************)
(* An agent run (AgentRun), the event streams it feeds (EventStream), the  *)
(* calls of a model provider (ProviderCalls) and their streams             *)
(* (ProviderStreams), the memory of runs that are over (Memory) and what   *)
(* is put aside for them (Artifacts), each on a small instance.  part says *)
(* which of the six a behaviour is about.                                  *)
(***************************************************************************)
EXTENDS AgentRun

CONSTANTS NumSources, NumValues, ChanCap, BatchSize, Kinds
VARIABLES kind, chan, phase, err, prod, sent, pump, hand, from, last, given, refused,
          got, ended, quit
streamVars == <<kind, chan, phase, err, prod, sent, pump, hand, from, last, given, refused,
                got, ended, quit>>
Stream == INSTANCE EventStream WITH canceled <- given

CONSTANTS Readers, ToolCalls, MaxChunks
VARIABLES provider, sentChunks, reader, resp, outcome, broken, vetoed, closed
readerVars == <<provider, sentChunks, reader, resp, outcome, broken, vetoed, closed>>
Reader == INSTANCE ProviderStreams WITH Providers <- Readers, sent <- sentChunks

CONSTANTS Callers, Providers, Histories, Lifetimes, Margin, MaxClock, MaxTokens
VARIABLES called, streams, history, calling, request, replied, fate, key,
          token, expires, holder, clock, needless
requestVars == <<called, streams, history, calling, request, replied, fate, key,
                 token, expires, holder, clock, needless>>
Request == INSTANCE ProviderCalls WITH provider <- called, phase <- calling, result <- replied

CONSTANTS Loads, MaxRuns, MaxInteractions, GroupSize, MaxArchiveSessions, ArchiveSaveInterval,
          MaxForget, MaxBreaks, Scores
VARIABLES load, scoring, prompted, lastSavedMsgCount, interactions, interactionCount, roots,
          sessions, ready, file, run, reset, breaks, saved, inserted, evicted, disturbed, tangled
memoryVars == <<load, scoring, prompted, lastSavedMsgCount, interactions, interactionCount, roots,
                sessions, ready, file, run, reset, breaks, saved, inserted, evicted, disturbed,
                tangled>>
Remember == INSTANCE Memory

CONSTANTS ArtifactKinds, Savers, Sizes, Filters, MarkerSize, NoticeSize, MidSize, MinPreview,
          MaxEvents, MaxFailures
VARIABLES subject, saver, temp, bytes, link, linkKept, durable, failures,
          filter, size, owned, filtered, stored,
          titles, auto, held, spoken, overlapped, tasks, nextID, adder, logged, missed
artifactVars == <<subject, saver, temp, bytes, link, linkKept, durable, failures,
                  filter, size, owned, filtered, stored,
                  titles, auto, held, spoken, overlapped, tasks, nextID, adder, logged, missed>>
Aside == INSTANCE Artifacts
           WITH Kinds <- ArtifactKinds, at <- saver, content <- bytes, result <- filtered

VARIABLE part
answerVars == <<streamVars, readerVars, requestVars>>
keptVars == <<memoryVars, artifactVars>>
allVars == <<vars, answerVars, keptVars, part>>

(* The parts a behaviour is not about stay in a first state.               *)
InPart(p, choices) == IF part = p THEN choices ELSE {CHOOSE c \in choices : TRUE}

RunInit ==
  /\ part \in {"run", "stream", "reader", "request", "memory", "artifacts"}
  /\ Init
  /\ kind \in InPart("stream", Kinds) /\ Stream!Init
  /\ provider \in InPart("reader", Readers) /\ Reader!ProviderInit
  /\ called \in InPart("request", Providers) /\ streams \in InPart("request", BOOLEAN)
  /\ history \in InPart("request", Histories) /\ Request!ProviderCallInit
  /\ load \in InPart("memory", Loads)
  /\ scoring \in InPart("memory", BOOLEAN) /\ prompted \in InPart("memory", BOOLEAN)
  /\ prompted = scoring /\ (load[2] > 1 => ~ scoring)
  /\ Remember!MemoryInit
  /\ Aside!ArtifactsInit /\ (part # "artifacts" => subject = "title")
  /\ subject # "spill" =>
       /\ size = CHOOSE n \in Sizes : TRUE
       /\ owned /\ filter = CHOOSE f \in Filters : Aside!Converges(f)

AnswerNext ==
  \/ part = "stream" /\ Stream!Next /\ UNCHANGED <<readerVars, requestVars>>
  \/ part = "reader" /\ Reader!ProviderNext /\ UNCHANGED <<streamVars, requestVars>>
  \/ part = "request" /\ Request!ProviderCallNext /\ UNCHANGED <<streamVars, readerVars>>

RunNext ==
  /\ UNCHANGED part
  /\ \/ part = "run" /\ Next /\ UNCHANGED <<answerVars, keptVars>>
     \/ AnswerNext /\ UNCHANGED <<vars, keptVars>>
     \/ /\ part = "memory" /\ Remember!MemoryNext
        /\ UNCHANGED <<vars, answerVars, artifactVars>>
     \/ /\ part = "artifacts" /\ Aside!ArtifactsNext
        /\ UNCHANGED <<vars, answerVars, memoryVars>>

RunSpec == RunInit /\ [][RunNext]_allVars

-----------------------------------------------------------------------------
(* Every variable of the part that moves keeps its type.                   *)
TypesOK == CASE part = "run" -> TypeOK
             [] part = "stream" -> Stream!TypeOK
             [] part = "reader" -> Reader!TypeOK
             [] part = "request" -> Request!TypeOK
             [] part = "memory" -> Remember!MemoryTypeOK
             [] part = "artifacts" -> Aside!ArtifactsTypeOK

(* What is said arrives.  Event streams neither lose nor reorder what was  *)
(* accepted, and a failure upstream does not look like a clean end; of a   *)
(* model's stream the agent gets every call whole, the text in order, and  *)
(* how it ended; a provider is sent the conversation, its errors are       *)
(* retried when that may help and not when the caller stopped, and its     *)
(* token is shared by its callers.                                         *)
AnswersAreFaithful ==
  /\ part = "stream" => Stream!StreamsKeepOrder /\ Stream!ErrorsSurface
  /\ part = "reader" => Reader!ReadersAreFaithful
  /\ part = "request" => Request!CallsAreFaithful

(* The window keeps the newest or the most important, the store every      *)
(* summary once, the file what the archive holds, and a run that was alone *)
(* is remembered.  An attachment is whole after a crash, a cut result that *)
(* refers to its text has it stored, a title pinned while nobody was asked *)
(* for one stays, and the task list in the log is the tool's.              *)
MemoryIsKept ==
  /\ part = "memory" => Remember!MemoryIsKept
  /\ part = "artifacts" => Aside!ArtifactsAreKept

-----------------------------------------------------------------------------
AskSizes == {0, 2}
TwoAndOne == <<2, 1>>
NoBarriers == {}
ModelBarrier == {"model"}
BothBarriers == {"model", "tool"}
AllKinds == {"map", "mapErr", "filter", "concat", "buffer", "merge"}
MapOnly == {"map"}
SevenReaders == {"openai", "moonshot", "anthropic", "baidu", "gemini", "ollama", "custom"}
NineProviders == {"openai", "deepseek", "moonshot", "qwen", "hunyuan",
                  "anthropic", "gemini", "baidu", "ollama"}

TwoLoads == {<<2, 2>>, <<3, 1>>}

Geometries == [store : {"none", "memory", "files"}, maxInline : {0, 7, 9},
               threshold : {8, 10}, head : {3}, tail : {2, 5}]

Msg(role, asked, answered, media) ==
  [role |-> role, calls |-> asked, answers |-> answered, media |-> media]
Sys == Msg("system", <<>>, 0, FALSE)
Human(m) == Msg("user", <<>>, 0, m)
Res(i, m) == Msg("tool", <<>>, i, m)
Turns == {<<>>}
  \cup {<<Msg("assistant", <<1>>, 0, FALSE), Res(1, m)>> : m \in BOOLEAN}
  \cup {<<Msg("assistant", <<1, 2>>, 0, FALSE), Res(1, m), Res(2, n)>> : m, n \in BOOLEAN}
SmallHistories == {<<Sys, Human(m)>> \o b \o <<Sys>> : m \in BOOLEAN, b \in Turns}
=============================================================================
