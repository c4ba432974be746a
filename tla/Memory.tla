-------------------------------- MODULE Memory --------------------------------
(***************************************************************************)
(* The memory module (module/memory): what a run said is remembered in a   *)
(* window of interactions, as leaves of a summary store and, every few     *)
(* runs, as a session of an archive that is kept in a file.                *)
(*                                                                         *)
(* A run is its number; of its messages only how many there are matters.   *)
(* Texts, budgets and the floating-point arithmetic of scores and decay    *)
(* are left out: a score is any of Scores, a sweep forgets any sessions up *)
(* to its limit.                                                           *)
(***************************************************************************)
EXTENDS Integers, Sequences, SequencesExt, FiniteSets

CONSTANTS MaxRuns, MaxInteractions, GroupSize, MaxArchiveSessions, ArchiveSaveInterval,
          MaxForget, MaxBreaks, Scores,
          Loads     \* pairs: how many runs there are, and how many at a time

VARIABLES
  load,
  scoring,       \* EnableImportanceScoring, with a scorer
  prompted,      \* the agent has a system prompt of its own
  lastSavedMsgCount, interactions, interactionCount,
  roots,         \* MemoryStore.roots, each the sequence of its leaves
  sessions,      \* ArchiveMemory.sessions: the runs each sums up
  ready,
  file,          \* the archive file: sessions, or Torn
  run,           \* where each run is
  reset,         \* where the Reset under way is
  breaks,        \* Resets and restarts so far
  saved,         \* interactions saved since the last Reset or restart (history)
  inserted,      \* leaves inserted since the store was last cleared (history)
  evicted,       \* interactions evicted, and after how many saves (history)
  disturbed,     \* runs that were not alone (history)
  tangled        \* two savers of the file have met (history)

settings == <<load, scoring, prompted>>
window == <<interactions, interactionCount, saved, evicted>>
store == <<roots, inserted>>
archive == <<sessions, ready>>
memoryVars == <<settings, lastSavedMsgCount, window, store, archive, file, run, reset, breaks,
                disturbed, tangled>>

Runs == 1..MaxRuns
Torn == <<{}>>
New == [at |-> "new", all |-> 0, injected |-> FALSE, summary |-> FALSE, number |-> 0,
        copy |-> <<>>]
Idle == [at |-> "idle", runs |-> {}, copy |-> <<>>]

MemoryInit ==
  /\ load \in Loads /\ scoring \in BOOLEAN /\ prompted \in BOOLEAN
  /\ lastSavedMsgCount = 0 /\ interactions = <<>> /\ interactionCount = 0
  /\ roots = <<>> /\ sessions = <<>> /\ ready = TRUE /\ file = <<>>
  /\ run = [r \in Runs |-> New] /\ reset = Idle /\ breaks = 0
  /\ saved = <<>> /\ inserted = <<>> /\ evicted = {} /\ disturbed = {} /\ tangled = FALSE

Active == {r \in Runs : run[r].at \notin {"new", "done", "forgotten"}}
Goes(r, at) == [run EXCEPT ![r].at = at]
Over(r) == [run EXCEPT ![r] = [New EXCEPT !.at = "done", !.summary = run[r].summary]]

-----------------------------------------------------------------------------
(* onMessagesBuilt: the messages are counted, those of the memory with     *)
(* them; collapseSystem then makes one system message of all there are.    *)
CountsInjected(n, injected) == IF injected THEN n + 1 ELSE lastSavedMsgCount
CountOf(n, injected) == IF injected THEN n + 1 ELSE n
MessagesBuilt(r) ==
  /\ run[r].at = "new" /\ \A q \in 1..(r - 1) : run[q].at # "new"
  /\ r <= load[1] /\ Cardinality(Active) < load[2]
  /\ LET injected == interactions # <<>> \/ sessions # <<>>
     IN \E given \in 1..2, added \in 1..2 :
          /\ lastSavedMsgCount' = CountOf(given + (IF prompted THEN 1 ELSE 0), injected)
          /\ run' = [Goes(r, "built") EXCEPT
                       ![r].injected = injected,
                       ![r].all = given + added + (IF prompted \/ injected THEN 1 ELSE 0)]
  /\ disturbed' = IF Active = {} THEN disturbed ELSE disturbed \cup {r} \cup Active
  /\ UNCHANGED <<settings, window, store, archive, file, reset, breaks, tangled>>

(* onAgentEnd: a run that failed has no messages; one to which nothing was *)
(* added, by the count, is not saved.  The summarizer is a model call.     *)
AgentEnds(r) ==
  /\ run[r].at = "built"
  /\ \/ run' = Over(r)                                            \* AllMsgs is nil
     \/ IF 0 < lastSavedMsgCount /\ lastSavedMsgCount < run[r].all
        THEN \E summary \in BOOLEAN : run' = [Goes(r, "summarised") EXCEPT ![r].summary = summary]
        ELSE run' = Goes(r, "forgotten")
  /\ UNCHANGED <<settings, lastSavedMsgCount, window, store, archive, file, reset, breaks,
                 disturbed, tangled>>

CountsRun(r) ==
  /\ run[r].at = "summarised"
  /\ interactionCount' = interactionCount + 1
  /\ run' = [Goes(r, "counted") EXCEPT ![r].number = interactionCount',
                                       ![r].all = 0]
  /\ UNCHANGED <<settings, lastSavedMsgCount, interactions, saved, evicted, store, archive, file,
                 reset, breaks, disturbed, tangled>>

-----------------------------------------------------------------------------
(* saveInteraction: append, evict what is too much - the oldest, or one of *)
(* the least important - and insert the summary into the store.            *)
AnyVictim(s) == DOMAIN s
Victims(s) == IF ~ scoring THEN {1}
              ELSE {i \in DOMAIN s : \A j \in DOMAIN s : s[i].importance <= s[j].importance}

(* rebuildLocked: once there are enough leaves without a group, they make  *)
(* one, which goes to the end of the roots.                                *)
Leaves(s) == SelectSeq(s, LAMBDA root : Len(root) = 1)
Groups(s) == SelectSeq(s, LAMBDA root : Len(root) > 1)
DropsLast(s) == Append(Groups(s), FlattenSeq(Front(Leaves(s))))
Grouped(s) == Append(Groups(s), FlattenSeq(Leaves(s)))
Insert(leaf) ==
  LET s == Append(roots, <<leaf>>)
  IN IF Len(Leaves(s)) < GroupSize THEN s ELSE Grouped(s)

SaveInteraction(r) ==
  /\ run[r].at = "counted"
  /\ \E importance \in Scores :
       LET item == [run |-> r, importance |-> importance]
           grown == Append(interactions, item)
       IN /\ saved' = Append(saved, item)
          /\ scoring \/ importance = CHOOSE x \in Scores : TRUE
          /\ IF Len(grown) <= MaxInteractions
             THEN interactions' = grown /\ UNCHANGED evicted
             ELSE \E i \in Victims(grown) :
                    /\ interactions' = RemoveAt(grown, i)
                    /\ evicted' = evicted \cup {[item |-> grown[i], after |-> Len(saved')]}
  /\ IF run[r].summary THEN roots' = Insert(r) /\ inserted' = Append(inserted, r)
     ELSE UNCHANGED store
  /\ run' = Goes(r, "saved")
  /\ UNCHANGED <<settings, lastSavedMsgCount, interactionCount, archive, file, reset, breaks,
                 disturbed, tangled>>

-----------------------------------------------------------------------------
(* AddSession keeps the newest MaxArchiveSessions. *)
WithSession(runs) ==
  LET s == Append(sessions, runs)
  IN IF Len(s) > MaxArchiveSessions THEN Tail(s) ELSE s

(* Save: a copy under the lock, the file after it; nothing is written of   *)
(* an empty archive.                                                       *)
Copying == {r \in Runs : run[r].copy # <<>>}
Tangles(others) == tangled' = (tangled \/ others)

ArchivesRun(r) ==
  /\ run[r].at = "saved"
  /\ IF run[r].number % ArchiveSaveInterval = 0 /\ run[r].summary
     THEN sessions' = WithSession({r}) /\ run' = Goes(r, "archived")
     ELSE run' = Goes(r, "filed") /\ UNCHANGED sessions
  /\ UNCHANGED <<settings, lastSavedMsgCount, window, store, ready, file, reset, breaks, disturbed,
                 tangled>>

(* A sweep forgets sessions, if the archive was loaded. *)
NeverSaved(changed) == FALSE
SavedIf(changed) == changed
Decays(r) ==
  /\ run[r].at = "filed"
  /\ \E forgotten \in SUBSET ToSet(sessions) :
       /\ Cardinality(forgotten) <= MaxForget /\ (forgotten # {} => ready)
       /\ sessions' = SelectSeq(sessions, LAMBDA s : s \notin forgotten)
       /\ run' = IF SavedIf(forgotten # {}) THEN Goes(r, "decayed") ELSE Over(r)
  /\ UNCHANGED <<settings, lastSavedMsgCount, window, store, ready, file, reset, breaks, disturbed,
                 tangled>>

AfterSave(r) ==
  IF run[r].at = "archived" THEN [Goes(r, "filed") EXCEPT ![r].copy = <<>>] ELSE Over(r)
SaveCopies(r) ==
  /\ run[r].at \in {"archived", "decayed"} /\ run[r].copy = <<>>
  /\ IF sessions = <<>> THEN run' = AfterSave(r)
     ELSE run' = [run EXCEPT ![r].copy = sessions]
  /\ Tangles(Copying # {} \/ reset.copy # <<>>)
  /\ UNCHANGED <<settings, lastSavedMsgCount, window, store, archive, file, reset, breaks, disturbed>>

SaveWrites(r) ==
  /\ run[r].copy # <<>>
  /\ file' = run[r].copy
  /\ run' = AfterSave(r)
  /\ UNCHANGED <<settings, lastSavedMsgCount, window, store, archive, reset, breaks, disturbed,
                 tangled>>

-----------------------------------------------------------------------------
(* Reset: the window is emptied under the lock; a summary of its last      *)
(* three goes to the archive and its file, and then the store is cleared.  *)
LastOf(s, n) == IF Len(s) > n THEN SubSeq(s, Len(s) - n + 1, Len(s)) ELSE s
Summarised(s) == {q \in {s[i].run : i \in DOMAIN s} : run[q].summary}
ResetBegins ==
  /\ reset.at = "idle" /\ breaks < MaxBreaks
  /\ breaks' = breaks + 1
  /\ LET runs == IF interactionCount > 0 THEN Summarised(LastOf(interactions, 3)) ELSE {}
     IN reset' = [reset EXCEPT !.runs = runs, !.at = IF runs = {} THEN "clears" ELSE "archives"]
  /\ interactions' = <<>> /\ interactionCount' = 0 /\ saved' = <<>> /\ evicted' = {}
  /\ disturbed' = disturbed \cup Active
  /\ UNCHANGED <<settings, lastSavedMsgCount, store, archive, file, run, tangled>>

ResetArchives ==
  /\ reset.at = "archives" /\ reset' = [reset EXCEPT !.at = "saves"]
  /\ sessions' = WithSession(reset.runs)
  /\ UNCHANGED <<settings, lastSavedMsgCount, window, store, ready, file, run, breaks, disturbed,
                 tangled>>

ResetCopies ==
  /\ reset.at = "saves"
  /\ reset' = [reset EXCEPT !.at = IF sessions = <<>> THEN "clears" ELSE "writes", !.copy = sessions]
  /\ Tangles(Copying # {})
  /\ UNCHANGED <<settings, lastSavedMsgCount, window, store, archive, file, run, breaks, disturbed>>

ResetWrites ==
  /\ reset.at = "writes" /\ file' = reset.copy
  /\ reset' = [reset EXCEPT !.at = "clears", !.copy = <<>>]
  /\ UNCHANGED <<settings, lastSavedMsgCount, window, store, archive, run, breaks, disturbed,
                 tangled>>

ResetClears ==
  /\ reset.at = "clears" /\ reset' = Idle
  /\ roots' = <<>> /\ inserted' = <<>>
  /\ UNCHANGED <<settings, lastSavedMsgCount, window, archive, file, run, breaks, disturbed,
                 tangled>>

(* The process ends and starts again; a file that was being written may be *)
(* torn.  Register then loads the archive, and goes on without it when the *)
(* file cannot be read.                                                    *)
Restart ==
  /\ breaks < MaxBreaks /\ breaks' = breaks + 1
  /\ \E left \in {file} \cup (IF Copying # {} \/ reset.copy # <<>> THEN {Torn} ELSE {}) :
       /\ file' = left
       /\ ready' = (left # Torn)
       /\ sessions' = IF left = Torn THEN <<>> ELSE left
  /\ run' = [r \in Runs |-> IF r \in Active THEN [New EXCEPT !.at = "done"]
                            ELSE run[r]]
  /\ reset' = Idle /\ roots' = <<>> /\ inserted' = <<>>
  /\ interactions' = <<>> /\ interactionCount' = 0 /\ saved' = <<>> /\ evicted' = {}
  /\ lastSavedMsgCount' = 0 /\ tangled' = FALSE
  /\ UNCHANGED <<settings, disturbed>>

MemoryNext ==
  \/ \E r \in Runs :
       \/ MessagesBuilt(r) \/ AgentEnds(r) \/ CountsRun(r) \/ SaveInteraction(r)
       \/ ArchivesRun(r) \/ Decays(r) \/ SaveCopies(r) \/ SaveWrites(r)
  \/ ResetBegins \/ ResetArchives \/ ResetCopies \/ ResetWrites \/ ResetClears
  \/ Restart

MemorySpec == MemoryInit /\ [][MemoryNext]_memoryVars

-----------------------------------------------------------------------------
MemoryTypeOK ==
  /\ lastSavedMsgCount \in 0..4 /\ interactionCount \in 0..MaxRuns
  /\ \A i \in DOMAIN interactions : interactions[i].run \in Runs /\ interactions[i].importance \in Scores
  /\ ready \in BOOLEAN /\ Len(sessions) <= MaxArchiveSessions
  /\ \A r \in Runs : run[r].at \in {"new", "built", "summarised", "counted", "saved", "archived",
                                   "filed", "decayed", "done", "forgotten"}
  /\ reset.at \in {"idle", "archives", "saves", "writes", "clears"}

(* The window holds what was said last, or what mattered most: in the      *)
(* order it was saved, and no interaction went while a less important one, *)
(* or without scores an older one, stayed (memory.go:494-527).             *)
Place(item) == CHOOSE i \in DOMAIN saved : saved[i] = item
WindowIsFair ==
  /\ Len(interactions) <= MaxInteractions
  /\ \A i, j \in DOMAIN interactions : i < j => Place(interactions[i]) < Place(interactions[j])
  /\ \A e \in evicted : \A i \in DOMAIN interactions :
       LET kept == interactions[i]
       IN Place(kept) <= e.after =>
            IF scoring THEN e.item.importance <= kept.importance
            ELSE Place(e.item) < Place(kept)

(* The store holds every summary once, groups and leaves in the order they *)
(* came (memory_store.go:174).                                             *)
StoreIsComplete ==
  /\ FlattenSeq(roots) = inserted
  /\ \A i \in DOMAIN roots : Len(roots[i]) \in {1, GroupSize}
  /\ Len(Leaves(roots)) < GroupSize

(* When no save is under way and no two have met, the file holds what the  *)
(* archive does: what a restart finds (archive_memory.go:92).              *)
FileIsCurrent ==
  ~ tangled /\ ready /\ sessions # <<>> /\ reset.at \notin {"saves", "writes"}
    /\ (\A r \in Runs : run[r].at \notin {"archived", "decayed"}) => file = sessions

(* A run that was alone is remembered, unless memory was put into its      *)
(* messages (memory.go:247).                                               *)
RunsAreRemembered ==
  \A r \in Runs : run[r].at = "forgotten" => r \in disturbed \/ run[r].injected

MemoryIsKept == WindowIsFair /\ StoreIsComplete /\ FileIsCurrent /\ RunsAreRemembered

(* Not what the code does: the section that memory adds is counted, though *)
(* it becomes part of the one system message, so that a run that only      *)
(* answers is taken for one that added nothing (memory.go:235, 252); and   *)
(* an archive that a sweep has emptied is not written, so its sessions are *)
(* back at the next start (archive_memory.go:97).                          *)
AloneIsRemembered == \A r \in Runs : run[r].at = "forgotten" => r \in disturbed
EmptyIsCurrent ==
  ~ tangled /\ ready /\ reset.at \notin {"saves", "writes"}
    /\ (\A r \in Runs : run[r].at \notin {"archived", "decayed"}) => file = sessions
=============================================================================
