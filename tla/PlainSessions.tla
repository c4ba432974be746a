----------------------------- MODULE PlainSessions -----------------------------
(***************************************************************************)
(* The session services that keep a whole session at a time, in memory     *)
(* (module/session/inmemory.go) or in one file each (filesystem.go), the   *)
(* session they hand out (session.go) and the observer that adds a         *)
(* finished run to its session (observer.go).                              *)
(*                                                                         *)
(* A session handed out is an object: the file service gives every caller  *)
(* the same one, the memory service gives each a copy.  A run is told by   *)
(* its observer; the messages and the tokens it adds are that name.        *)
(***************************************************************************)
EXTENDS Integers, Sequences, FiniteSets, SequencesExt

CONSTANTS Services,    \* "memory", "files"
          Runs,        \* runs that end, each with its observer
          MaxSessions, MaxObjects, MaxRestarts, MaxDeletes

SessionIds == 1..MaxSessions

ASSUME PlainAssumption == MaxSessions \in Nat /\ Services \subseteq {"memory", "files"}

NoFile == [text |-> "none"]
TornFile == [text |-> "torn"]

VARIABLES
  service,
  objects,   \* sequence of sessions in memory: [id, msgs, tokens, status]
  cache,     \* sessions of the memory service, sessionCache of the file service: an object, or 0
  index,     \* userIdx: the ids, in order
  file,      \* the session files
  indexFile, \* _index.json, or torn
  alive,
  made,      \* sessions created so far
  obs,       \* the observers: at, the object they hold
  saved,     \* runs whose Save returned without an error (history)
  excused,   \* runs whose session was deleted, torn or overwritten from an older copy (history)
  restarts, deletes

plainVars == <<service, objects, cache, index, file, indexFile, alive, made, obs, saved, excused,
               restarts, deletes>>

Quiet == [at |-> "idle", held |-> 0]
Doc(s) == [text |-> "whole", msgs |-> s.msgs, tokens |-> s.tokens, status |-> s.status]

IndexDoc(ids) == [text |-> "whole", ids |-> ids]

PlainInit ==
  /\ service \in Services
  /\ objects = <<>>
  /\ cache = [i \in SessionIds |-> 0]
  /\ index = <<>>
  /\ file = [i \in SessionIds |-> NoFile]
  /\ indexFile = IndexDoc(<<>>)
  /\ alive = TRUE /\ made = 0
  /\ obs = [r \in Runs |-> Quiet]
  /\ saved = {} /\ excused = {}
  /\ restarts = 0 /\ deletes = 0

-----------------------------------------------------------------------------
(* An object for session id.                                               *)
NewSession(id) == [id |-> id, msgs |-> <<>>, tokens |-> {}, status |-> "active"]
FromFile(id) == [id |-> id, msgs |-> file[id].msgs, tokens |-> file[id].tokens,
                 status |-> file[id].status]
ObjectRoom == Len(objects) < MaxObjects
New == Len(objects) + 1
Allocate(s) == ObjectRoom /\ objects' = Append(objects, s)

Registered(id) == IF Contains(index, id) THEN index ELSE Append(index, id)

(* Create: in memory the object itself is stored and returned; on disk the *)
(* file and the index are written as well.                                 *)
CreateSession ==
  /\ made < MaxSessions /\ made' = made + 1
  /\ Allocate(NewSession(made + 1))
  /\ cache' = [cache EXCEPT ![made + 1] = New]
  /\ index' = Append(index, made + 1)
  /\ IF service = "files"
     THEN /\ file' = [file EXCEPT ![made + 1] = Doc(NewSession(made + 1))]
          /\ indexFile' = IndexDoc(index')
     ELSE UNCHANGED <<file, indexFile>>

(* Get: the cached object of the file service, or an object of its own,    *)
(* copied from the stored one or read from the file and then cached.       *)
Readable(id) == cache[id] # 0 \/ (service = "files" /\ file[id].text = "whole")
SharesNever(id) == FALSE
Shares(id) == service = "files" /\ cache[id] # 0
Handed(id) == IF Shares(id) THEN cache[id] ELSE New
GetSession(id) ==
  IF Shares(id) THEN UNCHANGED <<objects, cache>>
  ELSE /\ Allocate(IF cache[id] # 0 THEN objects[cache[id]] ELSE FromFile(id))
       /\ cache' = IF service = "files" THEN [cache EXCEPT ![id] = New] ELSE cache

UserCreates ==
  /\ alive /\ CreateSession
  /\ UNCHANGED <<service, alive, obs, saved, excused, restarts, deletes>>

(* A run ends: its observer loads the session the run names, or creates    *)
(* one when there is none or it cannot be read.                            *)
ObserverLoads(r, id) ==
  /\ alive /\ obs[r].at = "idle" /\ Readable(id) /\ GetSession(id)
  /\ obs' = [obs EXCEPT ![r] = [at |-> "loaded", held |-> Handed(id)]]
  /\ UNCHANGED <<service, index, file, indexFile, alive, made, saved, excused, restarts, deletes>>
ObserverCreates(r) ==
  /\ alive /\ obs[r].at = "idle" /\ CreateSession
  /\ obs' = [obs EXCEPT ![r] = [at |-> "loaded", held |-> New]]
  /\ UNCHANGED <<service, alive, saved, excused, restarts, deletes>>
CreateFails(r) ==
  /\ alive /\ obs[r].at = "idle" /\ service = "files"
  /\ obs' = [obs EXCEPT ![r].at = "failed"]
  /\ UNCHANGED <<service, objects, cache, index, file, indexFile, alive, made, saved, excused,
                 restarts, deletes>>

(* SetStatus and AddMessages, then AddTokenUsage, each under the session's *)
(* own lock.                                                               *)
ObserverAppends(r, status) ==
  /\ alive /\ obs[r].at = "loaded"
  /\ objects' = [objects EXCEPT ![obs[r].held].status = status,
                                ![obs[r].held].msgs = Append(@, r)]
  /\ obs' = [obs EXCEPT ![r].at = "added"]
  /\ UNCHANGED <<service, cache, index, file, indexFile, alive, made, saved, excused, restarts,
                 deletes>>
ObserverCounts(r) ==
  /\ alive /\ obs[r].at = "added"
  /\ objects' = [objects EXCEPT ![obs[r].held].tokens = @ \cup {r}]
  /\ obs' = [obs EXCEPT ![r].at = "counted"]
  /\ UNCHANGED <<service, cache, index, file, indexFile, alive, made, saved, excused, restarts,
                 deletes>>

(* Save: in memory the object replaces the stored one; on disk the file is *)
(* written from it, the object is cached and the index completed.  In      *)
(* memory that undoes every run saved since this one's copy was made.      *)
RunsIn(s) == ToSet(s.msgs)
StoredRuns(id) ==
  IF cache[id] # 0 THEN RunsIn(objects[cache[id]])
  ELSE IF file[id].text = "whole" THEN RunsIn(file[id]) ELSE {}
Overwritten(r) ==
  LET s == objects[obs[r].held]
  IN IF service = "memory" THEN StoredRuns(s.id) \ RunsIn(s) ELSE {}
ObserverSaves(r) ==
  LET s == objects[obs[r].held]
  IN /\ alive /\ obs[r].at = "counted"
     /\ cache' = [cache EXCEPT ![s.id] = obs[r].held]
     /\ IF service = "files"
        THEN /\ file' = [file EXCEPT ![s.id] = Doc(s)]
             /\ index' = Registered(s.id)
             /\ indexFile' = IF Contains(index, s.id) THEN indexFile ELSE IndexDoc(index')
        ELSE UNCHANGED <<index, file, indexFile>>
     /\ obs' = [obs EXCEPT ![r] = [at |-> "saved", held |-> 0]]
     /\ saved' = saved \cup {r}
     /\ excused' = excused \cup Overwritten(r)
     /\ UNCHANGED <<service, objects, alive, made, restarts, deletes>>

(* The write fails and leaves a torn file; the observer drops the error.   *)
ObserverSaveFails(r) ==
  LET s == objects[obs[r].held]
  IN /\ alive /\ obs[r].at = "counted" /\ service = "files"
     /\ file' = [file EXCEPT ![s.id] = TornFile]
     /\ obs' = [obs EXCEPT ![r] = [at |-> "failed", held |-> 0]]
     /\ excused' = excused \cup StoredRuns(s.id)
     /\ UNCHANGED <<service, objects, cache, index, indexFile, alive, made, saved, restarts, deletes>>

(* Delete: the file, the cached object and the index entries, in order.    *)
Without(ids, id) ==
  LET kept == {i \in 1..Len(ids) : ids[i] # id}
  IN [n \in 1..Cardinality(kept) |->
        ids[CHOOSE i \in kept : Cardinality({j \in kept : j <= i}) = n]]
DeleteSession(id) ==
  /\ alive /\ deletes < MaxDeletes /\ deletes' = deletes + 1
  /\ id <= made
  /\ excused' = excused \cup StoredRuns(id)
  /\ cache' = [cache EXCEPT ![id] = 0]
  /\ file' = [file EXCEPT ![id] = NoFile]
  /\ index' = Without(index, id)
  /\ indexFile' = IF service = "files" THEN IndexDoc(index') ELSE indexFile
  /\ UNCHANGED <<service, objects, alive, made, obs, saved, restarts>>

(* List puts the sessions it reads from files into the cache.              *)
List ==
  /\ alive /\ service = "files"
  /\ \E id \in SessionIds : Contains(index, id) /\ cache[id] = 0 /\ Readable(id) /\ GetSession(id)
  /\ UNCHANGED <<service, index, file, indexFile, alive, made, obs, saved, excused, restarts, deletes>>

-----------------------------------------------------------------------------
(* The process ends: objects, cache and the memory service are gone.  It   *)
(* may be in the middle of writing a session's file or the index.          *)
Held(id) == \E r \in Runs : obs[r].at = "counted" /\ objects[obs[r].held].id = id
ServiceEnds ==
  /\ alive /\ service = "files" /\ restarts < MaxRestarts /\ restarts' = restarts + 1
  /\ alive' = FALSE
  /\ objects' = <<>> /\ cache' = [i \in SessionIds |-> 0] /\ index' = <<>>
  /\ obs' = [r \in Runs |-> IF obs[r].at \in {"saved", "failed", "idle"} THEN obs[r]
                            ELSE [at |-> "failed", held |-> 0]]
  /\ \/ UNCHANGED <<file, indexFile, excused>>
     \/ \E id \in SessionIds : /\ Held(id)
                        /\ file' = [file EXCEPT ![id] = TornFile]
                        /\ excused' = excused \cup StoredRuns(id)
                        /\ UNCHANGED indexFile
     \/ /\ made > 0 /\ indexFile' = TornFile /\ UNCHANGED <<file, excused>>
  /\ UNCHANGED <<service, made, saved, deletes>>

(* ensureIndexLoaded: an index that does not parse counts as empty.        *)
ServiceStarts ==
  /\ ~alive /\ alive' = TRUE
  /\ index' = IF indexFile = TornFile THEN <<>> ELSE indexFile.ids
  /\ UNCHANGED <<service, objects, cache, file, indexFile, made, obs, saved, excused, restarts,
                 deletes>>

PlainNext ==
  \/ UserCreates \/ List \/ ServiceEnds \/ ServiceStarts
  \/ \E id \in SessionIds : DeleteSession(id)
  \/ \E r \in Runs :
       \/ \E id \in SessionIds : ObserverLoads(r, id)
       \/ ObserverCreates(r) \/ CreateFails(r)
       \/ \E s \in {"completed", "error"} : ObserverAppends(r, s)
       \/ ObserverCounts(r) \/ ObserverSaves(r) \/ ObserverSaveFails(r)

PlainSpec == PlainInit /\ [][PlainNext]_plainVars

-----------------------------------------------------------------------------
PlainTypeOK ==
  /\ service \in Services /\ alive \in BOOLEAN /\ made \in 0..MaxSessions
  /\ \A i \in 1..Len(objects) : objects[i].id \in SessionIds /\ objects[i].tokens \subseteq Runs
  /\ cache \in [SessionIds -> 0..Len(objects)]
  /\ ToSet(index) \subseteq SessionIds
  /\ \A r \in Runs : obs[r].at \in {"idle", "loaded", "added", "counted", "saved", "failed"}
  /\ saved \subseteq Runs /\ excused \subseteq Runs

(* A run that was saved stays in its session, in memory and in the file.   *)
(* The exceptions: the session was deleted, a write of its file did not    *)
(* finish, or, in memory only, a run that had loaded the session before    *)
(* was saved after (observer.go:56, inmemory.go Get and Save).             *)
SavedRunsStay ==
  \A r \in saved \ excused :
    /\ \E id \in SessionIds : r \in StoredRuns(id)
    /\ service = "files" => \E id \in SessionIds : file[id].text = "whole" /\ r \in RunsIn(file[id])

(* A run is in one session, once, and its tokens are counted with its      *)
(* messages: a file never has the tokens of a run whose messages it lacks. *)
RunsAreFiledOnce ==
  \A id \in SessionIds : file[id].text = "whole" =>
    /\ file[id].tokens \subseteq RunsIn(file[id])
    /\ Cardinality(RunsIn(file[id])) = Len(file[id].msgs)
    /\ \A other \in SessionIds \ {id} :
         file[other].text = "whole" => RunsIn(file[other]) \cap RunsIn(file[id]) = {}

(* What was saved is there: a finished run that was saved stays in its     *)
(* session, once, with its tokens, unless the session was deleted, torn or *)
(* overwritten from a copy made before.                                    *)
SavesAreKept == SavedRunsStay /\ RunsAreFiledOnce

(* The run's session is loaded or created (observer.go:36), so no finished *)
(* run is lost.  Not kept by the memory service when two runs overlap.     *)
NoRunIsLost == \A r \in saved : deletes = 0 => \E id \in SessionIds : r \in StoredRuns(id)
=============================================================================
