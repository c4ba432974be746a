------------------------------- MODULE MCStores -------------------------------
(***************************************************************************)
(* What a process keeps and hands out again, each on a small instance: the *)
(* output store of a job (TailStore), the session log with its document    *)
(* store (SessionLog), the checkpoint stores (CheckpointStore), the        *)
(* reminders in the log (Schedule), the goal document with its rounds      *)
(* (Goals), the event hub (Hub), the plain session services                *)
(* (PlainSessions), the projections of a log (Projection), the layered     *)
(* registries (ScopedRegistry) and the catalogs of skills and tools        *)
(* (Catalogs).  part says which of them a behaviour is about; the others   *)
(* stay in their initial state.                                            *)
(***************************************************************************)
EXTENDS TailStore, SessionLog, CheckpointStore, Schedule, Goals, PlainSessions

CONSTANTS Subscribers, SubBuffer, ReplayCap, MaxSeq
VARIABLES subs, queue, recent, published, sending, todo, step, client, since, view,
          watermark, missed
hubVars == <<subs, queue, recent, published, sending, todo, step, client, since, view,
             watermark, missed>>
Stream == INSTANCE Hub

CONSTANTS Units, MaxLog, MaxAttaches
VARIABLES log, unit, folded, replay, bound, fed, attaches, closing, tracked, overlapped
projectionVars == <<log, unit, folded, replay, bound, fed, attaches, closing, tracked,
                    overlapped>>
Views == INSTANCE Projection WITH view <- folded, todo <- replay, subs <- fed

CONSTANTS Depth, Names, Callers, MaxCalls
VARIABLES items, parent, call, calls, stage, heard, visible, seen, mixed
registryVars == <<items, parent, call, calls, stage, heard, visible, seen, mixed>>
Layered == INSTANCE ScopedRegistry

CONSTANTS Dirs, Skills, Tools, MaxEdits, MaxRefreshes, MaxToolCalls
VARIABLES disk, edits, roots, entries, adding, fresh, refreshes, scanned, raced,
          tools, list, cached, toolCalls
skillVars == <<disk, edits, roots, entries, adding, fresh, refreshes, scanned, raced>>
toolVars == <<tools, list, cached, toolCalls>>
catalogVars == <<skillVars, toolVars>>
Catalog == INSTANCE Catalogs WITH cache <- list

(* Bounds of a hub below one fall back to the defaults (hub.go:109); what  *)
(* marks "no layer", "no root" or an unread directory is not itself a name. *)
ASSUME ReadersAssumption ==
  /\ SubBuffer \in Nat \ {0} /\ ReplayCap \in Nat \ {0} /\ MaxSeq \in Nat
  /\ MaxLog \in Nat /\ MaxAttaches \in Nat
  /\ Depth \in Nat \ {0} /\ "none" \notin Names
  /\ "none" \notin DOMAIN Dirs /\ {"broken", "never"} \cap Skills = {}
  /\ \A d \in DOMAIN Dirs : Dirs[d].rank \in Int /\ Dirs[d].layer \in Int

VARIABLE part
keptVars == <<vars, sessionVars, checkpointVars, plainVars>>
serviceVars == <<scheduleVars, goalVars, hubVars>>
readVars == <<projectionVars, registryVars, catalogVars>>
allVars == <<keptVars, serviceVars, readVars, part>>

StoresInit ==
  /\ part \in {"tail", "session", "checkpoint", "schedule", "goal", "hub", "plain",
               "projection", "registry", "skills", "tools"}
  /\ Init /\ SessionInit /\ CheckpointInit /\ (part # "checkpoint" => kind = "memory")
  /\ ScheduleInit /\ GoalsInit /\ Stream!HubInit
  /\ PlainInit /\ (part # "plain" => service = "memory")
  /\ Views!ProjectionInit /\ Layered!RegistryInit /\ Catalog!CatalogsInit

KeptNext ==
  \/ /\ part = "tail" /\ Next
     /\ UNCHANGED <<sessionVars, checkpointVars, plainVars>>
  \/ /\ part = "session" /\ SessionNext
     /\ UNCHANGED <<vars, checkpointVars, plainVars>>
  \/ /\ part = "checkpoint" /\ CheckpointNext
     /\ UNCHANGED <<vars, sessionVars, plainVars>>
  \/ /\ part = "plain" /\ PlainNext
     /\ UNCHANGED <<vars, sessionVars, checkpointVars>>
ServiceNext ==
  \/ part = "schedule" /\ ScheduleNext /\ UNCHANGED <<goalVars, hubVars>>
  \/ part = "goal" /\ GoalsNext /\ UNCHANGED <<scheduleVars, hubVars>>
  \/ part = "hub" /\ Stream!HubNext /\ UNCHANGED <<scheduleVars, goalVars>>
ReadNext ==
  \/ part = "projection" /\ Views!ProjectionNext /\ UNCHANGED <<registryVars, catalogVars>>
  \/ part = "registry" /\ Layered!RegistryNext /\ UNCHANGED <<projectionVars, catalogVars>>
  \/ part = "skills" /\ Catalog!SkillsNext /\ UNCHANGED <<projectionVars, registryVars, toolVars>>
  \/ part = "tools" /\ Catalog!ToolsNext /\ UNCHANGED <<projectionVars, registryVars, skillVars>>

StoresNext ==
  /\ UNCHANGED part
  /\ \/ KeptNext /\ UNCHANGED <<serviceVars, readVars>>
     \/ ServiceNext /\ UNCHANGED <<keptVars, readVars>>
     \/ ReadNext /\ UNCHANGED <<keptVars, serviceVars>>

StoresSpec == StoresInit /\ [][StoresNext]_allVars

-----------------------------------------------------------------------------
(* Every variable of the part that moves keeps its type.                   *)
TypesOK == CASE part = "tail" -> TypeOK
             [] part = "session" -> SessionTypeOK
             [] part = "checkpoint" -> CheckpointTypeOK
             [] part = "schedule" -> ScheduleTypeOK
             [] part = "goal" -> GoalsTypeOK
             [] part = "hub" -> Stream!HubTypeOK
             [] part = "plain" -> PlainTypeOK
             [] part = "projection" -> Views!ProjectionTypeOK
             [] part = "registry" -> Layered!RegistryTypeOK
             [] part \in {"skills", "tools"} -> Catalog!CatalogsTypeOK

(* A subscriber of the hub sees the stream in order, without gaps but for  *)
(* what the hub dropped, and never loses the newest event; a projection    *)
(* has folded each event of the log it follows, in order; a consumer of a  *)
(* layered registry holds what the registry shows; the catalog of skills   *)
(* has the one that takes precedence among those scanned, with every root  *)
(* read, and a list of tools is the current one.                           *)
ReadersKeepUp ==
  /\ Stream!NewestIsKept /\ Stream!CatchesUp
  /\ part = "projection" => Views!ViewsFollowTheLog
  /\ part = "registry" => Layered!FeedFollowsView
  /\ part = "skills" => Catalog!PrecedenceDecides /\ Catalog!RootsAreRead
  /\ part = "tools" => Catalog!ListIsCurrent

-----------------------------------------------------------------------------
CONSTANTS readerA, readerB, trimA, saveA, saveB, watcherA, idA, idB, idC, sessionA, sessionB,
          subA, subB, runA, runB, unitA, unitB, nameA, nameB, callerA, callerB
TwoReaders == {readerA, readerB}
Sizes == {0, 1, 2, 4}
OneTrim == {trimA}
TwoSaves == {saveA, saveB}
OneWatcher == {watcherA}
Keep == {1}
ThreeIds == {idA, idB, idC}
BothStores == {"memory", "files"}
TwoIds == {idA, idB}
OnceAndEvery == {"once", "every"}
TwoSessions == {sessionA, sessionB}
TwoSubscribers == {subA, subB}
TwoServices == {"memory", "files"}
TwoRuns == {runA, runB}
TwoUnits == {unitA, unitB}
TwoNames == {nameA, nameB}
TwoCallers == {callerA, callerB}
ThreeDirs == [user |-> [rank |-> 1, layer |-> 1], shared |-> [rank |-> 0, layer |-> 1],
              project |-> [rank |-> 1, layer |-> 2]]
=============================================================================
