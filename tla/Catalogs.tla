------------------------------- MODULE Catalogs -------------------------------
(***************************************************************************)
(* The catalogs a run reads: the skills of layered roots                   *)
(* (core/skill/registry.go) and the tools of a runner                      *)
(* (core/tool/registry.go).                                                *)
(*                                                                         *)
(* A root is a directory with a rank and a layer; what it holds on disk    *)
(* changes at any time.  AddRoot and Refresh read directories outside the  *)
(* registry's lock.  The tool registry keeps a sorted list until a tool is *)
(* added or removed.                                                       *)
(***************************************************************************)
EXTENDS Integers, Sequences, FiniteSets, SequencesExt

CONSTANTS Dirs,       \* [dir -> [rank, layer]]
          Skills,     \* skill names
          Tools,
          MaxEdits,   \* bound on changes of a directory
          MaxRefreshes, MaxToolCalls

VARIABLES
  disk,       \* skills each directory holds: a set of names, or broken
  edits,
  roots,      \* Registry.roots, in order
  entries,    \* the winner for each skill: the root it comes from, or none
  adding,     \* AddRoot calls: the directory, what the scan found
  fresh,      \* the Refresh in flight: roots still to scan, entries so far
  refreshes,
  scanned,    \* what the last scan of each root in entries found (history)
  raced,      \* an AddRoot finished while the last Refresh was running (history)
  tools, cache, cached, toolCalls

skillVars == <<disk, edits, roots, entries, adding, fresh, refreshes, scanned, raced>>
toolVars == <<tools, cache, cached, toolCalls>>
catalogVars == <<skillVars, toolVars>>

Broken == {"broken"}
NoRoot == "none"
Nothing == [s \in Skills |-> NoRoot]
Never == {"never"}
Unscanned == [d \in DOMAIN Dirs |-> Never]
NoRefresh == [on |-> FALSE, todo |-> <<>>, entries |-> Nothing, scanned |-> Unscanned, late |-> FALSE]

CatalogsInit ==
  /\ disk = [d \in DOMAIN Dirs |-> {}] /\ edits = 0
  /\ roots = <<>> /\ entries = Nothing
  /\ adding = Unscanned
  /\ fresh = NoRefresh /\ refreshes = 0
  /\ scanned = Unscanned /\ raced = FALSE
  /\ tools = {} /\ cache = {} /\ cached = FALSE /\ toolCalls = 0

-----------------------------------------------------------------------------
(* insert: a later layer wins, within one the lower rank, and otherwise    *)
(* the entry that is there.                                                *)
BeatsByRank(d, e) == Dirs[d].rank < Dirs[e].rank
Beats(d, e) == Dirs[d].layer > Dirs[e].layer
               \/ (Dirs[d].layer = Dirs[e].layer /\ Dirs[d].rank < Dirs[e].rank)
Inserted(es, d, names) ==
  [s \in Skills |-> IF s \in names /\ (es[s] = NoRoot \/ Beats(d, es[s])) THEN d ELSE es[s]]

(* A directory changes.                                                    *)
Edit(d, names) ==
  /\ edits < MaxEdits /\ edits' = edits + 1
  /\ disk' = [disk EXCEPT ![d] = names]
  /\ UNCHANGED <<roots, entries, adding, fresh, refreshes, scanned, raced>>

(* AddRoot: the scan outside the lock, a broken skill ends it; then the    *)
(* root and its candidates under the lock.                                 *)
AddRootScans(d) ==
  /\ adding[d] = Never /\ ~Contains(roots, d) /\ disk[d] # Broken
  /\ adding' = [adding EXCEPT ![d] = disk[d]]
  /\ UNCHANGED <<disk, edits, roots, entries, fresh, refreshes, scanned, raced>>
AddRootInserts(d) ==
  /\ adding[d] # Never
  /\ roots' = Append(roots, d)
  /\ entries' = Inserted(entries, d, adding[d])
  /\ scanned' = [scanned EXCEPT ![d] = adding[d]]
  /\ adding' = [adding EXCEPT ![d] = Never]
  /\ fresh' = [fresh EXCEPT !.late = @ \/ fresh.on]
  /\ UNCHANGED <<disk, edits, refreshes, raced>>

(* Refresh: a copy of the roots, a new catalog root by root, and the       *)
(* entries replaced at once; a broken skill leaves them as they were.      *)
RefreshStarts ==
  /\ ~fresh.on /\ refreshes < MaxRefreshes /\ refreshes' = refreshes + 1
  /\ fresh' = [NoRefresh EXCEPT !.on = TRUE, !.todo = roots]
  /\ UNCHANGED <<disk, edits, roots, entries, adding, scanned, raced>>
RefreshScans ==
  /\ fresh.on /\ fresh.todo # <<>>
  /\ LET d == Head(fresh.todo)
     IN fresh' = IF disk[d] = Broken THEN NoRefresh
                 ELSE [fresh EXCEPT !.todo = Tail(@), !.entries = Inserted(@, d, disk[d]),
                                    !.scanned[d] = disk[d]]
  /\ UNCHANGED <<disk, edits, roots, entries, adding, refreshes, scanned, raced>>
RefreshReplaces ==
  /\ fresh.on /\ fresh.todo = <<>>
  /\ entries' = fresh.entries /\ scanned' = fresh.scanned
  /\ fresh' = NoRefresh /\ raced' = fresh.late
  /\ UNCHANGED <<disk, edits, roots, adding, refreshes>>

-----------------------------------------------------------------------------
(* The tool registry: every operation holds the lock.                      *)
KeepsCache == cached
DropsCache == FALSE
AddTool(t) ==
  /\ t \notin tools /\ tools' = tools \cup {t} /\ cached' = DropsCache
  /\ UNCHANGED cache
RemoveTool(t) ==
  /\ t \in tools /\ tools' = tools \ {t} /\ cached' = DropsCache
  /\ UNCHANGED cache
ListTools ==
  /\ cache' = (IF cached THEN cache ELSE tools) /\ cached' = TRUE
  /\ UNCHANGED tools

SkillsNext ==
  \/ \E d \in DOMAIN Dirs : \/ \E names \in {Broken} \cup SUBSET Skills : Edit(d, names)
                            \/ AddRootScans(d) \/ AddRootInserts(d)
  \/ RefreshStarts \/ RefreshScans \/ RefreshReplaces
ToolsNext ==
  \/ /\ toolCalls < MaxToolCalls /\ toolCalls' = toolCalls + 1
     /\ \E t \in Tools : AddTool(t) \/ RemoveTool(t)
  \/ ListTools /\ UNCHANGED toolCalls
CatalogsNext == (SkillsNext /\ UNCHANGED toolVars) \/ (ToolsNext /\ UNCHANGED skillVars)

CatalogsSpec == CatalogsInit /\ [][CatalogsNext]_catalogVars

-----------------------------------------------------------------------------
CatalogsTypeOK ==
  /\ \A d \in DOMAIN Dirs : disk[d] = Broken \/ disk[d] \subseteq Skills
  /\ ToSet(roots) \subseteq DOMAIN Dirs
  /\ entries \in [Skills -> DOMAIN Dirs \cup {NoRoot}]
  /\ tools \subseteq Tools /\ cache \subseteq Tools /\ cached \in BOOLEAN

(* Of the roots whose last scan found a skill, the catalog has the one of  *)
(* the latest layer, within it of the lowest rank, and of these the one    *)
(* registered first (insert, AddRoot, Refresh), whatever the order of the  *)
(* scans.                                                                  *)
Order(d) == CHOOSE i \in 1..Len(roots) : roots[i] = d
Wins(d, s) ==
  \A e \in ToSet(roots) \ {d} :
    s \in scanned[e] =>
      LET p == Dirs[d]  q == Dirs[e]
      IN \/ p.layer > q.layer
         \/ p.layer = q.layer /\ (p.rank < q.rank \/ (p.rank = q.rank /\ Order(d) < Order(e)))
PrecedenceDecides ==
  \A s \in Skills :
    IF entries[s] = NoRoot THEN \A d \in ToSet(roots) : s \notin scanned[d]
    ELSE entries[s] \in ToSet(roots) /\ s \in scanned[entries[s]] /\ Wins(entries[s], s)

(* Every root has been read into the catalog, unless it was added while a  *)
(* Refresh was running, which then replaces a catalog newer than its copy  *)
(* of the roots (registry.go:177), until the next Refresh.                 *)
RootsAreRead == raced \/ \A d \in ToSet(roots) : scanned[d] # Never

(* A list of tools is the tools registered at that moment.                 *)
ListIsCurrent == cached => cache = tools
=============================================================================
