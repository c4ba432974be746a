------------------------------- MODULE Artifacts -------------------------------
(***************************************************************************)
(* What is put aside for a session, one kind of it per behaviour:          *)
(* attachments stored by their content (core/attachment), long tool        *)
(* results spilled and pruned (core/spill, module/contextfilters), the     *)
(* title in the log (module/sessiontitle), and the task list of the todo   *)
(* tool.  Sizes are numbers; the attachment is one content that several    *)
(* callers save.                                                           *)
(***************************************************************************)
EXTENDS Naturals, Sequences, FiniteSets

CONSTANTS Kinds,        \* of {"attachment", "spill", "title", "todo"}
          Savers,       \* Save calls with the same bytes
          Sizes, Filters, MarkerSize, NoticeSize, MidSize, MinPreview,
          Callers,      \* Auto calls, and add calls of the todo tool
          MaxEvents, MaxFailures

VARIABLES
  subject,
  at, temp, content,     \* a Save: its place, its temporary name, its bytes
  link, linkKept,        \* which bytes the object's name is for, and if it is on disk
  durable,               \* history: the references told with the name on disk
  failures,              \* power failures and restarts
  filter, size, owned, result, stored,
  titles, auto, held, spoken, overlapped,
  tasks, nextID, adder, logged, missed
attachVars == <<at, temp, content, link, linkKept, durable>>
spillVars == <<filter, size, owned, result, stored>>
titleVars == <<titles, auto, held, spoken, overlapped>>
todoVars == <<tasks, nextID, adder, logged, missed>>
artifactVars == <<subject, attachVars, spillVars, titleVars, todoVars, failures>>

-----------------------------------------------------------------------------
(* contextfilters.New: a prune must not leave more than its threshold.     *)
AnyGeometry(f) == TRUE
Converges(f) == f.head + MarkerSize + f.tail <= f.threshold

ArtifactsInit ==
  /\ subject \in Kinds
  /\ at = [s \in Savers |-> "idle"] /\ temp = {}
  /\ content = [s \in Savers |-> "none"]
  /\ link = {} /\ linkKept = FALSE /\ durable = {} /\ failures = 0
  /\ filter \in {f \in Filters : Converges(f)} /\ size \in Sizes /\ owned \in BOOLEAN
  /\ result = [bytes |-> size, whole |-> TRUE, notice |-> FALSE, at |-> "raw"]
  /\ stored = [bytes |-> 0, torn |-> FALSE]
  /\ titles = <<>> /\ auto = [c \in Callers |-> "idle"]
  /\ held = [c \in Callers |-> "none"] /\ spoken = FALSE /\ overlapped = FALSE
  /\ tasks = {} /\ nextID = 0 /\ adder = [c \in Callers |-> 0]
  /\ logged = {} /\ missed = FALSE

-----------------------------------------------------------------------------
(* FileStore.Save: the fast path, or a temporary file that is written,     *)
(* synced and linked to the object's name, whose directory is synced.      *)
Goes(s, to) == at' = [at EXCEPT ![s] = to]
Tells(s) ==
  /\ Goes(s, "told") /\ temp' = temp \ {s}
  /\ durable' = IF linkKept' THEN durable \cup {s} ELSE durable
Stats(s) ==
  /\ at[s] = "idle"
  /\ UNCHANGED <<content, link, linkKept>>
  /\ \/ link # {} /\ Tells(s)
     \/ link = {} /\ Goes(s, "creates") /\ UNCHANGED <<temp, durable>>
Creates(s) ==
  /\ at[s] = "creates" /\ Goes(s, "writes")
  /\ temp' = temp \cup {s} /\ content' = [content EXCEPT ![s] = "part"]
  /\ UNCHANGED <<link, linkKept, durable>>
Writes(s) ==
  /\ at[s] = "writes" /\ Goes(s, "syncs")
  /\ content' = [content EXCEPT ![s] = "whole"]
  /\ UNCHANGED <<temp, link, linkKept, durable>>
NotSynced(s) == content
AfterSync(s) == [content EXCEPT ![s] = "synced"]
Syncs(s) ==
  /\ at[s] = "syncs" /\ Goes(s, "links")
  /\ content' = AfterSync(s)
  /\ UNCHANGED <<temp, link, linkKept, durable>>
Links(s) ==
  /\ at[s] = "links" /\ Goes(s, "publishes")
  /\ link' = IF link = {} THEN {s} ELSE link
  /\ UNCHANGED <<temp, content, linkKept, durable>>
Publishes(s) ==
  /\ at[s] = "publishes"
  /\ \/ linkKept' = TRUE
     \/ UNCHANGED linkKept
  /\ Tells(s) /\ UNCHANGED <<content, link>>
SaveFails(s) ==
  /\ at[s] \in {"creates", "writes", "syncs", "links"}
  /\ Goes(s, "failed") /\ temp' = temp \ {s}
  /\ UNCHANGED <<content, link, linkKept, durable>>

(* The power fails: what is not synced may be lost.                        *)
Ended == {"idle", "told", "failed", "dead"}
PowerFails ==
  /\ failures < MaxFailures /\ failures' = failures + 1
  /\ at' = [s \in Savers |-> IF at[s] \in Ended THEN at[s] ELSE "dead"]
  /\ content' \in {c \in [Savers -> {"none", "part", "whole", "synced"}] :
       \A s \in Savers : c[s] = content[s] \/ (content[s] = "whole" /\ c[s] = "part")}
  /\ link' \in {link, IF linkKept THEN link ELSE {}}
  /\ linkKept' = (link' # {})
  /\ UNCHANGED <<temp, durable>>

Saves(s) ==
  \/ Stats(s) \/ Creates(s) \/ Writes(s) \/ Syncs(s) \/ Links(s) \/ Publishes(s) \/ SaveFails(s)

-----------------------------------------------------------------------------
(* contextfilters.Module: spill stores the text and leaves a preview that  *)
(* ends in a notice of where it is, prune cuts the middle out.             *)
Spills == filter.store # "none" /\ filter.maxInline > 0 /\ size > filter.maxInline
PrunedBytes(n) == IF n <= filter.threshold THEN n ELSE filter.head + MarkerSize + filter.tail
Shortened == PrunedBytes(size)
StoredBytes == size
PreviewFits == filter.maxInline >= NoticeSize + MidSize + MinPreview
Preview == [bytes |-> filter.maxInline, whole |-> FALSE, notice |-> TRUE, at |-> "spilled"]
Raw == [result EXCEPT !.at = "spilled"]
SkipsSpill == result.at = "raw" /\ ~Spills /\ result' = Raw /\ UNCHANGED stored
SpillStores ==
  /\ result.at = "raw" /\ Spills /\ (owned \/ filter.store = "memory")
  /\ stored' = [bytes |-> StoredBytes, torn |-> FALSE]
  /\ result' = IF owned /\ PreviewFits THEN Preview ELSE Raw
SpillFails ==
  /\ result.at = "raw" /\ Spills /\ filter.store = "files"
  /\ result' = Raw /\ UNCHANGED stored
Prune(r) ==
  IF r.bytes <= filter.threshold THEN [r EXCEPT !.at = "pruned"]
  ELSE [bytes |-> PrunedBytes(r.bytes), whole |-> FALSE,
        notice |-> r.notice /\ filter.tail >= NoticeSize, at |-> "pruned"]
Prunes == result.at = "spilled" /\ result' = Prune(result) /\ UNCHANGED stored
FilterNext == (SkipsSpill \/ SpillStores \/ SpillFails \/ Prunes) /\ UNCHANGED <<filter, size, owned>>
(* A spilled file is written in place and not synced.                      *)
SpillTorn ==
  /\ failures < MaxFailures /\ failures' = failures + 1
  /\ filter.store = "files" /\ stored.bytes > 0
  /\ stored' = [stored EXCEPT !.torn = TRUE]
  /\ UNCHANGED <<filter, size, owned, result>>

-----------------------------------------------------------------------------
(* sessiontitle.Service: the last title in the log is the title; Auto      *)
(* looks, asks the provider, and appends.                                  *)
fold == IF titles = <<>> THEN "none" ELSE titles[Len(titles)]
fallback == IF spoken THEN "fallback" ELSE "none"
Asking == {c \in Callers : auto[c] = "refines"}
NeverTitled == FALSE
Titled == fold # "none"
AutoLooks(c) ==
  /\ auto[c] = "idle"
  /\ auto' = [auto EXCEPT ![c] = IF Titled THEN "over" ELSE "refines"]
  /\ held' = [held EXCEPT ![c] = IF Titled THEN @ ELSE fallback]
  /\ UNCHANGED <<titles, spoken, overlapped>>
AutoSets(c) ==
  /\ auto[c] = "refines" /\ Len(titles) < MaxEvents
  /\ auto' = [auto EXCEPT ![c] = "over"]
  /\ \E t \in {"refined", held[c]} : titles' = Append(titles, t)
  /\ UNCHANGED <<held, spoken, overlapped>>
AutoFails(c) ==
  /\ auto[c] = "refines" /\ auto' = [auto EXCEPT ![c] = "over"]
  /\ UNCHANGED <<titles, held, spoken, overlapped>>
Rename ==
  /\ Len(titles) < MaxEvents /\ titles' = Append(titles, "pinned")
  /\ overlapped' = (overlapped \/ Asking # {})
  /\ UNCHANGED <<auto, held, spoken>>
Speaks == ~spoken /\ spoken' = TRUE /\ UNCHANGED <<titles, auto, held, overlapped>>
TitleNext == Rename \/ Speaks \/ \E c \in Callers : AutoLooks(c) \/ AutoSets(c) \/ AutoFails(c)

-----------------------------------------------------------------------------
(* todoTool: an id is taken before the lock; under it the list changes and *)
(* is logged as a whole.  The log may refuse it.                           *)
Lagging(before, after) == before
Snapshot(before, after) == after
Logs(list) ==
  \/ logged' = Snapshot(tasks, list) /\ missed' = FALSE
  \/ UNCHANGED logged /\ missed' = TRUE
Numbers(c) ==
  /\ adder[c] = 0 /\ nextID' = nextID + 1
  /\ adder' = [adder EXCEPT ![c] = nextID']
  /\ UNCHANGED <<tasks, logged, missed>>
Task(id, status) == [id |-> id, status |-> status]
Adds(c) ==
  /\ adder[c] > 0 /\ \A t \in tasks : t.id # adder[c]
  /\ tasks' = tasks \cup {Task(adder[c], "pending")}
  /\ Logs(tasks') /\ UNCHANGED <<nextID, adder>>
Statuses == {"pending", "in_progress", "completed"}
Update ==
  /\ \E t \in tasks, s \in Statuses : tasks' = (tasks \ {t}) \cup {Task(t.id, s)}
  /\ Logs(tasks') /\ UNCHANGED <<nextID, adder>>
(* A new process has a new tool, over the log there is.                    *)
TodoRestarts ==
  /\ failures < MaxFailures /\ failures' = failures + 1
  /\ tasks' = {} /\ nextID' = 0 /\ adder' = [c \in Callers |-> 0]
  /\ missed' = TRUE /\ UNCHANGED logged
TodoNext == Update \/ \E c \in Callers : Numbers(c) \/ Adds(c)

-----------------------------------------------------------------------------
ArtifactsNext ==
  /\ UNCHANGED subject
  /\ \/ /\ subject = "attachment"
        /\ \/ PowerFails
           \/ (\E s \in Savers : Saves(s)) /\ UNCHANGED failures
        /\ UNCHANGED <<spillVars, titleVars, todoVars>>
     \/ /\ subject = "spill"
        /\ \/ SpillTorn
           \/ FilterNext /\ UNCHANGED failures
        /\ UNCHANGED <<attachVars, titleVars, todoVars>>
     \/ /\ subject = "title" /\ TitleNext
        /\ UNCHANGED <<attachVars, spillVars, todoVars, failures>>
     \/ /\ subject = "todo"
        /\ \/ TodoRestarts
           \/ TodoNext /\ UNCHANGED failures
        /\ UNCHANGED <<attachVars, spillVars, titleVars>>
ArtifactsSpec == ArtifactsInit /\ [][ArtifactsNext]_artifactVars

-----------------------------------------------------------------------------
ArtifactsTypeOK ==
  /\ subject \in Kinds /\ temp \subseteq Savers /\ durable \subseteq Savers
  /\ link \subseteq Savers /\ Cardinality(link) <= 1 /\ linkKept \in BOOLEAN
  /\ \A s \in Savers :
       /\ at[s] \in Ended \cup {"creates", "writes", "syncs", "links", "publishes"}
       /\ content[s] \in {"none", "part", "whole", "synced"}
  /\ result.at \in {"raw", "spilled", "pruned"} /\ result.bytes \in Nat /\ stored.bytes \in Nat
  /\ \A c \in Callers : auto[c] \in {"idle", "refines", "over"} /\ adder[c] \in Nat
  /\ nextID \in Nat /\ failures \in 0..MaxFailures

(* attachment.go:12: a crash leaves nothing or the whole object, whichever *)
(* of the callers linked it; a reference told with the name on disk stays  *)
(* good, and only a dead process leaves temporary files.                   *)
ObjectsAreWhole ==
  /\ \A s \in link : content[s] \in {"whole", "synced"}
  /\ durable # {} => link # {}
  /\ \A s \in temp : at[s] \notin {"idle", "told", "failed"}

(* contextfilters.go:117: what a filtered result leaves out and refers to  *)
(* is stored in full, a result is never made longer, and it ends up within *)
(* the threshold.                                                          *)
ResultsAreCut ==
  result.at = "pruned" =>
    /\ result.notice => stored.bytes = size
    /\ result.bytes <= size /\ result.bytes <= filter.threshold
    /\ result.bytes < size <=> ~result.whole

(* sessiontitle.go:103: a title that was pinned while no Auto was asking   *)
(* its provider stays until it is renamed.                                 *)
PinnedTitleStays ==
  ~overlapped /\ (\E k \in DOMAIN titles : titles[k] = "pinned") => fold = "pinned"

(* todo.go:286: the list in the log is the tool's, unless the log refused  *)
(* the last one or the tool is new; no two tasks share an id.              *)
LoggedListIsCurrent ==
  /\ ~missed => logged = tasks
  /\ \A t, u \in tasks : t.id = u.id => t = u

ArtifactsAreKept ==
  /\ subject = "attachment" => ObjectsAreWhole
  /\ subject = "spill" => ResultsAreCut
  /\ subject = "title" => PinnedTitleStays
  /\ subject = "todo" => LoggedListIsCurrent

(* Not what the code does.  attachment.go:47: a reference is durable; the  *)
(* fast path tells one whose directory another call has not synced, and a  *)
(* failed sync of the directory is not told at all.                        *)
ReferencesAreDurable == (\E s \in Savers : at[s] = "told") => link # {}

(* Not what the code does.  sessiontitle.go:115: a title pinned by Rename  *)
(* is left untouched; one pinned while the provider is asked is replaced.  *)
PinnedIsLeftUntouched == (\E k \in DOMAIN titles : titles[k] = "pinned") => fold = "pinned"

(* Not what the code does.  contextfilters.go:117: a cut result whose full *)
(* text was stored says where; a prune with a short tail cuts the notice   *)
(* off, and a power failure may leave the text torn.                       *)
CutTextIsFound ==
  result.at = "pruned" /\ stored.bytes > 0 /\ ~result.whole => result.notice /\ ~stored.torn
=============================================================================
