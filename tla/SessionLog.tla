------------------------------- MODULE SessionLog -------------------------------
(***************************************************************************)
(* The event-sourced session log (core/session/log.go), the session built  *)
(* on it (module/session/logsess.go) and the durable store that saves it   *)
(* (core/session/store.go).                                                *)
(*                                                                         *)
(* An event's seq is its position in events.  A surface node is the seq of *)
(* the event it shows; the message shown is that event's message.  Every   *)
(* operation of the log runs under its lock and is one step; TrimMessages  *)
(* and Save call it several times and are several steps.                   *)
(***************************************************************************)
EXTENDS Integers, Sequences, FiniteSets

CONSTANTS Trims,      \* concurrent TrimMessages calls
          Saves,      \* concurrent Save calls
          Watchers,   \* Subscribe listeners
          KeepSizes,  \* numbers of messages TrimMessages is asked to keep
          MaxEvents   \* bound: events of a log

ASSUME SessionAssumption == KeepSizes \subseteq Nat

VARIABLES
  events,   \* Log.events
  surface,  \* Log.surface
  closed,   \* Log.closed
  watch,    \* Log.watches, with what each listener has received
  trim,     \* the TrimMessages calls in flight
  save,     \* the Save calls in flight: the snapshot each holds
  stored,   \* the document in the store, or NoDoc
  up        \* FALSE between a crash and the next Get

logVars == <<events, surface, closed, watch>>
sessionVars == <<logVars, trim, save, stored, up>>

NoDoc  == [none |-> TRUE]
NoSave == [none |-> TRUE]
NoTrim == [at |-> "idle", first |-> 0, last |-> 0, keep |-> 0]
Unsubscribed == [since |-> -1, got |-> <<>>]

AppendEvent == [op |-> "append", from |-> 0, to |-> 0, total |-> 0, add |-> 0]
ReplaceEvent(f, t) == [AppendEvent EXCEPT !.op = "replace", !.from = f, !.to = t]
NoteEvent == [AppendEvent EXCEPT !.op = "note"]
UsageEvent(total, add) == [AppendEvent EXCEPT !.op = "usage", !.total = total, !.add = add]

-----------------------------------------------------------------------------
(* applyReplaceScratch: the range must be a contiguous run of surface      *)
(* nodes; they give way to one node.                                       *)
IndexOf(srf, q) == CHOOSE i \in 1..Len(srf) : srf[i] = q
OnSurface(srf, q) == \E i \in 1..Len(srf) : srf[i] = q

(* How many nodes from index i on lie in [f, t] without interruption.      *)
Shadowed(srf, i, f, t) ==
  CHOOSE n \in 0..(Len(srf) - i + 1) :
    /\ \A k \in i..(i + n - 1) : srf[k] \in f..t
    /\ i + n <= Len(srf) => srf[i + n] \notin f..t

ReplaceableAnyRun(srf, f, t) == f > 0 /\ f <= t /\ OnSurface(srf, f)
Replaceable(srf, f, t) ==
  /\ f > 0 /\ f <= t
  /\ OnSurface(srf, f)
  /\ Shadowed(srf, IndexOf(srf, f), f, t) = t - f + 1

Replaced(srf, f, t, q) ==
  LET i == IndexOf(srf, f) IN
  SubSeq(srf, 1, i - 1) \o <<q>> \o SubSeq(srf, i + Shadowed(srf, i, f, t), Len(srf))

(* The surface after event e with seq q.                                   *)
Show(srf, e, q) ==
  CASE e.op = "append"  -> Append(srf, q)
    [] e.op = "replace" -> Replaced(srf, e.from, e.to, q)
    [] OTHER            -> srf

(* Restore: the surface rebuilt from an event list.                        *)
Replay(evs) ==
  LET upTo[n \in 0..Len(evs)] ==
        IF n = 0 THEN <<>> ELSE Show(upTo[n - 1], evs[n], n)
  IN  upTo[Len(evs)]

(* A range that is not on the surface is refused (ErrSurfaceRange).        *)
Acceptable(e) == e.op = "replace" => Replaceable(surface, e.from, e.to)

-----------------------------------------------------------------------------
SessionInit ==
  /\ events = <<>> /\ surface = <<>> /\ closed = FALSE
  /\ watch = [w \in Watchers |-> Unsubscribed]
  /\ trim = [t \in Trims |-> NoTrim]
  /\ save = [c \in Saves |-> NoSave]
  /\ stored = NoDoc
  /\ up = TRUE

(* Append(e): commit and notify, or refuse and leave the log as it was.    *)
Subscribed(w) == watch[w].since >= 0
Notify(q) == watch' = [w \in Watchers |->
                         IF Subscribed(w) THEN [watch[w] EXCEPT !.got = Append(@, q)] ELSE watch[w]]

Reject(e) == UNCHANGED <<events, surface, watch>>

Commit(e) ==
  LET q == Len(events) + 1 IN
  IF closed \/ ~Acceptable(e) THEN Reject(e)
  ELSE /\ events' = Append(events, e)
       /\ surface' = Show(surface, e, q)
       /\ Notify(q)

Room == Len(events) < MaxEvents

AddMessage ==
  /\ up /\ Room
  /\ Commit(AppendEvent)
  /\ UNCHANGED <<closed, trim, save, stored, up>>

(* LogWriter's lifecycle records and SetMeta: log-only.                    *)
AddNote ==
  /\ up /\ Room
  /\ Commit(NoteEvent)
  /\ UNCHANGED <<closed, trim, save, stored, up>>

(* A caller of Log.Append with a replacement of any range.                 *)
Compact(f, t) ==
  /\ up /\ Room
  /\ Commit(ReplaceEvent(f, t))
  /\ UNCHANGED <<closed, trim, save, stored, up>>

(* AddTokenUsage reads the running total and appends the next one with the *)
(* session lock held throughout.                                           *)
UsageEvents == {i \in 1..Len(events) : events[i].op = "usage"}
UsedTokens == LET U == UsageEvents IN
  IF U = {} THEN 0 ELSE events[CHOOSE i \in U : \A j \in U : j <= i].total

NextTotalDifference(n) == UsedTokens - n
NextTotal(n) == UsedTokens + n

AddTokenUsage(n) ==
  /\ up /\ Room
  /\ Commit(UsageEvent(NextTotal(n), n))
  /\ UNCHANGED <<closed, trim, save, stored, up>>

Close ==
  /\ up /\ ~closed
  /\ closed' = TRUE
  /\ UNCHANGED <<events, surface, watch, trim, save, stored, up>>

Subscribe(w) ==
  /\ up /\ ~Subscribed(w)
  /\ watch' = [watch EXCEPT ![w] = [since |-> Len(events), got |-> <<>>]]
  /\ UNCHANGED <<events, surface, closed, trim, save, stored, up>>

Unsubscribe(w) ==
  /\ up /\ Subscribed(w)
  /\ watch' = [watch EXCEPT ![w] = Unsubscribed]
  /\ UNCHANGED <<events, surface, closed, trim, save, stored, up>>

-----------------------------------------------------------------------------
(* TrimMessages(msgs): read the surface, replace it whole by one summary,  *)
(* add the kept messages one by one.  Errors are dropped.                  *)
TrimRead(t, k) ==
  /\ up /\ trim[t].at = "idle"
  /\ trim' = [trim EXCEPT ![t] =
       IF surface = <<>> THEN [NoTrim EXCEPT !.at = "adding", !.keep = k]
       ELSE [at |-> "replacing", first |-> surface[1], last |-> surface[Len(surface)], keep |-> k]]
  /\ UNCHANGED <<logVars, save, stored, up>>

TrimReplace(t) ==
  /\ up /\ Room /\ trim[t].at = "replacing"
  /\ Commit(ReplaceEvent(trim[t].first, trim[t].last))
  /\ trim' = [trim EXCEPT ![t].at = "adding"]
  /\ UNCHANGED <<closed, save, stored, up>>

TrimAdd(t) ==
  /\ up /\ trim[t].at = "adding"
  /\ \/ /\ trim[t].keep > 0 /\ Room
        /\ Commit(AppendEvent)
        /\ trim' = [trim EXCEPT ![t].keep = @ - 1]
     \/ /\ trim[t].keep = 0
        /\ trim' = [trim EXCEPT ![t] = NoTrim]
        /\ UNCHANGED <<events, surface, watch>>
  /\ UNCHANGED <<closed, save, stored, up>>

-----------------------------------------------------------------------------
(* Save: a snapshot of the log, then the atomic rename of a finished       *)
(* temporary file; a crash or an I/O error before the rename leaves the    *)
(* document as it was.                                                     *)
SnapshotOfSurface(evs) == [i \in 1..Len(surface) |-> evs[surface[i]]]
Snapshot(evs) == evs

SaveSnapshot(c) ==
  /\ up /\ save[c] = NoSave
  /\ save' = [save EXCEPT ![c] = [doc |-> Snapshot(events)]]
  /\ UNCHANGED <<logVars, trim, stored, up>>

SaveRename(c) ==
  /\ up /\ save[c] # NoSave
  /\ stored' = save[c]
  /\ save' = [save EXCEPT ![c] = NoSave]
  /\ UNCHANGED <<logVars, trim, up>>

RenameFails(c) ==
  /\ up /\ save[c] # NoSave
  /\ save' = [save EXCEPT ![c] = NoSave]
  /\ UNCHANGED <<logVars, trim, stored, up>>

DeleteDocument ==
  /\ up /\ stored # NoDoc
  /\ stored' = NoDoc
  /\ UNCHANGED <<logVars, trim, save, up>>

(* The process dies; Get restores the session from the stored document.    *)
Crash ==
  /\ up
  /\ up' = FALSE
  /\ trim' = [t \in Trims |-> NoTrim]
  /\ save' = [c \in Saves |-> NoSave]
  /\ watch' = [w \in Watchers |-> Unsubscribed]
  /\ closed' = FALSE
  /\ events' = <<>> /\ surface' = <<>>
  /\ UNCHANGED stored

Restored(evs) == Replay(evs)

Get ==
  /\ ~up /\ stored # NoDoc
  /\ up' = TRUE
  /\ events' = stored.doc
  /\ surface' = Restored(stored.doc)
  /\ UNCHANGED <<closed, watch, trim, save, stored>>

-----------------------------------------------------------------------------
SessionNext ==
  \/ AddMessage \/ AddNote \/ Close
  \/ \E f, t \in 0..MaxEvents : Compact(f, t)
  \/ \E n \in 1..2 : AddTokenUsage(n)
  \/ \E w \in Watchers : Subscribe(w)
  \/ \E w \in Watchers : Unsubscribe(w)
  \/ \E t \in Trims, k \in KeepSizes : TrimRead(t, k)
  \/ \E t \in Trims : TrimReplace(t)
  \/ \E t \in Trims : TrimAdd(t)
  \/ \E c \in Saves : SaveSnapshot(c)
  \/ \E c \in Saves : SaveRename(c)
  \/ \E c \in Saves : RenameFails(c)
  \/ DeleteDocument \/ Crash \/ Get

SessionSpec == SessionInit /\ [][SessionNext]_sessionVars

-----------------------------------------------------------------------------
IsPrefixOf(p, s) == Len(p) <= Len(s) /\ p = SubSeq(s, 1, Len(p))
Events == [op: {"append", "replace", "note", "usage"}, from: Nat, to: Nat, total: Nat, add: Nat]

(* Every variable keeps its type.                                          *)
SessionTypeOK ==
  /\ events \in Seq(Events)
  /\ surface \in Seq(Nat)
  /\ closed \in BOOLEAN /\ up \in BOOLEAN
  /\ watch \in [Watchers -> [since: Int, got: Seq(Nat)]]
  /\ trim \in [Trims -> [at: {"idle", "replacing", "adding"}, first: Nat, last: Nat, keep: Nat]]
  /\ save \in [Saves -> {NoSave} \union [doc: Seq(Events)]]
  /\ stored \in {NoDoc} \union [doc: Seq(Events)]

(* The surface is what a replay of the committed events builds, refused    *)
(* replacements and interleaved trims included, so Restore of the log's    *)
(* own Events() shows the same conversation.                               *)
SurfaceIsReplay == surface = Replay(events)

(* Every record that carries a message is either on the surface or         *)
(* shadowed by the range of a later replacement, never both and never      *)
(* twice: history is replaced, not lost.                                   *)
Carries(i) == events[i].op \in {"append", "replace"}
ShadowedBy(i) == {r \in (i + 1)..Len(events) :
                    events[r].op = "replace" /\ i \in events[r].from..events[r].to}
NothingLost ==
  \A i \in 1..Len(events) :
    /\ Cardinality({k \in 1..Len(surface) : surface[k] = i}) + Cardinality(ShadowedBy(i))
         = IF Carries(i) THEN 1 ELSE 0

(* A stored document is always a snapshot this log has been in: a prefix   *)
(* of the events, whichever of several saves and crashes came last.        *)
StoredIsSnapshot ==
  up /\ stored # NoDoc => IsPrefixOf(stored.doc, events)

(* A listener gets every event committed since it subscribed, once and in  *)
(* order, and none that was refused.                                       *)
WatchersSeeEveryCommit ==
  \A w \in Watchers : Subscribed(w) =>
    watch[w].got = [i \in 1..(Len(events) - watch[w].since) |-> watch[w].since + i]

(* The usage counter is the sum of what concurrent callers added, and it   *)
(* survives save, crash and restore together with the log.                 *)
UsageIsSum ==
  LET sum[n \in 0..Len(events)] ==
        IF n = 0 THEN 0 ELSE sum[n - 1] + events[n].add
  IN  UsedTokens = sum[Len(events)]

(* The conversation, the history and the usage are read off one log and    *)
(* agree with it, whatever was refused, trimmed, saved and restored.       *)
LogIsFaithful == /\ SurfaceIsReplay /\ NothingLost /\ UsageIsSum
                 /\ WatchersSeeEveryCommit
                 /\ StoredIsSnapshot

(* What a comment of the source says and the code does not do:             *)
(* "TrimMessages replaces the whole derived surface": undisturbed, its     *)
(* replacement leaves one node.                                            *)
TrimReplacesTheSurface ==
  [][\A t \in Trims :
       /\ trim[t].at = "replacing" /\ trim'[t].at = "adding"
       /\ ~closed /\ surface[1] = trim[t].first /\ surface[Len(surface)] = trim[t].last
       => Len(surface') = 1]_sessionVars
=============================================================================
