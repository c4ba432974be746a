------------------------------ MODULE Projection ------------------------------
(***************************************************************************)
(* The projection registry (module/projection/projection.go): units that   *)
(* fold the events of one session log into views.                          *)
(*                                                                         *)
(* The log commits an event and calls its listeners under its own lock; a  *)
(* listener's feed takes the registry's lock.  Register replays the log    *)
(* into a new unit outside both, event by event.  An event is its number   *)
(* in the log, a view the events folded into it.                           *)
(***************************************************************************)
EXTENDS Integers, Sequences, FiniteSets

CONSTANTS Units, MaxLog, MaxAttaches

VARIABLES
  log,       \* number of events committed
  unit,      \* units: where their registration is
  view,      \* what each unit has folded
  todo,      \* the rest of the replay a registration is in
  bound,     \* the Attach whose log is in Registry.logs, or 0
  subs,      \* subscriptions to the log, by number of the Attach
  attaches,
  closing,   \* detached, not yet unsubscribed
  tracked,   \* units registered while the log was fed to them, and since (history)
  overlapped \* units whose registration a commit fell into (history)

projectionVars == <<log, unit, view, todo, bound, subs, attaches, closing, tracked, overlapped>>

ProjectionInit ==
  /\ log = 0
  /\ unit = [u \in Units |-> "out"]
  /\ view = [u \in Units |-> <<>>]
  /\ todo = [u \in Units |-> <<>>]
  /\ bound = 0 /\ subs = {} /\ attaches = 0 /\ closing = {}
  /\ tracked = {} /\ overlapped = {}

Listed == {u \in Units : unit[u] # "out"}
Registering == {u \in Units : unit[u] \in {"listed", "reset", "replaying"}}

-----------------------------------------------------------------------------
(* Log.Append: every subscription feeds the event to every listed unit,    *)
(* under the registry's lock.                                              *)
Fed(u) == IF u \in Listed THEN view[u] \o [k \in 1..Cardinality(subs) |-> log + 1] ELSE view[u]
Commit ==
  /\ log < MaxLog /\ log' = log + 1
  /\ view' = [u \in Units |-> Fed(u)]
  /\ overlapped' = overlapped \cup Registering
  /\ UNCHANGED <<unit, todo, bound, subs, attaches, closing, tracked>>

(* Register: into the map under the lock, with a snapshot of the logs; the *)
(* replay of a bound log is Reset, Events and one Apply after the other.   *)
Register(u) ==
  /\ unit[u] = "out"
  /\ unit' = [unit EXCEPT ![u] = IF bound # 0 THEN "listed" ELSE "in"]
  /\ tracked' = IF bound \in subs /\ closing = {} THEN tracked \cup {u} ELSE tracked \ {u}
  /\ overlapped' = overlapped \ {u}
  /\ UNCHANGED <<log, view, todo, bound, subs, attaches, closing>>
StaleView(u) == view[u]
ResetView(u) == <<>>
RegisterResets(u) ==
  /\ unit[u] = "listed" /\ unit' = [unit EXCEPT ![u] = "reset"]
  /\ view' = [view EXCEPT ![u] = ResetView(u)]
  /\ UNCHANGED <<log, todo, bound, subs, attaches, closing, tracked, overlapped>>
RegisterReads(u) ==
  /\ unit[u] = "reset" /\ unit' = [unit EXCEPT ![u] = "replaying"]
  /\ todo' = [todo EXCEPT ![u] = [i \in 1..log |-> i]]
  /\ UNCHANGED <<log, view, bound, subs, attaches, closing, tracked, overlapped>>
RegisterReplays(u) ==
  /\ unit[u] = "replaying"
  /\ IF todo[u] = <<>>
     THEN unit' = [unit EXCEPT ![u] = "in"] /\ UNCHANGED <<view, todo>>
     ELSE /\ view' = [view EXCEPT ![u] = Append(@, Head(todo[u]))]
          /\ todo' = [todo EXCEPT ![u] = Tail(@)]
          /\ UNCHANGED unit
  /\ UNCHANGED <<log, bound, subs, attaches, closing, tracked, overlapped>>
Unregister(u) ==
  /\ unit[u] = "in"
  /\ unit' = [unit EXCEPT ![u] = "out"]
  /\ UNCHANGED <<log, view, todo, bound, subs, attaches, closing, tracked, overlapped>>

(* Attach: the log is bound under the lock and subscribed to after it; a   *)
(* second attach is a no-op.  A detach unbinds, then unsubscribes.         *)
Attach ==
  /\ bound = 0 /\ attaches < MaxAttaches
  /\ attaches' = attaches + 1 /\ bound' = attaches + 1
  /\ UNCHANGED <<log, unit, view, todo, subs, closing, tracked, overlapped>>
Subscribe ==
  /\ bound # 0 /\ bound \notin subs
  /\ subs' = subs \cup {bound}
  /\ UNCHANGED <<log, unit, view, todo, bound, attaches, closing, tracked, overlapped>>
Detach ==
  /\ bound \in subs
  /\ closing' = closing \cup {bound} /\ bound' = 0
  /\ tracked' = {}
  /\ UNCHANGED <<log, unit, view, todo, subs, attaches, overlapped>>
Unsubscribe ==
  /\ \E a \in closing : subs' = subs \ {a} /\ closing' = closing \ {a}
  /\ UNCHANGED <<log, unit, view, todo, bound, attaches, tracked, overlapped>>

ProjectionNext ==
  \/ Commit \/ Attach \/ Subscribe \/ Detach \/ Unsubscribe
  \/ \E u \in Units : \/ Register(u) \/ RegisterResets(u) \/ RegisterReads(u)
                      \/ RegisterReplays(u) \/ Unregister(u)

ProjectionSpec == ProjectionInit /\ [][ProjectionNext]_projectionVars

-----------------------------------------------------------------------------
ProjectionTypeOK ==
  /\ log \in 0..MaxLog
  /\ \A u \in Units : unit[u] \in {"out", "listed", "reset", "replaying", "in"}
  /\ \A u \in Units : \A i \in 1..Len(view[u]) : view[u][i] \in 1..log
  /\ {bound} \cup subs \cup closing \subseteq 0..attaches
  /\ tracked \subseteq Units /\ overlapped \subseteq Units

(* A unit registered while the log is attached has folded every event of   *)
(* the log once and in order, if no event was committed while it was being *)
(* registered (Register, feed).                                            *)
WholeView(u) == view[u] = [i \in 1..log |-> i]
ViewsFollowTheLog ==
  \A u \in tracked \ overlapped : unit[u] = "in" => WholeView(u)

(* A unit registered after events flowed still converges                   *)
(* (projection.go:112).  Not kept: the unit is fed before its replay, so   *)
(* an event committed meanwhile is folded twice or ahead of older ones.    *)
RegisteredUnitsConverge == \A u \in tracked : unit[u] = "in" => WholeView(u)
=============================================================================
