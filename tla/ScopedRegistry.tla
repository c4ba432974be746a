---------------------------- MODULE ScopedRegistry ----------------------------
(***************************************************************************)
(* The layered registries of capabilities (core/registry/registry.go), the *)
(* view that stacks them and the feed of net changes a consumer follows.   *)
(*                                                                         *)
(* Layer 1 is the innermost.  Register and Unregister change a layer under *)
(* its lock and call the observers after it: of the layer itself, then of  *)
(* the ancestors it was linked to.  One consumer takes a snapshot of the   *)
(* view and then follows its changes.                                      *)
(***************************************************************************)
EXTENDS Integers, FiniteSets

CONSTANTS Depth,     \* layers of the view
          Names, Callers,
          MaxCalls   \* bound on Register and Unregister calls

Layers == 1..Depth

VARIABLES
  items,    \* names registered in each layer
  parent,   \* the layer each is linked to, or 0
  call,     \* the calls in flight
  calls,
  stage,    \* the consumer: off, seeded, on
  heard,    \* layers the feed has subscribed to
  visible,  \* ObserveChanges' visible: the winning layer of each name, or 0
  seen,     \* names the consumer holds for visible
  mixed     \* names whose calls overlapped each other or the start of the feed (history)

registryVars == <<items, parent, call, calls, stage, heard, visible, seen, mixed>>

NoCall == [kind |-> "none", name |-> "none", at |-> 0, hears |-> FALSE, emit |-> FALSE]

RegistryInit ==
  /\ items = [l \in Layers |-> {}]
  /\ parent = [l \in Layers |-> 0]
  /\ call = [c \in Callers |-> NoCall]
  /\ calls = 0
  /\ stage = "off" /\ heard = {}
  /\ visible = [n \in Names |-> 0]
  /\ seen = {} /\ mixed = {}

Active(n) == \E c \in Callers : call[c].name = n
Holders(n) == {l \in Layers : n \in items[l]}
Nearest(ls) == IF ls = {} THEN 0 ELSE CHOOSE l \in ls : \A k \in ls : l <= k

(* View.Resolve and List: the nearest layer with the name.                 *)
Visible == {n \in Names : Nearest(Holders(n)) # 0}

-----------------------------------------------------------------------------
(* LinkParent: once, to an outer layer.                                    *)
LinkParent(l, p) ==
  /\ parent[l] = 0 /\ p > l
  /\ parent' = [parent EXCEPT ![l] = p]
  /\ UNCHANGED <<items, call, calls, stage, heard, visible, seen, mixed>>

(* Register and Unregister: the change and the list of observers under the *)
(* lock, the observers after it.                                           *)
Begin(c, l, n, kind) ==
  /\ call[c] = NoCall /\ calls < MaxCalls /\ calls' = calls + 1
  /\ call' = [call EXCEPT ![c] = [kind |-> kind, name |-> n, at |-> l,
                                  hears |-> l \in heard, emit |-> FALSE]]
  /\ mixed' = IF Active(n) \/ stage = "seeded" THEN mixed \cup {n} ELSE mixed
  /\ UNCHANGED <<parent, stage, heard, visible, seen>>
Register(c, l, n) ==
  /\ n \notin items[l]
  /\ items' = [items EXCEPT ![l] = @ \cup {n}]
  /\ Begin(c, l, n, "add")
Unregister(c, l, n) ==
  /\ n \in items[l]
  /\ items' = [items EXCEPT ![l] = @ \ {n}]
  /\ Begin(c, l, n, "remove")

-----------------------------------------------------------------------------
(* ObserveChanges' callbacks: an addition counts when the name was not     *)
(* visible or only farther out, a removal when the winner went and no      *)
(* layer farther out has the name.                                         *)
Outer(l, n) == Nearest({k \in Holders(n) : k > l})
HiddenBehind(l, n) == visible[n] = l
Feed(c) ==
  LET n == call[c].name
      l == call[c].at
  IN CASE call[c].kind = "add" /\ (visible[n] = 0 \/ l < visible[n]) ->
            /\ visible' = [visible EXCEPT ![n] = l]
            /\ call' = [call EXCEPT ![c].emit = TRUE, ![c].hears = FALSE]
       [] call[c].kind = "remove" /\ HiddenBehind(l, n) ->
            /\ visible' = [visible EXCEPT ![n] = Outer(l, n)]
            /\ call' = [call EXCEPT ![c].emit = Outer(l, n) = 0, ![c].hears = FALSE]
       [] OTHER -> call' = [call EXCEPT ![c].hears = FALSE] /\ UNCHANGED visible

Hears(c) ==
  /\ call[c] # NoCall /\ call[c].hears
  /\ Feed(c)
  /\ UNCHANGED <<items, parent, calls, stage, heard, seen, mixed>>

(* The consumer's callback runs outside every lock.                        *)
Emits(c) ==
  /\ call[c].emit
  /\ seen' = IF call[c].kind = "add" THEN seen \cup {call[c].name} ELSE seen \ {call[c].name}
  /\ call' = [call EXCEPT ![c].emit = FALSE]
  /\ UNCHANGED <<items, parent, calls, stage, heard, visible, mixed>>

(* bubbleUp: on to the parent, whose observers hear the child's entry.     *)
Bubbles(c) ==
  /\ call[c] # NoCall /\ ~call[c].hears /\ ~call[c].emit
  /\ LET p == parent[call[c].at]
     IN call' = [call EXCEPT ![c] = IF p = 0 THEN NoCall
                                    ELSE [@ EXCEPT !.at = p, !.hears = p \in heard]]
  /\ UNCHANGED <<items, parent, calls, stage, heard, visible, seen, mixed>>

-----------------------------------------------------------------------------
(* A consumer seeds from Snapshot, and ObserveChanges from the layers, and *)
(* then subscribes to one layer after the other.                           *)
SeedOutermost(n) == IF Holders(n) = {} THEN 0 ELSE CHOOSE l \in Holders(n) : \A k \in Holders(n) : k <= l
Seed(n) == Nearest(Holders(n))
Seeds ==
  /\ stage = "off" /\ stage' = "seeded"
  /\ seen' = Visible
  /\ visible' = [n \in Names |-> Seed(n)]
  /\ mixed' = mixed \cup {n \in Names : Active(n)}
  /\ UNCHANGED <<items, parent, call, calls, heard>>
Subscribes ==
  /\ stage = "seeded"
  /\ LET l == Nearest(Layers \ heard) IN heard' = heard \cup {l}
  /\ stage' = IF heard' = Layers THEN "on" ELSE "seeded"
  /\ UNCHANGED <<items, parent, call, calls, visible, seen, mixed>>

RegistryNext ==
  \/ Seeds \/ Subscribes
  \/ \E l, p \in Layers : LinkParent(l, p)
  \/ \E c \in Callers : \/ \E l \in Layers, n \in Names : Register(c, l, n) \/ Unregister(c, l, n)
                        \/ Hears(c) \/ Emits(c) \/ Bubbles(c)

RegistrySpec == RegistryInit /\ [][RegistryNext]_registryVars

-----------------------------------------------------------------------------
RegistryTypeOK ==
  /\ items \in [Layers -> SUBSET Names]
  /\ \A l \in Layers : parent[l] = 0 \/ parent[l] \in l + 1..Depth
  /\ \A c \in Callers : call[c].name \in Names \cup {"none"} /\ call[c].at \in 0..Depth
  /\ stage \in {"off", "seeded", "on"} /\ heard \subseteq Layers
  /\ visible \in [Names -> 0..Depth]
  /\ seen \subseteq Names /\ mixed \subseteq Names

(* A consumer that seeds from the snapshot and applies the changes holds   *)
(* the view, name by name, once the calls are over: as long as the layers  *)
(* are not linked and the calls on a name do not overlap (ObserveChanges). *)
Agrees(n) == (n \in seen <=> n \in Visible) /\ visible[n] = Nearest(Holders(n))
FeedFollowsView ==
  stage = "on" =>
    \A n \in Names \ mixed : ~Active(n) /\ (\A l \in Layers : parent[l] = 0) => Agrees(n)

(* The same with linked layers (registry.go:443: a removal that reveals an *)
(* outer winner produces no event).  Not kept: the removal bubbles up to   *)
(* the layer it revealed, whose callback takes it for its own.             *)
FeedFollowsLinkedView == stage = "on" => \A n \in Names \ mixed : ~Active(n) => Agrees(n)
=============================================================================
