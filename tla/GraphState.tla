---- MODULE GraphState ----
(* One GraphState (graph/state.go) used by several goroutines: writes under *)
(* its lock, watchers called after the lock is released, MergeFrom in two   *)
(* critical sections, Rollback and Clear.                                   *)
EXTENDS Integers, Sequences, FiniteSets, SequencesExt

CONSTANTS
  Keys, Values, Absent,
  Writers,      \* goroutines that use the state
  Watchers,     \* Watch registrations
  WatchedKeys,  \* [Watchers -> SUBSET Keys]; all of Keys for a nil key list
  MaxChanges    \* bound on the writes

VARIABLES
  data,         \* gs.data
  history,      \* gs.history: [key, old, new]; new = Absent for a delete
  watchers,     \* gs.watchers
  calls,        \* callbacks each writer has collected and not made yet
  toSet,        \* keys a MergeFrom of the writer still has to write
  changes,      \* history: every write in order, with who watched it
  told          \* history: the writes each watcher was told of

stateVars == <<data, history, watchers, calls, toSet, changes, told>>

StateInit ==
  /\ data = [k \in Keys |-> Absent] /\ history = <<>>
  /\ watchers = {}
  /\ calls = [w \in Writers |-> <<>>]
  /\ toSet = [w \in Writers |-> <<>>]
  /\ changes = <<>> /\ told = [t \in Watchers |-> {}]

ForgetCallbacks(k) == {}
\* collectLocked
Collect(k) == {t \in watchers : k \in WatchedKeys[t]}

\* SetWithSource and Delete up to the unlock: the callbacks are still to run.
Write(w, k, v) ==
  /\ Len(changes) < MaxChanges
  /\ data' = [data EXCEPT ![k] = v]
  /\ history' = Append(history, [key |-> k, old |-> data[k], new |-> v])
  /\ changes' = Append(changes, {t \in watchers : k \in WatchedKeys[t]})
  /\ calls' = [calls EXCEPT ![w] = IF Collect(k) = {} THEN @ ELSE
                Append(@, [to |-> Collect(k), change |-> Len(changes) + 1])]

Free(w) == calls[w] = <<>> /\ toSet[w] = <<>>

SetWithSource(w, k, v) ==
  /\ Free(w)
  /\ Write(w, k, v)
  /\ UNCHANGED <<watchers, toSet, told>>

Delete(w, k) ==
  /\ Free(w) /\ data[k] # Absent
  /\ Write(w, k, Absent)
  /\ UNCHANGED <<watchers, toSet, told>>

\* The pending callbacks run outside the lock.
Notify(w) ==
  /\ calls[w] # <<>>
  /\ LET call == Head(calls[w])
     IN told' = [t \in Watchers |->
                   IF t \in call.to THEN told[t] \union {call.change} ELSE told[t]]
  /\ calls' = [calls EXCEPT ![w] = Tail(@)]
  /\ UNCHANGED <<data, history, watchers, toSet, changes>>

\* MergeFrom of a state that has every key: which keys are missing is decided
\* under the lock, each is written in a section of its own afterwards.
MergeDecides(w, v) ==
  /\ Free(w)
  /\ \E order \in SetToSeqs({k \in Keys : data[k] = Absent}) :
       toSet' = [toSet EXCEPT ![w] = [i \in DOMAIN order |-> [key |-> order[i], val |-> v]]]
  /\ toSet' # toSet
  /\ UNCHANGED <<data, history, watchers, calls, changes, told>>

MergeWrites(w) ==
  /\ calls[w] = <<>> /\ toSet[w] # <<>>
  /\ Write(w, Head(toSet[w]).key, Head(toSet[w]).val)
  /\ toSet' = [toSet EXCEPT ![w] = Tail(@)]
  /\ UNCHANGED <<watchers, told>>

\* The data is rebuilt from the first n changes; entries that are deletions
\* of an existing value are passed over.
Replay(d, e) == IF e.new = Absent THEN d ELSE [d EXCEPT ![e.key] = e.new]
Rebuilt(h) == FoldLeft(Replay, [k \in Keys |-> Absent], h)

KeepTail(n) == history
Kept(n) == SubSeq(history, 1, n)

Rollback(n) ==
  /\ n \in 0..Len(history)
  /\ data' = Rebuilt(SubSeq(history, 1, n))
  /\ history' = Kept(n)
  /\ UNCHANGED <<watchers, calls, toSet, changes, told>>

Clear ==
  /\ data' = [k \in Keys |-> Absent] /\ history' = <<>>
  /\ UNCHANGED <<watchers, calls, toSet, changes, told>>

Watch(t) ==
  /\ t \notin watchers /\ watchers' = watchers \union {t}
  /\ UNCHANGED <<data, history, calls, toSet, changes, told>>

Unwatch(t) ==
  /\ t \in watchers /\ watchers' = watchers \ {t}
  /\ UNCHANGED <<data, history, calls, toSet, changes, told>>

StateNext ==
  \/ \E w \in Writers :
       \/ \E k \in Keys : Delete(w, k) \/ \E v \in Values : SetWithSource(w, k, v)
       \/ \E v \in Values : MergeDecides(w, v)
       \/ Notify(w) \/ MergeWrites(w)
  \/ Clear \/ \E n \in 0..MaxChanges : Rollback(n)
  \/ \E t \in Watchers : Watch(t) \/ Unwatch(t)

StateSpec == StateInit /\ [][StateNext]_stateVars
----------------------------------------------------------------------------
StateTypeOK ==
  /\ data \in [Keys -> Values \union {Absent}]
  /\ watchers \subseteq Watchers
  /\ \A t \in Watchers : told[t] \subseteq 1..Len(changes)

(* The history is the data: a key whose recorded changes hold no deletion   *)
(* has the value of the last of them, also after Rollback and Clear, so a   *)
(* rollback never brings back or loses such a key.                          *)
ChangesOf(k) == SelectSeq(history, LAMBDA e: e.key = k)
HistoryIsTheData ==
  \A k \in Keys :
    (\A i \in DOMAIN ChangesOf(k) : ChangesOf(k)[i].new # Absent) =>
      data[k] = IF ChangesOf(k) = <<>> THEN Absent ELSE Last(ChangesOf(k)).new

(* A watcher registered when a key of its list changes is told of exactly   *)
(* that change, once, although the call is made after the lock is released: *)
(* no change falls between the write and the call.                          *)
Owed(t) == UNION {{calls[w][i].change : i \in {j \in DOMAIN calls[w] : t \in calls[w][j].to}}
                    : w \in Writers}
WatchersAreTold ==
  \A t \in Watchers :
    /\ told[t] \union Owed(t) = {i \in DOMAIN changes : t \in changes[i]}
    /\ told[t] \intersect Owed(t) = {}

(* Rollback: "reverts the state to a previous version". The data after a    *)
(* rollback to n changes is what it was after n changes.                    *)
AsItWas(n) ==
  FoldLeft(LAMBDA d, e: [d EXCEPT ![e.key] = e.new], [k \in Keys |-> Absent],
           SubSeq(history, 1, n))
RollbackReverts == [][\A n \in 0..MaxChanges : Rollback(n) => data' = AsItWas(n)]_stateVars
====
