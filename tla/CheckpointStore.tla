----------------------------- MODULE CheckpointStore -----------------------------
(***************************************************************************)
(* The two checkpoint stores of module/checkpoint/checkpoint.go: ids in    *)
(* insertion order with a capacity, kept in memory or one file per id.     *)
(*                                                                         *)
(* Every operation holds the store's lock; the file store can still be cut *)
(* short by the end of the process, in the middle of a WriteFile or        *)
(* between it and the bookkeeping.  Neither store takes a deleted id out   *)
(* of order, and a restarted file store starts with an empty order over    *)
(* the files that are there.                                               *)
(***************************************************************************)
EXTENDS Integers, Sequences, FiniteSets

CONSTANTS Ids,       \* checkpoint ids
          MaxKept,   \* WithMaxCheckpoints: 0 is no limit
          MaxSaves,  \* bound: Save calls of a behaviour
          Stores     \* the kinds explored: "memory", "files"

NoWrite == "none"

(* A limit of zero or less keeps everything.                               *)
ASSUME CheckpointAssumption ==
  /\ MaxKept \in Int /\ MaxSaves \in Nat
  /\ NoWrite \notin Ids /\ Stores \subseteq {"memory", "files"}

VARIABLES
  kind,     \* which store this is
  cps,      \* id -> the number of the Save it holds, Torn, or Absent
  order,    \* insertion order, for eviction
  writing,  \* the id whose file is being written, or NoWrite
  saves,    \* Save calls so far
  latest,   \* the last save of each id that was reported as done (history)
  clean     \* no restart and no deletion so far (history)

checkpointVars == <<kind, cps, order, writing, saves, latest, clean>>

Absent == 0
Torn == -1
Present(c) == {i \in Ids : c[i] # Absent}
Tracked(i) == \E k \in 1..Len(order) : order[k] = i

CheckpointInit ==
  /\ kind \in Stores
  /\ cps = [i \in Ids |-> Absent] /\ latest = [i \in Ids |-> Absent]
  /\ order = <<>> /\ writing = NoWrite /\ saves = 0 /\ clean = TRUE

-----------------------------------------------------------------------------
(* evictLocked: drop ids from the front of order down to the limit.         *)
SurplusLate(ord) == IF MaxKept > 0 /\ Len(ord) > MaxKept + 1 THEN Len(ord) - MaxKept ELSE 0
Surplus(ord) == IF MaxKept > 0 /\ Len(ord) > MaxKept THEN Len(ord) - MaxKept ELSE 0
Evicted(ord, c) == [i \in Ids |->
  IF \E k \in 1..Surplus(ord) : ord[k] = i THEN Absent ELSE c[i]]

Put(ord, c) ==
  /\ order' = SubSeq(ord, Surplus(ord) + 1, Len(ord))
  /\ cps' = Evicted(ord, c)

(* The in-memory store asks the map whether the id is new, ...              *)
NewestSave(i) == saves + 1
SaveInMemory(i) ==
  /\ kind = "memory" /\ saves < MaxSaves
  /\ saves' = saves + 1
  /\ Put(IF cps[i] = Absent THEN Append(order, i) ELSE order, [cps EXCEPT ![i] = NewestSave(i)])
  /\ latest' = [latest EXCEPT ![i] = saves + 1]
  /\ UNCHANGED <<kind, writing, clean>>

(* ... the file store asks order, after WriteFile has truncated and written. *)
BeginWrite(i) ==
  /\ kind = "files" /\ writing = NoWrite /\ saves < MaxSaves
  /\ saves' = saves + 1
  /\ writing' = i
  /\ cps' = [cps EXCEPT ![i] = Torn]
  /\ UNCHANGED <<kind, order, latest, clean>>

NewInOrder(i) == IF Tracked(i) THEN order ELSE Append(order, i)
EndWrite(i) ==
  /\ writing = i
  /\ Put(NewInOrder(i), [cps EXCEPT ![i] = saves])
  /\ latest' = [latest EXCEPT ![i] = saves]
  /\ writing' = NoWrite
  /\ UNCHANGED <<kind, saves, clean>>

WriteFails ==
  /\ writing # NoWrite
  /\ writing' = NoWrite
  /\ UNCHANGED <<kind, cps, order, saves, latest, clean>>

Delete(i) ==
  /\ writing = NoWrite
  /\ cps' = [cps EXCEPT ![i] = Absent]
  /\ latest' = [latest EXCEPT ![i] = Absent]
  /\ clean' = FALSE
  /\ UNCHANGED <<kind, order, writing, saves>>

Restart ==
  /\ kind = "files"
  /\ order' = <<>> /\ writing' = NoWrite /\ clean' = FALSE
  /\ UNCHANGED <<kind, cps, saves, latest>>

Loads(i) == cps[i] \notin {Absent, Torn}

CheckpointNext ==
  \/ \E i \in Ids : SaveInMemory(i) \/ BeginWrite(i) \/ EndWrite(i)
  \/ WriteFails
  \/ \E i \in Ids : Delete(i)
  \/ Restart

CheckpointSpec == CheckpointInit /\ [][CheckpointNext]_checkpointVars

-----------------------------------------------------------------------------
(* Every variable keeps its type.                                          *)
CheckpointTypeOK ==
  /\ kind \in Stores
  /\ cps \in [Ids -> -1..MaxSaves] /\ latest \in [Ids -> 0..MaxSaves]
  /\ order \in Seq(Ids) /\ writing \in Ids \cup {NoWrite} /\ saves \in 0..MaxSaves
  /\ clean \in BOOLEAN

(* Until the process restarts or a checkpoint is deleted the store keeps   *)
(* the ids it tracks and no more than its limit.                           *)
CapacityKept ==
  clean /\ MaxKept > 0 =>
    /\ Cardinality({i \in Ids : Loads(i)}) <= MaxKept
    /\ \A k \in 1..Len(order) : cps[order[k]] # Absent

(* What Load returns is the latest save of that id that reported success,  *)
(* whatever was evicted, deleted and saved again in between; and eviction  *)
(* takes neither too much nor too little.                                  *)
LoadsTheLatest == (\A i \in Ids : Loads(i) => cps[i] = latest[i]) /\ CapacityKept

(* What the doc of WithMaxCheckpoints says and the in-memory store does not do: "the oldest checkpoint (by insertion   *)
(* order) is evicted on each Save".                                        *)
SavedIsLoadable ==
  [][\A i \in Ids : latest'[i] > latest[i] => cps'[i] = latest'[i]]_checkpointVars
=============================================================================
