------------------------------ MODULE JobRegistry ------------------------------
(***************************************************************************)
(* The process-level background-job registry of core/jobs/jobs.go.         *)
(*                                                                         *)
(* An entry is one accepted Start call together with the goroutine that    *)
(* call launches.  pc[e] is how far that pair has come:                    *)
(*                                                                         *)
(*   unused -> registered -> working -> returned -> recorded               *)
(*          -> noticed -> published -> finished                            *)
(*                                                                         *)
(* Every arrow is one critical section or one call made with no lock held, *)
(* so the steps of different entries, of Kill and of Teardown interleave   *)
(* exactly where the Go code lets them.                                    *)
(***************************************************************************)
EXTENDS Integers, Sequences, FiniteSets, TLC

CONSTANTS Entries,      \* the Start calls of a behaviour
          Owners,       \* session ids that own jobs
          NoOwner,      \* Spec.Owner = "": no fence and no cap
          ExplicitIds,  \* ids a caller may ask for (Spec.ID)
          NoId,         \* Spec.ID = "": the registry assigns "<kind>-N"
          CapSettings,  \* arguments of SetMaxPerOwner
          DefaultCap    \* the default per-owner cap (10 in the code)

(* An id is the number N of "<kind>-N": an explicit id can spell one.       *)
ASSUME JobAssumption == /\ IsFiniteSet(Entries)
                        /\ NoOwner \notin Owners
                        /\ ExplicitIds \subseteq Nat \ {0}
                        /\ NoId \notin Nat
                        /\ CapSettings \subseteq Int
                        /\ DefaultCap \in Nat \ {0}

VARIABLES
  items,        \* Registry.items: id -> entry
  seq,          \* Registry.seq
  perOwner,     \* Registry.perOwner (an absent key counts 0)
  maxPerOwner,  \* Registry.maxPerOwner
  notifier,     \* TRUE once SetNotifier registered a sink
  pc,           \* progress of the Start call and its goroutine
  id, owner,    \* jobEntry.job.ID and .Owner
  status,       \* jobEntry.status
  runErr,       \* entries whose Run returned a non-nil error
  hasCancel,    \* entries whose cancel field has been assigned
  canceled,     \* entries whose run context is cancelled
  kill,         \* the Kill call in flight on an entry
  tearing,      \* owners whose Teardown call is in flight
  doomed,       \* entries whose cancel was collected and is still to be called
  notices,      \* settlement notices delivered, by entry
  view,         \* what an OnChanged listener last listed, by owner
  tornDown      \* owners that have been torn down (history)

regVars   == <<items, seq, perOwner, maxPerOwner, notifier>>
entryVars == <<pc, id, owner, status, runErr, hasCancel, canceled>>
callVars  == <<kill, tearing, doomed>>
seenVars  == <<notices, view, tornDown>>
vars == <<regVars, entryVars, callVars, seenVars>>

(* No step tells one job from another.                                     *)
JobSymmetry == Permutations(Entries)

Terminal == {"completed", "killed", "failed"}
Status   == {"none", "running", "stopping"} \cup Terminal
Stages   == {"unused", "registered", "working", "returned",
             "recorded", "noticed", "published", "finished"}
AnyOwner == Owners \cup {NoOwner}

-----------------------------------------------------------------------------
Put(f, k, v) == [x \in DOMAIN f \cup {k} |-> IF x = k THEN v ELSE f[x]]
Drop(f, S)   == [x \in DOMAIN f \ S |-> f[x]]

(* The entries List(o) reports: those the map still reaches.               *)
Listed(e) == \E i \in DOMAIN items : items[i] = e
List(o) == {<<i, status[items[i]]>> :
              i \in {j \in DOMAIN items : owner[items[j]] = o}}

(* The entries of o whose goroutine has not given its slot back yet.       *)
Holding(o) == {e \in Entries : owner[e] = o /\ pc[e] \notin {"unused", "finished"}}

Init ==
  /\ items = [i \in {} |-> NoId]
  /\ seq = 0
  /\ perOwner = [o \in Owners |-> 0]
  /\ maxPerOwner = DefaultCap
  /\ notifier = FALSE
  /\ pc = [e \in Entries |-> "unused"]
  /\ id = [e \in Entries |-> NoId]
  /\ owner = [e \in Entries |-> NoOwner]
  /\ status = [e \in Entries |-> "none"]
  /\ runErr = {} /\ hasCancel = {} /\ canceled = {}
  /\ kill = [e \in Entries |-> "none"]
  /\ tearing = {}
  /\ doomed = {}
  /\ notices = [e \in Entries |-> <<>>]
  /\ view = [o \in Owners |-> {}]
  /\ tornDown = {}

(* fireChanged(o): a listener keyed by owner lists o again; a change of an  *)
(* unowned job names no owner.                                             *)
FireChanged(o) == view' = [v \in Owners |-> IF v = o THEN List(o) ELSE view[v]]

-----------------------------------------------------------------------------
(* Configuration calls.                                                    *)
SetNotifier ==
  /\ ~notifier
  /\ notifier' = TRUE
  /\ UNCHANGED <<items, seq, perOwner, maxPerOwner, entryVars, callVars, seenVars>>

SetMaxPerOwner(n) ==
  /\ maxPerOwner' = IF n <= 0 THEN DefaultCap ELSE n
  /\ UNCHANGED <<items, seq, perOwner, notifier, entryVars, callVars, seenVars>>

-----------------------------------------------------------------------------
(* Start: one critical section registers the entry; fireChanged, the        *)
(* assignment of the cancel function and the go statement follow unlocked. *)
HasRoomOffByOne(o) == o \in Owners => perOwner[o] <= maxPerOwner
HasRoom(o) == o \in Owners => perOwner[o] < maxPerOwner

FreeUnchecked(x) == TRUE
Free(x) == x # NoId => x \notin DOMAIN items

Start(e, o, x) ==
  /\ pc[e] = "unused"
  /\ HasRoom(o)
  /\ Free(x)
  /\ LET i == IF x = NoId THEN seq + 1 ELSE x
     IN  /\ id' = [id EXCEPT ![e] = i]
         /\ items' = Put(items, i, e)
  /\ seq' = IF x = NoId THEN seq + 1 ELSE seq
  /\ owner' = [owner EXCEPT ![e] = o]
  /\ status' = [status EXCEPT ![e] = "running"]
  /\ perOwner' = IF o \in Owners THEN [perOwner EXCEPT ![o] = @ + 1] ELSE perOwner
  /\ pc' = [pc EXCEPT ![e] = "registered"]
  /\ UNCHANGED <<maxPerOwner, notifier, runErr, hasCancel, canceled, callVars, seenVars>>

Launch(e) ==
  /\ pc[e] = "registered"
  /\ FireChanged(owner[e])
  /\ hasCancel' = hasCancel \cup {e}
  /\ pc' = [pc EXCEPT ![e] = "working"]
  /\ UNCHANGED <<regVars, id, owner, status, runErr, canceled, callVars, notices, tornDown>>

-----------------------------------------------------------------------------
(* The goroutine: Run returns, the outcome is recorded, settle, release.   *)
RunReturns(e, failed) ==
  /\ pc[e] = "working"
  /\ pc' = [pc EXCEPT ![e] = "returned"]
  /\ runErr' = IF failed THEN runErr \cup {e} ELSE runErr
  /\ UNCHANGED <<regVars, id, owner, status, hasCancel, canceled, callVars, seenVars>>

Outcome(e) == IF e \notin runErr THEN "completed"
              ELSE IF e \in canceled THEN "killed" ELSE "failed"

RecordOutcome(e) ==
  /\ pc[e] = "returned"
  /\ pc' = [pc EXCEPT ![e] = "recorded"]
  /\ status' = [status EXCEPT ![e] = Outcome(e)]
  /\ UNCHANGED <<regVars, id, owner, runErr, hasCancel, canceled, callVars, seenVars>>

(* settle copies the record (its reported bit has no other reader), calls  *)
(* the notifier registered at that moment, if there is one ...             *)
SettleNotify(e) ==
  /\ pc[e] = "recorded"
  /\ pc' = [pc EXCEPT ![e] = "noticed"]
  /\ notices' = IF notifier
                THEN [notices EXCEPT ![e] = Append(@, status[e])]
                ELSE notices
  /\ UNCHANGED <<regVars, id, owner, status, runErr, hasCancel, canceled, callVars,
                 view, tornDown>>

(* ... and, after the OnDone listeners, fires the visible-set change.      *)
SettleWithoutChange(e) ==
  /\ pc[e] = "noticed"
  /\ pc' = [pc EXCEPT ![e] = "published"]
  /\ UNCHANGED <<regVars, id, owner, status, runErr, hasCancel, canceled, callVars, seenVars>>

SettlePublish(e) ==
  /\ pc[e] = "noticed"
  /\ pc' = [pc EXCEPT ![e] = "published"]
  /\ FireChanged(owner[e])
  /\ UNCHANGED <<regVars, id, owner, status, runErr, hasCancel, canceled, callVars,
                 notices, tornDown>>

DecrementUnguarded(n) == n - 1
Decrement(n) == IF n > 0 THEN n - 1 ELSE n

ReleaseForgotten(e) ==
  /\ pc[e] = "published"
  /\ pc' = [pc EXCEPT ![e] = "finished"]
  /\ UNCHANGED <<regVars, id, owner, status, runErr, hasCancel, canceled, callVars, seenVars>>

Release(e) ==
  /\ pc[e] = "published"
  /\ pc' = [pc EXCEPT ![e] = "finished"]
  /\ perOwner' = IF owner[e] \in Owners
                 THEN [perOwner EXCEPT ![owner[e]] = Decrement(@)]
                 ELSE perOwner
  /\ UNCHANGED <<items, seq, maxPerOwner, notifier, id, owner, status, runErr, hasCancel,
                 canceled, callVars, seenVars>>

-----------------------------------------------------------------------------
(* Kill: lookup under the registry lock, the status test under the entry   *)
(* lock, then fireChanged and the cancel function with no lock.            *)
KillLookup(i) ==
  /\ i \in DOMAIN items
  /\ kill[items[i]] = "none"
  /\ kill' = [kill EXCEPT ![items[i]] = "found"]
  /\ UNCHANGED <<regVars, entryVars, tearing, doomed, seenVars>>

KillableAlways(e) == TRUE
Killable(e) == status[e] = "running"

KillMark(e) ==
  /\ kill[e] = "found"
  /\ \/ /\ Killable(e)
        /\ status' = [status EXCEPT ![e] = "stopping"]
        /\ doomed' = IF e \in hasCancel THEN doomed \cup {e} ELSE doomed
        /\ kill' = [kill EXCEPT ![e] = "marked"]
     \/ /\ ~Killable(e)
        /\ kill' = [kill EXCEPT ![e] = "none"]
        /\ UNCHANGED <<status, doomed>>
  /\ UNCHANGED <<regVars, pc, id, owner, runErr, hasCancel, canceled, tearing, seenVars>>

KillCancel(e) ==
  /\ kill[e] = "marked"
  /\ kill' = [kill EXCEPT ![e] = "none"]
  /\ FireChanged(owner[e])
  /\ canceled' = IF e \in doomed THEN canceled \cup {e} ELSE canceled
  /\ doomed' = doomed \ {e}
  /\ UNCHANGED <<regVars, pc, id, owner, status, runErr, hasCancel, tearing, notices, tornDown>>

-----------------------------------------------------------------------------
(* Teardown: one critical section over the registry marks the running      *)
(* entries killed and forgets every terminal record and the owner's count; *)
(* fireChanged and the collected cancel functions follow with no lock.     *)
Mine(o) == {e \in Entries : owner[e] = o /\ Listed(e)}
Forced(o) == {e \in Mine(o) : status[e] = "running"}
Forgotten(o) == {i \in DOMAIN items : items[i] \in Mine(o)
                              /\ status[items[i]] \in Terminal \cup {"running"}}

TeardownMark(o) ==
  /\ o \notin tearing
  /\ status' = [e \in Entries |-> IF e \in Forced(o) THEN "killed" ELSE status[e]]
  /\ doomed' = doomed \cup (Forced(o) \cap hasCancel)
  /\ items' = Drop(items, Forgotten(o))
  /\ perOwner' = [perOwner EXCEPT ![o] = 0]
  /\ tearing' = tearing \cup {o}
  /\ tornDown' = tornDown \cup {o}
  /\ UNCHANGED <<seq, maxPerOwner, notifier, pc, id, owner, runErr, hasCancel, canceled,
                 kill, notices, view>>

(* The cancel functions this call collected: those of owner o that no Kill *)
(* is carrying.                                                            *)
Collected(o) == {e \in doomed : owner[e] = o /\ kill[e] # "marked"}

TeardownNoCancel(o) ==
  /\ o \in tearing
  /\ tearing' = tearing \ {o}
  /\ FireChanged(o)
  /\ UNCHANGED <<regVars, entryVars, kill, doomed, notices, tornDown>>

TeardownCancel(o) ==
  /\ o \in tearing
  /\ tearing' = tearing \ {o}
  /\ FireChanged(o)
  /\ canceled' = canceled \cup Collected(o)
  /\ doomed' = doomed \ Collected(o)
  /\ UNCHANGED <<regVars, pc, id, owner, status, runErr, hasCancel, kill, notices, tornDown>>

-----------------------------------------------------------------------------
Goroutine(e) ==
  \/ Launch(e) \/ RecordOutcome(e) 
  \/ SettleNotify(e) \/ SettlePublish(e) \/ Release(e)

KillStep(e) == KillMark(e) \/ KillCancel(e)

Next ==
  \/ SetNotifier
  \/ \E n \in CapSettings : SetMaxPerOwner(n)
  \/ \E e \in Entries, o \in AnyOwner, x \in ExplicitIds \cup {NoId} : Start(e, o, x)
  \/ \E e \in Entries : Goroutine(e)
  \/ \E e \in Entries, failed \in BOOLEAN : RunReturns(e, failed)
  \/ \E i \in DOMAIN items : KillLookup(i)
  \/ \E e \in Entries : KillStep(e)
  \/ \E o \in Owners : TeardownMark(o)
  \/ \E o \in Owners : TeardownCancel(o)

Spec == Init /\ [][Next]_vars

(* Goroutines and calls in progress keep running; Run must return only once *)
(* its context is cancelled, the contract of Spec.Run.                      *)
HonoursCancel(e) == e \in canceled /\ \E failed \in BOOLEAN : RunReturns(e, failed)

Fairness ==
  /\ \A e \in Entries : /\ WF_vars(Goroutine(e))
                        /\ WF_vars(KillStep(e))
                        /\ WF_vars(HonoursCancel(e))
  /\ \A o \in Owners : WF_vars(TeardownCancel(o))

FairSpec == Spec /\ Fairness

-----------------------------------------------------------------------------
(* Every variable keeps its type; in particular no owner's count of running *)
(* jobs ever goes below zero.                                              *)
TypeOK ==
  /\ DOMAIN items \subseteq Nat
  /\ \A i \in DOMAIN items : items[i] \in Entries
  /\ seq \in Nat
  /\ perOwner \in [Owners -> Nat]
  /\ maxPerOwner \in Nat
  /\ notifier \in BOOLEAN
  /\ pc \in [Entries -> Stages]
  /\ id \in [Entries -> Nat \cup {NoId}]
  /\ owner \in [Entries -> AnyOwner]
  /\ status \in [Entries -> Status]
  /\ runErr \subseteq Entries
  /\ hasCancel \subseteq Entries
  /\ canceled \subseteq Entries
  /\ kill \in [Entries -> {"none", "found", "marked"}]
  /\ tearing \subseteq Owners
  /\ doomed \subseteq Entries
  /\ notices \in [Entries -> Seq(Terminal)]
  /\ view \in [Owners -> SUBSET (Nat \X Status)]
  /\ tornDown \subseteq Owners

(* No slot leaks: an owner is never charged for more jobs than it has work *)
(* in progress, whatever Kill and Teardown do meanwhile, so an owner whose *)
(* work has all ended can always start again.                              *)
NoLeakedSlot == \A o \in Owners : perOwner[o] <= Cardinality(Holding(o))

(* Until its first Teardown an owner is charged for exactly the jobs whose *)
(* goroutine has not released its slot.                                    *)
ExactSlots ==
  \A o \in Owners \ tornDown : perOwner[o] = Cardinality(Holding(o))

(* The count the cap is tested against tells the truth: exactly until the  *)
(* owner's first Teardown, and never too high after it.                    *)
SlotsAccounted == NoLeakedSlot /\ ExactSlots

(* Until its first Teardown, an owner's work in progress grows only while  *)
(* it stays within the cap in force (ErrJobLimit).                         *)
AdmittedUnderCap ==
  [][\A o \in Owners \ tornDown :
        Cardinality(Holding(o)') > Cardinality(Holding(o))
          => Cardinality(Holding(o)') <= maxPerOwner]_vars

(* A settlement is noticed at most once and the notice says what the       *)
(* record says, then and ever after.                                       *)
NoticeAgreesWithRecord ==
  \A e \in Entries : notices[e] # <<>> => notices[e] = <<status[e]>>

(* A listed record that has reached a terminal status keeps it for as long *)
(* as it is listed: Kill, Teardown and a late outcome never rewrite it.    *)
RecordStable ==
  [][\A e \in Entries : Listed(e) /\ status[e] \in Terminal /\ Listed(e)'
        => status'[e] = status[e]]_vars

(* A registered job stays reachable by its id until its owner tears down.  *)
RecordNotLost ==
  \A e \in Entries : pc[e] # "unused" /\ owner[e] \notin tornDown
        => id[e] \in DOMAIN items /\ items[id[e]] = e

(* The change feed converges: an owner's listener is out of date only while *)
(* a call that is about to fire for this owner is in flight.               *)
ChangePending(o) ==
  \/ o \in tearing
  \/ \E e \in Entries : /\ owner[e] = o
                         /\ \/ pc[e] \in {"registered", "recorded", "noticed"}
                            \/ kill[e] = "marked"
ChangedFeedConverges ==
  \A o \in Owners : ~ChangePending(o) => view[o] = List(o)

(* The change feed and the records: a listener that lists when it is told  *)
(* to ends up with the list as it is, and no record is overwritten by      *)
(* another job's.                                                          *)
FeedShowsEveryJob == ChangedFeedConverges /\ RecordNotLost

(* A job whose cancel function was collected, by Kill or by Teardown, is   *)
(* eventually cancelled, settles and gives its slot back.                  *)
CollectedCancelSettles ==
  \A e \in Entries : e \in doomed ~> pc[e] = "finished"

-----------------------------------------------------------------------------
(* What comments of the source say and the code does not do.               *)

(* "the run context is canceled, and the job settles ... when the work     *)
(* returns" (Kill): every job in status stopping settles.                  *)
KilledJobSettles == \A e \in Entries : status[e] = "stopping" ~> pc[e] = "finished"

(* "the job settles as killed when the work returns" (Kill).               *)
StoppingSettlesAsKilled ==
  [][\A e \in Entries : status[e] = "stopping" /\ status'[e] # "stopping"
        => status'[e] = "killed"]_vars

(* "owners have a concurrency cap": no owner has more jobs listed as live  *)
(* than the cap.                                                           *)
Live(o) == {e \in Entries : /\ owner[e] = o /\ Listed(e)
                            /\ status[e] \in {"running", "stopping"}}
LiveJobsUnderCap == \A o \in Owners : Cardinality(Live(o)) <= maxPerOwner

(* "Explicit ids must be unique": two live records never share an id.      *)
IdsUnique ==
  \A d, e \in Entries : /\ d # e /\ id[d] = id[e]
                        /\ status[d] \in {"running", "stopping"}
                        /\ status[e] \in {"running", "stopping"}
                        => owner[d] \in tornDown \/ owner[e] \in tornDown
=============================================================================
