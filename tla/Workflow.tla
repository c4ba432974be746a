---- MODULE Workflow ----
(* The workflow engine of agents/workflow: ParseSpec with its caps, Run     *)
(* with one goroutine per item, and the FIFO slot queue that all runs of    *)
(* one engine share. A child is an outcome: its value, no value (it failed, *)
(* or its text does not fit the schema), or an error that is fatal.         *)
EXTENDS Integers, Sequences, FiniteSets

CONSTANTS
  Docs,             \* documents of runs: a sequence of [items, stages]
  MaxConcurrent, MaxTotalAgents, MaxItemsPerCall

\* The limits are Go ints, and a MaxConcurrent that is not positive means a
\* single slot; a document has the lengths of its lists.
ASSUME WorkflowAssumption ==
  /\ {MaxConcurrent, MaxTotalAgents, MaxItemsPerCall} \subseteq Int
  /\ Docs \in Seq([items : Nat, stages : Nat])

VARIABLES
  outcome,          \* of each Run: "new", "running", "result" or an error code
  callerDone,       \* the caller's context has ended
  runCanceled,      \* cancel() of the run was called
  fatalErr,         \* the first fatal error of the run
  free, waiters,    \* slotQueue
  worker,           \* where the goroutine of an item is
  handed,           \* workers whose channel release() has closed
  done,             \* res.Values: stages that have a value
  agentsStarted,    \* recordStart's count
  nulled            \* history: items whose child had no value for them

slotQueue == <<free, waiters>>
workflowVars == <<outcome, callerDone, runCanceled, fatalErr, slotQueue, worker,
                  handed, done, agentsStarted, nulled>>

Runs == DOMAIN Docs
ItemsOf(r) == 1..Docs[r].items
Workers == UNION {{<<r, i>> : i \in ItemsOf(r)} : r \in Runs}
RunCtxDone(r) == callerDone[r] \/ runCanceled[r]

\* ParseSpec, as far as counts decide: "" or the code of the error.
ParseSpec(doc) ==
  IF doc.stages = 0 THEN "invalid_spec"
  ELSE IF doc.items > MaxItemsPerCall THEN "item_cap"
  ELSE IF doc.items * doc.stages > MaxTotalAgents THEN "agent_cap"
  ELSE ""

WorkflowInit ==
  /\ outcome = [r \in Runs |-> "new"]
  /\ callerDone = [r \in Runs |-> FALSE]
  /\ runCanceled = [r \in Runs |-> FALSE]
  /\ fatalErr = [r \in Runs |-> ""]
  /\ free = (IF MaxConcurrent <= 0 THEN 1 ELSE MaxConcurrent)   \* newSlotQueue
  /\ waiters = <<>>
  /\ worker = [w \in Workers |-> "none"]
  /\ handed = {}
  /\ done = [w \in Workers |-> 0]
  /\ agentsStarted = [r \in Runs |-> 0]
  /\ nulled = {}

Run(r) ==
  /\ outcome[r] = "new"
  /\ LET code == ParseSpec(Docs[r])
     IN /\ outcome' = [outcome EXCEPT ![r] = IF code = "" THEN "running" ELSE code]
        /\ worker' = [w \in Workers |->
                        IF w[1] = r /\ code = "" THEN "next" ELSE worker[w]]
  /\ UNCHANGED <<callerDone, runCanceled, fatalErr, slotQueue, handed, done,
                 agentsStarted, nulled>>
----------------------------------------------------------------------------
(* slotQueue. *)
InWaiters(w) == \E i \in DOMAIN waiters : waiters[i] = w

\* acquire: a free slot at once, or a place at the end of the queue.
Acquire(w) ==
  \/ /\ free > 0
     /\ free' = free - 1
     /\ worker' = [worker EXCEPT ![w] = "stage"]
     /\ UNCHANGED waiters
  \/ /\ free <= 0
     /\ waiters' = Append(waiters, w)
     /\ worker' = [worker EXCEPT ![w] = "waiting"]
     /\ UNCHANGED free

ReleaseNewest ==
  \/ /\ waiters # <<>>
     /\ handed' = handed \union {waiters[Len(waiters)]}
     /\ waiters' = SubSeq(waiters, 1, Len(waiters) - 1)
     /\ UNCHANGED free
  \/ /\ waiters = <<>>
     /\ free' = free + 1
     /\ UNCHANGED <<waiters, handed>>
\* release: the oldest waiter's channel is closed, or the slot is free again.
Release ==
  \/ /\ waiters # <<>>
     /\ handed' = handed \union {Head(waiters)}
     /\ waiters' = Tail(waiters)
     /\ UNCHANGED free
  \/ /\ waiters = <<>>
     /\ free' = free + 1
     /\ UNCHANGED <<waiters, handed>>

\* The select of acquire sees the closed channel ...
Granted(w) ==
  /\ worker[w] = "waiting" /\ w \in handed
  /\ handed' = handed \ {w}
  /\ worker' = [worker EXCEPT ![w] = "stage"]
  /\ UNCHANGED <<outcome, callerDone, runCanceled, fatalErr, slotQueue, done,
                 agentsStarted, nulled>>

\* ... or the context first: it then looks for itself in the queue under the
\* lock, which release may have emptied of it in the meantime.
SeesDone(w) ==
  /\ worker[w] = "waiting" /\ RunCtxDone(w[1])
  /\ worker' = [worker EXCEPT ![w] = "leaving"]
  /\ UNCHANGED <<outcome, callerDone, runCanceled, fatalErr, slotQueue, handed,
                 done, agentsStarted, nulled>>

CutOut(q, i) == SubSeq(q, 1, i - 1) \o SubSeq(q, i + 1, Len(q))
LeavesQueue(w) ==
  /\ worker[w] = "leaving"
  /\ \E i \in DOMAIN waiters : waiters[i] = w /\ waiters' = CutOut(waiters, i)
  /\ worker' = [worker EXCEPT ![w] = "returned"]
  /\ UNCHANGED <<outcome, callerDone, runCanceled, fatalErr, free, handed, done,
                 agentsStarted, nulled>>

DropHandedSlot(w) ==
  /\ worker[w] = "leaving" /\ ~InWaiters(w)
  /\ handed' = handed \ {w}
  /\ worker' = [worker EXCEPT ![w] = "returned"]
  /\ UNCHANGED <<outcome, callerDone, runCanceled, fatalErr, slotQueue, done,
                 agentsStarted, nulled>>
TakesHandedSlot(w) ==
  /\ worker[w] = "leaving" /\ ~InWaiters(w)
  /\ handed' = handed \ {w}
  /\ worker' = [worker EXCEPT ![w] = "stage"]
  /\ UNCHANGED <<outcome, callerDone, runCanceled, fatalErr, slotQueue, done,
                 agentsStarted, nulled>>
----------------------------------------------------------------------------
(* The goroutine of an item: the loop over the stages.                      *)
NextStage(w) ==
  /\ worker[w] = "next"
  /\ \/ /\ done[w] = Docs[w[1]].stages \/ RunCtxDone(w[1])
        /\ worker' = [worker EXCEPT ![w] = "returned"]
        /\ UNCHANGED slotQueue
     \/ /\ done[w] < Docs[w[1]].stages /\ ~RunCtxDone(w[1])
        /\ Acquire(w)
  /\ UNCHANGED <<outcome, callerDone, runCanceled, fatalErr, handed, done,
                 agentsStarted, nulled>>

StageValue(w) ==
  /\ worker[w] = "stage" /\ Release
  /\ done' = [done EXCEPT ![w] = @ + 1]
  /\ agentsStarted' = [agentsStarted EXCEPT ![w[1]] = @ + 1]
  /\ worker' = [worker EXCEPT ![w] = "next"]
  /\ UNCHANGED <<outcome, callerDone, runCanceled, fatalErr, nulled>>

\* The child failed or its answer does not match the schema.
StageNull(w) ==
  /\ worker[w] = "stage" /\ Release
  /\ agentsStarted' = [agentsStarted EXCEPT ![w[1]] = @ + 1]
  /\ nulled' = nulled \union {w}
  /\ worker' = [worker EXCEPT ![w] = "returned"]
  /\ UNCHANGED <<outcome, callerDone, runCanceled, fatalErr, done>>

\* Registry.Run returns an error: an ordinary null once the run's context is
\* done, else fatal, like a nil agent of the factory.
StageNotRun(w) ==
  /\ worker[w] = "stage" /\ Release
  /\ worker' = [worker EXCEPT ![w] = IF RunCtxDone(w[1]) THEN "returned" ELSE "fatal"]
  /\ UNCHANGED <<outcome, callerDone, runCanceled, fatalErr, done, agentsStarted, nulled>>

FatalOrdinary(w) ==
  /\ worker[w] = "stage" /\ Release
  /\ worker' = [worker EXCEPT ![w] = "returned"]
  /\ UNCHANGED <<outcome, callerDone, runCanceled, fatalErr, done, agentsStarted, nulled>>
StageFatal(w) ==
  /\ worker[w] = "stage" /\ Release
  /\ worker' = [worker EXCEPT ![w] = "fatal"]
  /\ agentsStarted' \in {agentsStarted, [agentsStarted EXCEPT ![w[1]] = @ + 1]}
  /\ UNCHANGED <<outcome, callerDone, runCanceled, fatalErr, done, nulled>>

\* fatal: the first error is kept and ends the run.
Fatal(w) ==
  /\ worker[w] = "fatal"
  /\ fatalErr' = [fatalErr EXCEPT ![w[1]] = IF @ = "" THEN "agent_start" ELSE @]
  /\ runCanceled' = [runCanceled EXCEPT ![w[1]] = TRUE]
  /\ worker' = [worker EXCEPT ![w] = "returned"]
  /\ UNCHANGED <<outcome, callerDone, slotQueue, handed, done, agentsStarted, nulled>>

\* After wg.Wait: a fatal error, the caller's cancellation, the result.
Finish(r) ==
  /\ outcome[r] = "running"
  /\ \A i \in ItemsOf(r) : worker[<<r, i>>] = "returned"
  /\ outcome' = [outcome EXCEPT ![r] =
                   IF fatalErr[r] # "" THEN fatalErr[r]
                   ELSE IF callerDone[r] THEN "cancelled" ELSE "result"]
  /\ runCanceled' = [runCanceled EXCEPT ![r] = TRUE]
  /\ UNCHANGED <<callerDone, fatalErr, slotQueue, worker, handed, done,
                 agentsStarted, nulled>>

CancelRun(r) ==
  /\ outcome[r] = "running" /\ ~callerDone[r]
  /\ callerDone' = [callerDone EXCEPT ![r] = TRUE]
  /\ UNCHANGED <<outcome, runCanceled, fatalErr, slotQueue, worker, handed, done,
                 agentsStarted, nulled>>

Item(w) == NextStage(w) \/ Granted(w) \/ LeavesQueue(w) \/ TakesHandedSlot(w)
             \/ StageValue(w) \/ StageNull(w) \/ StageNotRun(w) \/ StageFatal(w)
             \/ Fatal(w)

WorkflowNext ==
  \/ \E w \in Workers : Item(w) \/ SeesDone(w)
  \/ \E r \in Runs : Run(r) \/ Finish(r) \/ CancelRun(r)

WorkflowSpec == WorkflowInit /\ [][WorkflowNext]_workflowVars
----------------------------------------------------------------------------
SlotCount == IF MaxConcurrent <= 0 THEN 1 ELSE MaxConcurrent
Holders == {w \in Workers : worker[w] = "stage"} \union handed

WorkflowTypeOK ==
  /\ free \in 0..SlotCount
  /\ \A i \in DOMAIN waiters : waiters[i] \in Workers
  /\ handed \subseteq {w \in Workers : worker[w] \in {"waiting", "leaving"}}
  /\ \A w \in Workers :
       /\ worker[w] \in {"none", "next", "waiting", "leaving", "stage", "fatal", "returned"}
       /\ done[w] \in 0..Docs[w[1]].stages

(* No slot is lost or made up, whatever releases and cancellations race:    *)
(* free, held and handed-over slots are as many as configured, and nobody   *)
(* waits while one is free.                                                 *)
SlotsAreConserved ==
  /\ free + Cardinality(Holders) = SlotCount
  /\ waiters # <<>> => free = 0

(* The slot queue is a first-come-first-served semaphore.                   *)
Semaphore == INSTANCE FifoSemaphore WITH
  Slots <- SlotCount, Clients <- Workers, holders <- Holders, queue <- waiters
SlotsAreFifo == Semaphore!SemaphoreSpec

(* A result that is returned hides nothing: an item lacks a stage only      *)
(* because its own child had no value for it, never because another item's  *)
(* error or a cancellation cut it short, and every child is counted.        *)
Sum(r) == LET f[i \in 0..Docs[r].items] == IF i = 0 THEN 0 ELSE f[i - 1] + done[<<r, i>>]
          IN f[Docs[r].items]
ResultHidesNothing ==
  \A r \in Runs : outcome[r] = "result" =>
    /\ \A i \in ItemsOf(r) : done[<<r, i>>] = Docs[r].stages \/ <<r, i>> \in nulled
    /\ agentsStarted[r] = Sum(r) + Cardinality({w \in nulled : w[1] = r})
    /\ agentsStarted[r] <= MaxTotalAgents

(* A workflow comes to its end: children that answer free their slots, and  *)
(* the queue passes them on to everyone who waits.                          *)
WorkflowEnds == \A r \in Runs : outcome[r] = "running" ~> outcome[r] # "running"
WorkflowFairness ==
  /\ \A w \in Workers : WF_workflowVars(Item(w))
  /\ \A r \in Runs : WF_workflowVars(Finish(r))
====
