------------------------- MODULE OrchestrationProofs -------------------------
(***************************************************************************)
(* Proofs about the workflow engine, about agents composed of several and  *)
(* about what is recorded of a run, for runs of any size, any number of    *)
(* agents, slots and steps, and then about the instance that puts them     *)
(* side by side.                                                           *)
(***************************************************************************)
EXTENDS MCOrchestration, SequenceTheorems, FiniteSetTheorems, WellFoundedInduction, TLAPS

(* Proofs, for any runs of any size and any number of slots: the slots are  *)
(* conserved, and the engine refines the semaphore.  What makes both        *)
(* inductive is where a worker is: it waits or leaves exactly while it is   *)
(* in the queue or has been handed a slot, and it is never both.            *)
Waits(w) == worker[w] \in {"waiting", "leaving"}
Places == {"none", "next", "waiting", "leaving", "stage", "fatal", "returned"}

QueueInv ==
  /\ worker \in [Workers -> Places]
  /\ waiters \in Seq(Workers)
  /\ handed \subseteq Workers
  /\ \A i, j \in DOMAIN waiters : waiters[i] = waiters[j] => i = j
  /\ \A w \in Workers : Waits(w) <=> InWaiters(w) \/ w \in handed
  /\ \A w \in handed : ~InWaiters(w)

\* Run puts the workers of its run at the start: they were not in use.
Outcomes == {"new", "running", "result", "cancelled", "agent_start",
             "invalid_spec", "item_cap", "agent_cap"}
RunInv ==
  /\ outcome \in [Runs -> Outcomes]
  /\ fatalErr \in [Runs -> {"", "agent_start"}]
  /\ \A w \in Workers : outcome[w[1]] = "new" => worker[w] = "none"

SlotInv == free \in Nat /\ IsFiniteSet(Holders) /\ SlotsAreConserved

WorkflowInv == QueueInv /\ RunInv /\ SlotInv

LEMMA WorkerOfRun == \A w \in Workers : w[1] \in Runs
  BY DEF Workers

\* The abstract module counts with the same operator.
LEMMA SameCount == ASSUME NEW S PROVE Semaphore!Cardinality(S) = Cardinality(S)
  BY DEF Semaphore!Cardinality, Cardinality

LEMMA InitWorkflowInv ==
  ASSUME WorkflowInit PROVE WorkflowInv /\ Semaphore!SemaphoreInit
<1>1. Holders = {}
  BY DEF WorkflowInit, Holders
<1>2. QueueInv
  <2>1. waiters = <<>> /\ handed = {}
    BY DEF WorkflowInit
  <2>2. waiters \in Seq(Workers) /\ DOMAIN waiters = 1..0
    BY <2>1
  <2>3. worker = [w \in Workers |-> "none"]
    BY DEF WorkflowInit
  <2> QED
    BY <2>1, <2>3, <2>2 DEF QueueInv, Places, Waits, InWaiters
<1>3. RunInv
  BY WorkerOfRun DEF WorkflowInit, RunInv, Outcomes
<1>4. SlotInv
  <2>1. free = SlotCount /\ waiters = <<>>
    BY DEF WorkflowInit, SlotCount
  <2>2. SlotCount \in Nat
    BY WorkflowAssumption DEF SlotCount
  <2>3. IsFiniteSet(Holders) /\ Cardinality(Holders) = 0
    BY <1>1, FS_EmptySet
  <2> QED
    BY <2>1, <2>3, <2>2 DEF SlotInv, SlotsAreConserved
<1>5. Semaphore!SemaphoreInit
  BY <1>1 DEF WorkflowInit, Semaphore!SemaphoreInit
<1> QED
  BY <1>2, <1>3, <1>4, <1>5 DEF WorkflowInv

SlotStep == [Semaphore!SemaphoreNext]_<<Holders, waiters>>

(* A worker that moves without touching queue, hand-over or slot.           *)
LEMMA QuietMove ==
  ASSUME QueueInv, SlotInv, NEW w \in Workers, NEW p \in Places,
         worker' = [worker EXCEPT ![w] = p], UNCHANGED <<free, waiters, handed>>,
         worker[w] # "stage", p # "stage", Waits(w) <=> p \in {"waiting", "leaving"}
  PROVE  QueueInv' /\ SlotInv' /\ SlotStep
<1>1. \A v \in Workers : Waits(v)' <=> Waits(v)
  BY DEF QueueInv, Waits
<1>2. QueueInv'
  BY <1>1 DEF QueueInv, InWaiters
<1>3. Holders' = Holders
  BY DEF Holders, QueueInv
<1> QED
  BY <1>2, <1>3 DEF SlotInv, SlotsAreConserved, SlotStep

(* A handed slot is taken: the holder was one already.                      *)
LEMMA TakeHanded ==
  ASSUME QueueInv, SlotInv, NEW w \in handed, worker' = [worker EXCEPT ![w] = "stage"],
         handed' = handed \ {w}, UNCHANGED <<free, waiters>>
  PROVE  QueueInv' /\ SlotInv' /\ SlotStep
<1>1. \A v \in Workers : Waits(v)' <=> Waits(v) /\ v # w
  BY DEF QueueInv, Waits
<1>2. QueueInv'
  BY <1>1 DEF QueueInv, InWaiters, Places
<1>3. Holders' = Holders
  BY DEF Holders, QueueInv
<1> QED
  BY <1>2, <1>3 DEF SlotInv, SlotsAreConserved, SlotStep

(* acquire.                                                                 *)
LEMMA AcquireFree ==
  ASSUME QueueInv, SlotInv, NEW w \in Workers, worker[w] = "next",
         worker' = [worker EXCEPT ![w] = "stage"], free > 0, free' = free - 1,
         UNCHANGED <<waiters, handed>>
  PROVE  QueueInv' /\ SlotInv' /\ SlotStep
<1>1. \A v \in Workers : Waits(v)' <=> Waits(v)
  BY DEF QueueInv, Waits
<1>2. QueueInv'
  BY <1>1 DEF QueueInv, InWaiters, Places
<1>3. w \notin Holders /\ ~InWaiters(w)
  BY DEF Holders, QueueInv, Waits
<1>4. Holders' = Holders \union {w}
  BY DEF Holders, QueueInv
<1>5. /\ IsFiniteSet(Holders') /\ Cardinality(Holders') = Cardinality(Holders) + 1
      /\ Cardinality(Holders) \in Nat
  BY <1>3, <1>4, FS_AddElement, FS_CardinalityType DEF SlotInv
<1>6. waiters = <<>>
  BY DEF SlotInv, SlotsAreConserved
<1>7. SlotInv'
  BY <1>5, <1>6 DEF SlotInv, SlotsAreConserved, SlotCount
<1>8. Semaphore!Enter(w)
  BY <1>3, <1>4, <1>5, <1>6, SameCount
     DEF Semaphore!Enter, Semaphore!InQueue, InWaiters, SlotInv, SlotsAreConserved
<1> QED
  BY <1>2, <1>7, <1>8 DEF SlotStep, Semaphore!SemaphoreNext

LEMMA AcquireWaits ==
  ASSUME QueueInv, SlotInv, NEW w \in Workers, worker[w] = "next",
         worker' = [worker EXCEPT ![w] = "waiting"], free <= 0,
         waiters' = Append(waiters, w), UNCHANGED <<free, handed>>
  PROVE  QueueInv' /\ SlotInv' /\ SlotStep
<1>1. \A v \in Workers : Waits(v)' <=> Waits(v) \/ v = w
  BY DEF QueueInv, Waits
<1>2. w \notin Holders /\ ~InWaiters(w) /\ w \notin handed
  BY DEF Holders, QueueInv, Waits
<1>3. /\ waiters' \in Seq(Workers) /\ Len(waiters') = Len(waiters) + 1
      /\ \A i \in DOMAIN waiters : waiters'[i] = waiters[i]
      /\ waiters'[Len(waiters) + 1] = w
      /\ DOMAIN waiters = 1..Len(waiters) /\ DOMAIN waiters' = 1..Len(waiters')
      /\ Len(waiters) \in Nat
  BY DEF QueueInv
<1>4. \A v : InWaiters(v)' <=> InWaiters(v) \/ v = w
  BY <1>3 DEF InWaiters
<1>5. \A i, j \in DOMAIN waiters' : waiters'[i] = waiters'[j] => i = j
  BY <1>2, <1>3 DEF QueueInv, InWaiters
<1>6. QueueInv'
  BY <1>1, <1>2, <1>3, <1>4, <1>5 DEF QueueInv, Places
<1>7. Holders' = Holders
  BY DEF Holders, QueueInv
<1>8. free = 0 /\ Cardinality(Holders) = SlotCount
  BY FS_CardinalityType DEF SlotInv, SlotsAreConserved
<1>9. SlotInv'
  BY <1>7, <1>8 DEF SlotInv, SlotsAreConserved
<1>10. Semaphore!Wait(w)
  BY <1>2, <1>7, <1>8, SameCount DEF Semaphore!Wait, Semaphore!InQueue, InWaiters
<1> QED
  BY <1>6, <1>9, <1>10 DEF SlotStep, Semaphore!SemaphoreNext

(* release at the end of a stage.                                           *)
LEMMA ReleaseSlot ==
  ASSUME QueueInv, SlotInv, NEW w \in Workers, worker[w] = "stage",
         NEW p \in {"next", "returned", "fatal"}, worker' = [worker EXCEPT ![w] = p], Release
  PROVE  QueueInv' /\ SlotInv' /\ SlotStep
<1>1. \A v \in Workers : Waits(v)' <=> Waits(v)
  BY DEF QueueInv, Waits
<1>2. w \in Holders /\ w \notin handed
  BY DEF Holders, QueueInv, Waits
<1>3. worker' \in [Workers -> Places]
  BY DEF QueueInv, Places
<1>4. /\ IsFiniteSet(Holders \ {w}) /\ Cardinality(Holders \ {w}) = Cardinality(Holders) - 1
      /\ Cardinality(Holders) \in Nat
  BY <1>2, FS_RemoveElement, FS_CardinalityType DEF SlotInv
<1>5. CASE waiters = <<>>
  <2>1. free' = free + 1 /\ waiters' = waiters /\ handed' = handed
    BY <1>5 DEF Release
  <2>2. QueueInv'
    BY <1>1, <1>3, <2>1 DEF QueueInv, InWaiters
  <2>3. Holders' = Holders \ {w}
    BY <1>2, <2>1 DEF Holders, QueueInv
  <2>4. SlotInv'
    BY <1>4, <1>5, <2>1, <2>3 DEF SlotInv, SlotsAreConserved, SlotCount
  <2>5. Semaphore!Leave(w)
    BY <1>2, <1>5, <2>1, <2>3 DEF Semaphore!Leave
  <2> QED
    BY <2>2, <2>4, <2>5 DEF SlotStep, Semaphore!SemaphoreNext
<1>6. CASE waiters # <<>>
  <2> DEFINE h == Head(waiters)
  <2>1. /\ handed' = handed \union {h} /\ waiters' = Tail(waiters) /\ free' = free
    BY <1>6 DEF Release
  <2>2. /\ h \in Workers /\ h = waiters[1] /\ waiters' \in Seq(Workers)
        /\ Len(waiters) \in Nat \ {0} /\ Len(waiters') = Len(waiters) - 1
        /\ \A i \in 1..Len(waiters') : waiters'[i] = waiters[i + 1]
        /\ DOMAIN waiters = 1..Len(waiters) /\ DOMAIN waiters' = 1..Len(waiters')
    BY <1>6, <2>1 DEF QueueInv
  <2> HIDE DEF h
  <2>3. InWaiters(h) /\ Waits(h) /\ h \notin Holders /\ h # w
    BY <1>2, <2>2 DEF InWaiters, QueueInv, Waits, Holders
  <2>4. \A v : InWaiters(v)' <=> InWaiters(v) /\ v # h
    <3>1. ASSUME NEW v, InWaiters(v), v # h PROVE InWaiters(v)'
      <4>1. PICK i \in 1..Len(waiters) : waiters[i] = v
        BY <2>2, <3>1 DEF InWaiters
      <4>2. i - 1 \in 1..Len(waiters') /\ waiters'[i - 1] = v
        BY <2>2, <3>1, <4>1
      <4> QED
        BY <2>2, <4>2 DEF InWaiters
    <3>2. ASSUME NEW v, InWaiters(v)' PROVE InWaiters(v) /\ v # h
      <4>1. PICK i \in 1..Len(waiters') : waiters'[i] = v
        BY <2>2, <3>2 DEF InWaiters
      <4>2. i + 1 \in 1..Len(waiters) /\ waiters[i + 1] = v /\ i + 1 # 1
        BY <2>2, <4>1
      <4> QED
        BY SMTT(30), <2>2, <4>2 DEF InWaiters, QueueInv
    <3> QED
      BY <3>1, <3>2
  <2>5. \A i, j \in DOMAIN waiters' : waiters'[i] = waiters'[j] => i = j
    <3> SUFFICES ASSUME NEW i \in 1..Len(waiters'), NEW j \in 1..Len(waiters'),
                        waiters'[i] = waiters'[j]
                 PROVE  i = j
      BY <2>2
    <3>1. i + 1 \in DOMAIN waiters /\ j + 1 \in DOMAIN waiters /\ waiters[i + 1] = waiters[j + 1]
      BY <2>2
    <3>2. i + 1 = j + 1
      BY <3>1 DEF QueueInv
    <3> QED
      BY <3>2
  <2>6. QueueInv'
    BY <1>1, <1>3, <2>1, <2>2, <2>3, <2>4, <2>5 DEF QueueInv
  <2>7. Holders' = (Holders \ {w}) \union {h}
    BY <1>2, <2>1, <2>3 DEF Holders, QueueInv
  <2>8. IsFiniteSet(Holders') /\ Cardinality(Holders') = Cardinality(Holders)
    <3> DEFINE rest == Holders \ {w}
    <3>1. IsFiniteSet(rest) /\ h \notin rest /\ Holders' = rest \union {h}
      BY <1>4, <2>3, <2>7
    <3>2. IsFiniteSet(Holders') /\ Cardinality(Holders') = Cardinality(rest) + 1
      BY <3>1, FS_AddElement
    <3> QED
      BY <1>4, <3>2
  <2>9. SlotInv'
    BY <1>6, <2>1, <2>8 DEF SlotInv, SlotsAreConserved, SlotCount
  <2>10. Semaphore!Leave(w)
    BY <1>2, <1>6, <2>1, <2>7 DEF Semaphore!Leave, h
  <2> QED
    BY <2>6, <2>9, <2>10 DEF SlotStep, Semaphore!SemaphoreNext
<1> QED
  BY <1>5, <1>6

LEMMA CutOutSpec ==
  ASSUME NEW S, NEW q \in Seq(S), NEW k \in 1..Len(q)
  PROVE  /\ CutOut(q, k) \in Seq(S) /\ Len(CutOut(q, k)) = Len(q) - 1
         /\ \A i \in 1..(Len(q) - 1) : CutOut(q, k)[i] = q[IF i < k THEN i ELSE i + 1]
         /\ DOMAIN CutOut(q, k) = 1..(Len(q) - 1)
<1> DEFINE a == SubSeq(q, 1, k - 1)
           b == SubSeq(q, k + 1, Len(q))
<1>1. /\ a \in Seq(S) /\ Len(a) = k - 1 /\ \A i \in 1..(k - 1) : a[i] = q[i]
      /\ b \in Seq(S) /\ Len(b) = Len(q) - k /\ \A i \in 1..(Len(q) - k) : b[i] = q[k + i]
  OBVIOUS
<1>2. /\ a \o b \in Seq(S) /\ Len(a \o b) = Len(a) + Len(b)
      /\ DOMAIN (a \o b) = 1..(Len(a) + Len(b))
      /\ \A i \in 1..(Len(a) + Len(b)) :
           (a \o b)[i] = IF i <= Len(a) THEN a[i] ELSE b[i - Len(a)]
  <2> HIDE DEF a, b
  <2>1. a \in Seq(S) /\ b \in Seq(S)
    BY <1>1
  <2>2. a \o b \in Seq(S) /\ Len(a \o b) = Len(a) + Len(b)
    BY <2>1
  <2>3. DOMAIN (a \o b) = 1..(Len(a) + Len(b))
    BY <2>2
  <2>4. \A i \in 1..(Len(a) + Len(b)) :
           (a \o b)[i] = IF i <= Len(a) THEN a[i] ELSE b[i - Len(a)]
    BY <1>1
  <2> QED
    BY <2>2, <2>3, <2>4
<1>3. CutOut(q, k) = a \o b
  BY DEF CutOut
<1> HIDE DEF a, b
<1>4. \A i \in 1..(Len(q) - 1) : CutOut(q, k)[i] = q[IF i < k THEN i ELSE i + 1]
  <2> SUFFICES ASSUME NEW i \in 1..(Len(q) - 1)
               PROVE  CutOut(q, k)[i] = q[IF i < k THEN i ELSE i + 1]
    OBVIOUS
  <2>1. CASE i < k
    <3>1. (a \o b)[i] = a[i] /\ a[i] = q[i]
      BY <1>1, <1>2, <2>1
    <3> QED
      BY <1>3, <2>1, <3>1
  <2>2. CASE ~(i < k)
    <3>1. (a \o b)[i] = b[i - (k - 1)] /\ i - (k - 1) \in 1..(Len(q) - k)
      BY <1>1, <1>2, <2>2
    <3>2. b[i - (k - 1)] = q[i + 1]
      BY <1>1, <3>1
    <3> QED
      BY <1>3, <2>2, <3>1, <3>2
  <2> QED
    BY <2>1, <2>2
<1>5. Len(a) + Len(b) = Len(q) - 1
  BY <1>1
<1>6. CutOut(q, k) \in Seq(S) /\ Len(CutOut(q, k)) = Len(q) - 1
  BY <1>2, <1>3, <1>5
<1>7. DOMAIN CutOut(q, k) = 1..(Len(q) - 1)
  BY <1>2, <1>3, <1>5, Zenon
<1> QED
  BY <1>4, <1>6, <1>7, Zenon

(* The waiter whose context ended takes itself out of the queue.            *)
LEMMA LeaveQueue ==
  ASSUME QueueInv, SlotInv, NEW w \in Workers, LeavesQueue(w)
  PROVE  QueueInv' /\ SlotInv' /\ SlotStep
<1>1. PICK k \in DOMAIN waiters : waiters[k] = w /\ waiters' = CutOut(waiters, k)
  BY DEF LeavesQueue
<1>2. /\ worker' = [worker EXCEPT ![w] = "returned"] /\ worker[w] = "leaving"
      /\ free' = free /\ handed' = handed
  BY DEF LeavesQueue
<1>3. DOMAIN waiters = 1..Len(waiters) /\ Len(waiters) \in Nat /\ k \in 1..Len(waiters)
  BY DEF QueueInv
<1>4. /\ waiters' \in Seq(Workers) /\ Len(waiters') = Len(waiters) - 1
      /\ \A i \in 1..Len(waiters') : waiters'[i] = waiters[IF i < k THEN i ELSE i + 1]
      /\ DOMAIN waiters' = 1..Len(waiters')
  <2>1. /\ waiters' \in Seq(Workers) /\ Len(waiters') = Len(waiters) - 1
        /\ \A i \in 1..(Len(waiters) - 1) : waiters'[i] = waiters[IF i < k THEN i ELSE i + 1]
        /\ DOMAIN waiters' = 1..(Len(waiters) - 1)
    <3>1. waiters \in Seq(Workers) /\ k \in 1..Len(waiters)
      BY <1>3 DEF QueueInv
    <3> QED
      BY <1>1, <3>1, CutOutSpec
  <2> QED
    BY <2>1
<1>5. \A v : InWaiters(v)' <=> InWaiters(v) /\ v # w
  <2>1. ASSUME NEW v, InWaiters(v), v # w PROVE InWaiters(v)'
    <3>1. PICK i \in 1..Len(waiters) : waiters[i] = v
      BY <1>3, <2>1 DEF InWaiters
    <3>2. CASE i < k
      <4>1. i \in 1..Len(waiters') /\ waiters'[i] = v
        BY <1>3, <1>4, <3>1, <3>2
      <4> QED
        BY <1>4, <4>1 DEF InWaiters
    <3>3. CASE i > k
      <4>1. i - 1 \in 1..Len(waiters') /\ waiters'[i - 1] = v
        BY <1>3, <1>4, <3>1, <3>3
      <4> QED
        BY <1>4, <4>1 DEF InWaiters
    <3> QED
      BY <1>1, <1>3, <2>1, <3>1, <3>2, <3>3
  <2>2. ASSUME NEW v, InWaiters(v)' PROVE InWaiters(v) /\ v # w
    <3>1. PICK i \in 1..Len(waiters') : waiters'[i] = v
      BY <1>4, <2>2 DEF InWaiters
    <3>2. PICK j \in DOMAIN waiters : j # k /\ waiters[j] = v
      BY SMTT(30), <1>3, <1>4, <3>1
    <3> QED
      BY <1>1, <3>2 DEF InWaiters, QueueInv
  <2> QED
    BY <2>1, <2>2
<1>6. \A i, j \in DOMAIN waiters' : waiters'[i] = waiters'[j] => i = j
  <2> SUFFICES ASSUME NEW i \in 1..Len(waiters'), NEW j \in 1..Len(waiters'),
                      waiters'[i] = waiters'[j]
               PROVE  i = j
    BY <1>4
  <2> DEFINE from(x) == IF x < k THEN x ELSE x + 1
  <2>1. from(i) \in DOMAIN waiters /\ from(j) \in DOMAIN waiters /\ waiters[from(i)] = waiters[from(j)]
    BY <1>3, <1>4
  <2>2. from(i) = from(j)
    BY <2>1 DEF QueueInv
  <2> QED
    BY <1>3, <2>2
<1>7. \A v \in Workers : Waits(v)' <=> Waits(v) /\ v # w
  BY <1>2 DEF QueueInv, Waits
<1>8. w \notin handed
  BY <1>1 DEF QueueInv, InWaiters
<1>9. QueueInv'
  BY <1>2, <1>4, <1>5, <1>6, <1>7, <1>8 DEF QueueInv, Places
<1>10. Holders' = Holders
  BY <1>2 DEF Holders, QueueInv
<1>11. waiters # <<>>
  BY <1>3
<1>12. SlotInv'
  BY <1>2, <1>10, <1>11 DEF SlotInv, SlotsAreConserved
<1>13. Semaphore!Abandon(w)
  BY <1>1, <1>10 DEF Semaphore!Abandon, CutOut
<1> QED
  BY <1>9, <1>12, <1>13 DEF SlotStep, Semaphore!SemaphoreNext

(* Each step of an item's goroutine is one of these.                        *)
LEMMA ItemStep ==
  ASSUME QueueInv, SlotInv, NEW w \in Workers, Item(w) \/ SeesDone(w)
  PROVE  QueueInv' /\ SlotInv' /\ SlotStep
<1> USE DEF slotQueue
<1>1. CASE NextStage(w)
  <2>1. CASE worker' = [worker EXCEPT ![w] = "returned"] /\ UNCHANGED slotQueue
    BY <1>1, <2>1, QuietMove DEF NextStage, Places, Waits
  <2>2. CASE Acquire(w)
    BY <1>1, <2>2, AcquireFree, AcquireWaits DEF NextStage, Acquire
  <2> QED
    BY <1>1, <2>1, <2>2 DEF NextStage
<1>2. CASE Granted(w)
  BY <1>2, TakeHanded DEF Granted
<1>3. CASE LeavesQueue(w)
  BY <1>3, LeaveQueue
<1>4. CASE TakesHandedSlot(w)
  <2>1. w \in handed
    BY <1>4 DEF TakesHandedSlot, QueueInv, Waits
  <2> QED
    BY <1>4, <2>1, TakeHanded DEF TakesHandedSlot
<1>5. CASE StageValue(w) \/ StageNull(w) \/ StageNotRun(w) \/ StageFatal(w)
  <2>1. /\ worker[w] = "stage" /\ Release
        /\ \E p \in {"next", "returned", "fatal"} : worker' = [worker EXCEPT ![w] = p]
    BY <1>5 DEF StageValue, StageNull, StageNotRun, StageFatal
  <2> QED
    BY <2>1, ReleaseSlot
<1>6. CASE Fatal(w)
  BY <1>6, QuietMove DEF Fatal, Places, Waits
<1>7. CASE SeesDone(w)
  BY <1>7, QuietMove DEF SeesDone, Places, Waits
<1> QED
  BY <1>1, <1>2, <1>3, <1>4, <1>5, <1>6, <1>7 DEF Item

(* A run that starts finds its workers unused; nothing else touches them    *)
(* before.                                                                  *)
LEMMA RunStep ==
  ASSUME WorkflowInv, NEW r \in Runs, Run(r)
  PROVE  WorkflowInv' /\ SlotStep
<1>1. UNCHANGED <<free, waiters, handed, fatalErr>>
  BY DEF Run, slotQueue
<1>2. \A v \in Workers : worker'[v] = worker[v] \/ (worker[v] = "none" /\ worker'[v] = "next")
  BY DEF Run, WorkflowInv, RunInv
<1>3. worker' \in [Workers -> Places]
  BY DEF Run, WorkflowInv, QueueInv, Places
<1>4. QueueInv'
  BY <1>1, <1>2, <1>3 DEF WorkflowInv, QueueInv, Waits, InWaiters
<1>5. Holders' = Holders
  BY <1>1, <1>2 DEF Holders
<1>6. ParseSpec(Docs[r]) \in {"", "invalid_spec", "item_cap", "agent_cap"}
  BY DEF ParseSpec
<1>7. /\ outcome' \in [Runs -> Outcomes] /\ outcome'[r] # "new"
      /\ \A q \in Runs \ {r} : outcome'[q] = outcome[q]
  BY <1>6 DEF Run, WorkflowInv, RunInv, Outcomes
<1>8. \A v \in Workers : outcome'[v[1]] = "new" => worker'[v] = "none"
  BY <1>7, WorkerOfRun DEF Run, WorkflowInv, RunInv
<1> QED
  BY <1>1, <1>4, <1>5, <1>7, <1>8
     DEF WorkflowInv, RunInv, SlotInv, SlotsAreConserved, SlotStep

LEMMA NextWorkflowInv ==
  WorkflowInv /\ [WorkflowNext]_workflowVars => WorkflowInv' /\ SlotStep
<1> SUFFICES ASSUME WorkflowInv, [WorkflowNext]_workflowVars PROVE WorkflowInv' /\ SlotStep
  OBVIOUS
<1> USE DEF slotQueue
<1>1. ASSUME NEW w \in Workers, Item(w) \/ SeesDone(w) PROVE WorkflowInv' /\ SlotStep
  <2>1. QueueInv' /\ SlotInv' /\ SlotStep
    BY <1>1, ItemStep DEF WorkflowInv
  <2>2. outcome' = outcome /\ fatalErr' \in [Runs -> {"", "agent_start"}]
    BY <1>1, WorkerOfRun DEF Item, NextStage, Granted, LeavesQueue, TakesHandedSlot, StageValue,
       StageNull, StageNotRun, StageFatal, Fatal, SeesDone, WorkflowInv, RunInv
  <2>3. worker[w] # "none" /\ \E p \in Places : worker' = [worker EXCEPT ![w] = p]
    BY <1>1 DEF Item, NextStage, Acquire, Granted, LeavesQueue, TakesHandedSlot, StageValue,
       StageNull, StageNotRun, StageFatal, Fatal, SeesDone, Places
  <2>4. RunInv'
    BY <2>2, <2>3 DEF WorkflowInv, RunInv, QueueInv
  <2> QED
    BY <2>1, <2>4 DEF WorkflowInv
<1>2. ASSUME NEW r \in Runs, Run(r) PROVE WorkflowInv' /\ SlotStep
  BY <1>2, RunStep
<1>3. ASSUME NEW r \in Runs, Finish(r) \/ CancelRun(r) PROVE WorkflowInv' /\ SlotStep
  <2>1. UNCHANGED <<free, waiters, handed, fatalErr, worker>>
    BY <1>3 DEF Finish, CancelRun
  <2>2. /\ outcome' \in [Runs -> Outcomes]
        /\ \A q \in Runs : outcome'[q] = "new" => outcome[q] = "new"
    BY <1>3 DEF Finish, CancelRun, WorkflowInv, RunInv, Outcomes
  <2>3. QueueInv' /\ SlotInv' /\ SlotStep
    BY <2>1 DEF WorkflowInv, QueueInv, Waits, InWaiters, SlotInv, SlotsAreConserved, Holders,
                SlotStep
  <2> QED
    BY <2>1, <2>2, <2>3, WorkerOfRun DEF WorkflowInv, RunInv
<1>4. CASE UNCHANGED workflowVars
  BY <1>4 DEF workflowVars, WorkflowInv, QueueInv, RunInv, Waits, InWaiters, SlotInv,
              SlotsAreConserved, Holders, SlotStep
<1> QED
  BY <1>1, <1>2, <1>3, <1>4 DEF WorkflowNext

(* No slot is lost or made up: the hand-over that races a cancellation is   *)
(* taken by the one or the other, and counted once.                         *)
THEOREM SlotsConserved == WorkflowSpec => []SlotsAreConserved
<1>1. WorkflowInv => SlotsAreConserved
  BY DEF WorkflowInv, SlotInv
<1> QED
  BY <1>1, InitWorkflowInv, NextWorkflowInv, PTL DEF WorkflowSpec

(* The slot queue of the engine, with its hand-over outside the lock and    *)
(* its cancelled waiters, is a first-come-first-served semaphore.           *)
THEOREM SlotQueueIsFifo == WorkflowSpec => SlotsAreFifo
<1>1. WorkflowInv /\ [WorkflowNext]_workflowVars => [Semaphore!SemaphoreNext]_<<Holders, waiters>>
  BY NextWorkflowInv DEF SlotStep
<1> QED
  BY <1>1, InitWorkflowInv, NextWorkflowInv, PTL
     DEF WorkflowSpec, SlotsAreFifo, Semaphore!SemaphoreSpec

-----------------------------------------------------------------------------
(* A result hides nothing.  Every nonempty set of naturals has a least      *)
(* element, which gives induction over the naturals with the property a set.*)
LEMMA Least ==
  ASSUME NEW T, T \subseteq Nat, T # {}
  PROVE  \E x \in T : \A y \in T : ~(y < x)
<1> DEFINE R == {ss \in Nat \X Nat : ss[1] < ss[2]}
<1>1. IsWellFoundedOn(R, Nat)
  BY NatLessThanWellFounded, Zenon DEF OpToRel
<1>2. \A x, y \in Nat : y < x => <<y, x>> \in R
  OBVIOUS
<1> HIDE DEF R
<1>3. \E x \in T : \A y \in T : ~(<<y, x>> \in R)
  BY <1>1, WFMin
<1> QED
  BY <1>2, <1>3

LEMMA SetInduction ==
  ASSUME NEW T, 0 \in T, \A n \in Nat : n \in T => n + 1 \in T
  PROVE  \A n \in Nat : n \in T
<1> DEFINE U == {n \in Nat : n \notin T}
<1> SUFFICES ASSUME U # {} PROVE FALSE
  OBVIOUS
<1>1. PICK x \in U : \A y \in U : ~(y < x)
  BY Least
<1>2. x # 0 /\ x - 1 \in Nat /\ x - 1 < x
  OBVIOUS
<1>3. x - 1 \in T
  BY <1>1, <1>2
<1>4. (x - 1) + 1 \in T
  BY <1>2, <1>3
<1> QED
  BY <1>4

(* A table over 0..m whose entries follow from the one before exists.       *)
Table(g, first, m, follow) ==
  g[0] = first /\ \A n \in 1..m : g[n] = follow[<<g[n - 1], n>>]

LEMMA TableExists ==
  ASSUME NEW T, NEW first, first \in T, NEW m, m \in Nat,
         NEW follow, follow \in [T \X (1..m) -> T]
  PROVE  \E g \in [0..m -> T] : Table(g, first, m, follow)
<1> DEFINE Good(g, k) == g[0] = first /\ \A n \in 1..k : g[n] = follow[<<g[n - 1], n>>]
           S == {k \in Nat : k <= m => \E g \in [0..k -> T] : Good(g, k)}
<1>1. 0 \in S
  <2>1. [n \in 0..0 |-> first] \in [0..0 -> T] /\ Good([n \in 0..0 |-> first], 0)
    OBVIOUS
  <2> QED
    BY <2>1
<1>2. ASSUME NEW k \in Nat, k \in S PROVE k + 1 \in S
  <2> SUFFICES ASSUME k + 1 <= m PROVE \E h \in [0..(k + 1) -> T] : Good(h, k + 1)
    OBVIOUS
  <2>1. PICK g \in [0..k -> T] : Good(g, k)
    BY <1>2
  <2> DEFINE x == follow[<<g[k], k + 1>>]
             h == [n \in 0..(k + 1) |-> IF n <= k THEN g[n] ELSE x]
  <2>2. x \in T
    BY <2>1
  <2> HIDE DEF x
  <2>3. h \in [0..(k + 1) -> T] /\ h[k + 1] = x /\ \A n \in 0..k : h[n] = g[n]
    BY <2>1, <2>2
  <2> HIDE DEF h
  <2>4. ASSUME NEW n \in 1..(k + 1) PROVE h[n] = follow[<<h[n - 1], n>>]
    <3>1. CASE n <= k
      <4>1. h[n] = g[n] /\ h[n - 1] = g[n - 1] /\ n \in 1..k
        BY <2>3, <3>1
      <4> QED
        BY <2>1, <4>1
    <3>2. CASE n = k + 1
      <4>1. h[n - 1] = g[k]
        BY <2>3, <3>2
      <4> QED
        BY <2>3, <3>2, <4>1 DEF x
    <3> QED
      BY <3>1, <3>2
  <2>5. h[0] = first
    BY <2>1, <2>3
  <2> QED
    BY <2>3, <2>4, <2>5
<1>3. m \in S
  BY <1>1, <1>2, SetInduction
<1> QED
  BY <1>3 DEF Table

(* Sum, of the stages an assignment of values gives to the items of a run.  *)
Total(d, r) ==
  LET f[i \in 0..Docs[r].items] == IF i = 0 THEN 0 ELSE f[i - 1] + d[<<r, i>>]
  IN f[Docs[r].items]
Totals(g, d, r) ==
  /\ g \in [0..Docs[r].items -> Nat] /\ g[0] = 0
  /\ \A i \in 1..Docs[r].items : g[i] = g[i - 1] + d[<<r, i>>]

LEMMA DocsOfRuns ==
  \A r \in Runs : /\ Docs[r].items \in Nat /\ Docs[r].stages \in Nat
                  /\ \A i \in ItemsOf(r) : <<r, i>> \in Workers
<1>1. ASSUME NEW r \in Runs PROVE Docs[r] \in [items : Nat, stages : Nat]
  <2> DEFINE D == [items : Nat, stages : Nat]
  <2>1. Docs \in Seq(D)
    BY WorkflowAssumption
  <2> HIDE DEF D
  <2>2. Docs[r] \in D
    BY <2>1 DEF Runs
  <2> QED
    BY <2>2 DEF D
<1>2. ASSUME NEW r \in Runs, NEW i \in ItemsOf(r) PROVE <<r, i>> \in Workers
  BY DEF Workers
<1> QED
  BY <1>1, <1>2

LEMMA TotalIs ==
  ASSUME NEW r \in Runs, NEW d \in [Workers -> Nat]
  PROVE  \E g : Totals(g, d, r) /\ Total(d, r) = g[Docs[r].items]
<1> DEFINE m == Docs[r].items
           Def(g) == g = [i \in 0..m |-> IF i = 0 THEN 0 ELSE g[i - 1] + d[<<r, i>>]]
           follow == [p \in Nat \X (1..m) |-> p[1] + d[<<r, p[2]>>]]
<1>1. m \in Nat /\ \A i \in 1..m : d[<<r, i>>] \in Nat
  BY DocsOfRuns DEF ItemsOf
<1> HIDE DEF m
<1>2. follow \in [Nat \X (1..m) -> Nat]
      /\ \A x \in Nat, n \in 1..m : follow[<<x, n>>] = x + d[<<r, n>>]
  BY <1>1
<1> HIDE DEF follow
<1>3. PICK g \in [0..m -> Nat] : g[0] = 0 /\ \A n \in 1..m : g[n] = follow[<<g[n - 1], n>>]
  <2>1. 0 \in Nat
    OBVIOUS
  <2>2. follow \in [Nat \X (1..m) -> Nat] /\ m \in Nat
    BY <1>1, <1>2
  <2>3. \E g \in [0..m -> Nat] : Table(g, 0, m, follow)
    BY <2>1, <2>2, TableExists, Zenon
  <2> QED
    BY <2>3, Zenon DEF Table
<1>4. \A n \in 1..m : g[n - 1] \in Nat /\ g[n] = g[n - 1] + d[<<r, n>>]
  <2> SUFFICES ASSUME NEW n \in 1..m PROVE g[n - 1] \in Nat /\ g[n] = g[n - 1] + d[<<r, n>>]
    OBVIOUS
  <2>1. n - 1 \in 0..m
    BY <1>1
  <2>2. g[n - 1] \in Nat
    BY <1>3, <2>1
  <2> QED
    BY <1>2, <1>3, <2>2
<1>5. Def(g)
  <2>1. \A i \in 0..m : g[i] = IF i = 0 THEN 0 ELSE g[i - 1] + d[<<r, i>>]
    <3> SUFFICES ASSUME NEW i \in 0..m
                 PROVE  g[i] = IF i = 0 THEN 0 ELSE g[i - 1] + d[<<r, i>>]
      OBVIOUS
    <3>1. i = 0 \/ i \in 1..m
      BY <1>1
    <3> QED
      BY <1>3, <1>4, <3>1
  <2>2. g = [i \in 0..m |-> g[i]]
    BY <1>3
  <2> QED
    BY <2>1, <2>2
<1> DEFINE f == CHOOSE h : Def(h)
<1>6. Def(f)
  <2> HIDE DEF Def
  <2> QED
    BY <1>5, Zenon
<1>7. Total(d, r) = f[m]
  BY Zenon DEF Total, m
<1>8. f = g
  <2> DEFINE S == {n \in Nat : n <= m => f[n] = g[n]}
  <2> HIDE DEF f
  <2>1. 0 \in S
    BY <1>1, <1>3, <1>6
  <2>2. ASSUME NEW n \in Nat, n \in S PROVE n + 1 \in S
    <3> SUFFICES ASSUME n + 1 <= m PROVE f[n + 1] = g[n + 1]
      OBVIOUS
    <3>1. n + 1 \in 0..m /\ n + 1 \in 1..m /\ n + 1 # 0 /\ (n + 1) - 1 = n /\ f[n] = g[n]
      BY <1>1, <2>2
    <3>2. f[n + 1] = f[n] + d[<<r, n + 1>>]
      BY <1>6, <3>1
    <3> QED
      BY <1>4, <3>1, <3>2
  <2>3. \A n \in Nat : n \in S
    BY <2>1, <2>2, SetInduction
  <2>4. \A n \in 0..m : f[n] = g[n]
    BY <1>1, <2>3
  <2>5. f = [n \in 0..m |-> f[n]]
    BY <1>6
  <2> QED
    BY <1>3, <2>4, <2>5
<1> QED
  BY <1>3, <1>4, <1>7, <1>8 DEF Totals, m

(* One stage more for one item is one more in all.                          *)
LEMMA TotalGrows ==
  ASSUME NEW r \in Runs, NEW i \in ItemsOf(r), NEW d \in [Workers -> Nat],
         NEW e \in [Workers -> Nat], e[<<r, i>>] = d[<<r, i>>] + 1,
         \A w \in Workers : w # <<r, i>> => e[w] = d[w]
  PROVE  Total(e, r) = Total(d, r) + 1
<1> DEFINE m == Docs[r].items
<1>1. m \in Nat /\ i \in 1..m /\ \A n \in 1..m : <<r, n>> \in Workers
  BY DocsOfRuns DEF ItemsOf
<1>2. PICK g : Totals(g, d, r) /\ Total(d, r) = g[m]
  BY TotalIs
<1>3. PICK h : Totals(h, e, r) /\ Total(e, r) = h[m]
  BY TotalIs
<1> DEFINE S == {n \in Nat : n <= m => h[n] = g[n] + (IF i <= n THEN 1 ELSE 0)}
<1> HIDE DEF m
<1>4. /\ g \in [0..m -> Nat] /\ g[0] = 0 /\ h[0] = 0
      /\ \A n \in 1..m : g[n] = g[n - 1] + d[<<r, n>>] /\ h[n] = h[n - 1] + e[<<r, n>>]
  BY <1>2, <1>3 DEF Totals, m
<1>5. 0 \in S
  <2>1. ~(i <= 0) /\ h[0] = 0 /\ g[0] = 0
    BY <1>1, <1>4
  <2> QED
    BY <2>1
<1>6. ASSUME NEW n \in Nat, n \in S PROVE n + 1 \in S
  <2> SUFFICES ASSUME n + 1 <= m PROVE h[n + 1] = g[n + 1] + (IF i <= n + 1 THEN 1 ELSE 0)
    OBVIOUS
  <2>1. n + 1 \in 1..m /\ (n + 1) - 1 = n /\ n \in 0..m /\ g[n] \in Nat
    BY <1>1, <1>4
  <2>2. g[n + 1] = g[n] + d[<<r, n + 1>>] /\ h[n + 1] = h[n] + e[<<r, n + 1>>]
    BY <1>4, <2>1
  <2>3. h[n] = g[n] + (IF i <= n THEN 1 ELSE 0)
    BY <1>1, <1>6, <2>1
  <2>4. d[<<r, n + 1>>] \in Nat
    BY <1>1, <2>1
  <2>5. e[<<r, n + 1>>] = d[<<r, n + 1>>] + (IF i = n + 1 THEN 1 ELSE 0)
    BY <1>1, <2>1, <2>4
  <2> QED
    BY <1>1, <2>1, <2>2, <2>3, <2>4, <2>5
<1>7. m \in S
  BY <1>1, <1>5, <1>6, SetInduction
<1> QED
  BY <1>1, <1>2, <1>3, <1>4, <1>7

(* An item that lacks a stage leaves room for the child that had no value.  *)
LEMMA TotalBound ==
  ASSUME NEW r \in Runs, NEW d \in [Workers -> Nat], NEW N \in SUBSET Workers,
         IsFiniteSet(N),
         \A i \in ItemsOf(r) : /\ d[<<r, i>>] <= Docs[r].stages
                               /\ <<r, i>> \in N => d[<<r, i>>] < Docs[r].stages
  PROVE  Total(d, r) + Cardinality({w \in N : w[1] = r}) <= Docs[r].items * Docs[r].stages
<1> DEFINE m == Docs[r].items
           s == Docs[r].stages
           Short(n) == {w \in N : w[1] = r /\ w[2] <= n}
<1>1. m \in Nat /\ s \in Nat /\ \A n \in 1..m : <<r, n>> \in Workers
  BY DocsOfRuns DEF ItemsOf
<1>2. PICK g : Totals(g, d, r) /\ Total(d, r) = g[m]
  BY TotalIs
<1>3. \A n \in 1..m : /\ d[<<r, n>>] \in Nat /\ d[<<r, n>>] <= s
                      /\ <<r, n>> \in N => d[<<r, n>>] < s
  BY <1>1 DEF ItemsOf
<1>4. \A w \in N : w = <<w[1], w[2]>> /\ (w[1] = r => w[2] \in 1..m)
  BY DEF Workers, ItemsOf
<1> HIDE DEF m, s
<1>5. /\ g \in [0..m -> Nat] /\ g[0] = 0
      /\ \A n \in 1..m : g[n] = g[n - 1] + d[<<r, n>>]
  BY <1>2 DEF Totals, m
<1>6. \A n : IsFiniteSet(Short(n)) /\ Cardinality(Short(n)) \in Nat
  BY FS_Subset, FS_CardinalityType
<1>11. Cardinality({w \in N : w[1] = r}) = Cardinality(Short(m))
  <2>1. Short(m) = {w \in N : w[1] = r}
    BY <1>1, <1>4
  <2> QED
    BY <2>1
<1> HIDE DEF Short
<1> DEFINE T == {n \in Nat : n <= m => g[n] + Cardinality(Short(n)) <= n * s}
<1>7. 0 \in T
  <2>1. Short(0) = {}
    BY <1>1, <1>4 DEF Short
  <2>2. Cardinality(Short(0)) = 0
    BY <2>1, FS_EmptySet, Zenon
  <2>3. g[0] = 0 /\ 0 * s = 0
    BY <1>1, <1>5
  <2> QED
    BY <2>2, <2>3
<1>8. ASSUME NEW n \in Nat, n \in T PROVE n + 1 \in T
  <2> SUFFICES ASSUME n + 1 <= m PROVE g[n + 1] + Cardinality(Short(n + 1)) <= (n + 1) * s
    OBVIOUS
  <2>1. n + 1 \in 1..m /\ (n + 1) - 1 = n /\ n \in 0..m /\ g[n] \in Nat
    BY <1>1, <1>5
  <2>2. g[n + 1] = g[n] + d[<<r, n + 1>>]
    BY <1>5, <2>1
  <2>3. g[n] + Cardinality(Short(n)) <= n * s
    BY <1>1, <1>8, <2>1
  <2>4. (n + 1) * s = n * s + s /\ n * s \in Nat
    BY <1>1
  <2>5. CASE <<r, n + 1>> \in N
    <3>1. Short(n + 1) = Short(n) \cup {<<r, n + 1>>}
      BY <1>1, <1>4, <2>1, <2>5 DEF Short
    <3>2. <<r, n + 1>> \notin Short(n)
      BY DEF Short
    <3>3. Cardinality(Short(n + 1)) = Cardinality(Short(n)) + 1
      BY <1>6, <3>1, <3>2, FS_AddElement, Zenon
    <3>4. d[<<r, n + 1>>] \in Nat /\ d[<<r, n + 1>>] < s
      BY <1>3, <2>1, <2>5
    <3>5. Cardinality(Short(n)) \in Nat
      BY <1>6
    <3> QED
      BY <1>1, <2>1, <2>2, <2>3, <2>4, <3>3, <3>4, <3>5
  <2>6. CASE <<r, n + 1>> \notin N
    <3>1. Short(n + 1) = Short(n)
      BY <1>1, <1>4, <2>1, <2>6 DEF Short
    <3>2. d[<<r, n + 1>>] \in Nat /\ d[<<r, n + 1>>] <= s
      BY <1>3, <2>1
    <3>3. Cardinality(Short(n)) \in Nat
      BY <1>6
    <3> QED
      BY <1>1, <2>1, <2>2, <2>3, <2>4, <3>1, <3>2, <3>3
  <2> QED
    BY <2>5, <2>6
<1>9. m \in T
  <2> HIDE DEF T
  <2> QED
    BY <1>1, <1>7, <1>8, SetInduction
<1>10. g[m] + Cardinality(Short(m)) <= m * s
  BY <1>1, <1>9
<1> QED
  BY <1>2, <1>10, <1>11 DEF m, s

(* What makes it inductive: where a worker is tells what it still lacks,    *)
(* and what the run has counted is what its workers have, until one of them *)
(* has a fatal error.                                                       *)
CutShort(r) == callerDone[r] \/ fatalErr[r] # ""
NulledOf(r) == {w \in nulled : w[1] = r}
NoFatal(r) == \A w \in Workers : w[1] = r => worker[w] # "fatal"
Counted(r) == agentsStarted[r] = Total(done, r) + Cardinality(NulledOf(r))

ResultFrame ==
  /\ callerDone \in [Runs -> BOOLEAN] /\ runCanceled \in [Runs -> BOOLEAN]
  /\ done \in [Workers -> Nat] /\ agentsStarted \in [Runs -> Nat]
  /\ nulled \subseteq Workers /\ IsFiniteSet(nulled)
ItemInv(w) ==
  /\ done[w] <= Docs[w[1]].stages
  /\ worker[w] \in {"waiting", "leaving", "stage"} => done[w] < Docs[w[1]].stages
  /\ w \in nulled => worker[w] = "returned" /\ done[w] < Docs[w[1]].stages
  /\ worker[w] = "leaving" => CutShort(w[1])
  /\ worker[w] = "returned" => \/ done[w] = Docs[w[1]].stages
                               \/ w \in nulled \/ CutShort(w[1])
  /\ worker[w] \notin {"none", "returned"} => outcome[w[1]] = "running"
OutcomeInv(r) ==
  /\ outcome[r] \in {"new", "running"} /\ runCanceled[r] => fatalErr[r] # ""
  /\ outcome[r] \in {"running", "result"} => ParseSpec(Docs[r]) = ""
  /\ outcome[r] = "result" =>
       ~CutShort(r) /\ \A w \in Workers : w[1] = r => worker[w] = "returned"
  /\ fatalErr[r] = "" /\ NoFatal(r) => Counted(r)
ResultInv ==
  ResultFrame /\ (\A w \in Workers : ItemInv(w)) /\ (\A r \in Runs : OutcomeInv(r))

LEMMA CountOfRun ==
  ASSUME ResultFrame, NEW r \in Runs
  PROVE  /\ IsFiniteSet(NulledOf(r)) /\ Cardinality(NulledOf(r)) \in Nat
         /\ Total(done, r) \in Nat
<1>1. Total(done, r) \in Nat
  <2>1. done \in [Workers -> Nat]
    BY DEF ResultFrame
  <2>2. PICK g : Totals(g, done, r) /\ Total(done, r) = g[Docs[r].items]
    BY <2>1, TotalIs
  <2>3. Docs[r].items \in Nat
    BY DocsOfRuns
  <2> QED
    BY <2>2, <2>3 DEF Totals
<1> QED
  BY <1>1, FS_Subset, FS_CardinalityType DEF ResultFrame, NulledOf

LEMMA InitResultInv ==
  ASSUME WorkflowInit PROVE ResultInv
<1>1. ResultFrame
  BY FS_EmptySet DEF WorkflowInit, ResultFrame
<1>2. ASSUME NEW w \in Workers PROVE ItemInv(w)
  <2>1. worker[w] = "none" /\ done[w] = 0 /\ w \notin nulled
    BY DEF WorkflowInit
  <2>2. Docs[w[1]].stages \in Nat
    BY DocsOfRuns, WorkerOfRun
  <2> QED
    BY <2>1, <2>2 DEF ItemInv
<1>3. ASSUME NEW r \in Runs PROVE OutcomeInv(r)
  <2>1. Counted(r)
    <3>1. NulledOf(r) = {}
      BY DEF WorkflowInit, NulledOf
    <3>2. agentsStarted[r] = 0 /\ done \in [Workers -> Nat] /\ \A w \in Workers : done[w] = 0
      BY DEF WorkflowInit
    <3> DEFINE m == Docs[r].items
    <3>3. PICK g : Totals(g, done, r) /\ Total(done, r) = g[m]
      BY <3>2, TotalIs
    <3>4. m \in Nat /\ g \in [0..m -> Nat] /\ g[0] = 0 /\ \A n \in 1..m : g[n] = g[n - 1] + 0
      BY <3>2, <3>3, DocsOfRuns DEF Totals, ItemsOf
    <3> HIDE DEF m
    <3> DEFINE S == {n \in Nat : n <= m => g[n] = 0}
    <3>5. 0 \in S
      BY <3>4
    <3>6. ASSUME NEW n \in Nat, n \in S PROVE n + 1 \in S
      <4> SUFFICES ASSUME n + 1 <= m PROVE g[n + 1] = 0
        OBVIOUS
      <4>1. n + 1 \in 1..m /\ (n + 1) - 1 = n /\ g[n] = 0
        BY <3>4, <3>6
      <4> QED
        BY <3>4, <4>1
    <3>7. m \in S
      <4> HIDE DEF S
      <4> QED
        BY <3>4, <3>5, <3>6, SetInduction
    <3>8. Total(done, r) = 0
      BY <3>3, <3>4, <3>7
    <3>9. Cardinality(NulledOf(r)) = 0
      BY <3>1, FS_EmptySet
    <3> QED
      BY <3>2, <3>8, <3>9 DEF Counted
  <2>2. outcome[r] = "new" /\ ~runCanceled[r]
    BY DEF WorkflowInit
  <2> QED
    BY <2>1, <2>2 DEF OutcomeInv
<1> QED
  BY <1>1, <1>2, <1>3 DEF ResultInv

(* A worker that moves: the others stay, and the run goes on.               *)
LEMMA WorkerMoves ==
  ASSUME WorkflowInv, ResultInv, NEW w \in Workers, NEW p \in Places, p # "none",
         worker' = [worker EXCEPT ![w] = p], worker[w] \notin {"none", "returned"},
         outcome' = outcome, callerDone' = callerDone, ResultFrame',
         fatalErr' \in [Runs -> {"", "agent_start"}],
         \A q \in Runs : fatalErr[q] # "" => fatalErr'[q] # "",
         \A q \in Runs : q # w[1] => fatalErr'[q] = fatalErr[q],
         \A q \in Runs : runCanceled'[q] => runCanceled[q] \/ fatalErr'[q] # "",
         worker[w] = "fatal" => fatalErr'[w[1]] # "",
         \A v \in Workers : v # w => done'[v] = done[v] /\ (v \in nulled' <=> v \in nulled),
         ItemInv(w)', \A q \in Runs : Counted(q) => Counted(q)' \/ (p = "fatal" /\ q = w[1])
  PROVE  ResultInv'
<1>1. worker \in [Workers -> Places] /\ w[1] \in Runs /\ outcome[w[1]] = "running"
  BY WorkerOfRun DEF WorkflowInv, QueueInv, ResultInv, ItemInv
<1>2. worker'[w] = p /\ \A v \in Workers : v # w => worker'[v] = worker[v]
  BY <1>1
<1>3. \A q \in Runs : CutShort(q) => CutShort(q)'
  BY DEF CutShort
<1>4. ASSUME NEW v \in Workers PROVE ItemInv(v)'
  <2>1. CASE v = w
    BY <2>1
  <2>2. CASE v # w
    <3>1. ItemInv(v) /\ v[1] \in Runs
      BY WorkerOfRun DEF ResultInv
    <3> QED
      BY <1>2, <1>3, <2>2, <3>1 DEF ItemInv
  <2> QED
    BY <2>1, <2>2
<1>5. ASSUME NEW q \in Runs PROVE OutcomeInv(q)'
  <2>1. OutcomeInv(q)
    BY DEF ResultInv
  <2>2. outcome'[q] \in {"new", "running"} /\ runCanceled'[q] => fatalErr'[q] # ""
    BY <2>1 DEF OutcomeInv
  <2>3. ASSUME outcome'[q] = "result"
        PROVE  ~CutShort(q)' /\ \A v \in Workers : v[1] = q => worker'[v] = "returned"
    <3>1. q # w[1]
      BY <1>1, <2>3
    <3>2. ASSUME fatalErr'[q] # "" PROVE fatalErr[q] # ""
      BY <2>1, <2>3, <3>1, <3>2 DEF OutcomeInv
    <3> QED
      BY <1>2, <2>1, <2>3, <3>1, <3>2 DEF OutcomeInv, CutShort
  <2>4. ASSUME fatalErr'[q] = "", NoFatal(q)' PROVE Counted(q)'
    <3>1. fatalErr[q] = ""
      BY <2>4
    <3>2. NoFatal(q) /\ ~(p = "fatal" /\ q = w[1])
      BY <1>2, <2>4 DEF NoFatal
    <3> QED
      BY <2>1, <3>1, <3>2 DEF OutcomeInv
  <2> QED
    BY <2>1, <2>2, <2>3, <2>4 DEF OutcomeInv
<1> QED
  BY <1>4, <1>5 DEF ResultInv

(* A worker that moves and changes nothing else of its run.                 *)
LEMMA OnlyMoves ==
  ASSUME WorkflowInv, ResultInv, NEW w \in Workers, NEW p \in Places, p # "none",
         worker' = [worker EXCEPT ![w] = p], worker[w] \notin {"none", "returned", "fatal"},
         UNCHANGED <<outcome, callerDone, runCanceled, fatalErr, done, agentsStarted, nulled>>,
         p \in {"waiting", "leaving", "stage"} => done[w] < Docs[w[1]].stages,
         p = "returned" => \/ done[w] = Docs[w[1]].stages \/ RunCtxDone(w[1]) \/ CutShort(w[1]),
         p = "leaving" => RunCtxDone(w[1])
  PROVE  ResultInv'
<1>1. /\ w[1] \in Runs /\ ItemInv(w) /\ OutcomeInv(w[1]) /\ ResultFrame
      /\ worker \in [Workers -> Places] /\ fatalErr \in [Runs -> {"", "agent_start"}]
  BY WorkerOfRun DEF ResultInv, WorkflowInv, RunInv, QueueInv
<1>2. RunCtxDone(w[1]) => CutShort(w[1])
  BY <1>1 DEF RunCtxDone, CutShort, ItemInv, OutcomeInv
<1>3. worker'[w] = p /\ CutShort(w[1])' = CutShort(w[1])
  BY <1>1 DEF CutShort
<1>4. ItemInv(w)'
  BY <1>1, <1>2, <1>3 DEF ItemInv
<1>5. ResultFrame'
  BY <1>1 DEF ResultFrame
<1>6. \A q \in Runs : Counted(q) => Counted(q)'
  BY DEF Counted, NulledOf
<1>7. \A q \in Runs : /\ fatalErr[q] # "" => fatalErr'[q] # ""
                      /\ q # w[1] => fatalErr'[q] = fatalErr[q]
                      /\ runCanceled'[q] => runCanceled[q] \/ fatalErr'[q] # ""
  OBVIOUS
<1>8. \A v \in Workers : v # w => done'[v] = done[v] /\ (v \in nulled' <=> v \in nulled)
  OBVIOUS
<1>9. worker[w] # "fatal" /\ worker[w] \notin {"none", "returned"}
      /\ fatalErr' \in [Runs -> {"", "agent_start"}] /\ outcome' = outcome
      /\ callerDone' = callerDone
  BY <1>1
<1> QED
  BY <1>4, <1>5, <1>6, <1>7, <1>8, <1>9, WorkerMoves

(* Another run's count does not change with a child of this one.            *)
LEMMA OthersCount ==
  ASSUME ResultFrame, ResultFrame', NEW w \in Workers, NEW q \in Runs, q # w[1],
         \A v \in Workers : v # w => done'[v] = done[v] /\ (v \in nulled' <=> v \in nulled),
         agentsStarted'[q] = agentsStarted[q], Counted(q)
  PROVE  Counted(q)'
<1>1. NulledOf(q)' = NulledOf(q)
  BY DEF NulledOf, ResultFrame
<1>2. done \in [Workers -> Nat] /\ done' \in [Workers -> Nat]
  BY DEF ResultFrame
<1>3. PICK g : Totals(g, done, q) /\ Total(done, q) = g[Docs[q].items]
  BY <1>2, TotalIs
<1>4. PICK h : Totals(h, done', q) /\ Total(done', q) = h[Docs[q].items]
  BY <1>2, TotalIs
<1> DEFINE m == Docs[q].items
<1>5. m \in Nat /\ \A n \in 1..m : <<q, n>> \in Workers /\ <<q, n>> # w
  BY DocsOfRuns DEF ItemsOf
<1>6. \A n \in 1..m : done'[<<q, n>>] = done[<<q, n>>]
  BY <1>5
<1> HIDE DEF m
<1> DEFINE S == {n \in Nat : n <= m => h[n] = g[n]}
<1>7. /\ g[0] = 0 /\ h[0] = 0
      /\ \A n \in 1..m : g[n] = g[n - 1] + done[<<q, n>>] /\ h[n] = h[n - 1] + done[<<q, n>>]
  BY <1>3, <1>4, <1>6 DEF Totals, m
<1>8. 0 \in S
  BY <1>7
<1>9. ASSUME NEW n \in Nat, n \in S PROVE n + 1 \in S
  <2> SUFFICES ASSUME n + 1 <= m PROVE h[n + 1] = g[n + 1]
    OBVIOUS
  <2>1. n + 1 \in 1..m /\ (n + 1) - 1 = n /\ h[n] = g[n]
    BY <1>5, <1>9
  <2> QED
    BY <1>7, <2>1
<1>10. m \in S
  <2> HIDE DEF S
  <2> QED
    BY <1>5, <1>8, <1>9, SetInduction
<1>11. Total(done', q) = Total(done, q)
  BY <1>3, <1>4, <1>5, <1>10 DEF m
<1> QED
  BY <1>1, <1>11 DEF Counted, Total

(* A child that answers, or that has no value.                              *)
LEMMA StageValueStep ==
  ASSUME WorkflowInv, ResultInv, NEW w \in Workers, StageValue(w) PROVE ResultInv'
<1>0. PICK r \in Runs : r = w[1]
  BY WorkerOfRun
<1>1. /\ r \in Runs /\ ItemInv(w) /\ OutcomeInv(r) /\ ResultFrame
      /\ worker \in [Workers -> Places] /\ fatalErr \in [Runs -> {"", "agent_start"}]
      /\ Docs[r].stages \in Nat
  BY <1>0, DocsOfRuns DEF ResultInv, WorkflowInv, RunInv, QueueInv
<1>2. /\ worker[w] = "stage" /\ worker' = [worker EXCEPT ![w] = "next"]
      /\ done' = [done EXCEPT ![w] = done[w] + 1]
      /\ agentsStarted' = [agentsStarted EXCEPT ![r] = agentsStarted[r] + 1]
      /\ outcome' = outcome /\ callerDone' = callerDone /\ runCanceled' = runCanceled
      /\ fatalErr' = fatalErr /\ nulled' = nulled
  BY <1>0 DEF StageValue
<1>3. ResultFrame'
  <2>1. done \in [Workers -> Nat] /\ agentsStarted \in [Runs -> Nat]
    BY <1>0, <1>1 DEF ResultFrame
  <2>2. done[w] + 1 \in Nat /\ agentsStarted[r] + 1 \in Nat
    <3>1. done[w] \in Nat /\ agentsStarted[r] \in Nat
      BY <2>1
    <3> QED
      BY <3>1
  <2>3. done' \in [Workers -> Nat]
    BY <1>0, <1>2, <2>1, <2>2
  <2>4. agentsStarted' \in [Runs -> Nat]
    BY <1>0, <1>2, <2>1, <2>2
  <2> QED
    BY <1>0, <1>1, <1>2, <2>3, <2>4 DEF ResultFrame
<1>4. done[w] \in Nat /\ done'[w] = done[w] + 1 /\ agentsStarted'[r] = agentsStarted[r] + 1
      /\ \A v \in Workers : v # w => done'[v] = done[v]
  BY <1>0, <1>1, <1>2 DEF ResultFrame
<1>5. worker'[w] = "next" /\ w \notin nulled
  BY <1>0, <1>1, <1>2 DEF ItemInv
<1>6. ItemInv(w)'
  <2>1. done[w] < Docs[r].stages /\ outcome[r] = "running"
    BY <1>0, <1>1, <1>2 DEF ItemInv
  <2>2. done'[w] <= Docs[r].stages
    <3>1. done[w] \in Nat /\ Docs[r].stages \in Nat /\ done'[w] = done[w] + 1
      BY <1>1, <1>4
    <3> QED
      BY <2>1, <3>1
  <2> QED
    BY <1>0, <1>2, <1>5, <2>1, <2>2 DEF ItemInv
<1>7. ASSUME NEW q \in Runs, Counted(q) PROVE Counted(q)'
  <2>1. CASE q = r
    <3>1. PICK i \in ItemsOf(r) : w = <<r, i>>
      BY <1>0 DEF Workers
    <3>2. Total(done', r) = Total(done, r) + 1
      <4>1. done \in [Workers -> Nat] /\ done' \in [Workers -> Nat]
        BY <1>0, <1>1, <1>3 DEF ResultFrame
      <4>2. done'[<<r, i>>] = done[<<r, i>>] + 1
            /\ \A v \in Workers : v # <<r, i>> => done'[v] = done[v]
        BY <1>0, <1>4, <3>1
      <4> QED
        BY <1>0, <1>1, <4>1, <4>2, TotalGrows
    <3>3. NulledOf(r)' = NulledOf(r)
      BY <1>0, <1>2 DEF NulledOf
    <3>4. Total(done, r) \in Nat /\ Cardinality(NulledOf(r)) \in Nat
      BY <1>0, <1>1, CountOfRun
    <3>5. Total(done, r)' = Total(done', r)
      BY DEF Total
    <3>6. agentsStarted[r] = Total(done, r) + Cardinality(NulledOf(r))
      BY <1>0, <1>7, <2>1 DEF Counted
    <3> QED
      BY <1>0, <1>4, <2>1, <3>2, <3>3, <3>4, <3>5, <3>6 DEF Counted
  <2>2. CASE q # r
    <3>1. agentsStarted'[q] = agentsStarted[q]
      BY <1>0, <1>2, <2>2
    <3> QED
      BY <1>0, <1>1, <1>2, <1>3, <1>4, <1>7, <2>2, <3>1, OthersCount
  <2> QED
    BY <2>1, <2>2
<1>8. "next" \in Places
  BY DEF Places
<1> QED
  BY <1>0, <1>1, <1>2, <1>3, <1>4, <1>6, <1>7, <1>8, WorkerMoves

LEMMA StageNullStep ==
  ASSUME WorkflowInv, ResultInv, NEW w \in Workers, StageNull(w) PROVE ResultInv'
<1>0. PICK r \in Runs : r = w[1]
  BY WorkerOfRun
<1>1. /\ r \in Runs /\ ItemInv(w) /\ OutcomeInv(r) /\ ResultFrame
      /\ worker \in [Workers -> Places] /\ fatalErr \in [Runs -> {"", "agent_start"}]
      /\ Docs[r].stages \in Nat
  BY <1>0, DocsOfRuns DEF ResultInv, WorkflowInv, RunInv, QueueInv
<1>2. /\ worker[w] = "stage" /\ worker' = [worker EXCEPT ![w] = "returned"]
      /\ nulled' = nulled \cup {w} /\ done' = done
      /\ agentsStarted' = [agentsStarted EXCEPT ![r] = agentsStarted[r] + 1]
      /\ outcome' = outcome /\ callerDone' = callerDone /\ runCanceled' = runCanceled
      /\ fatalErr' = fatalErr
  BY <1>0 DEF StageNull
<1>3. ResultFrame'
  <2>1. IsFiniteSet(nulled')
    BY <1>0, <1>1, <1>2, FS_AddElement DEF ResultFrame
  <2>2. agentsStarted \in [Runs -> Nat] /\ agentsStarted[r] + 1 \in Nat
    <3>1. agentsStarted \in [Runs -> Nat] /\ agentsStarted[r] \in Nat
      BY <1>1 DEF ResultFrame
    <3> QED
      BY <3>1
  <2>3. agentsStarted' \in [Runs -> Nat]
    BY <1>0, <1>2, <2>2
  <2> QED
    BY <1>0, <1>1, <1>2, <2>1, <2>3 DEF ResultFrame
<1>4. agentsStarted'[r] = agentsStarted[r] + 1 /\ worker'[w] = "returned" /\ w \notin nulled
  BY <1>0, <1>1, <1>2 DEF ResultFrame, ItemInv
<1>5. ItemInv(w)'
  BY <1>0, <1>1, <1>2, <1>4 DEF ItemInv
<1>6. ASSUME NEW q \in Runs, Counted(q) PROVE Counted(q)'
  <2>1. CASE q = r
    <3>1. NulledOf(r)' = NulledOf(r) \cup {w} /\ w \notin NulledOf(r)
      BY <1>0, <1>2, <1>4 DEF NulledOf
    <3>2. /\ Total(done, r) \in Nat /\ Cardinality(NulledOf(r)) \in Nat
          /\ IsFiniteSet(NulledOf(r))
      BY <1>0, <1>1, CountOfRun
    <3>3. Cardinality(NulledOf(r)') = Cardinality(NulledOf(r)) + 1
      BY <3>1, <3>2, FS_AddElement
    <3>4. Total(done, r)' = Total(done, r)
      BY <1>0, <1>2 DEF Total
    <3>5. agentsStarted[r] = Total(done, r) + Cardinality(NulledOf(r))
      BY <1>0, <1>6, <2>1 DEF Counted
    <3> QED
      BY <1>0, <1>4, <2>1, <3>2, <3>3, <3>4, <3>5 DEF Counted
  <2>2. CASE q # r
    <3>1. agentsStarted'[q] = agentsStarted[q]
      BY <1>0, <1>2, <2>2
    <3> QED
      BY <1>0, <1>1, <1>2, <1>3, <1>6, <2>2, <3>1, OthersCount
  <2> QED
    BY <2>1, <2>2
<1>7. "returned" \in Places
  BY DEF Places
<1> QED
  BY <1>0, <1>1, <1>2, <1>3, <1>5, <1>6, <1>7, WorkerMoves

(* A fatal error, from the child to the end of the run.                     *)
LEMMA StageFatalStep ==
  ASSUME WorkflowInv, ResultInv, NEW w \in Workers, StageFatal(w) PROVE ResultInv'
<1>0. PICK r \in Runs : r = w[1]
  BY WorkerOfRun
<1>1. /\ r \in Runs /\ ItemInv(w) /\ ResultFrame /\ worker \in [Workers -> Places]
      /\ fatalErr \in [Runs -> {"", "agent_start"}]
  BY <1>0 DEF ResultInv, WorkflowInv, RunInv, QueueInv
<1>2. /\ worker[w] = "stage" /\ worker' = [worker EXCEPT ![w] = "fatal"]
      /\ nulled' = nulled /\ done' = done
      /\ agentsStarted' \in {agentsStarted, [agentsStarted EXCEPT ![r] = agentsStarted[r] + 1]}
      /\ outcome' = outcome /\ callerDone' = callerDone /\ runCanceled' = runCanceled
      /\ fatalErr' = fatalErr
  BY <1>0 DEF StageFatal
<1>3. agentsStarted' \in [Runs -> Nat] /\ \A q \in Runs \ {r} : agentsStarted'[q] = agentsStarted[q]
  <2>1. agentsStarted \in [Runs -> Nat] /\ agentsStarted[r] + 1 \in Nat
    <3>1. agentsStarted \in [Runs -> Nat] /\ agentsStarted[r] \in Nat
      BY <1>1 DEF ResultFrame
    <3> QED
      BY <3>1
  <2> QED
    BY <1>0, <1>2, <2>1
<1>4. ResultFrame'
  BY <1>0, <1>1, <1>2, <1>3 DEF ResultFrame
<1>5. worker'[w] = "fatal" /\ w \notin nulled
  BY <1>0, <1>1, <1>2 DEF ItemInv
<1>6. ItemInv(w)'
  BY <1>0, <1>1, <1>2, <1>5 DEF ItemInv
<1>7. ASSUME NEW q \in Runs, Counted(q) PROVE Counted(q)' \/ q = r
  BY <1>0, <1>2, <1>3, <1>7 DEF Counted, NulledOf
<1>8. "fatal" \in Places
  BY DEF Places
<1> QED
  BY <1>0, <1>1, <1>2, <1>4, <1>6, <1>7, <1>8, WorkerMoves

LEMMA FatalStep ==
  ASSUME WorkflowInv, ResultInv, NEW w \in Workers, Fatal(w) PROVE ResultInv'
<1>0. PICK r \in Runs : r = w[1]
  BY WorkerOfRun
<1>1. /\ r \in Runs /\ ItemInv(w) /\ ResultFrame /\ worker \in [Workers -> Places]
      /\ fatalErr \in [Runs -> {"", "agent_start"}] /\ runCanceled \in [Runs -> BOOLEAN]
  BY <1>0 DEF ResultInv, WorkflowInv, RunInv, QueueInv, ResultFrame
<1>2. /\ worker[w] = "fatal" /\ worker' = [worker EXCEPT ![w] = "returned"]
      /\ nulled' = nulled /\ done' = done /\ agentsStarted' = agentsStarted
      /\ outcome' = outcome /\ callerDone' = callerDone
      /\ runCanceled' = [runCanceled EXCEPT ![r] = TRUE]
      /\ fatalErr' = [fatalErr EXCEPT ![r] = IF fatalErr[r] = "" THEN "agent_start" ELSE fatalErr[r]]
  BY <1>0 DEF Fatal
<1>3. /\ fatalErr' \in [Runs -> {"", "agent_start"}] /\ fatalErr'[r] # ""
      /\ runCanceled' \in [Runs -> BOOLEAN]
      /\ \A q \in Runs \ {r} : fatalErr'[q] = fatalErr[q] /\ runCanceled'[q] = runCanceled[q]
  BY <1>0, <1>1, <1>2
<1>4. ResultFrame'
  BY <1>0, <1>1, <1>2, <1>3 DEF ResultFrame
<1>5. worker'[w] = "returned" /\ w \notin nulled
  BY <1>0, <1>1, <1>2 DEF ItemInv
<1>6. ItemInv(w)'
  BY <1>0, <1>1, <1>2, <1>3, <1>5 DEF ItemInv, CutShort
<1>7. \A q \in Runs : Counted(q) => Counted(q)'
  BY <1>0, <1>2 DEF Counted, NulledOf
<1>8. "returned" \in Places
  BY DEF Places
<1> QED
  BY <1>0, <1>1, <1>2, <1>3, <1>4, <1>6, <1>7, <1>8, WorkerMoves

LEMMA WorkerStep ==
  ASSUME WorkflowInv, ResultInv, NEW w \in Workers, Item(w) \/ SeesDone(w) PROVE ResultInv'
<1>1. ItemInv(w)
  BY DEF ResultInv
<1>2. CASE NextStage(w)
  <2>1. \/ /\ worker' = [worker EXCEPT ![w] = "returned"]
           /\ done[w] = Docs[w[1]].stages \/ RunCtxDone(w[1])
        \/ /\ \E p \in {"stage", "waiting"} : worker' = [worker EXCEPT ![w] = p]
           /\ done[w] < Docs[w[1]].stages
    BY <1>2 DEF NextStage, Acquire
  <2>2. worker[w] = "next"
        /\ UNCHANGED <<outcome, callerDone, runCanceled, fatalErr, done, agentsStarted, nulled>>
    BY <1>2 DEF NextStage
  <2> QED
    BY <2>1, <2>2, OnlyMoves DEF Places
<1>3. CASE Granted(w) \/ TakesHandedSlot(w)
  <2>1. /\ worker[w] \in {"waiting", "leaving"} /\ worker' = [worker EXCEPT ![w] = "stage"]
        /\ UNCHANGED <<outcome, callerDone, runCanceled, fatalErr, done, agentsStarted, nulled>>
    BY <1>3 DEF Granted, TakesHandedSlot
  <2>2. done[w] < Docs[w[1]].stages
    BY <1>1, <2>1 DEF ItemInv
  <2> QED
    BY <2>1, <2>2, OnlyMoves DEF Places
<1>4. CASE LeavesQueue(w)
  <2>1. /\ worker[w] = "leaving" /\ worker' = [worker EXCEPT ![w] = "returned"]
        /\ UNCHANGED <<outcome, callerDone, runCanceled, fatalErr, done, agentsStarted, nulled>>
    BY <1>4 DEF LeavesQueue
  <2>2. CutShort(w[1])
    BY <1>1, <2>1 DEF ItemInv
  <2> QED
    BY <2>1, <2>2, OnlyMoves DEF Places
<1>5. CASE SeesDone(w)
  <2>1. /\ worker[w] = "waiting" /\ worker' = [worker EXCEPT ![w] = "leaving"]
        /\ RunCtxDone(w[1])
        /\ UNCHANGED <<outcome, callerDone, runCanceled, fatalErr, done, agentsStarted, nulled>>
    BY <1>5 DEF SeesDone
  <2>2. done[w] < Docs[w[1]].stages
    BY <1>1, <2>1 DEF ItemInv
  <2> QED
    BY <2>1, <2>2, OnlyMoves DEF Places
<1>6. CASE StageNotRun(w)
  <2>1. /\ worker[w] = "stage"
        /\ UNCHANGED <<outcome, callerDone, runCanceled, fatalErr, done, agentsStarted, nulled>>
        /\ \/ worker' = [worker EXCEPT ![w] = "returned"] /\ RunCtxDone(w[1])
           \/ worker' = [worker EXCEPT ![w] = "fatal"]
    BY <1>6 DEF StageNotRun
  <2> QED
    BY <2>1, OnlyMoves DEF Places
<1> QED
  BY <1>2, <1>3, <1>4, <1>5, <1>6, StageValueStep, StageNullStep, StageFatalStep, FatalStep DEF Item

(* The steps of Run itself.                                                 *)
LEMMA RunStarts ==
  ASSUME WorkflowInv, ResultInv, NEW r \in Runs, Run(r) PROVE ResultInv'
<1> DEFINE code == ParseSpec(Docs[r])
<1>1. /\ outcome \in [Runs -> Outcomes] /\ ResultFrame /\ outcome[r] = "new"
      /\ \A w \in Workers : w[1] = r => worker[w] = "none"
      /\ worker \in [Workers -> Places]
  BY DEF WorkflowInv, RunInv, QueueInv, ResultInv, Run
<1>2. /\ outcome' = [outcome EXCEPT ![r] = IF code = "" THEN "running" ELSE code]
      /\ worker' = [w \in Workers |-> IF w[1] = r /\ code = "" THEN "next" ELSE worker[w]]
      /\ UNCHANGED <<callerDone, runCanceled, fatalErr, done, agentsStarted, nulled>>
  BY DEF Run
<1>3. code \in {"", "invalid_spec", "item_cap", "agent_cap"}
  BY DEF ParseSpec
<1>4. /\ code = "" => outcome'[r] = "running"
      /\ code # "" => outcome'[r] \in {"invalid_spec", "item_cap", "agent_cap"}
      /\ \A q \in Runs \ {r} : outcome'[q] = outcome[q]
  BY <1>1, <1>2, <1>3
<1>5. ResultFrame'
  BY <1>1, <1>2 DEF ResultFrame
<1>6. ASSUME NEW w \in Workers PROVE ItemInv(w)'
  <2>1. ItemInv(w) /\ w[1] \in Runs /\ CutShort(w[1])' = CutShort(w[1])
    BY <1>2, WorkerOfRun DEF ResultInv, CutShort
  <2>2. CASE w[1] = r
    <3>1. worker[w] = "none" /\ w \notin nulled
      BY <1>1, <2>1, <2>2 DEF ItemInv
    <3>2. worker'[w] = IF code = "" THEN "next" ELSE "none"
      BY <1>2, <2>2, <3>1
    <3> QED
      BY <1>2, <1>4, <2>1, <2>2, <3>1, <3>2 DEF ItemInv
  <2>3. CASE w[1] # r
    <3>1. worker'[w] = worker[w] /\ outcome'[w[1]] = outcome[w[1]]
      BY <1>2, <1>4, <2>1, <2>3
    <3> QED
      BY <1>2, <2>1, <3>1 DEF ItemInv
  <2> QED
    BY <2>2, <2>3
<1>7. ASSUME NEW q \in Runs PROVE OutcomeInv(q)'
  <2>1. OutcomeInv(q) /\ CutShort(q)' = CutShort(q) /\ Counted(q)' = Counted(q)
    BY <1>2 DEF ResultInv, CutShort, Counted, NulledOf
  <2>2. CASE q = r
    <3>1. NoFatal(r)
      BY <1>1 DEF NoFatal
    <3> QED
      BY <1>1, <1>2, <1>4, <2>1, <2>2, <3>1 DEF OutcomeInv
  <2>3. CASE q # r
    <3>1. outcome'[q] = outcome[q] /\ \A w \in Workers : w[1] = q => worker'[w] = worker[w]
      BY <1>2, <1>4, <2>3
    <3>2. NoFatal(q)' = NoFatal(q)
      BY <3>1 DEF NoFatal
    <3> QED
      BY <1>2, <2>1, <3>1, <3>2 DEF OutcomeInv
  <2> QED
    BY <2>2, <2>3
<1> QED
  BY <1>5, <1>6, <1>7 DEF ResultInv

LEMMA RunFinishes ==
  ASSUME WorkflowInv, ResultInv, NEW r \in Runs, Finish(r) PROVE ResultInv'
<1>1. /\ outcome \in [Runs -> Outcomes] /\ ResultFrame /\ outcome[r] = "running"
      /\ fatalErr \in [Runs -> {"", "agent_start"}] /\ runCanceled \in [Runs -> BOOLEAN]
  BY DEF WorkflowInv, RunInv, ResultInv, Finish, ResultFrame
<1>2. ASSUME NEW w \in Workers, w[1] = r PROVE worker[w] = "returned"
  <2>1. PICK q \in Runs : w \in {<<q, i>> : i \in ItemsOf(q)}
    BY DEF Workers
  <2>2. PICK i \in ItemsOf(q) : w = <<q, i>>
    BY <2>1
  <2>3. w = <<r, i>> /\ i \in ItemsOf(r)
    BY <1>2, <2>2
  <2> QED
    BY <2>3 DEF Finish
<1>3. /\ outcome' = [outcome EXCEPT ![r] =
                       IF fatalErr[r] # "" THEN fatalErr[r]
                       ELSE IF callerDone[r] THEN "cancelled" ELSE "result"]
      /\ runCanceled' = [runCanceled EXCEPT ![r] = TRUE]
      /\ UNCHANGED <<callerDone, fatalErr, worker, done, agentsStarted, nulled>>
  BY DEF Finish
<1>4. /\ outcome'[r] \in {"agent_start", "cancelled", "result"}
      /\ outcome'[r] = "result" => ~CutShort(r)
      /\ \A q \in Runs \ {r} : outcome'[q] = outcome[q] /\ runCanceled'[q] = runCanceled[q]
  <2>1. fatalErr[r] \in {"", "agent_start"}
    BY <1>1
  <2> QED
    BY <1>1, <1>3, <2>1 DEF CutShort
<1>5. ResultFrame'
  <2>1. runCanceled' \in [Runs -> BOOLEAN]
    BY <1>1, <1>3
  <2> QED
    BY <1>1, <1>3, <2>1 DEF ResultFrame
<1>6. ASSUME NEW w \in Workers PROVE ItemInv(w)'
  <2>1. ItemInv(w) /\ w[1] \in Runs /\ CutShort(w[1])' = CutShort(w[1])
    BY <1>3, WorkerOfRun DEF ResultInv, CutShort
  <2> QED
    BY <1>2, <1>3, <1>4, <2>1 DEF ItemInv
<1>7. ASSUME NEW q \in Runs PROVE OutcomeInv(q)'
  <2>1. /\ OutcomeInv(q) /\ CutShort(q)' = CutShort(q) /\ Counted(q)' = Counted(q)
        /\ NoFatal(q)' = NoFatal(q)
    BY <1>3 DEF ResultInv, CutShort, Counted, NulledOf, NoFatal
  <2>2. CASE q = r
    BY <1>1, <1>2, <1>3, <1>4, <2>1, <2>2 DEF OutcomeInv
  <2>3. CASE q # r
    BY <1>3, <1>4, <2>1, <2>3 DEF OutcomeInv
  <2> QED
    BY <2>2, <2>3
<1> QED
  BY <1>5, <1>6, <1>7 DEF ResultInv

LEMMA RunIsCancelled ==
  ASSUME WorkflowInv, ResultInv, NEW r \in Runs, CancelRun(r) PROVE ResultInv'
<1>1. ResultFrame /\ outcome[r] = "running" /\ callerDone \in [Runs -> BOOLEAN]
  BY DEF ResultInv, ResultFrame, CancelRun
<1>2. /\ callerDone' = [callerDone EXCEPT ![r] = TRUE]
      /\ UNCHANGED <<outcome, runCanceled, fatalErr, worker, done, agentsStarted, nulled>>
  BY DEF CancelRun
<1>3. /\ \A q \in Runs : CutShort(q) => CutShort(q)'
      /\ \A q \in Runs \ {r} : CutShort(q)' = CutShort(q)
  BY <1>1, <1>2 DEF CutShort
<1>4. ResultFrame'
  BY <1>1, <1>2 DEF ResultFrame
<1>5. ASSUME NEW w \in Workers PROVE ItemInv(w)'
  <2>1. ItemInv(w) /\ w[1] \in Runs
    BY WorkerOfRun DEF ResultInv
  <2> QED
    BY <1>2, <1>3, <2>1 DEF ItemInv
<1>6. ASSUME NEW q \in Runs PROVE OutcomeInv(q)'
  <2>1. OutcomeInv(q) /\ Counted(q)' = Counted(q) /\ NoFatal(q)' = NoFatal(q)
    BY <1>2 DEF ResultInv, Counted, NulledOf, NoFatal
  <2> QED
    BY <1>1, <1>2, <1>3, <2>1 DEF OutcomeInv
<1> QED
  BY <1>4, <1>5, <1>6 DEF ResultInv

LEMMA ResultSame ==
  ASSUME ResultInv, UNCHANGED workflowVars PROVE ResultInv'
  BY DEF workflowVars, ResultInv, ResultFrame, ItemInv, OutcomeInv, CutShort, Counted, NulledOf, NoFatal

LEMMA NextResultInv ==
  ASSUME WorkflowInv, ResultInv, [WorkflowNext]_workflowVars PROVE ResultInv'
<1>1. CASE WorkflowNext
  BY <1>1, WorkerStep, RunStarts, RunFinishes, RunIsCancelled DEF WorkflowNext
<1> QED
  BY <1>1, ResultSame

LEMMA ResultIsWhole == ASSUME ResultInv PROVE ResultHidesNothing
<1> SUFFICES ASSUME NEW r \in Runs, outcome[r] = "result"
             PROVE  /\ \A i \in ItemsOf(r) : done[<<r, i>>] = Docs[r].stages \/ <<r, i>> \in nulled
                    /\ agentsStarted[r] = Sum(r) + Cardinality({w \in nulled : w[1] = r})
                    /\ agentsStarted[r] <= MaxTotalAgents
  BY DEF ResultHidesNothing
<1>1. /\ ResultFrame /\ OutcomeInv(r) /\ ~CutShort(r) /\ ParseSpec(Docs[r]) = ""
      /\ \A w \in Workers : w[1] = r => worker[w] = "returned"
  BY DEF ResultInv, OutcomeInv
<1>2. \A i \in ItemsOf(r) : <<r, i>> \in Workers /\ ItemInv(<<r, i>>)
  BY DocsOfRuns DEF ResultInv
<1>3. \A i \in ItemsOf(r) : /\ done[<<r, i>>] = Docs[r].stages \/ <<r, i>> \in nulled
                            /\ done[<<r, i>>] <= Docs[r].stages
                            /\ <<r, i>> \in nulled => done[<<r, i>>] < Docs[r].stages
  BY <1>1, <1>2 DEF ItemInv
<1>4. Counted(r)
  BY <1>1 DEF OutcomeInv, NoFatal, CutShort
<1>5. Sum(r) = Total(done, r)
  BY DEF Sum, Total
<1>6. agentsStarted[r] = Sum(r) + Cardinality({w \in nulled : w[1] = r})
  BY <1>4, <1>5 DEF Counted, NulledOf
<1>7. Total(done, r) + Cardinality({w \in nulled : w[1] = r}) <= Docs[r].items * Docs[r].stages
  BY <1>1, <1>3, TotalBound DEF ResultFrame
<1>8. Docs[r].items * Docs[r].stages <= MaxTotalAgents
  <2>1. ~(Docs[r].items * Docs[r].stages > MaxTotalAgents)
    BY <1>1 DEF ParseSpec
  <2>2. MaxTotalAgents \in Int /\ Docs[r].items \in Nat /\ Docs[r].stages \in Nat
    BY WorkflowAssumption, DocsOfRuns
  <2>3. Docs[r].items * Docs[r].stages \in Int
    BY <2>2
  <2> QED
    BY <2>1, <2>2, <2>3
<1>9. agentsStarted[r] <= MaxTotalAgents
  <2>1. agentsStarted[r] <= Docs[r].items * Docs[r].stages
    BY <1>5, <1>6, <1>7
  <2>2. agentsStarted[r] \in Nat /\ MaxTotalAgents \in Int /\ Docs[r].items * Docs[r].stages \in Int
    <3>1. Docs[r].items \in Nat /\ Docs[r].stages \in Nat
      BY DocsOfRuns
    <3>2. Docs[r].items * Docs[r].stages \in Int
      BY <3>1
    <3> QED
      BY <1>1, <3>2, WorkflowAssumption DEF ResultFrame
  <2> QED
    BY <1>8, <2>1, <2>2
<1> QED
  BY <1>3, <1>6, <1>9

(* A result hides no item that was cut short, and no more children were     *)
(* started than the limit allows, though all runs share the slots (Run).   *)
THEOREM ResultsHideNothing == WorkflowSpec => []ResultHidesNothing
<1>1. WorkflowInit => WorkflowInv /\ ResultInv
  BY InitWorkflowInv, InitResultInv
<1>2. WorkflowInv /\ ResultInv /\ [WorkflowNext]_workflowVars => WorkflowInv' /\ ResultInv'
  BY NextWorkflowInv, NextResultInv
<1>3. ResultInv => ResultHidesNothing
  BY ResultIsWhole
<1> QED
  BY <1>1, <1>2, <1>3, PTL DEF WorkflowSpec

-----------------------------------------------------------------------------
(* Agents composed of several.  Sequences without repetition, of what has   *)
(* been reported: what is added, what is taken, and how long they can get.  *)
Unrepeated(s) == \A k, l \in DOMAIN s : s[k] = s[l] => k = l
In(s, x) == \E k \in DOMAIN s : s[k] = x

LEMMA AppendedOnce ==
  ASSUME NEW S, NEW s \in Seq(S), NEW x \in S, Unrepeated(s), ~In(s, x)
  PROVE  /\ Unrepeated(Append(s, x))
         /\ \A y : In(Append(s, x), y) <=> In(s, y) \/ y = x
<1>1. /\ Len(s) \in Nat /\ DOMAIN s = 1..Len(s) /\ DOMAIN Append(s, x) = 1..(Len(s) + 1)
      /\ Append(s, x)[Len(s) + 1] = x /\ \A k \in 1..Len(s) : Append(s, x)[k] = s[k]
  OBVIOUS
<1> QED
  BY <1>1 DEF Unrepeated, In

LEMMA TakenOnce ==
  ASSUME NEW S, NEW s \in Seq(S), s # <<>>, Unrepeated(s)
  PROVE  /\ Head(s) \in S /\ In(s, Head(s)) /\ Tail(s) \in Seq(S) /\ Unrepeated(Tail(s))
         /\ \A y : In(Tail(s), y) <=> In(s, y) /\ y # Head(s)
<1>1. /\ Len(s) \in Nat /\ Len(s) > 0 /\ DOMAIN s = 1..Len(s) /\ Head(s) = s[1]
      /\ DOMAIN Tail(s) = 1..(Len(s) - 1) /\ \A k \in 1..(Len(s) - 1) : Tail(s)[k] = s[k + 1]
      /\ Tail(s) \in Seq(S) /\ Head(s) \in S
  OBVIOUS
<1>2. Unrepeated(Tail(s))
  BY <1>1 DEF Unrepeated
<1>3. ASSUME NEW y, In(Tail(s), y) PROVE In(s, y) /\ y # Head(s)
  BY <1>1, <1>3 DEF In, Unrepeated
<1>4. ASSUME NEW y, In(s, y), y # Head(s) PROVE In(Tail(s), y)
  <2>1. PICK k \in 1..Len(s) : s[k] = y
    BY <1>1, <1>4 DEF In
  <2>2. k # 1 /\ k - 1 \in 1..(Len(s) - 1) /\ Tail(s)[k - 1] = s[k]
    BY <1>1, <1>4, <2>1
  <2> QED
    BY <1>1, <2>1, <2>2 DEF In
<1>5. In(s, Head(s))
  BY <1>1 DEF In
<1> QED
  BY <1>1, <1>2, <1>3, <1>4, <1>5

LEMMA InjectionOf ==
  ASSUME NEW S, NEW s \in Seq(S), Unrepeated(s), NEW T, \A y : In(s, y) => y \in T
  PROVE  s \in Injection(1..Len(s), T)
<1>1. DOMAIN s = 1..Len(s) /\ s = [k \in 1..Len(s) |-> s[k]]
  OBVIOUS
<1>2. \A k \in 1..Len(s) : s[k] \in T
  BY <1>1 DEF In
<1>3. s \in [1..Len(s) -> T]
  BY <1>1, <1>2
<1> QED
  BY <1>1, <1>3 DEF Unrepeated, Injection, IsInjective

LEMMA CountUpTo == ASSUME NEW n \in Nat PROVE IsFiniteSet(1..n) /\ Cardinality(1..n) = n
  BY FS_Interval

LEMMA ShortWhenOneMisses ==
  ASSUME NEW n \in Nat, NEW s \in Seq(1..n), Unrepeated(s), NEW i \in 1..n, ~In(s, i)
  PROVE  Len(s) < n
<1> DEFINE T == (1..n) \ {i}
<1>1. IsFiniteSet(1..n) /\ Cardinality(1..n) = n
  BY FS_Interval
<1>2. IsFiniteSet(T) /\ Cardinality(T) = n - 1
  BY <1>1, FS_RemoveElement
<1>3. Len(s) \in Nat /\ Cardinality(1..Len(s)) = Len(s)
  <2>1. Len(s) \in Nat
    OBVIOUS
  <2> QED
    BY <2>1, CountUpTo
<1>4. \A y : In(s, y) => y \in T
  BY DEF In
<1>5. s \in Injection(1..Len(s), T)
  BY <1>4, InjectionOf
<1>6. Cardinality(1..Len(s)) <= Cardinality(T)
  BY <1>2, <1>5, FS_Injection
<1> QED
  BY <1>2, <1>3, <1>6

LEMMA FullWhenNoneMisses ==
  ASSUME NEW n \in Nat, NEW s \in Seq(1..n), Unrepeated(s), \A i \in 1..n : In(s, i)
  PROVE  Len(s) = n
<1>1. IsFiniteSet(1..n) /\ Cardinality(1..n) = n
  BY FS_Interval
<1>2. Len(s) \in Nat /\ Cardinality(1..Len(s)) = Len(s)
  <2>1. Len(s) \in Nat
    OBVIOUS
  <2> QED
    BY <2>1, CountUpTo
<1>3. \A y : In(s, y) => y \in 1..n
  BY DEF In
<1>4. s \in Injection(1..Len(s), 1..n)
  BY <1>3, InjectionOf
<1>5. s \in Surjection(1..Len(s), 1..n)
  BY <1>4 DEF In, Injection, Surjection
<1>6. Cardinality(1..Len(s)) = Cardinality(1..n)
  BY <1>1, <1>4, <1>5, FS_Injection
<1> QED
  BY <1>1, <1>2, <1>6

AgentPlaces == {"waiting", "running", "reporting", "leaving", "over"}
Inputs == [system : BOOLEAN, prompts : Seq(Nat), talk : Seq(Nat)]
ComposeFrame ==
  /\ phase \in {"running", "returned", "panicked", "crashed"}
  /\ at \in [Compose!Agents -> AgentPlaces]
  /\ did \in [Compose!Agents -> Compose!Ends \cup {"none"}]
  /\ results \in [Compose!Agents -> Compose!Ends]
  /\ order \in Seq(Compose!Agents) /\ reports \in Seq(Compose!Agents)
  /\ given \in [Compose!Agents -> Inputs] /\ input \in Inputs

(* Of agents that run together: what is in the channel or was taken from it *)
(* is what has been reported, each once; the slots are enough for the busy. *)
Reported(i) == at[i] \in {"leaving", "over"} /\ did[i] # "panics"
ReportsInv ==
  /\ Unrepeated(order) /\ Unrepeated(reports)
  /\ \A i \in Compose!Agents :
       /\ ~(In(order, i) /\ In(reports, i))
       /\ (In(order, i) \/ In(reports, i)) <=> Reported(i)
       /\ did[i] = "none" <=> at[i] \in {"waiting", "running"}
       /\ form = "spawn" \/ at[i] = "reporting" => did[i] # "panics"
       /\ form = "parallel" =>
            results[i] = IF In(order, i) \/ did[i] = "panics" THEN did[i] ELSE "nil"
AnswerInv ==
  /\ answer.said \in Seq(Compose!Agents)
  /\ \A i \in Compose!Agents : In(answer.said, i) <=> did[i] = "answers"
  /\ Compose!Rising(answer.said)
  /\ answer.usage = Cardinality({i \in Compose!Agents : did[i] \in {"answers", "fails"}})
  /\ IF Compose!Failing = {} THEN answer.err = 0
     ELSE answer.err \in Compose!Failing /\ \A i \in Compose!Failing : answer.err <= i
ReturnInv ==
  phase = "returned" =>
    Compose!AllOver /\ reports = <<>> /\ (form = "parallel" => AnswerInv)
SlotsInv ==
  form = "parallel" => phase # "crashed" /\ Cardinality(Compose!Busy) <= Compose!Slots
TogetherInv ==
  Compose!Together => SlotsInv /\ (phase # "crashed" => ReportsInv /\ ReturnInv)

LEMMA ComposeCardinality == \A S : Compose!Cardinality(S) = Cardinality(S)
  BY DEF Compose!Cardinality, Cardinality

LEMMA BusyIsFinite ==
  /\ NumAgents \in Nat /\ Compose!Slots \in Nat
  /\ IsFiniteSet(Compose!Busy) /\ Cardinality(Compose!Busy) \in Nat
<1>1. NumAgents \in Nat
  BY AgentsAssumption
<1>2. IsFiniteSet(Compose!Agents)
  BY <1>1, CountUpTo DEF Compose!Agents
<1>3. Compose!Busy \subseteq Compose!Agents
  BY DEF Compose!Busy
<1>4. Compose!Slots \in Nat
  BY <1>1 DEF Compose!Slots, Compose!Agents
<1> QED
  BY <1>1, <1>2, <1>3, <1>4, FS_Subset, FS_CardinalityType

LEMMA InitTogether ==
  ASSUME Compose!CompositionInit PROVE ComposeFrame /\ TogetherInv
<1> USE DEF Compose!CompositionInit
<1>1. <<>> \in Seq(Compose!Agents) /\ <<>> \in Seq(Nat) /\ <<0>> \in Seq(Nat) /\ DOMAIN <<>> = 1..0
  OBVIOUS
<1>2. Compose!Asked \in Inputs
  BY <1>1 DEF Compose!Asked, Inputs
<1>3. ComposeFrame
  BY <1>1, <1>2 DEF ComposeFrame, AgentPlaces, Compose!Ends
<1>4. ReportsInv
  <2>1. order = <<>> /\ reports = <<>>
    OBVIOUS
  <2>2. \A i : ~In(order, i) /\ ~In(reports, i)
    BY <1>1, <2>1 DEF In
  <2>3. Unrepeated(order) /\ Unrepeated(reports)
    BY <1>1, <2>1 DEF Unrepeated
  <2> QED
    BY <2>2, <2>3 DEF ReportsInv, Reported
<1>5. ReturnInv
  BY DEF ReturnInv
<1>6. SlotsInv
  <2>1. Compose!Busy = {}
    BY DEF Compose!Busy
  <2>2. Cardinality(Compose!Busy) = 0
    BY <2>1, FS_EmptySet
  <2> QED
    BY <2>2, BusyIsFinite DEF SlotsInv
<1> QED
  BY <1>3, <1>4, <1>5, <1>6 DEF TogetherInv

(* An agent's goroutine moves while the others stay where they are.         *)
LEMMA AgentStarts ==
  ASSUME ComposeFrame, TogetherInv, NEW i \in Compose!Agents, Compose!Launch(i)
  PROVE  ComposeFrame' /\ TogetherInv'
<1>1. /\ Compose!Together /\ phase = "running" /\ at[i] = "waiting"
      /\ at' = [at EXCEPT ![i] = "running"] /\ form' = form /\ limit' = limit /\ phase' = phase
      /\ did' = did /\ given' = given /\ input' = input /\ reports' = reports
      /\ results' = results /\ order' = order /\ answer' = answer
      /\ form = "parallel" => Compose!Cardinality(Compose!Busy) < Compose!Slots
  BY DEF Compose!Launch
<1>2. SlotsInv /\ ReportsInv
  BY <1>1 DEF TogetherInv
<1>3. at'[i] = "running" /\ (\A j \in Compose!Agents : j # i => at'[j] = at[j]) /\ ComposeFrame'
  BY <1>1 DEF ComposeFrame, AgentPlaces
<1>4. ReportsInv'
  <2>1. \A j \in Compose!Agents :
          /\ Reported(j)' <=> Reported(j)
          /\ at'[j] \in {"waiting", "running"} <=> at[j] \in {"waiting", "running"}
          /\ at'[j] = "reporting" <=> at[j] = "reporting"
    BY <1>1, <1>3 DEF Reported
  <2> QED
    BY <1>1, <1>2, <2>1 DEF ReportsInv
<1>5. SlotsInv'
  <2>1. Compose!Busy' = Compose!Busy \cup {i} /\ i \notin Compose!Busy
    BY <1>1, <1>3 DEF Compose!Busy
  <2>2. Cardinality(Compose!Busy') = Cardinality(Compose!Busy) + 1
    BY <2>1, BusyIsFinite, FS_AddElement
  <2>3. Compose!Slots' = Compose!Slots
    BY <1>1 DEF Compose!Slots
  <2>4. form = "parallel" => Cardinality(Compose!Busy) < Compose!Slots
    BY <1>1, ComposeCardinality
  <2> QED
    BY <1>1, <2>2, <2>3, <2>4, BusyIsFinite DEF SlotsInv
<1> QED
  BY <1>1, <1>3, <1>4, <1>5 DEF TogetherInv, ReturnInv

LEMMA AgentEndsRun ==
  ASSUME ComposeFrame, TogetherInv, NEW i \in Compose!Agents, NEW o \in Compose!Ends,
         Compose!RunEnds(i, o)
  PROVE  ComposeFrame' /\ TogetherInv'
<1>1. /\ Compose!Together /\ phase = "running" /\ at[i] = "running"
      /\ did' = [did EXCEPT ![i] = o] /\ form' = form /\ limit' = limit
      /\ given' = given /\ input' = input /\ reports' = reports
      /\ order' = order /\ answer' = answer
  BY DEF Compose!RunEnds
<1>2. SlotsInv /\ ReportsInv
  BY <1>1 DEF TogetherInv
<1>3. did'[i] = o /\ (\A j \in Compose!Agents : j # i => did'[j] = did[j])
      /\ did' \in [Compose!Agents -> Compose!Ends \cup {"none"}] /\ o # "none"
  BY <1>1 DEF ComposeFrame, Compose!Ends
<1>4. ~In(order, i) /\ ~In(reports, i)
  BY <1>1, <1>2 DEF ReportsInv, Reported
<1>5. CASE form = "spawn" /\ o \in {"nil", "panics"}
  <2>1. phase' = "crashed" /\ results' = results /\ at' = at
    BY <1>1, <1>5 DEF Compose!RunEnds
  <2> QED
    BY <1>1, <1>3, <1>5, <2>1 DEF ComposeFrame, TogetherInv, SlotsInv
<1>6. CASE ~(form = "spawn" /\ o \in {"nil", "panics"})
  <2> DEFINE panicked == form = "parallel" /\ o = "panics"
  <2>1. /\ phase' = phase
        /\ at' = [at EXCEPT ![i] = IF panicked THEN "leaving" ELSE "reporting"]
        /\ panicked => results' = [results EXCEPT ![i] = o]
        /\ ~panicked => results' = results
        /\ o = "panics" <=> panicked
    BY <1>1, <1>6 DEF Compose!RunEnds, Compose!Together, Compose!Ends
  <2>2. /\ at'[i] = IF panicked THEN "leaving" ELSE "reporting"
        /\ \A j \in Compose!Agents : j # i => at'[j] = at[j]
        /\ at' \in [Compose!Agents -> AgentPlaces]
    BY <2>1 DEF ComposeFrame, AgentPlaces
  <2>3. /\ results' \in [Compose!Agents -> Compose!Ends]
        /\ \A j \in Compose!Agents : j # i => results'[j] = results[j]
        /\ panicked => results'[i] = o
        /\ ~panicked => results'[i] = results[i]
    BY <2>1 DEF ComposeFrame
  <2>4. ComposeFrame'
    BY <1>1, <1>3, <2>1, <2>2, <2>3 DEF ComposeFrame
  <2>5. ReportsInv'
    <3> SUFFICES ASSUME NEW j \in Compose!Agents
                 PROVE  /\ ~(In(order, j) /\ In(reports, j))
                        /\ (In(order, j) \/ In(reports, j)) <=> Reported(j)'
                        /\ did'[j] = "none" <=> at'[j] \in {"waiting", "running"}
                        /\ form = "spawn" \/ at'[j] = "reporting" => did'[j] # "panics"
                        /\ form = "parallel" =>
                             results'[j] = IF In(order, j) \/ did'[j] = "panics"
                                           THEN did'[j] ELSE "nil"
      BY <1>1, <1>2 DEF ReportsInv
    <3>1. CASE j = i
      <4>1. ~Reported(i)'
        BY <1>3, <2>1, <2>2 DEF Reported
      <4>2. form = "parallel" =>
              results'[i] = IF In(order, i) \/ did'[i] = "panics" THEN did'[i] ELSE "nil"
        <5>1. did[i] = "none" /\ (form = "parallel" => results[i] = "nil")
          BY <1>1, <1>2, <1>4 DEF ReportsInv
        <5> QED
          BY <1>3, <1>4, <2>1, <2>3, <5>1
      <4>3. did'[i] # "none" /\ at'[i] \notin {"waiting", "running"}
        BY <1>3, <2>2
      <4>4. form = "spawn" \/ at'[i] = "reporting" => did'[i] # "panics"
        BY <1>3, <1>6, <2>1, <2>2
      <4> QED
        BY <1>4, <3>1, <4>1, <4>2, <4>3, <4>4
    <3>2. CASE j # i
      <4>1. /\ at'[j] = at[j] /\ did'[j] = did[j] /\ results'[j] = results[j]
            /\ Reported(j)' <=> Reported(j)
        BY <1>3, <2>2, <2>3, <3>2 DEF Reported
      <4> QED
        BY <1>2, <4>1 DEF ReportsInv
    <3> QED
      BY <3>1, <3>2
  <2>6. SlotsInv'
    <3>1. Compose!Busy' = Compose!Busy
      BY <1>1, <2>2 DEF Compose!Busy
    <3>2. Compose!Slots' = Compose!Slots
      BY <1>1 DEF Compose!Slots
    <3> QED
      BY <1>1, <1>2, <2>1, <3>1, <3>2 DEF SlotsInv
  <2> QED
    BY <1>1, <2>1, <2>4, <2>5, <2>6 DEF TogetherInv, ReturnInv
<1> QED
  BY <1>5, <1>6

LEMMA AgentReports ==
  ASSUME ComposeFrame, TogetherInv, Compose!Together, NEW i \in Compose!Agents, Compose!Report(i)
  PROVE  ComposeFrame' /\ TogetherInv'
<1>1. /\ phase = "running" /\ at[i] = "reporting" /\ reports' = Append(reports, i)
      /\ at' = [at EXCEPT ![i] = "leaving"] /\ form' = form /\ limit' = limit /\ phase' = phase
      /\ did' = did /\ given' = given /\ input' = input
      /\ results' = results /\ order' = order /\ answer' = answer
  BY DEF Compose!Report
<1>2. SlotsInv /\ ReportsInv
  BY <1>1 DEF TogetherInv
<1>3. at'[i] = "leaving" /\ (\A j \in Compose!Agents : j # i => at'[j] = at[j])
      /\ at' \in [Compose!Agents -> AgentPlaces]
  BY <1>1 DEF ComposeFrame, AgentPlaces
<1>4. did[i] # "panics" /\ ~In(order, i) /\ ~In(reports, i)
  BY <1>1, <1>2 DEF ReportsInv, Reported
<1>5. /\ reports' \in Seq(Compose!Agents) /\ Unrepeated(reports')
      /\ \A y : In(reports', y) <=> In(reports, y) \/ y = i
  <2>1. reports \in Seq(Compose!Agents) /\ Unrepeated(reports)
    BY <1>2 DEF ComposeFrame, ReportsInv
  <2>2. Append(reports, i) \in Seq(Compose!Agents)
    BY <2>1
  <2> QED
    BY <1>1, <1>4, <2>1, <2>2, AppendedOnce
<1>6. ComposeFrame'
  BY <1>1, <1>3, <1>5 DEF ComposeFrame
<1>7. ReportsInv'
  <2>1. Reported(i)' /\ \A j \in Compose!Agents : j # i => (Reported(j)' <=> Reported(j))
    BY <1>1, <1>3, <1>4 DEF Reported
  <2> SUFFICES ASSUME NEW j \in Compose!Agents
               PROVE  /\ ~(In(order, j) /\ In(reports', j))
                      /\ (In(order, j) \/ In(reports', j)) <=> Reported(j)'
                      /\ did[j] = "none" <=> at'[j] \in {"waiting", "running"}
                      /\ form = "spawn" \/ at'[j] = "reporting" => did[j] # "panics"
                      /\ form = "parallel" =>
                           results[j] = IF In(order, j) \/ did[j] = "panics" THEN did[j] ELSE "nil"
    BY <1>1, <1>2, <1>5 DEF ReportsInv
  <2>2. CASE j = i
    BY <1>1, <1>2, <1>3, <1>4, <1>5, <2>1, <2>2 DEF ReportsInv
  <2>3. CASE j # i
    BY <1>2, <1>3, <1>5, <2>1, <2>3 DEF ReportsInv
  <2> QED
    BY <2>2, <2>3
<1>8. SlotsInv'
  <2>1. Compose!Busy' = Compose!Busy
    BY <1>1, <1>3 DEF Compose!Busy
  <2>2. Compose!Slots' = Compose!Slots
    BY <1>1 DEF Compose!Slots
  <2> QED
    BY <1>1, <1>2, <2>1, <2>2 DEF SlotsInv
<1> QED
  BY <1>1, <1>6, <1>7, <1>8 DEF TogetherInv, ReturnInv

LEMMA AgentLeaves ==
  ASSUME ComposeFrame, TogetherInv, Compose!Together, NEW i \in Compose!Agents,
         Compose!LeaveGroup(i)
  PROVE  ComposeFrame' /\ TogetherInv'
<1>1. /\ phase = "running" /\ at[i] = "leaving" /\ reports' = reports
      /\ at' = [at EXCEPT ![i] = "over"] /\ form' = form /\ limit' = limit /\ phase' = phase
      /\ did' = did /\ given' = given /\ input' = input
      /\ results' = results /\ order' = order /\ answer' = answer
  BY DEF Compose!LeaveGroup
<1>2. SlotsInv /\ ReportsInv
  BY <1>1 DEF TogetherInv
<1>3. at'[i] = "over" /\ (\A j \in Compose!Agents : j # i => at'[j] = at[j]) /\ ComposeFrame'
  BY <1>1 DEF ComposeFrame, AgentPlaces
<1>4. ReportsInv'
  <2>1. \A j \in Compose!Agents :
          /\ Reported(j)' <=> Reported(j)
          /\ at'[j] \in {"waiting", "running"} <=> at[j] \in {"waiting", "running"}
          /\ at'[j] = "reporting" <=> at[j] = "reporting"
    BY <1>1, <1>3 DEF Reported
  <2> QED
    BY <1>1, <1>2, <2>1 DEF ReportsInv
<1>5. SlotsInv'
  <2>1. Compose!Busy' \subseteq Compose!Busy
    BY <1>1, <1>3 DEF Compose!Busy
  <2>2. Cardinality(Compose!Busy') <= Cardinality(Compose!Busy) /\ Cardinality(Compose!Busy') \in Nat
    BY <2>1, BusyIsFinite, FS_Subset, FS_CardinalityType
  <2>3. Compose!Slots' = Compose!Slots
    BY <1>1 DEF Compose!Slots
  <2> QED
    BY <1>1, <1>2, <2>2, <2>3, BusyIsFinite DEF SlotsInv
<1> QED
  BY <1>1, <1>3, <1>4, <1>5 DEF TogetherInv, ReturnInv

LEMMA CallerCollects ==
  ASSUME ComposeFrame, TogetherInv, Compose!Collect
  PROVE  ComposeFrame' /\ TogetherInv'
<1>1. PICK i : i = Head(reports)
  OBVIOUS
<1>2. /\ Compose!Together /\ phase = "running" /\ reports # <<>> /\ reports' = Tail(reports)
      /\ order' = Append(order, i) /\ results' = [results EXCEPT ![i] = did[i]]
      /\ at' = at /\ form' = form /\ limit' = limit /\ phase' = phase
      /\ did' = did /\ given' = given /\ input' = input /\ answer' = answer
  BY <1>1 DEF Compose!Collect
<1>3. SlotsInv /\ ReportsInv
  BY <1>2 DEF TogetherInv
<1>4. reports \in Seq(Compose!Agents) /\ order \in Seq(Compose!Agents)
      /\ Unrepeated(reports) /\ Unrepeated(order)
  BY <1>3 DEF ComposeFrame, ReportsInv
<1>5. /\ i \in Compose!Agents /\ In(reports, i)
      /\ reports' \in Seq(Compose!Agents) /\ Unrepeated(reports')
      /\ \A y : In(reports', y) <=> In(reports, y) /\ y # i
  BY <1>1, <1>2, <1>4, TakenOnce
<1>6. ~In(order, i) /\ Reported(i)
  BY <1>3, <1>5 DEF ReportsInv
<1>7. /\ order' \in Seq(Compose!Agents) /\ Unrepeated(order')
      /\ \A y : In(order', y) <=> In(order, y) \/ y = i
  <2>1. Append(order, i) \in Seq(Compose!Agents)
    BY <1>4, <1>5
  <2> QED
    BY <1>2, <1>4, <1>5, <1>6, <2>1, AppendedOnce
<1>8. did[i] # "none" /\ did[i] \in Compose!Ends
  <2>1. did[i] # "none"
    BY <1>3, <1>5, <1>6 DEF ReportsInv, Reported
  <2> QED
    BY <1>5, <2>1 DEF ComposeFrame
<1>9. /\ results' \in [Compose!Agents -> Compose!Ends] /\ results'[i] = did[i]
      /\ \A j \in Compose!Agents : j # i => results'[j] = results[j]
  BY <1>2, <1>5, <1>8 DEF ComposeFrame
<1>10. ComposeFrame'
  BY <1>2, <1>5, <1>7, <1>9 DEF ComposeFrame
<1>11. ReportsInv'
  <2>1. \A j \in Compose!Agents : Reported(j)' <=> Reported(j)
    BY <1>2 DEF Reported
  <2> SUFFICES ASSUME NEW j \in Compose!Agents
               PROVE  /\ ~(In(order', j) /\ In(reports', j))
                      /\ (In(order', j) \/ In(reports', j)) <=> Reported(j)
                      /\ did[j] = "none" <=> at[j] \in {"waiting", "running"}
                      /\ form = "spawn" \/ at[j] = "reporting" => did[j] # "panics"
                      /\ form = "parallel" =>
                           results'[j] = IF In(order', j) \/ did[j] = "panics" THEN did[j] ELSE "nil"
    BY <1>2, <1>5, <1>7, <2>1 DEF ReportsInv
  <2>2. CASE j = i
    BY <1>3, <1>5, <1>6, <1>7, <1>9, <2>2 DEF ReportsInv
  <2>3. CASE j # i
    BY <1>3, <1>5, <1>7, <1>9, <2>3 DEF ReportsInv
  <2> QED
    BY <2>2, <2>3
<1>12. SlotsInv'
  BY <1>2, <1>3 DEF SlotsInv, Compose!Busy, Compose!Slots
<1> QED
  BY <1>2, <1>10, <1>11, <1>12 DEF TogetherInv, ReturnInv

(* What mergeResults has made of the first agents.                          *)
Answers == [err : Nat, prompts : Seq(Nat), talk : Seq(Nat), said : Seq(Compose!Agents), usage : Nat]
Heard(n) == {j \in 1..n : did[j] = "answers"}
Counting(n) == {j \in 1..n : did[j] \in {"answers", "fails"}}
FailingOf(n) == {j \in 1..n : did[j] \in {"fails", "panics"}}
Merging(a, n) ==
  /\ \A j : In(a.said, j) <=> j \in Heard(n)
  /\ Compose!Rising(a.said)
  /\ a.usage = Cardinality(Counting(n))
  /\ IF FailingOf(n) = {} THEN a.err = 0
     ELSE a.err \in FailingOf(n) /\ \A j \in FailingOf(n) : a.err <= j
MergeOne(a, i) ==
  IF results[i] = "nil" THEN a ELSE Compose!Merged(a, Compose!ResultOf(i))

LEMMA ResultIsAnswer ==
  ASSUME NEW i \in Compose!Agents, results[i] \in Compose!Ends, results[i] # "nil"
  PROVE  LET r == Compose!ResultOf(i) IN
         /\ r \in Answers
         /\ r.said = IF results[i] = "answers" THEN <<i>> ELSE <<>>
         /\ r.usage = IF results[i] \in {"answers", "fails"} THEN 1 ELSE 0
         /\ r.err = IF results[i] \in {"fails", "panics"} THEN i ELSE 0
<1>1. i \in Nat /\ 0 \in Nat /\ 1 \in Nat
  BY AgentsAssumption DEF Compose!Agents
<1>2. /\ <<i>> \in Seq(Compose!Agents) /\ <<>> \in Seq(Compose!Agents) /\ <<0>> \in Seq(Nat)
      /\ <<>> \in Seq(Nat) /\ <<i>> \in Seq(Nat)
  BY <1>1
<1>3. CASE results[i] = "panics"
  BY <1>1, <1>2, <1>3 DEF Compose!ResultOf, Compose!Nothing, Answers
<1>4. CASE results[i] \in {"answers", "fails"}
  <2> DEFINE p == Compose!collapseSystem(Compose!buildMessages(i, Compose!Asked))
             t == IF results[i] = "answers" THEN Append(<<0>>, i) ELSE <<0>>
             s == IF results[i] = "answers" THEN <<i>> ELSE <<>>
  <2>1. p = (<<i>> \o <<0>>) \o <<>>
    BY DEF Compose!collapseSystem, Compose!buildMessages, Compose!Asked
  <2>2. p \in Seq(Nat)
    <3>1. <<i>> \o <<0>> \in Seq(Nat)
      BY <1>2, ConcatProperties
    <3> QED
      BY <1>2, <2>1, <3>1, ConcatProperties
  <2>3. t \in Seq(Nat)
    BY <1>1, <1>2, AppendProperties
  <2>4. s \in Seq(Compose!Agents)
    BY <1>2
  <2>5. Compose!ResultOf(i) = [err |-> IF results[i] = "fails" THEN i ELSE 0, prompts |-> p,
                               talk |-> t, said |-> s, usage |-> 1]
    BY <1>4 DEF Compose!ResultOf, Compose!Result, Compose!Asked
  <2> HIDE DEF p, t
  <2> QED
    BY <1>1, <1>4, <2>2, <2>3, <2>4, <2>5 DEF Answers
<1> QED
  BY <1>3, <1>4 DEF Compose!Ends

LEMMA MergedIs ==
  ASSUME NEW a \in Answers, NEW i \in Compose!Agents, results[i] \in Compose!Ends
  PROVE  LET b == MergeOne(a, i) IN
         /\ b \in Answers
         /\ b.said = IF results[i] = "answers" THEN Append(a.said, i) ELSE a.said
         /\ b.usage = IF results[i] \in {"answers", "fails"} THEN a.usage + 1 ELSE a.usage
         /\ b.err = IF a.err = 0 /\ results[i] \in {"fails", "panics"} THEN i ELSE a.err
<1>1. CASE results[i] = "nil"
  BY <1>1 DEF MergeOne
<1>2. CASE results[i] # "nil"
  <2>1. PICK r \in Answers :
          /\ r = Compose!ResultOf(i)
          /\ r.said = IF results[i] = "answers" THEN <<i>> ELSE <<>>
          /\ r.usage = IF results[i] \in {"answers", "fails"} THEN 1 ELSE 0
          /\ r.err = IF results[i] \in {"fails", "panics"} THEN i ELSE 0
    BY <1>2, ResultIsAnswer
  <2>2. /\ a.said \in Seq(Compose!Agents) /\ a.prompts \in Seq(Nat) /\ a.talk \in Seq(Nat)
        /\ r.said \in Seq(Compose!Agents) /\ r.prompts \in Seq(Nat) /\ r.talk \in Seq(Nat)
        /\ a.usage \in Nat /\ r.usage \in Nat /\ a.err \in Nat /\ r.err \in Nat
    BY DEF Answers
  <2>3. /\ a.prompts \o r.prompts \in Seq(Nat) /\ a.talk \o r.talk \in Seq(Nat)
        /\ a.said \o r.said \in Seq(Compose!Agents)
    BY <2>2, ConcatProperties
  <2>4. a.said \o r.said = IF results[i] = "answers" THEN Append(a.said, i) ELSE a.said
    <3>1. a.said \o <<i>> = Append(a.said, i)
      BY <2>2, AppendIsConcat
    <3>2. a.said \o <<>> = a.said
      BY <2>2, ConcatEmptySeq
    <3> QED
      BY <2>1, <3>1, <3>2
  <2>5. MergeOne(a, i) = [err |-> IF a.err = 0 THEN r.err ELSE a.err,
                       prompts |-> a.prompts \o r.prompts, talk |-> a.talk \o r.talk,
                       said |-> a.said \o r.said, usage |-> a.usage + r.usage]
    BY <1>2, <2>1 DEF MergeOne, Compose!Merged, Compose!FirstError
  <2>6. a.usage + r.usage \in Nat
    BY <2>2
  <2>7. MergeOne(a, i) \in Answers
    BY <2>2, <2>3, <2>5, <2>6 DEF Answers
  <2>8. a.usage + r.usage = IF results[i] \in {"answers", "fails"} THEN a.usage + 1 ELSE a.usage
    BY <2>1, <2>2
  <2> QED
    BY <2>1, <2>2, <2>4, <2>5, <2>7, <2>8
<1> QED
  BY <1>1, <1>2

LEMMA MergingGoesOn ==
  ASSUME ComposeFrame, NEW a \in Answers, NEW n \in Nat, n + 1 \in Compose!Agents, Merging(a, n),
         results[n + 1] = did[n + 1]
  PROVE  Merging(MergeOne(a, n + 1), n + 1)
<1>1. PICK i : i = n + 1
  OBVIOUS
<1>2. PICK b \in Answers :
        /\ b = MergeOne(a, i)
        /\ b.said = IF did[i] = "answers" THEN Append(a.said, i) ELSE a.said
        /\ b.usage = IF did[i] \in {"answers", "fails"} THEN a.usage + 1 ELSE a.usage
        /\ b.err = IF a.err = 0 /\ did[i] \in {"fails", "panics"} THEN i ELSE a.err
  <2>1. i \in Compose!Agents /\ results[i] \in Compose!Ends /\ results[i] = did[i]
    BY <1>1 DEF ComposeFrame
  <2> QED
    BY <2>1, MergedIs
<1>3. i \in Nat /\ n \in Nat /\ i = n + 1 /\ i # 0 /\ i \notin 1..n /\ 1..i = (1..n) \cup {i}
      /\ \A j \in 1..n : j < i
  BY <1>1
<1>4. (\A j : In(b.said, j) <=> j \in Heard(i)) /\ Compose!Rising(b.said)
  <2>1. PICK s \in Seq(Compose!Agents) : s = a.said
    BY DEF Answers
  <2>2. (\A j : In(s, j) <=> j \in Heard(n)) /\ Compose!Rising(s)
    BY <2>1 DEF Merging
  <2>3. CASE did[i] = "answers"
    <3>1. i \in Compose!Agents
      BY <1>1
    <3>2. PICK t : t = Append(s, i)
      OBVIOUS
    <3>3. /\ Len(s) \in Nat /\ DOMAIN s = 1..Len(s) /\ DOMAIN t = 1..(Len(s) + 1)
          /\ t[Len(s) + 1] = i /\ \A k \in 1..Len(s) : t[k] = s[k]
      BY <3>1, <3>2, AppendProperties
    <3>4. \A j : In(t, j) <=> In(s, j) \/ j = i
      BY <3>3 DEF In
    <3>5. Heard(i) = Heard(n) \cup {i}
      BY <1>3, <2>3 DEF Heard
    <3>6. \A k \in 1..Len(s) : s[k] \in Nat /\ s[k] < i
      <4>1. \A k \in 1..Len(s) : s[k] \in 1..n
        BY <2>2, <3>3 DEF In, Heard
      <4> QED
        BY <1>3, <4>1
    <3>7. Compose!Rising(t)
      <4>1. \A k, l \in 1..Len(s) : k < l => s[k] < s[l]
        BY <2>2, <3>3 DEF Compose!Rising
      <4> SUFFICES ASSUME NEW k \in 1..(Len(s) + 1), NEW l \in 1..(Len(s) + 1), k < l
                   PROVE  t[k] < t[l]
        BY <3>3 DEF Compose!Rising
      <4>2. k \in 1..Len(s)
        BY <3>3
      <4>3. l \in 1..Len(s) \/ l = Len(s) + 1
        BY <3>3
      <4> QED
        BY <3>3, <3>6, <4>1, <4>2, <4>3
    <3> QED
      BY <1>2, <2>1, <2>2, <2>3, <3>2, <3>4, <3>5, <3>7
  <2>4. CASE did[i] # "answers"
    <3>1. Heard(i) = Heard(n)
      BY <1>3, <2>4 DEF Heard
    <3> QED
      BY <1>2, <2>1, <2>2, <2>4, <3>1
  <2> QED
    BY <2>3, <2>4
<1>5. b.usage = Cardinality(Counting(i))
  <2>1. IsFiniteSet(Counting(n))
    BY CountUpTo, FS_Subset DEF Counting
  <2>2. i \notin Counting(n)
    BY <1>3 DEF Counting
  <2>3. Counting(i) = IF did[i] \in {"answers", "fails"} THEN Counting(n) \cup {i} ELSE Counting(n)
    BY <1>3 DEF Counting
  <2>4. a.usage = Cardinality(Counting(n))
    BY DEF Merging
  <2> QED
    BY <1>2, <2>1, <2>2, <2>3, <2>4, FS_AddElement
<1>6. IF FailingOf(i) = {} THEN b.err = 0
      ELSE b.err \in FailingOf(i) /\ \A j \in FailingOf(i) : b.err <= j
  <2>1. FailingOf(i) = IF did[i] \in {"fails", "panics"} THEN FailingOf(n) \cup {i} ELSE FailingOf(n)
    BY <1>3 DEF FailingOf
  <2>2. IF FailingOf(n) = {} THEN a.err = 0
        ELSE a.err \in FailingOf(n) /\ \A j \in FailingOf(n) : a.err <= j
    BY DEF Merging
  <2>3. \A j \in FailingOf(n) : j \in Nat /\ j < i /\ j # 0
    BY <1>3 DEF FailingOf
  <2> QED
    BY <1>2, <1>3, <2>1, <2>2, <2>3
<1> QED
  BY <1>1, <1>2, <1>4, <1>5, <1>6 DEF Merging

LEMMA MergeIsWhole ==
  ASSUME ComposeFrame, \A i \in Compose!Agents : results[i] = did[i]
  PROVE  LET a == Compose!mergeResults IN a \in Answers /\ Merging(a, NumAgents)
<1> DEFINE m == NumAgents
           Def(g) == g = [i \in 0..m |->
                            IF i = 0 THEN Compose!Nothing
                            ELSE IF results[i] = "nil" THEN g[i - 1]
                            ELSE Compose!Merged(g[i - 1], Compose!ResultOf(i))]
           follow == [p \in Answers \X (1..m) |-> MergeOne(p[1], p[2])]
<1>1. m \in Nat /\ Compose!Agents = 1..m /\ \A i \in 1..m : results[i] \in Compose!Ends
  BY AgentsAssumption DEF ComposeFrame, Compose!Agents
<1> HIDE DEF m
<1>2. follow \in [Answers \X (1..m) -> Answers]
      /\ \A x \in Answers, n \in 1..m : follow[<<x, n>>] = MergeOne(x, n)
  <2>1. \A x \in Answers, n \in 1..m : MergeOne(x, n) \in Answers
    BY <1>1, MergedIs
  <2> QED
    BY <2>1
<1> HIDE DEF follow
<1>3. Compose!Nothing \in Answers
  <2>1. <<>> \in Seq(Nat) /\ <<>> \in Seq(Compose!Agents)
    OBVIOUS
  <2> QED
    BY <2>1 DEF Compose!Nothing, Answers
<1>4. PICK g \in [0..m -> Answers] :
        g[0] = Compose!Nothing /\ \A n \in 1..m : g[n] = follow[<<g[n - 1], n>>]
  <2>1. \E g \in [0..m -> Answers] : Table(g, Compose!Nothing, m, follow)
    BY <1>1, <1>2, <1>3, TableExists, Zenon
  <2> QED
    BY <2>1, Zenon DEF Table
<1>5. \A n \in 1..m : g[n - 1] \in Answers /\ g[n] = MergeOne(g[n - 1], n)
  <2> SUFFICES ASSUME NEW n \in 1..m PROVE g[n - 1] \in Answers /\ g[n] = MergeOne(g[n - 1], n)
    OBVIOUS
  <2>1. n - 1 \in 0..m
    BY <1>1
  <2>2. g[n - 1] \in Answers
    BY <1>4, <2>1
  <2> QED
    BY <1>2, <1>4, <2>2
<1>6. Def(g)
  <2>1. ASSUME NEW i \in 0..m
        PROVE  g[i] = IF i = 0 THEN Compose!Nothing
                      ELSE IF results[i] = "nil" THEN g[i - 1]
                      ELSE Compose!Merged(g[i - 1], Compose!ResultOf(i))
    <3>1. i = 0 \/ i \in 1..m
      BY <1>1
    <3> QED
      BY <1>1, <1>4, <1>5, <3>1 DEF MergeOne
  <2>2. g = [i \in 0..m |-> g[i]]
    BY <1>4
  <2> QED
    BY <2>1, <2>2
<1> DEFINE f == CHOOSE h : Def(h)
<1>7. Def(f)
  <2> HIDE DEF Def
  <2> QED
    BY <1>6, Zenon
<1>8. Compose!mergeResults = f[m]
  BY Zenon DEF Compose!mergeResults, m
<1> HIDE DEF f
<1>9. f[0] = Compose!Nothing /\ \A n \in 1..m : f[n] = MergeOne(f[n - 1], n)
  <2>1. 0 \in 0..m
    BY <1>1
  <2>2. ASSUME NEW n \in 1..m PROVE n \in 0..m /\ n # 0
    BY <1>1
  <2> QED
    BY <1>7, <2>1, <2>2 DEF MergeOne
<1> HIDE DEF Def
<1> DEFINE S == {n \in Nat : n <= m => f[n] \in Answers /\ Merging(f[n], n)}
<1>10. 0 \in S
  <2>1. /\ Compose!Nothing.said = <<>> /\ Compose!Nothing.usage = 0 /\ Compose!Nothing.err = 0
    BY DEF Compose!Nothing
  <2>2. 1..0 = {} /\ DOMAIN <<>> = {}
    OBVIOUS
  <2>3. Heard(0) = {} /\ Counting(0) = {} /\ FailingOf(0) = {}
    BY <2>2 DEF Heard, Counting, FailingOf
  <2>4. Merging(Compose!Nothing, 0)
    BY <2>1, <2>2, <2>3, FS_EmptySet DEF Merging, In, Compose!Rising
  <2> QED
    BY <1>3, <1>9, <2>4
<1>11. ASSUME NEW n \in Nat, n \in S PROVE n + 1 \in S
  <2> SUFFICES ASSUME n + 1 <= m PROVE f[n + 1] \in Answers /\ Merging(f[n + 1], n + 1)
    OBVIOUS
  <2>1. n + 1 \in 1..m /\ (n + 1) - 1 = n /\ f[n] \in Answers /\ Merging(f[n], n)
    BY <1>1, <1>11
  <2>2. f[n + 1] = MergeOne(f[n], n + 1)
    BY <1>9, <2>1
  <2>3. n + 1 \in Compose!Agents /\ results[n + 1] = did[n + 1] /\ results[n + 1] \in Compose!Ends
    BY <1>1, <2>1
  <2>4. MergeOne(f[n], n + 1) \in Answers
    BY <2>1, <2>3, MergedIs
  <2>5. Merging(MergeOne(f[n], n + 1), n + 1)
    BY <2>1, <2>3, MergingGoesOn
  <2> QED
    BY <2>2, <2>4, <2>5
<1>12. m \in S
  <2> HIDE DEF S
  <2> QED
    BY <1>1, <1>10, <1>11, SetInduction
<1>13. f[m] \in Answers /\ Merging(f[m], m)
  BY <1>1, <1>12
<1> QED
  BY <1>8, <1>13 DEF m

LEMMA CallerReturns ==
  ASSUME ComposeFrame, TogetherInv, Compose!ReturnMerged
  PROVE  ComposeFrame' /\ TogetherInv'
<1>1. /\ Compose!Together /\ phase = "running" /\ Compose!AllOver /\ reports = <<>>
      /\ answer' = IF form = "parallel" THEN Compose!mergeResults ELSE answer
      /\ phase' = "returned" /\ at' = at /\ form' = form /\ limit' = limit
      /\ did' = did /\ given' = given /\ input' = input
      /\ reports' = reports /\ results' = results /\ order' = order
  BY DEF Compose!ReturnMerged
<1>2. SlotsInv /\ ReportsInv
  BY <1>1 DEF TogetherInv
<1>3. ComposeFrame'
  BY <1>1 DEF ComposeFrame
<1>4. ReportsInv' /\ SlotsInv'
  BY <1>1, <1>2 DEF ReportsInv, SlotsInv, Reported, Compose!Busy, Compose!Slots
<1>5. ASSUME form = "parallel" PROVE AnswerInv'
  <2>1. \A i \in Compose!Agents : results[i] = did[i]
    <3>1. \A i : ~In(reports, i)
      <4>1. DOMAIN <<>> = 1..0
        OBVIOUS
      <4> QED
        BY <1>1, <4>1 DEF In
    <3> SUFFICES ASSUME NEW i \in Compose!Agents PROVE results[i] = did[i]
      OBVIOUS
    <3>2. at[i] = "over"
      BY <1>1 DEF Compose!AllOver
    <3>3. In(order, i) \/ did[i] = "panics"
      BY <1>2, <3>1, <3>2 DEF ReportsInv, Reported
    <3> QED
      BY <1>2, <1>5, <3>3 DEF ReportsInv
  <2>2. answer' \in Answers /\ Merging(answer', NumAgents)
    BY <1>1, <1>5, <2>1, MergeIsWhole
  <2>3. /\ Compose!Failing' = FailingOf(NumAgents)
        /\ {i \in Compose!Agents : did'[i] \in {"answers", "fails"}} = Counting(NumAgents)
        /\ \A i \in Compose!Agents : i \in Heard(NumAgents) <=> did'[i] = "answers"
    BY <1>1 DEF Compose!Failing, FailingOf, Counting, Heard, Compose!Agents
  <2>4. answer'.said \in Seq(Compose!Agents)
    BY <2>2 DEF Answers
  <2> QED
    BY <2>2, <2>3, <2>4 DEF Merging, AnswerInv
<1> QED
  BY <1>1, <1>3, <1>4, <1>5 DEF TogetherInv, ReturnInv, Compose!AllOver

LEMMA TogetherIsSound ==
  ASSUME ComposeFrame, TogetherInv
  PROVE  Compose!ParallelIsWhole /\ Compose!NobodyIsStuck /\ Compose!SpawnIsWhole
<1>1. NumAgents \in Nat /\ Compose!Agents = 1..NumAgents
  BY AgentsAssumption DEF Compose!Agents
<1>2. Compose!ParallelIsWhole
  <2> SUFFICES ASSUME form = "parallel" PROVE Compose!ParallelIsWhole
    BY DEF Compose!ParallelIsWhole
  <2>1. SlotsInv /\ ReportsInv /\ ReturnInv /\ Compose!Together
    BY DEF TogetherInv, SlotsInv, Compose!Together
  <2>2. Compose!Cardinality(Compose!Busy) <= IF limit \in Compose!Agents THEN limit ELSE NumAgents
    BY <2>1, ComposeCardinality DEF SlotsInv, Compose!Slots
  <2>3. ASSUME phase = "returned"
        PROVE  /\ \A i \in Compose!Agents : at[i] = "over" /\ did[i] # "none"
               /\ Compose!ToSet(answer.said) = {i \in Compose!Agents : did[i] = "answers"}
               /\ Compose!Rising(answer.said)
               /\ answer.usage =
                    Compose!Cardinality({i \in Compose!Agents : did[i] \in {"answers", "fails"}})
               /\ IF Compose!Failing = {} THEN answer.err = 0
                  ELSE answer.err \in Compose!Failing /\ \A i \in Compose!Failing : answer.err <= i
    <3>1. Compose!AllOver /\ AnswerInv
      BY <2>1, <2>3 DEF ReturnInv
    <3>2. \A i \in Compose!Agents : at[i] = "over" /\ did[i] # "none"
      BY <2>1, <3>1 DEF ReportsInv, Compose!AllOver
    <3>3. Compose!ToSet(answer.said) = {i \in Compose!Agents : did[i] = "answers"}
      <4>1. PICK s \in Seq(Compose!Agents) : s = answer.said
        BY <3>1 DEF AnswerInv
      <4>2. /\ \A k \in DOMAIN s : s[k] \in Compose!Agents
            /\ \A i \in Compose!Agents : In(s, i) <=> did[i] = "answers"
        BY <3>1, <4>1 DEF AnswerInv
      <4> QED
        BY <4>1, <4>2 DEF Compose!ToSet, In
    <3> QED
      BY <3>1, <3>2, <3>3, ComposeCardinality DEF AnswerInv
  <2> QED
    BY <2>2, <2>3 DEF Compose!ParallelIsWhole
<1>3. Compose!NobodyIsStuck
  <2> SUFFICES ASSUME Compose!Together, phase = "running" PROVE Compose!NobodyIsStuck
    BY DEF Compose!NobodyIsStuck
  <2>1. ReportsInv
    BY DEF TogetherInv
  <2>2. CASE Compose!Busy # {}
    <3>1. PICK i \in Compose!Busy : TRUE
      BY <2>2
    <3>2. i \in Compose!Agents
      BY DEF Compose!Busy
    <3>3. ASSUME at[i] = "reporting" PROVE Len(reports) < NumAgents
      <4>1. ~In(reports, i)
        BY <2>1, <3>2, <3>3 DEF ReportsInv, Reported
      <4>2. reports \in Seq(1..NumAgents) /\ Unrepeated(reports)
        BY <1>1, <2>1 DEF ComposeFrame, ReportsInv
      <4> QED
        BY <1>1, <3>2, <4>1, <4>2, ShortWhenOneMisses
    <3> QED
      BY <3>1, <3>3 DEF Compose!NobodyIsStuck, Compose!Buffer
  <2>3. CASE Compose!Busy = {}
    <3>1. \A i \in Compose!Agents : at[i] \in {"waiting", "over"}
      BY <2>3 DEF Compose!Busy, ComposeFrame, AgentPlaces
    <3>2. CASE Compose!Launched
      BY <3>1, <3>2 DEF Compose!Launched, Compose!AllOver, Compose!NobodyIsStuck
    <3>3. CASE ~Compose!Launched
      <4>1. PICK i \in Compose!Agents : at[i] = "waiting"
        BY <3>3 DEF Compose!Launched
      <4>2. NumAgents > 0 /\ Compose!Slots > 0
        BY <1>1, <4>1 DEF Compose!Slots
      <4>3. Compose!Cardinality(Compose!Busy) = 0
        BY <2>3, ComposeCardinality, FS_EmptySet
      <4> QED
        BY <3>3, <4>2, <4>3 DEF Compose!NobodyIsStuck
    <3> QED
      BY <3>2, <3>3
  <2> QED
    BY <2>2, <2>3
<1>4. Compose!SpawnIsWhole
  <2> SUFFICES ASSUME form = "spawn", phase = "returned"
               PROVE  Compose!ToSet(order) = Compose!Agents /\ Len(order) = NumAgents
    BY DEF Compose!SpawnIsWhole
  <2>1. ReportsInv /\ Compose!AllOver /\ reports = <<>>
    BY DEF TogetherInv, ReturnInv, Compose!Together
  <2>2. \A i : ~In(reports, i)
    <3>1. DOMAIN <<>> = 1..0
      OBVIOUS
    <3> QED
      BY <2>1, <3>1 DEF In
  <2>3. \A i \in 1..NumAgents : In(order, i)
    BY <1>1, <2>1, <2>2 DEF ReportsInv, Reported, Compose!AllOver
  <2>4. order \in Seq(1..NumAgents) /\ Unrepeated(order)
    BY <1>1, <2>1 DEF ComposeFrame, ReportsInv
  <2>5. Len(order) = NumAgents
    BY <1>1, <2>3, <2>4, FullWhenNoneMisses
  <2>6. \A k \in DOMAIN order : order[k] \in Compose!Agents
    <3>1. order \in Seq(Compose!Agents)
      BY DEF ComposeFrame
    <3> QED
      BY <3>1
  <2>7. Compose!ToSet(order) = Compose!Agents
    <3>1. \A i \in Compose!Agents : In(order, i)
      BY <1>1, <2>3
    <3> QED
      BY <2>6, <3>1 DEF Compose!ToSet, In
  <2> QED
    BY <2>5, <2>7
<1> QED
  BY <1>2, <1>3, <1>4

(* Of agents that run one after the other: who is over has answered after   *)
(* all before it, and what the next one is to hear is in input.             *)
Hears(i, in) ==
  /\ form # "transform" => in.system = TRUE
  /\ form # "transform" /\ i > 1 => Compose!ToSet(in.prompts) = 0..(i - 1)
  /\ i = 1 => in.prompts = <<>>
  /\ in.talk = IF form = "transform" /\ i > 1 THEN <<i - 1>> ELSE [j \in 1..i |-> j - 1]
OverInv(i) ==
  /\ \A j \in 1..(i - 1) : at[j] = "over" /\ did[j] = "answers"
  /\ Hears(i, given[i])
  /\ phase = "running" => did[i] = "answers"
  /\ phase = "returned" /\ (\A j \in Compose!Agents : j > i => at[j] = "waiting") =>
       answer = Compose!Result(i, given[i], did[i])
NextUp(i) == at[i] = "waiting" /\ \A j \in 1..(i - 1) : at[j] = "over"
ChainInv ==
  ~Compose!Together =>
    /\ \A i \in Compose!Agents : at[i] \in {"waiting", "over"}
    /\ \A i \in Compose!Agents : at[i] = "over" => OverInv(i)
    /\ phase = "running" => \A i \in Compose!Agents : NextUp(i) => Hears(i, input)

LEMMA InitChain == ASSUME Compose!CompositionInit PROVE ChainInv
<1>1. /\ input = Compose!Asked /\ \A i \in Compose!Agents : at[i] = "waiting"
  BY DEF Compose!CompositionInit
<1>2. ASSUME NEW i \in Compose!Agents, NextUp(i) PROVE Hears(i, input)
  <2>1. i \in Nat /\ i = 1
    <3>1. i \in Nat /\ i > 0 /\ i <= NumAgents /\ NumAgents \in Nat
      BY AgentsAssumption DEF Compose!Agents
    <3>2. ASSUME i > 1 PROVE FALSE
      <4>1. 1 \in 1..(i - 1) /\ 1 \in Compose!Agents
        BY <3>1, <3>2 DEF Compose!Agents
      <4> QED
        BY <1>1, <1>2, <4>1 DEF NextUp
    <3> QED
      BY <3>1, <3>2
  <2>2. <<0>> = [j \in 1..1 |-> j - 1]
    OBVIOUS
  <2> QED
    BY <1>1, <2>1, <2>2 DEF Hears, Compose!Asked
<1> QED
  BY <1>1, <1>2 DEF ChainInv

(* What the next agent hears of the one that answered.                      *)
LEMMA NextHears ==
  ASSUME NEW i \in Compose!Agents, NEW in \in Inputs, NEW k, k = i + 1, Hears(i, in),
         NEW r, r = Compose!Result(i, in, "answers"),
         NEW next,
         next = IF form = "transform" THEN [system |-> FALSE, prompts |-> <<>>, talk |-> r.said]
                ELSE [system |-> in.system, prompts |-> r.prompts, talk |-> r.talk]
  PROVE  next \in Inputs /\ Hears(k, next)
<1>1. i \in Nat /\ i > 0 /\ k \in Nat /\ k > 1 /\ k - 1 = i /\ 0 \in Nat /\ 1..k = (1..i) \cup {k}
  BY AgentsAssumption DEF Compose!Agents
<1>2. in.system \in BOOLEAN /\ in.prompts \in Seq(Nat) /\ in.talk \in Seq(Nat)
  BY DEF Inputs
<1>3. /\ <<i>> \in Seq(Nat) /\ <<0>> \in Seq(Nat) /\ <<>> \in Seq(Nat)
  BY <1>1
<1>4. CASE form = "transform"
  <2>1. next = [system |-> FALSE, prompts |-> <<>>, talk |-> <<i>>]
    BY <1>4 DEF Compose!Result
  <2>2. next \in Inputs
    <3>1. [system |-> FALSE, prompts |-> <<>>, talk |-> <<i>>] \in Inputs
      BY <1>3 DEF Inputs
    <3> QED
      BY <2>1, <3>1
  <2> QED
    BY <1>1, <1>4, <2>1, <2>2 DEF Hears
<1>5. CASE form # "transform"
  <2>1. in.system = TRUE /\ (i > 1 => Compose!ToSet(in.prompts) = 0..(i - 1))
        /\ (i = 1 => in.prompts = <<>>) /\ in.talk = [j \in 1..i |-> j - 1]
    BY <1>5 DEF Hears
  <2>2. PICK p : p = in.prompts
    OBVIOUS
  <2>3. PICK q : q = (<<i>> \o <<0>>) \o p
    OBVIOUS
  <2>4. PICK t : t = Append(in.talk, i)
    OBVIOUS
  <2>5. next = [system |-> TRUE, prompts |-> q, talk |-> t]
    <3>1. Compose!buildMessages(i, in) = <<<<i>>, <<0>>, p>>
      BY <2>1, <2>2 DEF Compose!buildMessages
    <3>2. r.prompts = q /\ r.talk = t
      BY <2>3, <2>4, <3>1 DEF Compose!Result, Compose!collapseSystem
    <3> QED
      BY <1>5, <2>1, <3>2
  <2>6. /\ <<i>> \o <<0>> \in Seq(Nat) /\ Len(<<i>> \o <<0>>) = 2
        /\ (<<i>> \o <<0>>)[1] = i /\ (<<i>> \o <<0>>)[2] = 0
    BY <1>1
  <2>7. PICK h \in Seq(Nat) : h = <<i>> \o <<0>> /\ Len(h) = 2 /\ h[1] = i /\ h[2] = 0
    BY <2>6
  <2>8. p \in Seq(Nat) /\ Len(p) \in Nat /\ DOMAIN p = 1..Len(p)
    BY <1>2, <2>2
  <2>9. /\ q \in Seq(Nat) /\ Len(q) = 2 + Len(p)
        /\ \A l \in 1..(2 + Len(p)) : q[l] = IF l <= 2 THEN h[l] ELSE p[l - 2]
    BY <2>3, <2>7, <2>8, ConcatProperties
  <2>10. DOMAIN q = 1..(2 + Len(p))
    BY <2>9
  <2>11. Compose!ToSet(q) = {i, 0} \cup Compose!ToSet(p)
    <3>1. \A l \in 1..(2 + Len(p)) : q[l] \in {i, 0} \cup {p[m] : m \in 1..Len(p)}
      <4> SUFFICES ASSUME NEW l \in 1..(2 + Len(p))
                   PROVE  q[l] \in {i, 0} \cup {p[m] : m \in 1..Len(p)}
        OBVIOUS
      <4>1. CASE l <= 2
        BY <2>7, <2>9, <4>1
      <4>2. CASE ~(l <= 2)
        <5>1. l - 2 \in 1..Len(p)
          BY <2>8, <4>2
        <5> QED
          BY <2>9, <4>2, <5>1
      <4> QED
        BY <4>1, <4>2
    <3>2. q[1] = i /\ q[2] = 0 /\ 1 \in 1..(2 + Len(p)) /\ 2 \in 1..(2 + Len(p))
      BY <2>7, <2>8, <2>9
    <3>3. \A m \in 1..Len(p) : m + 2 \in 1..(2 + Len(p)) /\ q[m + 2] = p[m]
      <4> SUFFICES ASSUME NEW m \in 1..Len(p)
                   PROVE  m + 2 \in 1..(2 + Len(p)) /\ q[m + 2] = p[m]
        OBVIOUS
      <4>1. m + 2 \in 1..(2 + Len(p)) /\ ~(m + 2 <= 2) /\ (m + 2) - 2 = m
        BY <2>8
      <4> QED
        BY <2>9, <4>1
    <3>4. /\ Compose!ToSet(q) = {q[l] : l \in 1..(2 + Len(p))}
          /\ Compose!ToSet(p) = {p[m] : m \in 1..Len(p)}
      BY <2>8, <2>10 DEF Compose!ToSet
    <3>5. \A x \in {i, 0} \cup {p[m] : m \in 1..Len(p)} : \E l \in 1..(2 + Len(p)) : x = q[l]
      BY <3>2, <3>3
    <3> QED
      BY <3>1, <3>4, <3>5
  <2>12. Compose!ToSet(q) = 0..i
    <3>1. CASE i = 1
      <4>1. Compose!ToSet(p) = {}
        <5>1. p = <<>> /\ DOMAIN <<>> = {}
          BY <2>1, <2>2, <3>1
        <5> QED
          BY <5>1 DEF Compose!ToSet
      <4>2. 0..1 = {1, 0}
        OBVIOUS
      <4> QED
        BY <2>11, <3>1, <4>1, <4>2
    <3>2. CASE i # 1
      <4>1. Compose!ToSet(p) = 0..(i - 1)
        BY <1>1, <2>1, <2>2, <3>2
      <4>2. 0..i = {i, 0} \cup (0..(i - 1))
        BY <1>1
      <4> QED
        BY <2>11, <4>1, <4>2
    <3> QED
      BY <3>1, <3>2
  <2>13. t \in Seq(Nat) /\ t = [j \in 1..k |-> j - 1]
    <3>1. in.talk \in Seq(Nat) /\ Len(in.talk) = i
      BY <1>1, <1>2, <2>1
    <3>2. /\ t \in Seq(Nat) /\ Len(t) = k /\ t[k] = i /\ \A j \in 1..i : t[j] = in.talk[j]
      BY <1>1, <2>4, <3>1, AppendProperties
    <3>3. t = [j \in 1..k |-> t[j]]
      BY <3>2
    <3>4. \A j \in 1..k : t[j] = j - 1
      BY <1>1, <2>1, <3>2
    <3> QED
      BY <3>2, <3>3, <3>4
  <2>14. next \in Inputs
    <3>1. [system |-> TRUE, prompts |-> q, talk |-> t] \in Inputs
      BY <2>9, <2>13 DEF Inputs
    <3> QED
      BY <2>5, <3>1
  <2> QED
    <3>1. next.system = TRUE /\ next.prompts = q /\ next.talk = t
      BY <2>5
    <3>2. Compose!ToSet(next.prompts) = 0..(k - 1)
      BY <1>1, <2>12, <3>1
    <3>3. k # 1 /\ next.talk = [j \in 1..k |-> j - 1]
      BY <1>1, <2>13, <3>1
    <3> QED
      BY <1>5, <2>14, <3>1, <3>2, <3>3 DEF Hears
<1> QED
  BY <1>4, <1>5

LEMMA AgentRunsNext ==
  ASSUME ComposeFrame, ChainInv, NEW i \in Compose!Agents, NEW o \in Compose!Ends,
         Compose!RunNext(i, o)
  PROVE  ComposeFrame' /\ ChainInv'
<1>1. PICK r : r = Compose!Result(i, input, o)
  OBVIOUS
<1>2. /\ ~Compose!Together /\ phase = "running" /\ at[i] = "waiting"
      /\ \A j \in 1..(i - 1) : at[j] = "over"
      /\ at' = [at EXCEPT ![i] = "over"] /\ did' = [did EXCEPT ![i] = o]
      /\ given' = [given EXCEPT ![i] = input]
      /\ form' = form /\ reports' = reports /\ results' = results /\ order' = order
      /\ o \in {"nil", "panics"} => phase' = "panicked" /\ input' = input
      /\ o = "fails" => phase' = "returned" /\ answer' = r /\ input' = input
      /\ o = "answers" => answer' = r /\ phase' \in {"returned", "running"}
  BY <1>1 DEF Compose!RunNext, Compose!Ends
<1>3. o = "answers" =>
        input' = IF form = "transform" THEN [system |-> FALSE, prompts |-> <<>>, talk |-> r.said]
                 ELSE [system |-> input.system, prompts |-> r.prompts, talk |-> r.talk]
  BY <1>1 DEF Compose!RunNext, Compose!Handed
<1>4. o \in {"nil", "panics", "fails", "answers"} /\ o # "none" /\ o \in Compose!Ends \cup {"none"}
  BY DEF Compose!Ends
<1>5. /\ at' \in [Compose!Agents -> AgentPlaces] /\ at'[i] = "over"
      /\ did' \in [Compose!Agents -> Compose!Ends \cup {"none"}] /\ did'[i] = o
      /\ given' \in [Compose!Agents -> Inputs] /\ given'[i] = input /\ input \in Inputs
      /\ \A j \in Compose!Agents : j # i =>
           at'[j] = at[j] /\ did'[j] = did[j] /\ given'[j] = given[j]
  BY <1>2, <1>4 DEF ComposeFrame, AgentPlaces
<1>6. /\ \A j \in Compose!Agents : at[j] \in {"waiting", "over"}
      /\ \A j \in Compose!Agents : at[j] = "over" => OverInv(j)
      /\ Hears(i, input)
  BY <1>2 DEF ChainInv, NextUp
<1>7. /\ i \in Nat /\ i + 1 \in Nat
      /\ \A j \in Compose!Agents : j \in Nat /\ \A l \in 1..(j - 1) : l \in Compose!Agents /\ l < j
      /\ \A j, l \in Compose!Agents : l < j => l \in 1..(j - 1)
  BY AgentsAssumption DEF Compose!Agents
<1>8. ASSUME o = "answers" PROVE input' \in Inputs /\ Hears(i + 1, input')
  <2>1. PICK k : k = i + 1
    OBVIOUS
  <2>2. r = Compose!Result(i, input, "answers")
    BY <1>1, <1>8
  <2>3. PICK next : next = input'
    OBVIOUS
  <2>4. next \in Inputs /\ Hears(k, next)
    BY <1>3, <1>5, <1>6, <1>8, <2>1, <2>2, <2>3, NextHears
  <2> QED
    BY <2>1, <2>3, <2>4
<1>9. ComposeFrame'
  <2>1. input' \in Inputs
    BY <1>2, <1>4, <1>5, <1>8
  <2>2. phase' \in {"running", "returned", "panicked", "crashed"}
    BY <1>2, <1>4
  <2> QED
    BY <1>2, <1>5, <2>1, <2>2 DEF ComposeFrame
<1>10. ASSUME NEW j \in Compose!Agents, at[j] = "over" PROVE j < i
  <2>1. ~(i < j)
    BY <1>2, <1>6, <1>7, <1>10 DEF OverInv
  <2> QED
    BY <1>2, <1>7, <1>10, <2>1
<1>11. ASSUME NEW j \in Compose!Agents, at'[j] = "over" PROVE OverInv(j)'
  <2>1. CASE j = i
    <3>1. \A l \in 1..(i - 1) : at'[l] = "over" /\ did'[l] = "answers"
      <4> SUFFICES ASSUME NEW l \in 1..(i - 1) PROVE at'[l] = "over" /\ did'[l] = "answers"
        OBVIOUS
      <4>1. l \in Compose!Agents /\ l # i /\ at[l] = "over"
        BY <1>2, <1>7
      <4>2. did[l] = "answers"
        BY <1>2, <1>6, <4>1 DEF OverInv
      <4> QED
        BY <1>5, <4>1, <4>2
    <3>2. Hears(i, given[i])'
      BY <1>2, <1>5, <1>6 DEF Hears
    <3>3. phase' = "running" => did'[i] = "answers"
      BY <1>2, <1>4, <1>5
    <3>4. phase' = "returned" => answer' = Compose!Result(i, given'[i], did'[i])
      BY <1>1, <1>2, <1>4, <1>5
    <3> QED
      BY <2>1, <3>1, <3>2, <3>3, <3>4 DEF OverInv, Compose!Result, Compose!collapseSystem,
         Compose!buildMessages
  <2>2. CASE j # i
    <3>1. at[j] = "over" /\ j < i /\ OverInv(j)
      BY <1>5, <1>6, <1>10, <1>11, <2>2
    <3>2. \A l \in 1..(j - 1) : at'[l] = "over" /\ did'[l] = "answers"
      BY <1>2, <1>5, <1>7, <3>1 DEF OverInv
    <3>3. Hears(j, given[j])'
      BY <1>2, <1>5, <2>2, <3>1 DEF Hears, OverInv
    <3>4. phase' = "running" => did'[j] = "answers"
      BY <1>2, <1>5, <2>2, <3>1 DEF OverInv
    <3>5. ~\A l \in Compose!Agents : l > j => at'[l] = "waiting"
      BY <1>5, <1>7, <3>1
    <3> QED
      BY <3>2, <3>3, <3>4, <3>5 DEF OverInv
  <2> QED
    BY <2>1, <2>2
<1>12. ASSUME phase' = "running", NEW k \in Compose!Agents, NextUp(k)' PROVE Hears(k, input)'
  <2>1. at'[k] = "waiting" /\ \A j \in 1..(k - 1) : at'[j] = "over"
    BY <1>12 DEF NextUp
  <2>2. k # i /\ ~(k < i)
    BY <1>2, <1>5, <1>7, <2>1
  <2>3. k = i + 1
    <3>1. k \in Nat /\ k >= i + 1
      BY <1>7, <2>2
    <3>2. ASSUME k > i + 1 PROVE FALSE
      <4>1. i + 1 \in Compose!Agents /\ i + 1 \in 1..(k - 1) /\ i + 1 # i
        BY <1>7, <3>2, AgentsAssumption DEF Compose!Agents
      <4>2. at[i + 1] = "over"
        BY <1>5, <2>1, <4>1
      <4>3. i + 1 < i
        BY <1>10, <4>1, <4>2
      <4> QED
        BY <1>7, <4>3
    <3> QED
      BY <1>7, <3>1, <3>2
  <2>4. o = "answers"
    BY <1>2, <1>4, <1>12
  <2>5. Hears(k, input')
    BY <1>8, <2>3, <2>4
  <2> QED
    BY <1>2, <2>5 DEF Hears
<1>13. \A j \in Compose!Agents : at'[j] \in {"waiting", "over"}
  BY <1>5, <1>6
<1> QED
  BY <1>9, <1>11, <1>12, <1>13 DEF ChainInv

ComposeInv == ComposeFrame /\ TogetherInv /\ ChainInv

LEMMA NextComposeInv ==
  ASSUME ComposeInv, [Compose!CompositionNext]_compositionVars PROVE ComposeInv'
<1> USE DEF ComposeInv
<1>1. CASE UNCHANGED compositionVars
  <2>1. /\ form' = form /\ limit' = limit /\ phase' = phase /\ at' = at /\ did' = did
        /\ given' = given /\ input' = input /\ reports' = reports /\ results' = results
        /\ order' = order /\ answer' = answer
    BY <1>1 DEF compositionVars
  <2>2. ComposeFrame'
    BY <2>1 DEF ComposeFrame
  <2>3. TogetherInv'
    BY <2>1 DEF TogetherInv, SlotsInv, ReportsInv, ReturnInv, AnswerInv, Reported,
       Compose!Together, Compose!Busy, Compose!Slots, Compose!AllOver, Compose!Failing
  <2>4. ChainInv'
    <3>2. ASSUME NEW i \in Compose!Agents, OverInv(i) PROVE OverInv(i)'
      <4>1. Hears(i, given[i])'
        BY <2>1, <3>2 DEF OverInv, Hears
      <4>2. answer = Compose!Result(i, given[i], did[i]) =>
              answer' = Compose!Result(i, given'[i], did'[i])
        BY <2>1
      <4> QED
        BY <2>1, <3>2, <4>1, <4>2 DEF OverInv, Compose!Result, Compose!collapseSystem,
           Compose!buildMessages
    <3>3. ASSUME NEW i \in Compose!Agents, Hears(i, input) PROVE Hears(i, input)'
      BY <2>1, <3>3 DEF Hears
    <3>4. Compose!Together' <=> Compose!Together
      BY <2>1 DEF Compose!Together
    <3> QED
      BY <2>1, <3>2, <3>3, <3>4 DEF ChainInv, NextUp
  <2> QED
    BY <2>2, <2>3, <2>4
<1>2. ASSUME Compose!Together, form' = form PROVE ChainInv'
  BY <1>2 DEF ChainInv, Compose!Together
<1>3. ASSUME NEW i \in Compose!Agents, Compose!Report(i) \/ Compose!LeaveGroup(i)
      PROVE  Compose!Together
  BY <1>3 DEF ChainInv, Compose!Report, Compose!LeaveGroup
<1>4. ASSUME NEW i \in Compose!Agents, Compose!Launch(i) PROVE ComposeInv'
  <2>1. Compose!Together /\ form' = form
    BY <1>4 DEF Compose!Launch
  <2> QED
    BY <1>2, <1>4, <2>1, AgentStarts
<1>5. ASSUME NEW i \in Compose!Agents, Compose!Report(i) PROVE ComposeInv'
  <2>1. Compose!Together /\ form' = form
    BY <1>3, <1>5 DEF Compose!Report
  <2> QED
    BY <1>2, <1>5, <2>1, AgentReports
<1>6. ASSUME NEW i \in Compose!Agents, Compose!LeaveGroup(i) PROVE ComposeInv'
  <2>1. Compose!Together /\ form' = form
    BY <1>3, <1>6 DEF Compose!LeaveGroup
  <2> QED
    BY <1>2, <1>6, <2>1, AgentLeaves
<1>7. ASSUME NEW i \in Compose!Agents, NEW o \in Compose!Ends, Compose!RunEnds(i, o)
      PROVE  ComposeInv'
  <2>1. Compose!Together /\ form' = form
    BY <1>7 DEF Compose!RunEnds
  <2> QED
    BY <1>2, <1>7, <2>1, AgentEndsRun
<1>8. ASSUME NEW i \in Compose!Agents, NEW o \in Compose!Ends, Compose!RunNext(i, o)
      PROVE  ComposeInv'
  <2>1. ~Compose!Together /\ form' = form
    BY <1>8 DEF Compose!RunNext
  <2>2. TogetherInv'
    BY <2>1 DEF TogetherInv, Compose!Together
  <2> QED
    BY <1>8, <2>2, AgentRunsNext
<1>9. ASSUME Compose!Collect PROVE ComposeInv'
  <2>1. Compose!Together /\ form' = form
    BY <1>9 DEF Compose!Collect
  <2> QED
    BY <1>2, <1>9, <2>1, CallerCollects
<1>10. ASSUME Compose!ReturnMerged PROVE ComposeInv'
  <2>1. Compose!Together /\ form' = form
    BY <1>10 DEF Compose!ReturnMerged
  <2> QED
    BY <1>2, <1>10, <2>1, CallerReturns
<1> QED
  BY <1>1, <1>4, <1>5, <1>6, <1>7, <1>8, <1>9, <1>10 DEF Compose!CompositionNext

LEMMA ComposeIsSound == ASSUME ComposeInv PROVE Compose!CompositionsAreSound
<1>1. Compose!ChainIsSequential
  <2> SUFFICES ASSUME ~Compose!Together, NEW i \in Compose!Agents, at[i] = "over"
               PROVE  /\ \A j \in 1..(i - 1) : did[j] = "answers"
                      /\ form # "transform" /\ i > 1 => Compose!ToSet(given[i].prompts) = 0..(i - 1)
                      /\ given[i].talk = IF form = "transform" /\ i > 1 THEN <<i - 1>>
                                         ELSE [j \in 1..i |-> j - 1]
                      /\ phase = "returned" /\ (\A j \in Compose!Agents : j > i => at[j] = "waiting") =>
                           answer = Compose!Result(i, given[i], did[i])
    BY DEF Compose!ChainIsSequential
  <2>1. OverInv(i)
    BY DEF ComposeInv, ChainInv
  <2> QED
    BY <2>1 DEF OverInv, Hears
<1> QED
  BY <1>1, TogetherIsSound DEF ComposeInv, Compose!CompositionsAreSound

-----------------------------------------------------------------------------
(* What is recorded of a run.                                               *)

Kinds == {"step", "model", "tool"}
Spans == [kind : Kinds, of : Nat, parent : Nat, ends : 0..1, recorded : BOOLEAN]
Contexts == [step : Nat, model : Nat, tool : Nat, index : Nat]
InStep == {"model", "calling", "hooks", "results", "ends"}

ObservedFrame ==
  /\ sampled \in Nat /\ emitted \in Nat /\ rate \in Rates
  /\ pc \in [WatchedRuns -> InStep \cup {"loop", "over", "done"}]
  /\ step \in [WatchedRuns -> Nat] /\ hooked \in [WatchedRuns -> Nat]
  /\ ctx \in [WatchedRuns -> Contexts] /\ callCtx \in [WatchedRuns -> Contexts]
  /\ spans \in [WatchedRuns -> Seq(Spans)]
  /\ counted \in [Kinds -> Nat]
  /\ excused \in [WatchedRuns -> SUBSET Nat]
  /\ located \in [WatchedRuns -> [says : Nat, is : Nat]]

(* What the two contexts of a run point at, and the step they name.         *)
ContextInv(r) ==
  /\ ctx[r].step \in 0..Len(spans[r]) /\ ctx[r].model = 0 /\ ctx[r].tool = 0
  /\ ctx[r].step > 0 => spans[r][ctx[r].step].kind = "step"
  /\ callCtx[r].model \in 0..Len(spans[r])
  /\ callCtx[r].model > 0 => spans[r][callCtx[r].model].kind = "model"
  /\ pc[r] \in InStep => ctx[r].index = step[r]
  /\ pc[r] = "calling" => callCtx[r].index \in {step[r], MaxSteps}
  /\ pc[r] \in {"model", "calling"} => hooked[r] = 0

(* An open span is one that a context points at, or one nobody will end.    *)
Awaited(r, i) ==
  \/ i = callCtx[r].model /\ spans[r][i].kind = "model" /\ pc[r] = "calling"
  \/ i = ctx[r].step /\ spans[r][i].kind = "step" /\ pc[r] \in InStep /\ spans[r][i].of = step[r]
SpanShape(r) ==
  \A i \in 1..Len(spans[r]) :
    /\ spans[r][i].of <= step[r] /\ spans[r][i].parent < i
    /\ spans[r][i].parent > 0 => spans[r][spans[r][i].parent].of <= spans[r][i].of
SpanOpen(r) ==
  \A i \in 1..Len(spans[r]) :
    spans[r][i].recorded /\ spans[r][i].ends = 0 /\ i \notin excused[r] => Awaited(r, i)
SpanInv(r) == SpanShape(r) /\ SpanOpen(r)

LineInv(r) ==
  /\ located[r].says \in {located[r].is, MaxSteps}
  /\ pc[r] \in {"hooks", "results"} /\ hooked[r] > 0 => located[r].says = step[r]

CountInv ==
  \A k \in Kinds : IsFiniteSet(Observed!Ended(k)) /\ counted[k] = Cardinality(Observed!Ended(k))

ObservedInv ==
  /\ ObservedFrame /\ CountInv /\ Observed!AuditKeepsItsRate
  /\ \A r \in WatchedRuns : ContextInv(r) /\ SpanInv(r) /\ LineInv(r)

LEMMA ObservedCardinality == \A S : Observed!Cardinality(S) = Cardinality(S)
  BY DEF Observed!Cardinality, Cardinality

LEMMA InitObservedInv ==
  ASSUME Observed!ObservationInit PROVE ObservedInv
<1> USE DEF Observed!ObservationInit
<1>1. <<>> \in Seq(Spans) /\ Len(<<>>) = 0 /\ DOMAIN <<>> = 1..0
  OBVIOUS
<1>2. MaxSteps \in Nat /\ rate[1] \in Nat /\ rate[2] \in Nat \ {0}
  BY AgentsAssumption
<1>3. Observed!NoContext \in Contexts
  BY <1>2 DEF Observed!NoContext, Contexts, Observed!NoStep
<1>4. ObservedFrame
  BY <1>1, <1>3 DEF ObservedFrame, InStep, Kinds
<1>5. ASSUME NEW k \in Kinds
      PROVE  IsFiniteSet(Observed!Ended(k)) /\ counted[k] = Cardinality(Observed!Ended(k))
  <2>1. Observed!Ended(k) = {}
    BY <1>1 DEF Observed!Ended
  <2>2. counted[k] = 0
    BY DEF Kinds
  <2> QED
    BY <2>1, <2>2, FS_EmptySet
<1>6. Observed!AuditKeepsItsRate
  BY <1>2 DEF Observed!AuditKeepsItsRate
<1>7. ASSUME NEW r \in WatchedRuns PROVE ContextInv(r) /\ SpanInv(r) /\ LineInv(r)
  BY <1>1, <1>7 DEF ContextInv, SpanInv, SpanShape, SpanOpen, LineInv, Observed!NoContext, InStep
<1> QED
  BY <1>4, <1>5, <1>6, <1>7 DEF ObservedInv, CountInv

(* A hook that starts a span adds one at the end, or none.                  *)
Grew(r, kind) ==
  /\ spans' \in [WatchedRuns -> Seq(Spans)]
  /\ \A q \in WatchedRuns \ {r} : spans'[q] = spans[q]
  /\ \A i \in 1..Len(spans[r]) : spans'[r][i] = spans[r][i]
  /\ Observed!Opened(r) =>
       /\ Len(spans'[r]) = Len(spans[r]) + 1
       /\ spans'[r][Len(spans'[r])].kind = kind
       /\ spans'[r][Len(spans'[r])].of = step[r]
       /\ spans'[r][Len(spans'[r])].parent = ctx[r].step
       /\ spans'[r][Len(spans'[r])].ends = 0
  /\ ~Observed!Opened(r) => Len(spans'[r]) = Len(spans[r])

LEMMA SpanAdded ==
  ASSUME ObservedInv, NEW r \in WatchedRuns, NEW kind \in Kinds,
         Observed!Starts(r, kind, ctx[r]), counted' = counted
  PROVE  CountInv' /\ Grew(r, kind)
<1>1. spans \in [WatchedRuns -> Seq(Spans)] /\ Len(spans[r]) \in Nat /\ spans[r] \in Seq(Spans)
  BY DEF ObservedInv, ObservedFrame
<1>2. ctx[r].step \in 0..Len(spans[r]) /\ step[r] \in Nat
  BY DEF ObservedInv, ObservedFrame, ContextInv
<1>3. CASE spans' = spans
  <2>1. ~Observed!Opened(r)
    BY <1>1, <1>3 DEF Observed!Opened
  <2>2. CountInv'
    BY <1>3 DEF ObservedInv, CountInv, Observed!Ended
  <2> QED
    BY <1>1, <1>3, <2>1, <2>2 DEF Grew
<1>4. CASE \E b \in BOOLEAN :
             spans' = [spans EXCEPT ![r] = Append(@, Observed!Span(r, kind, ctx[r].step, b))]
  <2>1. PICK b \in BOOLEAN :
          spans' = [spans EXCEPT ![r] = Append(@, Observed!Span(r, kind, ctx[r].step, b))]
    BY <1>4
  <2> DEFINE s == Observed!Span(r, kind, ctx[r].step, b)
  <2>2. s \in Spans /\ s.kind = kind /\ s.of = step[r] /\ s.parent = ctx[r].step /\ s.ends = 0
    <3>1. ctx[r].step # 0 => spans[r][ctx[r].step] \in Spans
      BY <1>1, <1>2
    <3>2. (IF ctx[r].step = 0 THEN b ELSE spans[r][ctx[r].step].recorded) \in BOOLEAN
      BY <3>1 DEF Spans
    <3> QED
      BY <1>2, <3>2 DEF Observed!Span, Spans
  <2> HIDE DEF s
  <2>3. spans'[r] = Append(spans[r], s)
    BY <1>1, <2>1 DEF s
  <2>4. /\ spans' \in [WatchedRuns -> Seq(Spans)] /\ Len(spans'[r]) = Len(spans[r]) + 1
        /\ \A q \in WatchedRuns \ {r} : spans'[q] = spans[q]
        /\ \A i \in 1..Len(spans[r]) : spans'[r][i] = spans[r][i]
        /\ spans'[r][Len(spans'[r])] = s
    <3>1. Append(spans[r], s) \in Seq(Spans)
      BY <1>1, <2>2
    <3> QED
      BY <1>1, <2>1, <2>2, <2>3, <3>1 DEF s
  <2>5. Observed!Opened(r)
    BY <1>1, <2>4 DEF Observed!Opened
  <2>6. ASSUME NEW k \in Kinds PROVE Observed!Ended(k)' = Observed!Ended(k)
    <3>1. \A q \in WatchedRuns \ {r} : spans'[q] = spans[q]
      BY <2>4
    <3>2. {j \in DOMAIN spans'[r] : spans'[r][j].kind = k /\ spans'[r][j].ends > 0}
            = {j \in DOMAIN spans[r] : spans[r][j].kind = k /\ spans[r][j].ends > 0}
      <4>1. DOMAIN spans[r] = 1..Len(spans[r]) /\ DOMAIN spans'[r] = 1..(Len(spans[r]) + 1)
        BY <1>1, <2>4
      <4>2. spans'[r][Len(spans[r]) + 1].ends = 0
        BY <2>2, <2>4
      <4> QED
        BY <1>1, <2>4, <4>1, <4>2
    <3> QED
      BY <3>1, <3>2 DEF Observed!Ended
  <2>7. CountInv'
    BY <2>6 DEF ObservedInv, CountInv
  <2> QED
    BY <2>2, <2>4, <2>5, <2>7 DEF Grew
<1> QED
  BY <1>3, <1>4 DEF Observed!Starts

(* A hook that ends a span ends the one its context points at, once.        *)
Closed(r, i) ==
  /\ spans' \in [WatchedRuns -> Seq(Spans)]
  /\ \A q \in WatchedRuns \ {r} : spans'[q] = spans[q]
  /\ Len(spans'[r]) = Len(spans[r])
  /\ \A j \in 1..Len(spans[r]) :
       /\ spans'[r][j].kind = spans[r][j].kind /\ spans'[r][j].of = spans[r][j].of
       /\ spans'[r][j].parent = spans[r][j].parent
       /\ spans'[r][j].recorded = spans[r][j].recorded
       /\ spans'[r][j].ends = IF j = i /\ spans[r][j].recorded THEN 1 ELSE spans[r][j].ends

LEMMA SpanEnded ==
  ASSUME ObservedInv, NEW r \in WatchedRuns, NEW kind \in Kinds, NEW i \in 0..Len(spans[r]),
         i > 0 => spans[r][i].kind = kind, Observed!Finishes(r, kind, i)
  PROVE  CountInv' /\ counted' \in [Kinds -> Nat] /\ Closed(r, i)
<1>1. /\ spans \in [WatchedRuns -> Seq(Spans)] /\ Len(spans[r]) \in Nat /\ spans[r] \in Seq(Spans)
      /\ counted \in [Kinds -> Nat] /\ DOMAIN spans[r] = 1..Len(spans[r])
  BY DEF ObservedInv, ObservedFrame
<1>2. \A j \in 1..Len(spans[r]) : spans[r][j] \in Spans
  BY <1>1
<1>3. CASE i > 0 /\ spans[r][i].recorded /\ spans[r][i].ends = 0
  <2> DEFINE s == [spans[r][i] EXCEPT !.ends = 1]
  <2>1. /\ spans' = [spans EXCEPT ![r] = [spans[r] EXCEPT ![i] = s]]
        /\ counted' = [counted EXCEPT ![kind] = @ + 1]
    <3>1. /\ spans' = [spans EXCEPT ![r][i].ends = @ + 1]
          /\ counted' = [counted EXCEPT ![kind] = @ + 1]
      BY <1>3 DEF Observed!Finishes, Observed!IsRecording
    <3> QED
      BY <1>1, <1>2, <1>3, <3>1
  <2>2. /\ s \in Spans /\ s.ends = 1 /\ s.kind = kind /\ s.kind = spans[r][i].kind
        /\ s.of = spans[r][i].of /\ s.parent = spans[r][i].parent
        /\ s.recorded = spans[r][i].recorded
    <3>1. spans[r][i] \in Spans /\ spans[r][i].kind = kind
      BY <1>2, <1>3
    <3> QED
      BY <3>1 DEF Spans
  <2> HIDE DEF s
  <2>3. [spans[r] EXCEPT ![i] = s] \in Seq(Spans) /\ Len([spans[r] EXCEPT ![i] = s]) = Len(spans[r])
    BY <1>1, <1>3, <2>2, ExceptSeq
  <2>4. spans'[r] = [spans[r] EXCEPT ![i] = s] /\ spans'[r][i] = s
        /\ \A j \in 1..Len(spans[r]) : j # i => spans'[r][j] = spans[r][j]
    BY <1>1, <1>3, <2>1
  <2>5. /\ spans' \in [WatchedRuns -> Seq(Spans)] /\ Len(spans'[r]) = Len(spans[r])
        /\ \A q \in WatchedRuns \ {r} : spans'[q] = spans[q]
        /\ DOMAIN spans'[r] = DOMAIN spans[r]
    BY <1>1, <2>1, <2>3, <2>4
  <2>6. <<r, i>> \notin Observed!Ended(kind)
    BY <1>3 DEF Observed!Ended
  <2>7. Observed!Ended(kind)' = Observed!Ended(kind) \cup {<<r, i>>}
    <3>1. {j \in DOMAIN spans'[r] : spans'[r][j].kind = kind /\ spans'[r][j].ends > 0}
            = {j \in DOMAIN spans[r] : spans[r][j].kind = kind /\ spans[r][j].ends > 0} \cup {i}
      BY <1>1, <1>3, <2>2, <2>4, <2>5
    <3> QED
      BY <2>5, <3>1 DEF Observed!Ended
  <2>8. ASSUME NEW k \in Kinds \ {kind} PROVE Observed!Ended(k)' = Observed!Ended(k)
    <3>1. {j \in DOMAIN spans'[r] : spans'[r][j].kind = k /\ spans'[r][j].ends > 0}
            = {j \in DOMAIN spans[r] : spans[r][j].kind = k /\ spans[r][j].ends > 0}
      BY <1>1, <1>3, <2>2, <2>4, <2>5
    <3> QED
      BY <2>5, <3>1 DEF Observed!Ended
  <2>9. /\ IsFiniteSet(Observed!Ended(kind)')
        /\ Cardinality(Observed!Ended(kind)') = Cardinality(Observed!Ended(kind)) + 1
    <3>1. IsFiniteSet(Observed!Ended(kind))
      BY DEF ObservedInv, CountInv
    <3> QED
      BY <2>6, <2>7, <3>1, FS_AddElement, Zenon
  <2>10. CountInv'
    BY <1>1, <2>1, <2>8, <2>9 DEF ObservedInv, CountInv
  <2>11. counted' \in [Kinds -> Nat]
    BY <1>1, <2>1
  <2> QED
    BY <1>1, <1>3, <2>2, <2>4, <2>5, <2>10, <2>11 DEF Closed
<1>4. CASE ~(i > 0 /\ spans[r][i].recorded /\ spans[r][i].ends = 0)
  <2>1. spans' = spans /\ counted' = counted
    BY <1>4 DEF Observed!Finishes, Observed!IsRecording
  <2>2. CountInv'
    BY <2>1 DEF ObservedInv, CountInv, Observed!Ended
  <2>3. \A j \in 1..Len(spans[r]) : spans[r][j].ends \in 0..1
    BY <1>2 DEF Spans
  <2> QED
    BY <1>1, <1>4, <2>1, <2>2, <2>3 DEF Closed
<1> QED
  BY <1>3, <1>4

(* The audit writes its share of the lines, or a little more.               *)
LEMMA LineEmitted ==
  ASSUME ObservedInv, NEW r \in WatchedRuns, NEW index \in Nat, Observed!Emit(r, index),
         rate' = rate
  PROVE  /\ sampled' \in Nat /\ emitted' \in Nat /\ Observed!AuditKeepsItsRate'
         /\ located' \in [WatchedRuns -> [says : Nat, is : Nat]]
         /\ located'[r] = [says |-> index, is |-> step[r]]
         /\ \A q \in WatchedRuns \ {r} : located'[q] = located[q]
<1>1. /\ sampled \in Nat /\ emitted \in Nat /\ rate \in Rates /\ step[r] \in Nat
      /\ located \in [WatchedRuns -> [says : Nat, is : Nat]]
  BY DEF ObservedInv, ObservedFrame
<1>2. rate[1] \in Nat /\ rate[2] \in Nat \ {0} /\ rate[1] <= rate[2]
  BY <1>1, AgentsAssumption
<1>3. PICK p \in Nat, q \in Nat : p = rate[1] /\ q = rate[2]
  BY <1>2
<1>4. (sampled + 1) * p = sampled * p + p /\ (emitted + 1) * q = emitted * q + q
  BY <1>1
<1>5. emitted * q \in Nat /\ sampled * p \in Nat
  BY <1>1
<1>6. emitted * q >= sampled * p /\ emitted * q < sampled * p + q
  BY <1>3 DEF ObservedInv, Observed!AuditKeepsItsRate
<1>7. sampled' = sampled + 1
  BY DEF Observed!Emit
<1>8. emitted' = IF p < q /\ (sampled + 1) * p <= emitted * q THEN emitted ELSE emitted + 1
  BY <1>3 DEF Observed!Emit, Observed!Passes
<1>9. emitted' * q >= sampled' * p /\ emitted' * q < sampled' * p + q
  <2>1. CASE p < q /\ (sampled + 1) * p <= emitted * q
    BY <1>2, <1>3, <1>4, <1>5, <1>6, <1>7, <1>8, <2>1
  <2>2. CASE p < q /\ ~((sampled + 1) * p <= emitted * q)
    BY <1>2, <1>3, <1>4, <1>5, <1>6, <1>7, <1>8, <2>2
  <2>3. CASE p = q
    <3>1. emitted = sampled
      <4>1. emitted * p >= sampled * p /\ emitted * p < (sampled + 1) * p
        BY <1>1, <1>4, <1>6, <2>3
      <4>2. ASSUME emitted < sampled PROVE FALSE
        <5>1. PICK d \in Nat : sampled = emitted + 1 + d
          <6>1. sampled - emitted - 1 \in Nat /\ sampled = emitted + 1 + (sampled - emitted - 1)
            BY <1>1, <4>2
          <6> QED
            BY <6>1
        <5>2. sampled * p = emitted * p + p + d * p /\ d * p \in Nat
          BY <1>1, <5>1
        <5> QED
          BY <1>1, <1>2, <1>3, <2>3, <4>1, <5>2
      <4>3. ASSUME emitted > sampled PROVE FALSE
        <5>1. PICK d \in Nat : emitted = sampled + 1 + d
          <6>1. emitted - sampled - 1 \in Nat /\ emitted = sampled + 1 + (emitted - sampled - 1)
            BY <1>1, <4>3
          <6> QED
            BY <6>1
        <5>2. emitted * p = (sampled + 1) * p + d * p /\ d * p \in Nat
          BY <1>1, <5>1
        <5> QED
          BY <1>1, <4>1, <5>2
      <4> QED
        BY <1>1, <4>2, <4>3
    <3>2. emitted' = emitted + 1
      BY <1>8, <2>3
    <3> QED
      BY <1>2, <1>3, <1>4, <1>5, <1>7, <2>3, <3>1, <3>2
  <2> QED
    BY <1>2, <1>3, <2>1, <2>2, <2>3
<1>10. Observed!AuditKeepsItsRate'
  BY <1>3, <1>9 DEF Observed!AuditKeepsItsRate
<1>11. located' = [located EXCEPT ![r] = [says |-> index, is |-> step[r]]]
  BY DEF Observed!Emit
<1> QED
  BY <1>1, <1>7, <1>8, <1>10, <1>11

(* What a step of one run leaves alone.                                     *)
SameRun(q) ==
  /\ pc'[q] = pc[q] /\ step'[q] = step[q] /\ hooked'[q] = hooked[q] /\ ctx'[q] = ctx[q]
  /\ callCtx'[q] = callCtx[q] /\ spans'[q] = spans[q] /\ excused'[q] = excused[q]
  /\ located'[q] = located[q]
ObservedRun(q) == ContextInv(q) /\ SpanInv(q) /\ LineInv(q)

LEMMA OtherRuns ==
  ASSUME ObservedInv, NEW r, \A q \in WatchedRuns \ {r} : SameRun(q),
         ObservedFrame', CountInv', Observed!AuditKeepsItsRate', ObservedRun(r)'
  PROVE  ObservedInv'
<1>1. ASSUME NEW q \in WatchedRuns, q # r PROVE ObservedRun(q)'
  <2>1. SameRun(q) /\ ObservedRun(q)
    BY <1>1 DEF ObservedInv, ObservedRun
  <2>2. ContextInv(q)'
    BY <2>1 DEF SameRun, ObservedRun, ContextInv
  <2>3. SpanInv(q)'
    BY <2>1 DEF SameRun, ObservedRun, SpanInv, SpanShape, SpanOpen, Awaited
  <2>4. LineInv(q)'
    BY <2>1 DEF SameRun, ObservedRun, LineInv
  <2> QED
    BY <2>2, <2>3, <2>4 DEF ObservedRun
<1> QED
  BY <1>1 DEF ObservedInv, ObservedRun

(* A context that was given a new span, or none.                            *)
LEMMA SpanInContext ==
  ASSUME NEW r \in WatchedRuns, NEW kind \in Kinds, NEW c \in Contexts,
         spans' \in [WatchedRuns -> Seq(Spans)]
  PROVE  LET d == Observed!WithSpan(r, kind, c) IN
         /\ d \in Contexts /\ d.index = c.index
         /\ d.step = IF kind = "step" /\ Observed!Opened(r) THEN Len(spans'[r]) ELSE c.step
         /\ d.model = IF kind = "model" /\ Observed!Opened(r) THEN Len(spans'[r]) ELSE c.model
         /\ d.tool = IF kind = "tool" /\ Observed!Opened(r) THEN Len(spans'[r]) ELSE c.tool
<1>1. Len(spans'[r]) \in Nat
  OBVIOUS
<1> QED
  BY <1>1 DEF Observed!WithSpan, Contexts, Kinds

(* The spans there were keep their shape; an open one must still be awaited. *)
LEMMA ShapeGrown ==
  ASSUME ObservedInv, NEW r \in WatchedRuns, NEW kind \in Kinds, Grew(r, kind),
         step'[r] = step[r]
  PROVE  SpanShape(r)'
<1>1. /\ Len(spans[r]) \in Nat /\ Len(spans'[r]) \in Nat /\ step[r] \in Nat
      /\ ctx[r].step \in 0..Len(spans[r]) /\ SpanShape(r)
      /\ \A i \in 1..Len(spans[r]) : spans[r][i] \in Spans
  BY DEF ObservedInv, ObservedFrame, ContextInv, SpanInv, Grew
<1> SUFFICES ASSUME NEW i \in 1..Len(spans'[r])
             PROVE  /\ spans'[r][i].of <= step[r] /\ spans'[r][i].parent < i
                    /\ spans'[r][i].parent > 0 =>
                         spans'[r][spans'[r][i].parent].of <= spans'[r][i].of
  BY DEF SpanShape
<1>2. CASE i <= Len(spans[r])
  <2>1. i \in 1..Len(spans[r]) /\ spans'[r][i] = spans[r][i]
    BY <1>1, <1>2 DEF Grew
  <2>2. spans[r][i].parent \in Nat /\ spans[r][i].parent < i
    BY <1>1, <2>1 DEF SpanShape, Spans
  <2>3. spans[r][i].parent > 0 => spans'[r][spans[r][i].parent] = spans[r][spans[r][i].parent]
    BY <1>1, <2>1, <2>2 DEF Grew
  <2> QED
    BY <1>1, <2>1, <2>2, <2>3 DEF SpanShape
<1>3. CASE i > Len(spans[r])
  <2>1. Observed!Opened(r) /\ i = Len(spans'[r]) /\ i = Len(spans[r]) + 1
    BY <1>1, <1>3 DEF Grew
  <2>2. spans'[r][i].of = step[r] /\ spans'[r][i].parent = ctx[r].step
    BY <2>1 DEF Grew
  <2>3. ctx[r].step > 0 => spans'[r][ctx[r].step].of <= step[r]
    BY <1>1 DEF Grew, SpanShape
  <2> QED
    BY <1>1, <2>1, <2>2, <2>3
<1> QED
  BY <1>1, <1>2, <1>3

LEMMA OpenGrown ==
  ASSUME ObservedInv, NEW r \in WatchedRuns, NEW kind \in Kinds, Grew(r, kind),
         \A i \in excused[r] : i \in excused'[r],
         \A i \in 1..Len(spans[r]) : Awaited(r, i) => i \in excused'[r] \/ Awaited(r, i)',
         \A i \in Nat : Observed!Opened(r) /\ i = Len(spans'[r]) =>
                          i \in excused'[r] \/ Awaited(r, i)'
  PROVE  SpanOpen(r)'
<1>1. Len(spans[r]) \in Nat /\ Len(spans'[r]) \in Nat /\ SpanOpen(r)
  BY DEF ObservedInv, ObservedFrame, SpanInv, Grew
<1> SUFFICES ASSUME NEW i \in 1..Len(spans'[r]), spans'[r][i].recorded,
                    spans'[r][i].ends = 0, i \notin excused'[r]
             PROVE  Awaited(r, i)'
  BY DEF SpanOpen
<1>2. CASE i <= Len(spans[r])
  <2>1. i \in 1..Len(spans[r]) /\ spans'[r][i] = spans[r][i]
    BY <1>1, <1>2 DEF Grew
  <2>2. Awaited(r, i)
    BY <1>1, <2>1 DEF SpanOpen
  <2> QED
    BY <2>1, <2>2
<1>3. CASE i > Len(spans[r])
  <2>1. Observed!Opened(r) /\ i = Len(spans'[r]) /\ i \in Nat
    BY <1>1, <1>3 DEF Grew
  <2> QED
    BY <2>1
<1> QED
  BY <1>1, <1>2, <1>3

LEMMA ShapeClosed ==
  ASSUME ObservedInv, NEW r \in WatchedRuns, NEW i, Closed(r, i), step'[r] \in Nat,
         step'[r] >= step[r]
  PROVE  SpanShape(r)'
<1>1. /\ Len(spans[r]) \in Nat /\ step[r] \in Nat /\ SpanShape(r)
      /\ \A j \in 1..Len(spans[r]) : spans[r][j] \in Spans
  BY DEF ObservedInv, ObservedFrame, SpanInv
<1> SUFFICES ASSUME NEW j \in 1..Len(spans[r])
             PROVE  /\ spans'[r][j].of <= step'[r] /\ spans'[r][j].parent < j
                    /\ spans'[r][j].parent > 0 =>
                         spans'[r][spans'[r][j].parent].of <= spans'[r][j].of
  BY DEF SpanShape, Closed
<1>2. /\ spans'[r][j].of = spans[r][j].of /\ spans'[r][j].parent = spans[r][j].parent
      /\ spans[r][j].of \in Nat /\ spans[r][j].parent \in Nat
      /\ spans[r][j].of <= step[r] /\ spans[r][j].parent < j
  BY <1>1 DEF Closed, Spans, SpanShape
<1>3. ASSUME spans[r][j].parent > 0
      PROVE  spans'[r][spans[r][j].parent].of <= spans[r][j].of
  <2>1. spans[r][j].parent \in 1..Len(spans[r])
    BY <1>1, <1>2, <1>3
  <2>2. spans'[r][spans[r][j].parent].of = spans[r][spans[r][j].parent].of
    BY <2>1 DEF Closed
  <2> QED
    BY <1>1, <1>3, <2>2 DEF SpanShape
<1> QED
  BY <1>1, <1>2, <1>3

LEMMA OpenClosed ==
  ASSUME ObservedInv, NEW r \in WatchedRuns, NEW i, Closed(r, i),
         \A j \in excused[r] : j \in excused'[r],
         \A j \in 1..Len(spans[r]) : Awaited(r, j) => j = i \/ Awaited(r, j)'
  PROVE  SpanOpen(r)'
<1>1. Len(spans[r]) \in Nat /\ SpanOpen(r)
  BY DEF ObservedInv, ObservedFrame, SpanInv
<1> SUFFICES ASSUME NEW j \in 1..Len(spans[r]), spans'[r][j].recorded,
                    spans'[r][j].ends = 0, j \notin excused'[r]
             PROVE  Awaited(r, j)'
  BY DEF SpanOpen, Closed
<1>2. j # i /\ spans[r][j].recorded /\ spans[r][j].ends = 0
  BY DEF Closed
<1> QED
  BY <1>1, <1>2 DEF SpanOpen

LEMMA StepStartsStep ==
  ASSUME ObservedInv, NEW r \in WatchedRuns, Observed!StepStarts(r)
  PROVE  ObservedInv'
<1> DEFINE own == IF Observed!Opened(r) THEN {Len(spans'[r])} ELSE {}
           old == [ctx[r] EXCEPT !.index = step[r]]
           c == Observed!WithSpan(r, "step", old)
<1>1. /\ ObservedFrame /\ ContextInv(r) /\ SpanInv(r) /\ LineInv(r)
      /\ "step" \in Kinds /\ Observed!Starts(r, "step", ctx[r]) /\ pc[r] = "loop"
      /\ counted' = counted /\ step' = step /\ callCtx' = callCtx /\ rate' = rate
      /\ sampled' = sampled /\ emitted' = emitted /\ located' = located
      /\ hooked' = [hooked EXCEPT ![r] = 0]
  BY DEF ObservedInv, Observed!StepStarts, Observed!Silent, Kinds
<1>2. CountInv' /\ Grew(r, "step")
  BY <1>1, SpanAdded
<1>3. Len(spans[r]) \in Nat /\ Len(spans'[r]) \in Nat /\ step[r] \in Nat /\ MaxSteps \in Nat
      /\ ctx[r] \in Contexts
  BY <1>1, <1>2, AgentsAssumption DEF ObservedFrame, Grew
<1>4. /\ old \in Contexts /\ old.index = step[r] /\ old.step = ctx[r].step
      /\ old.model = ctx[r].model /\ old.tool = ctx[r].tool
  BY <1>3 DEF Contexts
<1> HIDE DEF old
<1>5. /\ c \in Contexts /\ c.index = step[r] /\ c.model = ctx[r].model /\ c.tool = ctx[r].tool
      /\ c.step = IF Observed!Opened(r) THEN Len(spans'[r]) ELSE ctx[r].step
  BY <1>1, <1>2, <1>4, SpanInContext DEF Grew
<1> HIDE DEF c
<1>6. PICK d \in Contexts :
        /\ ctx' = [ctx EXCEPT ![r] = d] /\ d.index = step[r] /\ d.model = 0 /\ d.tool = 0
        /\ \/ pc' = [pc EXCEPT ![r] = "model"] /\ d.step = c.step /\ excused' = excused
           \/ /\ pc' = [pc EXCEPT ![r] = "model"] /\ d.step = 0
              /\ excused' = [excused EXCEPT ![r] = @ \cup own]
           \/ /\ pc' = [pc EXCEPT ![r] = "over"] /\ d.step = c.step
              /\ excused' = [excused EXCEPT ![r] = @ \cup own]
  <2>1. \/ /\ pc' = [pc EXCEPT ![r] = "model"] /\ excused' = excused
           /\ ctx' = [ctx EXCEPT ![r] = Observed!Reinjected(c, r)]
        \/ /\ pc' = [pc EXCEPT ![r] = "model"]
           /\ ctx' = [ctx EXCEPT ![r] = Observed!Reinjected(Observed!NoContext, r)]
           /\ excused' = [excused EXCEPT ![r] = @ \cup own]
        \/ /\ pc' = [pc EXCEPT ![r] = "over"] /\ ctx' = [ctx EXCEPT ![r] = c]
           /\ excused' = [excused EXCEPT ![r] = @ \cup own]
    <3>1. own = IF Observed!Opened(r) THEN {c.step} ELSE {}
      BY <1>5
    <3> QED
      BY <3>1 DEF Observed!StepStarts, Observed!Goes, c, old
  <2>2. /\ Observed!Reinjected(c, r) \in Contexts /\ Observed!Reinjected(c, r).index = step[r]
        /\ Observed!Reinjected(c, r).step = c.step /\ Observed!Reinjected(c, r).model = 0
        /\ Observed!Reinjected(c, r).tool = 0 /\ c.model = 0 /\ c.tool = 0
    BY <1>1, <1>3, <1>5 DEF Observed!Reinjected, Contexts, ContextInv
  <2>3. LET n == Observed!Reinjected(Observed!NoContext, r) IN
        n \in Contexts /\ n.index = step[r] /\ n.step = 0 /\ n.model = 0 /\ n.tool = 0
    BY <1>3 DEF Observed!Reinjected, Observed!NoContext, Observed!NoStep, Contexts
  <2> QED
    BY <1>5, <2>1, <2>2, <2>3
<1>7. own \subseteq Nat
  BY <1>3
<1>8. \E to \in {"model", "over"} : pc' = [pc EXCEPT ![r] = to]
  BY <1>6
<1>9. excused' \in [WatchedRuns -> SUBSET Nat] /\ excused[r] \subseteq excused'[r]
      /\ \A q \in WatchedRuns \ {r} : excused'[q] = excused[q]
  <2>1. excused \in [WatchedRuns -> SUBSET Nat]
    BY <1>1 DEF ObservedFrame
  <2>2. excused' = excused \/ excused' = [excused EXCEPT ![r] = excused[r] \cup own]
    BY <1>6
  <2>3. excused[r] \cup own \in SUBSET Nat
    BY <1>7, <2>1
  <2> HIDE DEF own
  <2> QED
    BY <2>1, <2>2, <2>3
<1>10. ObservedFrame'
  <2>1. /\ pc' \in [WatchedRuns -> InStep \cup {"loop", "over", "done"}]
        /\ ctx' \in [WatchedRuns -> Contexts] /\ hooked' \in [WatchedRuns -> Nat]
    BY <1>1, <1>6, <1>8 DEF ObservedFrame, InStep
  <2> QED
    BY <1>1, <1>2, <1>9, <2>1 DEF ObservedFrame, Grew
<1>11. \A q \in WatchedRuns \ {r} : SameRun(q)
  BY <1>1, <1>2, <1>6, <1>8, <1>9 DEF SameRun, ObservedFrame, Grew
<1>12. ctx'[r] = d /\ hooked'[r] = 0 /\ pc'[r] \in {"model", "over"}
  BY <1>1, <1>6, <1>8 DEF ObservedFrame
<1>13. ctx'[r].step \in 0..Len(spans'[r])
       /\ (ctx'[r].step > 0 => spans'[r][ctx'[r].step].kind = "step")
  <2>1. d.step \in {0, ctx[r].step} \/ (Observed!Opened(r) /\ d.step = Len(spans'[r]))
    BY <1>5, <1>6
  <2>2. /\ ctx[r].step \in 0..Len(spans[r])
        /\ ctx[r].step > 0 => spans'[r][ctx[r].step].kind = "step"
    BY <1>1, <1>2, <1>3 DEF ContextInv, Grew
  <2> QED
    BY <1>2, <1>3, <1>12, <2>1, <2>2 DEF Grew
<1>14. callCtx'[r].model \in 0..Len(spans'[r])
       /\ (callCtx'[r].model > 0 => spans'[r][callCtx'[r].model].kind = "model")
  <2>1. /\ callCtx[r].model \in 0..Len(spans[r])
        /\ callCtx[r].model > 0 => spans'[r][callCtx[r].model].kind = "model"
    BY <1>1, <1>2, <1>3 DEF ContextInv, Grew
  <2> QED
    BY <1>1, <1>2, <1>3, <2>1 DEF Grew
<1>15. ContextInv(r)'
  BY <1>1, <1>6, <1>12, <1>13, <1>14 DEF ContextInv
<1>16. ASSUME NEW i \in Nat, Observed!Opened(r), i = Len(spans'[r])
       PROVE  i \in excused'[r] \/ Awaited(r, i)'
  <2>1. own = {i} /\ c.step = i /\ spans'[r][i].kind = "step" /\ spans'[r][i].of = step[r]
    BY <1>2, <1>5, <1>16 DEF Grew
  <2>2. i \in excused'[r] \/ (pc'[r] = "model" /\ d.step = i)
    BY <1>1, <1>6, <2>1 DEF ObservedFrame
  <2> QED
    BY <1>1, <1>12, <2>1, <2>2 DEF Awaited, InStep
<1>17. \A i \in 1..Len(spans[r]) : ~Awaited(r, i)
  BY <1>1 DEF Awaited, InStep
<1>18. SpanInv(r)'
  <2>1. SpanShape(r)'
    BY <1>1, <1>2, ShapeGrown
  <2>2. SpanOpen(r)'
    BY <1>1, <1>2, <1>9, <1>16, <1>17, OpenGrown
  <2> QED
    BY <2>1, <2>2 DEF SpanInv
<1>19. LineInv(r)'
  BY <1>1, <1>12 DEF LineInv
<1>20. Observed!AuditKeepsItsRate'
  BY <1>1 DEF ObservedInv, Observed!AuditKeepsItsRate
<1> QED
  BY <1>2, <1>10, <1>11, <1>15, <1>18, <1>19, <1>20, OtherRuns DEF ObservedRun

(* The contexts still point at the spans they pointed at.                   *)
Points(r, i, kind) == i \in 0..Len(spans[r]) /\ (i > 0 => spans[r][i].kind = kind)

LEMMA PointsGrown ==
  ASSUME NEW r \in WatchedRuns, NEW k \in Kinds, Grew(r, k), NEW i, NEW kind,
         spans[r] \in Seq(Spans), Points(r, i, kind)
  PROVE  i \in 0..Len(spans'[r]) /\ (i > 0 => spans'[r][i] = spans[r][i])
<1>1. Len(spans[r]) \in Nat /\ Len(spans'[r]) \in Nat /\ Len(spans[r]) <= Len(spans'[r])
  BY DEF Grew
<1> QED
  BY <1>1 DEF Grew, Points

LEMMA ModelStartsStep ==
  ASSUME ObservedInv, NEW r \in WatchedRuns, Observed!ModelStarts(r)
  PROVE  ObservedInv'
<1> DEFINE own == IF Observed!Opened(r) THEN {Len(spans'[r])} ELSE {}
           c == Observed!WithSpan(r, "model", ctx[r])
<1>1. /\ ObservedFrame /\ ContextInv(r) /\ SpanInv(r) /\ LineInv(r)
      /\ "model" \in Kinds /\ Observed!Starts(r, "model", ctx[r]) /\ pc[r] = "model"
      /\ Observed!Emit(r, ctx[r].index)
      /\ counted' = counted /\ step' = step /\ ctx' = ctx /\ rate' = rate /\ hooked' = hooked
  BY DEF ObservedInv, Observed!ModelStarts, Kinds
<1>2. CountInv' /\ Grew(r, "model")
  BY <1>1, SpanAdded
<1>3. /\ Len(spans[r]) \in Nat /\ Len(spans'[r]) \in Nat /\ step[r] \in Nat /\ MaxSteps \in Nat
      /\ ctx[r] \in Contexts /\ ctx[r].index = step[r] /\ spans[r] \in Seq(Spans)
      /\ Points(r, ctx[r].step, "step") /\ Points(r, callCtx[r].model, "model")
  BY <1>1, <1>2, AgentsAssumption DEF ObservedFrame, Grew, ContextInv, InStep, Points
<1>4. /\ sampled' \in Nat /\ emitted' \in Nat /\ Observed!AuditKeepsItsRate'
      /\ located' \in [WatchedRuns -> [says : Nat, is : Nat]]
      /\ located'[r] = [says |-> step[r], is |-> step[r]]
      /\ \A q \in WatchedRuns \ {r} : located'[q] = located[q]
  BY <1>1, <1>3, LineEmitted
<1>5. /\ c \in Contexts /\ c.index = step[r]
      /\ c.model = IF Observed!Opened(r) THEN Len(spans'[r]) ELSE ctx[r].model
  BY <1>1, <1>2, <1>3, SpanInContext DEF Grew
<1>6. Observed!NoContext \in Contexts /\ Observed!NoContext.model = 0
      /\ Observed!NoContext.index = MaxSteps
  BY <1>3 DEF Observed!NoContext, Observed!NoStep, Contexts
<1> HIDE DEF c
<1>7. \/ /\ pc' = [pc EXCEPT ![r] = "calling"] /\ callCtx' = [callCtx EXCEPT ![r] = c]
         /\ excused' = excused
      \/ /\ pc' = [pc EXCEPT ![r] = "calling"]
         /\ callCtx' = [callCtx EXCEPT ![r] = Observed!NoContext]
         /\ excused' = [excused EXCEPT ![r] = excused[r] \cup own]
      \/ /\ pc' = [pc EXCEPT ![r] = "ends"] /\ callCtx' = callCtx
         /\ excused' = [excused EXCEPT ![r] = excused[r] \cup own]
  <2>1. own = IF Observed!Opened(r) THEN {c.model} ELSE {}
    BY <1>5
  <2> QED
    BY <2>1 DEF Observed!ModelStarts, Observed!Goes, c
<1>8. own \subseteq Nat /\ (\A i : Observed!Opened(r) /\ i = Len(spans'[r]) => i \in own)
  BY <1>3
<1> HIDE DEF own
<1>9. excused' \in [WatchedRuns -> SUBSET Nat] /\ excused[r] \subseteq excused'[r]
      /\ \A q \in WatchedRuns \ {r} : excused'[q] = excused[q]
  <2>1. excused \in [WatchedRuns -> SUBSET Nat]
    BY <1>1 DEF ObservedFrame
  <2>2. excused[r] \cup own \in SUBSET Nat
    BY <1>8, <2>1
  <2> QED
    BY <1>7, <2>1, <2>2
<1>10. callCtx \in [WatchedRuns -> Contexts]
       /\ pc \in [WatchedRuns -> InStep \cup {"loop", "over", "done"}]
  BY <1>1 DEF ObservedFrame
<1>11. /\ pc' \in [WatchedRuns -> InStep \cup {"loop", "over", "done"}]
       /\ callCtx' \in [WatchedRuns -> Contexts] /\ pc'[r] \in {"calling", "ends"}
       /\ \A q \in WatchedRuns \ {r} : pc'[q] = pc[q] /\ callCtx'[q] = callCtx[q]
  BY <1>5, <1>6, <1>7, <1>10 DEF InStep
<1>12. ObservedFrame'
  BY <1>1, <1>2, <1>4, <1>9, <1>11 DEF ObservedFrame, Grew
<1>13. \A q \in WatchedRuns \ {r} : SameRun(q)
  BY <1>1, <1>2, <1>4, <1>9, <1>11 DEF SameRun, Grew
<1>14. /\ callCtx'[r].model = callCtx[r].model \/ callCtx'[r].model = 0
          \/ (Observed!Opened(r) /\ callCtx'[r].model = Len(spans'[r]))
       /\ pc'[r] = "calling" => callCtx'[r].index \in {step[r], MaxSteps}
  <2>1. ctx[r].model = 0
    BY <1>1 DEF ContextInv
  <2> QED
    BY <1>5, <1>6, <1>7, <1>10, <2>1
<1>15. ctx[r].step \in 0..Len(spans'[r])
       /\ (ctx[r].step > 0 => spans'[r][ctx[r].step].kind = "step")
  BY <1>1, <1>2, <1>3, PointsGrown DEF Points
<1>16. callCtx'[r].model \in 0..Len(spans'[r])
       /\ (callCtx'[r].model > 0 => spans'[r][callCtx'[r].model].kind = "model")
  <2>1. callCtx[r].model \in 0..Len(spans'[r])
        /\ (callCtx[r].model > 0 => spans'[r][callCtx[r].model].kind = "model")
    BY <1>1, <1>2, <1>3, PointsGrown DEF Points
  <2>2. Observed!Opened(r) => spans'[r][Len(spans'[r])].kind = "model"
    BY <1>2 DEF Grew
  <2> QED
    BY <1>3, <1>14, <2>1, <2>2
<1>17. ContextInv(r)'
  BY <1>1, <1>3, <1>11, <1>14, <1>15, <1>16 DEF ContextInv, InStep
<1>18. ASSUME NEW i \in Nat, Observed!Opened(r), i = Len(spans'[r])
       PROVE  i \in excused'[r] \/ Awaited(r, i)'
  <2>1. i \in own /\ c.model = i /\ spans'[r][i].kind = "model"
    BY <1>2, <1>5, <1>8, <1>18 DEF Grew
  <2>2. i \in excused'[r] \/ (pc'[r] = "calling" /\ callCtx'[r].model = i)
    BY <1>1, <1>7, <1>10, <2>1 DEF ObservedFrame
  <2> QED
    BY <2>1, <2>2 DEF Awaited
<1>19. ASSUME NEW i \in 1..Len(spans[r]), Awaited(r, i) PROVE Awaited(r, i)'
  <2>1. i = ctx[r].step /\ spans[r][i].kind = "step" /\ spans[r][i].of = step[r]
    BY <1>1, <1>19 DEF Awaited
  <2>2. spans'[r][i] = spans[r][i]
    BY <1>2 DEF Grew
  <2> QED
    BY <1>1, <1>11, <2>1, <2>2 DEF Awaited, InStep
<1>20. SpanInv(r)'
  <2>1. SpanShape(r)'
    BY <1>1, <1>2, ShapeGrown
  <2>2. SpanOpen(r)'
    BY <1>1, <1>2, <1>9, <1>18, <1>19, OpenGrown
  <2> QED
    BY <2>1, <2>2 DEF SpanInv
<1>21. LineInv(r)'
  BY <1>1, <1>4, <1>11 DEF LineInv
<1> QED
  BY <1>2, <1>4, <1>12, <1>13, <1>17, <1>20, <1>21, OtherRuns DEF ObservedRun

LEMMA ToolStartsStep ==
  ASSUME ObservedInv, NEW r \in WatchedRuns, Observed!ToolStarts(r)
  PROVE  ObservedInv'
<1> DEFINE own == IF Observed!Opened(r) THEN {Len(spans'[r])} ELSE {}
<1>1. /\ ObservedFrame /\ ContextInv(r) /\ SpanInv(r) /\ LineInv(r)
      /\ "tool" \in Kinds /\ Observed!Starts(r, "tool", ctx[r]) /\ pc[r] = "hooks"
      /\ Observed!Emit(r, ctx[r].index) /\ excused' = [excused EXCEPT ![r] = excused[r] \cup own]
      /\ counted' = counted /\ step' = step /\ callCtx' = callCtx /\ rate' = rate /\ pc' = pc
      /\ hooked' = [hooked EXCEPT ![r] = hooked[r] + 1]
      /\ ctx' = [ctx EXCEPT ![r] = ctx[r]]
  BY DEF ObservedInv, Observed!ToolStarts, Observed!BatchContext, Kinds
<1>2. CountInv' /\ Grew(r, "tool")
  BY <1>1, SpanAdded
<1>3. /\ Len(spans[r]) \in Nat /\ Len(spans'[r]) \in Nat /\ step[r] \in Nat
      /\ ctx[r].index \in Nat /\ ctx[r].index = step[r] /\ spans[r] \in Seq(Spans)
      /\ Points(r, ctx[r].step, "step") /\ Points(r, callCtx[r].model, "model")
      /\ hooked[r] \in Nat /\ ctx' = ctx
  BY <1>1, <1>2 DEF ObservedFrame, Grew, ContextInv, InStep, Points
<1>4. /\ sampled' \in Nat /\ emitted' \in Nat /\ Observed!AuditKeepsItsRate'
      /\ located' \in [WatchedRuns -> [says : Nat, is : Nat]]
      /\ located'[r] = [says |-> step[r], is |-> step[r]]
      /\ \A q \in WatchedRuns \ {r} : located'[q] = located[q]
  BY <1>1, <1>3, LineEmitted
<1>5. own \subseteq Nat /\ (\A i : Observed!Opened(r) /\ i = Len(spans'[r]) => i \in own)
  BY <1>3
<1> HIDE DEF own
<1>6. /\ excused' \in [WatchedRuns -> SUBSET Nat] /\ excused'[r] = excused[r] \cup own
      /\ \A q \in WatchedRuns \ {r} : excused'[q] = excused[q]
  <2>1. excused \in [WatchedRuns -> SUBSET Nat]
    BY <1>1 DEF ObservedFrame
  <2>2. excused[r] \cup own \in SUBSET Nat
    BY <1>5, <2>1
  <2> QED
    BY <1>1, <2>1, <2>2
<1>7. hooked' \in [WatchedRuns -> Nat] /\ \A q \in WatchedRuns \ {r} : hooked'[q] = hooked[q]
  BY <1>1 DEF ObservedFrame
<1>8. ObservedFrame'
  BY <1>1, <1>2, <1>3, <1>4, <1>6, <1>7 DEF ObservedFrame, Grew
<1>9. \A q \in WatchedRuns \ {r} : SameRun(q)
  BY <1>1, <1>2, <1>3, <1>4, <1>6, <1>7 DEF SameRun, Grew
<1>10. ctx[r].step \in 0..Len(spans'[r])
       /\ (ctx[r].step > 0 => spans'[r][ctx[r].step].kind = "step")
  BY <1>1, <1>2, <1>3, PointsGrown DEF Points
<1>11. callCtx[r].model \in 0..Len(spans'[r])
       /\ (callCtx[r].model > 0 => spans'[r][callCtx[r].model].kind = "model")
  BY <1>1, <1>2, <1>3, PointsGrown DEF Points
<1>12. ContextInv(r)'
  BY <1>1, <1>3, <1>10, <1>11 DEF ContextInv
<1>13. ASSUME NEW i \in 1..Len(spans[r]), Awaited(r, i) PROVE Awaited(r, i)'
  <2>1. spans'[r][i] = spans[r][i]
    BY <1>2 DEF Grew
  <2> QED
    BY <1>1, <1>3, <1>13, <2>1 DEF Awaited
<1>14. SpanInv(r)'
  <2>1. SpanShape(r)'
    BY <1>1, <1>2, ShapeGrown
  <2>2. SpanOpen(r)'
    BY <1>1, <1>2, <1>5, <1>6, <1>13, OpenGrown
  <2> QED
    BY <2>1, <2>2 DEF SpanInv
<1>15. LineInv(r)'
  BY <1>1, <1>4 DEF LineInv
<1> QED
  BY <1>2, <1>4, <1>8, <1>9, <1>12, <1>14, <1>15, OtherRuns DEF ObservedRun

LEMMA PointsClosed ==
  ASSUME NEW r \in WatchedRuns, NEW k, Closed(r, k), NEW i, NEW kind,
         spans[r] \in Seq(Spans), Points(r, i, kind)
  PROVE  i \in 0..Len(spans'[r]) /\ (i > 0 => spans'[r][i].kind = kind)
<1>1. Len(spans[r]) \in Nat
  OBVIOUS
<1> QED
  BY <1>1 DEF Closed, Points

LEMMA AttemptEndsStep ==
  ASSUME ObservedInv, NEW r \in WatchedRuns, Observed!AttemptEnds(r)
  PROVE  ObservedInv'
<1>1. /\ ObservedFrame /\ ContextInv(r) /\ SpanInv(r) /\ LineInv(r)
      /\ "model" \in Kinds /\ Observed!Finishes(r, "model", callCtx[r].model)
      /\ pc[r] = "calling" /\ Observed!Emit(r, callCtx[r].index)
      /\ step' = step /\ ctx' = ctx /\ callCtx' = callCtx /\ rate' = rate /\ hooked' = hooked
      /\ excused' = excused
  BY DEF ObservedInv, Observed!AttemptEnds, Kinds
<1>2. /\ Len(spans[r]) \in Nat /\ step[r] \in Nat /\ ctx[r] \in Contexts
      /\ callCtx[r].index \in Nat /\ callCtx[r].index \in {step[r], MaxSteps}
      /\ spans[r] \in Seq(Spans) /\ hooked[r] = 0 /\ ctx[r].index = step[r]
      /\ Points(r, ctx[r].step, "step") /\ Points(r, callCtx[r].model, "model")
  BY <1>1, AgentsAssumption DEF ObservedFrame, ContextInv, InStep, Points
<1>3. CountInv' /\ counted' \in [Kinds -> Nat] /\ Closed(r, callCtx[r].model)
  <2>1. /\ callCtx[r].model \in 0..Len(spans[r])
        /\ callCtx[r].model > 0 => spans[r][callCtx[r].model].kind = "model"
    BY <1>2 DEF Points
  <2> QED
    BY <1>1, <2>1, SpanEnded
<1>4. /\ sampled' \in Nat /\ emitted' \in Nat /\ Observed!AuditKeepsItsRate'
      /\ located' \in [WatchedRuns -> [says : Nat, is : Nat]]
      /\ located'[r] = [says |-> callCtx[r].index, is |-> step[r]]
      /\ \A q \in WatchedRuns \ {r} : located'[q] = located[q]
  BY <1>1, <1>2, LineEmitted
<1>5. pc \in [WatchedRuns -> InStep \cup {"loop", "over", "done"}]
  BY <1>1 DEF ObservedFrame
<1>6. \E to \in {"hooks", "ends", "calling"} : pc' = [pc EXCEPT ![r] = to]
  <2>1. pc' = pc => pc' = [pc EXCEPT ![r] = "calling"]
    BY <1>1, <1>5
  <2> QED
    BY <2>1 DEF Observed!AttemptEnds, Observed!Goes
<1>7. /\ pc' \in [WatchedRuns -> InStep \cup {"loop", "over", "done"}]
      /\ pc'[r] \in {"hooks", "ends", "calling"}
      /\ \A q \in WatchedRuns \ {r} : pc'[q] = pc[q]
  BY <1>5, <1>6 DEF InStep
<1>8. ObservedFrame'
  BY <1>1, <1>3, <1>4, <1>7 DEF ObservedFrame, Closed
<1>9. \A q \in WatchedRuns \ {r} : SameRun(q)
  BY <1>1, <1>3, <1>4, <1>7 DEF SameRun, Closed
<1>10. ctx[r].step \in 0..Len(spans'[r])
       /\ (ctx[r].step > 0 => spans'[r][ctx[r].step].kind = "step")
  BY <1>1, <1>2, <1>3, PointsClosed
<1>11. callCtx[r].model \in 0..Len(spans'[r])
       /\ (callCtx[r].model > 0 => spans'[r][callCtx[r].model].kind = "model")
  BY <1>1, <1>2, <1>3, PointsClosed
<1>12. ContextInv(r)'
  BY <1>1, <1>2, <1>7, <1>10, <1>11 DEF ContextInv
<1>13. ASSUME NEW j \in 1..Len(spans[r]), Awaited(r, j)
       PROVE  j = callCtx[r].model \/ Awaited(r, j)'
  <2>1. CASE j = ctx[r].step /\ spans[r][j].kind = "step" /\ spans[r][j].of = step[r]
    <3>1. spans'[r][j].kind = "step" /\ spans'[r][j].of = step[r]
      BY <1>3, <2>1 DEF Closed
    <3> QED
      BY <1>1, <1>7, <2>1, <3>1 DEF Awaited, InStep
  <2> QED
    BY <1>13, <2>1 DEF Awaited
<1>14. SpanInv(r)'
  <2>1. SpanShape(r)'
    BY <1>1, <1>2, <1>3, ShapeClosed
  <2>2. SpanOpen(r)'
    BY <1>1, <1>3, <1>13, OpenClosed
  <2> QED
    BY <2>1, <2>2 DEF SpanInv
<1>15. LineInv(r)'
  BY <1>1, <1>2, <1>4, <1>7 DEF LineInv
<1> QED
  BY <1>3, <1>4, <1>8, <1>9, <1>12, <1>14, <1>15, OtherRuns DEF ObservedRun

LEMMA StepEndsStep ==
  ASSUME ObservedInv, NEW r \in WatchedRuns, Observed!StepEnds(r)
  PROVE  ObservedInv'
<1>1. /\ ObservedFrame /\ ContextInv(r) /\ SpanInv(r) /\ LineInv(r)
      /\ "step" \in Kinds /\ Observed!Finishes(r, "step", ctx[r].step)
      /\ pc[r] = "ends" /\ step' = [step EXCEPT ![r] = step[r] + 1]
      /\ ctx' = ctx /\ callCtx' = callCtx /\ rate' = rate /\ hooked' = hooked
      /\ excused' = excused /\ sampled' = sampled /\ emitted' = emitted /\ located' = located
  BY DEF ObservedInv, Observed!StepEnds, Observed!EndedSpan, Observed!Silent, Kinds
<1>2. /\ Len(spans[r]) \in Nat /\ step \in [WatchedRuns -> Nat]
      /\ spans[r] \in Seq(Spans)
      /\ Points(r, ctx[r].step, "step") /\ Points(r, callCtx[r].model, "model")
  BY <1>1 DEF ObservedFrame, ContextInv, Points
<1>3. CountInv' /\ counted' \in [Kinds -> Nat] /\ Closed(r, ctx[r].step)
  <2>1. /\ ctx[r].step \in 0..Len(spans[r])
        /\ ctx[r].step > 0 => spans[r][ctx[r].step].kind = "step"
    BY <1>2 DEF Points
  <2> QED
    BY <1>1, <2>1, SpanEnded
<1>4. pc \in [WatchedRuns -> InStep \cup {"loop", "over", "done"}]
  BY <1>1 DEF ObservedFrame
<1>5. \E to \in {"loop", "over"} : pc' = [pc EXCEPT ![r] = to]
  BY DEF Observed!StepEnds, Observed!Goes
<1>6. /\ pc' \in [WatchedRuns -> InStep \cup {"loop", "over", "done"}]
      /\ pc'[r] \in {"loop", "over"}
      /\ \A q \in WatchedRuns \ {r} : pc'[q] = pc[q]
  BY <1>4, <1>5
<1>7. /\ step' \in [WatchedRuns -> Nat] /\ step'[r] = step[r] + 1 /\ step[r] \in Nat
      /\ \A q \in WatchedRuns \ {r} : step'[q] = step[q]
  BY <1>1, <1>2
<1>8. ObservedFrame'
  BY <1>1, <1>3, <1>6, <1>7 DEF ObservedFrame, Closed
<1>9. \A q \in WatchedRuns \ {r} : SameRun(q)
  BY <1>1, <1>3, <1>6, <1>7 DEF SameRun, Closed
<1>10. ctx[r].step \in 0..Len(spans'[r])
       /\ (ctx[r].step > 0 => spans'[r][ctx[r].step].kind = "step")
  BY <1>1, <1>2, <1>3, PointsClosed
<1>11. callCtx[r].model \in 0..Len(spans'[r])
       /\ (callCtx[r].model > 0 => spans'[r][callCtx[r].model].kind = "model")
  BY <1>1, <1>2, <1>3, PointsClosed
<1>12. ContextInv(r)'
  BY <1>1, <1>6, <1>10, <1>11 DEF ContextInv, InStep
<1>13. \A j \in 1..Len(spans[r]) : Awaited(r, j) => j = ctx[r].step
  BY <1>1 DEF Awaited
<1>14. SpanInv(r)'
  <2>1. SpanShape(r)'
    BY <1>1, <1>3, <1>7, ShapeClosed
  <2>2. SpanOpen(r)'
    BY <1>1, <1>3, <1>13, OpenClosed
  <2> QED
    BY <2>1, <2>2 DEF SpanInv
<1>15. LineInv(r)'
  BY <1>1, <1>6 DEF LineInv
<1>16. Observed!AuditKeepsItsRate'
  BY <1>1 DEF ObservedInv, Observed!AuditKeepsItsRate
<1> QED
  BY <1>3, <1>8, <1>9, <1>12, <1>14, <1>15, <1>16, OtherRuns DEF ObservedRun

(* A step of one run that leaves the spans alone: an open one must still be *)
(* awaited, or be excused.                                                  *)
LEMMA SpansLeftAlone ==
  ASSUME ObservedInv, NEW r \in WatchedRuns, spans' = spans, counted' = counted, step' = step,
         ctx' = ctx, callCtx' = callCtx, rate' = rate,
         pc' \in [WatchedRuns -> InStep \cup {"loop", "over", "done"}],
         hooked' \in [WatchedRuns -> Nat], excused' \in [WatchedRuns -> SUBSET Nat],
         located' \in [WatchedRuns -> [says : Nat, is : Nat]],
         sampled' \in Nat, emitted' \in Nat, Observed!AuditKeepsItsRate',
         \A q \in WatchedRuns \ {r} : /\ pc'[q] = pc[q] /\ hooked'[q] = hooked[q]
                                     /\ excused'[q] = excused[q] /\ located'[q] = located[q],
         pc[r] \in InStep \/ pc'[r] \notin InStep, pc'[r] \notin {"model", "calling"},
         excused[r] \subseteq excused'[r],
         \A j \in 1..Len(spans[r]) : Awaited(r, j) => j \in excused'[r] \/ Awaited(r, j)',
         LineInv(r)'
  PROVE  ObservedInv'
<1>1. ObservedFrame /\ ContextInv(r) /\ SpanInv(r) /\ CountInv
  BY DEF ObservedInv
<1>2. CountInv'
  BY <1>1 DEF CountInv, Observed!Ended
<1>3. ObservedFrame'
  BY <1>1 DEF ObservedFrame
<1>4. \A q \in WatchedRuns \ {r} : SameRun(q)
  BY DEF SameRun
<1>5. ContextInv(r)'
  BY <1>1 DEF ContextInv
<1>6. SpanInv(r)'
  <2>1. SpanShape(r)'
    BY <1>1 DEF SpanInv, SpanShape
  <2>2. SpanOpen(r)'
    BY <1>1 DEF SpanInv, SpanOpen
  <2> QED
    BY <2>1, <2>2 DEF SpanInv
<1> QED
  BY <1>2, <1>3, <1>4, <1>5, <1>6, OtherRuns DEF ObservedRun

LEMMA StreamBreaksStep ==
  ASSUME ObservedInv, NEW r \in WatchedRuns, Observed!StreamBreaks(r)
  PROVE  ObservedInv'
<1> DEFINE own == {callCtx[r].model} \ {0}
<1>1. /\ ObservedFrame /\ ContextInv(r) /\ LineInv(r) /\ pc[r] = "calling"
      /\ pc' = [pc EXCEPT ![r] = "ends"] /\ excused' = [excused EXCEPT ![r] = excused[r] \cup own]
      /\ spans' = spans /\ counted' = counted /\ step' = step /\ ctx' = ctx
      /\ callCtx' = callCtx /\ rate' = rate /\ hooked' = hooked /\ located' = located
      /\ sampled' = sampled /\ emitted' = emitted
  BY DEF ObservedInv, Observed!StreamBreaks, Observed!Goes, Observed!moduleVars
<1>2. own \subseteq Nat /\ (\A j : j > 0 /\ j = callCtx[r].model => j \in own)
  BY <1>1 DEF ContextInv
<1>3. pc'[r] = "ends" /\ \A q \in WatchedRuns \ {r} : pc'[q] = pc[q]
  BY <1>1 DEF ObservedFrame
<1> HIDE DEF own
<1>4. /\ excused' \in [WatchedRuns -> SUBSET Nat] /\ excused'[r] = excused[r] \cup own
      /\ \A q \in WatchedRuns \ {r} : excused'[q] = excused[q]
  <2>1. excused \in [WatchedRuns -> SUBSET Nat]
    BY <1>1 DEF ObservedFrame
  <2>2. excused[r] \cup own \in SUBSET Nat
    BY <1>2, <2>1
  <2> QED
    BY <1>1, <2>1, <2>2
<1>5. pc' \in [WatchedRuns -> InStep \cup {"loop", "over", "done"}]
  BY <1>1 DEF ObservedFrame, InStep
<1>6. ASSUME NEW j \in 1..Len(spans[r]), Awaited(r, j) PROVE j \in own \/ Awaited(r, j)'
  <2>1. CASE j = callCtx[r].model
    BY <1>2, <2>1
  <2>2. CASE j = ctx[r].step /\ spans[r][j].kind = "step" /\ spans[r][j].of = step[r]
    BY <1>1, <1>3, <2>2 DEF Awaited, InStep
  <2> QED
    BY <1>6, <2>1, <2>2 DEF Awaited
<1>7. Observed!AuditKeepsItsRate'
  BY <1>1 DEF ObservedInv, Observed!AuditKeepsItsRate
<1>8. LineInv(r)'
  BY <1>1, <1>3 DEF LineInv
<1>9. hooked' \in [WatchedRuns -> Nat] /\ sampled' \in Nat /\ emitted' \in Nat
      /\ located' \in [WatchedRuns -> [says : Nat, is : Nat]]
  BY <1>1 DEF ObservedFrame
<1>10. pc[r] \in InStep /\ pc'[r] \notin {"model", "calling"} /\ excused[r] \subseteq excused'[r]
       /\ \A j \in 1..Len(spans[r]) : Awaited(r, j) => j \in excused'[r] \/ Awaited(r, j)'
  BY <1>1, <1>3, <1>4, <1>6 DEF InStep
<1>11. \A q \in WatchedRuns \ {r} : /\ pc'[q] = pc[q] /\ hooked'[q] = hooked[q]
                                   /\ excused'[q] = excused[q] /\ located'[q] = located[q]
  BY <1>1, <1>3, <1>4
<1> QED
  BY <1>1, <1>4, <1>5, <1>7, <1>8, <1>9, <1>10, <1>11, SpansLeftAlone

LEMMA BatchRunsStep ==
  ASSUME ObservedInv, NEW r \in WatchedRuns, Observed!BatchRuns(r)
  PROVE  ObservedInv'
<1>1. /\ ObservedFrame /\ ContextInv(r) /\ LineInv(r) /\ pc[r] = "hooks"
      /\ spans' = spans /\ counted' = counted /\ step' = step /\ ctx' = ctx
      /\ callCtx' = callCtx /\ rate' = rate /\ located' = located /\ excused' = excused
      /\ sampled' = sampled /\ emitted' = emitted
  BY DEF ObservedInv, Observed!BatchRuns, Observed!moduleVars
<1>2. \/ pc' = [pc EXCEPT ![r] = "results"] /\ hooked' = [hooked EXCEPT ![r] = 0]
      \/ pc' = [pc EXCEPT ![r] = "ends"] /\ hooked' = hooked
  BY DEF Observed!BatchRuns, Observed!Goes
<1>3. /\ pc' \in [WatchedRuns -> InStep \cup {"loop", "over", "done"}]
      /\ hooked' \in [WatchedRuns -> Nat] /\ pc'[r] \in {"results", "ends"}
      /\ pc'[r] = "results" => hooked'[r] = 0
      /\ \A q \in WatchedRuns \ {r} : pc'[q] = pc[q] /\ hooked'[q] = hooked[q]
  <2>1. /\ pc \in [WatchedRuns -> InStep \cup {"loop", "over", "done"}]
        /\ hooked \in [WatchedRuns -> Nat]
    BY <1>1 DEF ObservedFrame
  <2>2. CASE pc' = [pc EXCEPT ![r] = "results"] /\ hooked' = [hooked EXCEPT ![r] = 0]
    BY <2>1, <2>2 DEF InStep
  <2>3. CASE pc' = [pc EXCEPT ![r] = "ends"] /\ hooked' = hooked
    BY <2>1, <2>3 DEF InStep
  <2> QED
    BY <1>2, <2>2, <2>3
<1>4. ASSUME NEW j \in 1..Len(spans[r]), Awaited(r, j) PROVE Awaited(r, j)'
  BY <1>1, <1>3, <1>4 DEF Awaited, InStep
<1>5. Observed!AuditKeepsItsRate'
  BY <1>1 DEF ObservedInv, Observed!AuditKeepsItsRate
<1>6. LineInv(r)'
  BY <1>1, <1>3 DEF LineInv
<1>7. sampled' \in Nat /\ emitted' \in Nat /\ excused' \in [WatchedRuns -> SUBSET Nat]
      /\ located' \in [WatchedRuns -> [says : Nat, is : Nat]]
  BY <1>1 DEF ObservedFrame
<1>8. pc[r] \in InStep /\ pc'[r] \notin {"model", "calling"} /\ excused[r] \subseteq excused'[r]
      /\ \A j \in 1..Len(spans[r]) : Awaited(r, j) => j \in excused'[r] \/ Awaited(r, j)'
  BY <1>1, <1>3, <1>4 DEF InStep
<1>9. \A q \in WatchedRuns \ {r} : /\ pc'[q] = pc[q] /\ hooked'[q] = hooked[q]
                                  /\ excused'[q] = excused[q] /\ located'[q] = located[q]
  BY <1>1, <1>3
<1> QED
  BY <1>1, <1>3, <1>5, <1>6, <1>7, <1>8, <1>9, SpansLeftAlone

LEMMA ToolReturnsStep ==
  ASSUME ObservedInv, NEW r \in WatchedRuns, Observed!ToolReturns(r)
  PROVE  ObservedInv'
<1>1. /\ ObservedFrame /\ ContextInv(r) /\ LineInv(r) /\ pc[r] = "results"
      /\ step' = step /\ ctx' = ctx /\ callCtx' = callCtx /\ rate' = rate /\ excused' = excused
      /\ hooked' = [hooked EXCEPT ![r] = hooked[r] + 1]
      /\ Observed!Finishes(r, "tool", ctx[r].tool) /\ Observed!Emit(r, ctx[r].index)
  BY DEF ObservedInv, Observed!ToolReturns
<1>2. ctx[r].tool = 0 /\ ctx[r].index = step[r] /\ step[r] \in Nat
  BY <1>1 DEF ContextInv, InStep, ObservedFrame
<1>3. spans' = spans /\ counted' = counted
  BY <1>1, <1>2 DEF Observed!Finishes
<1>4. /\ sampled' \in Nat /\ emitted' \in Nat /\ Observed!AuditKeepsItsRate'
      /\ located' \in [WatchedRuns -> [says : Nat, is : Nat]]
      /\ located'[r] = [says |-> step[r], is |-> step[r]]
      /\ \A q \in WatchedRuns \ {r} : located'[q] = located[q]
  BY <1>1, <1>2, LineEmitted
<1>5. pc \in [WatchedRuns -> InStep \cup {"loop", "over", "done"}]
  BY <1>1 DEF ObservedFrame
<1>6. \E to \in {"ends", "results"} : pc' = [pc EXCEPT ![r] = to]
  <2>1. pc' = pc => pc' = [pc EXCEPT ![r] = "results"]
    BY <1>1, <1>5
  <2> QED
    BY <2>1 DEF Observed!ToolReturns, Observed!Goes
<1>7. /\ pc' \in [WatchedRuns -> InStep \cup {"loop", "over", "done"}]
      /\ hooked' \in [WatchedRuns -> Nat] /\ pc'[r] \in {"results", "ends"}
      /\ \A q \in WatchedRuns \ {r} : pc'[q] = pc[q] /\ hooked'[q] = hooked[q]
  BY <1>1, <1>5, <1>6 DEF ObservedFrame, InStep
<1>8. ASSUME NEW j \in 1..Len(spans[r]), Awaited(r, j) PROVE Awaited(r, j)'
  BY <1>1, <1>3, <1>7, <1>8 DEF Awaited, InStep
<1>9. LineInv(r)'
  BY <1>1, <1>4 DEF LineInv
<1>10. excused' \in [WatchedRuns -> SUBSET Nat]
  BY <1>1 DEF ObservedFrame
<1>11. pc[r] \in InStep /\ pc'[r] \notin {"model", "calling"} /\ excused[r] \subseteq excused'[r]
       /\ \A j \in 1..Len(spans[r]) : Awaited(r, j) => j \in excused'[r] \/ Awaited(r, j)'
  BY <1>1, <1>7, <1>8 DEF InStep
<1>12. \A q \in WatchedRuns \ {r} : /\ pc'[q] = pc[q] /\ hooked'[q] = hooked[q]
                                   /\ excused'[q] = excused[q] /\ located'[q] = located[q]
  BY <1>1, <1>4, <1>7
<1> QED
  BY <1>1, <1>3, <1>4, <1>7, <1>9, <1>10, <1>11, <1>12, SpansLeftAlone

LEMMA AgentEndsStep ==
  ASSUME ObservedInv, NEW r \in WatchedRuns, Observed!AgentEnds(r)
  PROVE  ObservedInv'
<1>1. /\ ObservedFrame /\ ContextInv(r) /\ LineInv(r) /\ pc[r] \in {"over", "loop"}
      /\ step' = step /\ ctx' = ctx /\ callCtx' = callCtx /\ rate' = rate /\ excused' = excused
      /\ hooked' = hooked /\ spans' = spans /\ counted' = counted
      /\ pc' = [pc EXCEPT ![r] = "done"] /\ Observed!Emit(r, MaxSteps) /\ MaxSteps \in Nat
  BY AgentsAssumption DEF ObservedInv, Observed!AgentEnds, Observed!Goes, Observed!NoStep
<1>2. /\ sampled' \in Nat /\ emitted' \in Nat /\ Observed!AuditKeepsItsRate'
      /\ located' \in [WatchedRuns -> [says : Nat, is : Nat]]
      /\ located'[r] = [says |-> MaxSteps, is |-> step[r]]
      /\ \A q \in WatchedRuns \ {r} : located'[q] = located[q]
  BY <1>1, LineEmitted
<1>3. /\ pc' \in [WatchedRuns -> InStep \cup {"loop", "over", "done"}] /\ pc'[r] = "done"
      /\ hooked' \in [WatchedRuns -> Nat] /\ excused' \in [WatchedRuns -> SUBSET Nat]
      /\ \A q \in WatchedRuns \ {r} : pc'[q] = pc[q]
  BY <1>1 DEF ObservedFrame
<1>4. LineInv(r)'
  BY <1>1, <1>2, <1>3 DEF LineInv
<1>5. pc'[r] \notin InStep /\ pc'[r] \notin {"model", "calling"} /\ excused[r] \subseteq excused'[r]
      /\ \A j \in 1..Len(spans[r]) : Awaited(r, j) => j \in excused'[r] \/ Awaited(r, j)'
  BY <1>1, <1>3 DEF InStep, Awaited
<1>6. \A q \in WatchedRuns \ {r} : /\ pc'[q] = pc[q] /\ hooked'[q] = hooked[q]
                                  /\ excused'[q] = excused[q] /\ located'[q] = located[q]
  BY <1>1, <1>2, <1>3
<1> QED
  BY <1>1, <1>2, <1>3, <1>4, <1>5, <1>6, SpansLeftAlone

LEMMA ObservedSame ==
  ASSUME ObservedInv, UNCHANGED observationVars PROVE ObservedInv'
<1> USE DEF observationVars
<1>1. ObservedFrame' /\ Observed!AuditKeepsItsRate'
  BY DEF ObservedInv, ObservedFrame, Observed!AuditKeepsItsRate
<1>3. CountInv'
  BY DEF ObservedInv, CountInv, Observed!Ended
<1>2. \A r \in WatchedRuns : ContextInv(r)' /\ SpanInv(r)' /\ LineInv(r)'
  BY DEF ObservedInv, ContextInv, SpanInv, SpanShape, SpanOpen, LineInv, Awaited
<1> QED
  BY <1>1, <1>2, <1>3 DEF ObservedInv

LEMMA ShutdownStep ==
  ASSUME ObservedInv, Observed!Shutdown PROVE ObservedInv'
<1> USE DEF Observed!Shutdown, Observed!runVars
<1>1. ObservedFrame' /\ Observed!AuditKeepsItsRate'
  BY DEF ObservedInv, ObservedFrame, Observed!AuditKeepsItsRate
<1>3. CountInv'
  BY DEF ObservedInv, CountInv, Observed!Ended
<1>2. \A r \in WatchedRuns : ContextInv(r)' /\ SpanInv(r)' /\ LineInv(r)'
  BY DEF ObservedInv, ContextInv, SpanInv, SpanShape, SpanOpen, LineInv, Awaited
<1> QED
  BY <1>1, <1>2, <1>3 DEF ObservedInv

LEMMA NextObservedInv ==
  ASSUME ObservedInv, Observed!ObservationNext PROVE ObservedInv'
<1>1. CASE Observed!Shutdown
  BY <1>1, ShutdownStep
<1>2. ASSUME NEW r \in WatchedRuns,
             \/ Observed!StepStarts(r) \/ Observed!ModelStarts(r) \/ Observed!AttemptEnds(r)
             \/ Observed!StreamBreaks(r) \/ Observed!ToolStarts(r) \/ Observed!BatchRuns(r)
             \/ Observed!ToolReturns(r) \/ Observed!StepEnds(r) \/ Observed!AgentEnds(r)
      PROVE  ObservedInv'
  BY <1>2, StepStartsStep, ModelStartsStep, AttemptEndsStep, StreamBreaksStep, ToolStartsStep,
     BatchRunsStep, ToolReturnsStep, StepEndsStep, AgentEndsStep
<1> QED
  BY <1>1, <1>2 DEF Observed!ObservationNext

(* So each span is ended once and counted once, unless no hook was to end   *)
(* it, and a line names the step it is about.                               *)
LEMMA ObservedIsSound == ASSUME ObservedInv PROVE Observed!RunsAreObserved
<1>1. Observed!AuditKeepsItsRate
  BY DEF ObservedInv
<1>2. Observed!StepIsKnown /\ Observed!StepIsNamed
  BY DEF ObservedInv, LineInv, Observed!StepIsKnown, Observed!StepIsNamed, Observed!NoStep
<1>3. Observed!SpansAreClosed
  <2>1. \A k \in DOMAIN counted : counted[k] = Observed!Cardinality(Observed!Ended(k))
    <3>1. DOMAIN counted = Kinds
      BY DEF ObservedInv, ObservedFrame
    <3> QED
      BY <3>1, ObservedCardinality DEF ObservedInv, CountInv
  <2>2. ASSUME NEW r \in WatchedRuns, NEW i \in DOMAIN spans[r]
        PROVE  LET s == spans[r][i] IN
               /\ s.ends <= 1
               /\ s.parent < i /\ (s.parent > 0 => spans[r][s.parent].of <= s.of)
               /\ s.recorded /\ s.ends = 0 /\ i \notin excused[r] =>
                    \/ s.kind = "model" /\ pc[r] = "calling"
                    \/ s.kind = "step" /\ pc[r] \in {"model", "calling", "hooks", "results", "ends"}
                         /\ s.of = step[r]
    <3>1. i \in 1..Len(spans[r]) /\ spans[r][i] \in Spans /\ SpanShape(r) /\ SpanOpen(r)
      BY DEF ObservedInv, ObservedFrame, SpanInv
    <3>2. spans[r][i].ends <= 1
      BY <3>1 DEF Spans
    <3> QED
      BY <3>1, <3>2 DEF SpanShape, SpanOpen, Awaited, InStep
  <2> QED
    BY <2>1, <2>2 DEF Observed!SpansAreClosed
<1> QED
  BY <1>1, <1>2, <1>3 DEF Observed!RunsAreObserved

(* Each span is ended and counted once, unless no hook was to end it; the   *)
(* audit writes its share of the lines, and each names its step             *)
(* (observability.go, audit.go, and the contexts runtime.go hands on).      *)
THEOREM RunsObserved == Observed!ObservationSpec => []Observed!RunsAreObserved
<1>1. Observed!ObservationInit => ObservedInv
  BY InitObservedInv
<1>2. ObservedInv /\ [Observed!ObservationNext]_(Observed!observationVars) => ObservedInv'
  <2>1. ASSUME ObservedInv, UNCHANGED Observed!observationVars PROVE ObservedInv'
    BY <2>1, ObservedSame
       DEF Observed!observationVars, Observed!moduleVars, Observed!runVars, observationVars
  <2> QED
    BY <2>1, NextObservedInv
<1>3. ObservedInv => Observed!RunsAreObserved
  BY ObservedIsSound
<1> QED
  BY <1>1, <1>2, <1>3, PTL DEF Observed!ObservationSpec

-----------------------------------------------------------------------------
(* The parts side by side: each keeps its invariant in the behaviours about *)
(* the others, too.                                                         *)
OrchestrationInv == WorkflowInv /\ ResultInv /\ ComposeInv /\ ObservedInv

LEMMA PartsOfStep ==
  ASSUME [OrchestrationNext]_allVars
  PROVE  /\ [WorkflowNext]_workflowVars
         /\ [Compose!CompositionNext]_compositionVars
         /\ Observed!ObservationNext \/ UNCHANGED observationVars
<1>1. CASE UNCHANGED allVars
  BY <1>1 DEF allVars, agentVars
<1>2. CASE OrchestrationNext
  BY <1>2 DEF OrchestrationNext, agentVars
<1> QED
  BY <1>1, <1>2

(* Agents together are sound: a workflow hides no item that was cut short   *)
(* (Engine.Run); of several agents each is heard once and in its place, and *)
(* nobody waits for a goroutine that waits for it (parallelAgent.Run,       *)
(* SpawnAndWait, chainAgent.Run, pipeAgent.Run); what is recorded of a run  *)
(* is what it did (observability.go, audit.go).                             *)
THEOREM AgentsSound == OrchestrationSpec => []AgentsAreSound
<1>1. ASSUME OrchestrationInit PROVE OrchestrationInv
  <2>1. WorkflowInit /\ Compose!CompositionInit /\ Observed!ObservationInit
    BY <1>1 DEF OrchestrationInit
  <2>2. ComposeInv
    BY <2>1, InitTogether, InitChain DEF ComposeInv
  <2> QED
    BY <2>1, <2>2, InitWorkflowInv, InitResultInv, InitObservedInv DEF OrchestrationInv
<1>2. ASSUME OrchestrationInv, [OrchestrationNext]_allVars PROVE OrchestrationInv'
  <2>1. /\ [WorkflowNext]_workflowVars
        /\ [Compose!CompositionNext]_compositionVars
        /\ Observed!ObservationNext \/ UNCHANGED observationVars
    BY <1>2, PartsOfStep
  <2>2. WorkflowInv' /\ ResultInv'
    BY <1>2, <2>1, NextWorkflowInv, NextResultInv DEF OrchestrationInv
  <2>3. ComposeInv'
    BY <1>2, <2>1, NextComposeInv DEF OrchestrationInv
  <2>4. ObservedInv'
    BY <1>2, <2>1, NextObservedInv, ObservedSame DEF OrchestrationInv
  <2> QED
    BY <2>2, <2>3, <2>4 DEF OrchestrationInv
<1>3. ASSUME OrchestrationInv PROVE AgentsAreSound
  BY <1>3, ResultIsWhole, ComposeIsSound, ObservedIsSound DEF OrchestrationInv, AgentsAreSound
<1> QED
  BY <1>1, <1>2, <1>3, PTL DEF OrchestrationSpec
=============================================================================
