--------------------------- MODULE JobRegistryProofs ---------------------------
(***************************************************************************)
(* Proofs about JobRegistry for every set of Start calls, owners, ids and  *)
(* caps.                                                                   *)
(***************************************************************************)
EXTENDS JobRegistry, FiniteSetTheorems, TLAPS

Settled == {"recorded", "noticed", "published", "finished"}

(* The strengthening: how an entry's record follows its goroutine.         *)
LifeInv ==
  \A e \in Entries :
    /\ pc[e] \in Settled => status[e] \in Terminal
    /\ pc[e] \notin {"noticed", "published", "finished"} => notices[e] = <<>>
    /\ notices[e] # <<>> => notices[e] = <<status[e]>>
    /\ Listed(e) => pc[e] # "unused"
    /\ Listed(e) /\ status[e] \in Terminal => pc[e] \in Settled

JobInv == TypeOK /\ LifeInv

LEMMA InitJobInv == Init => JobInv
<1> SUFFICES ASSUME Init PROVE JobInv
  OBVIOUS
<1>1. DOMAIN items = {}
  BY DEF Init
<1>2. <<>> \in Seq(Terminal)
  OBVIOUS
<1>3. notices \in [Entries -> Seq(Terminal)]
  BY <1>2 DEF Init
<1>4. TypeOK
  BY <1>1, <1>3, JobAssumption DEF Init, TypeOK, Status, Stages, AnyOwner
<1>5. LifeInv
  BY <1>1 DEF Init, LifeInv, Settled, Listed, Terminal
<1> QED
  BY <1>4, <1>5 DEF JobInv

(* Registering an entry keeps the shape of the record.                     *)
LEMMA StartJobInv ==
  ASSUME JobInv, NEW e \in Entries, NEW o \in AnyOwner,
         NEW x \in ExplicitIds \cup {NoId}, Start(e, o, x)
  PROVE  JobInv'
<1> DEFINE i == IF x = NoId THEN seq + 1 ELSE x
<1>1. i \in Nat
  BY JobAssumption DEF JobInv, TypeOK
<1>2. items' = Put(items, i, e) /\ id' = [id EXCEPT ![e] = i]
  BY DEF Start
<1>3. DOMAIN items' = DOMAIN items \cup {i}
  BY <1>2 DEF Put
<1>4. \A k \in DOMAIN items' : items'[k] \in Entries
  BY <1>2, <1>3 DEF Put, JobInv, TypeOK
<1>5. perOwner' \in [Owners -> Nat] /\ seq' \in Nat
  BY DEF Start, JobInv, TypeOK
<1>6. TypeOK'
  BY <1>1, <1>2, <1>3, <1>4, <1>5
     DEF Start, JobInv, TypeOK, callVars, seenVars, Status, Stages
<1>7. \A d \in Entries : Listed(d)' => Listed(d) \/ d = e
  BY <1>2, <1>3 DEF Put, Listed
<1>8. LifeInv'
  BY <1>7 DEF Start, JobInv, TypeOK, LifeInv, seenVars, Settled, Terminal
<1> QED
  BY <1>6, <1>8 DEF JobInv

LEMMA ListType ==
  ASSUME TypeOK, NEW o
  PROVE  List(o) \in SUBSET (Nat \X Status)
  BY DEF TypeOK, List

(* The goroutine's own steps.                                              *)
LEMMA GoroutineJobInv ==
  ASSUME JobInv, NEW e \in Entries, Goroutine(e)
  PROVE  JobInv'
<1> USE DEF JobInv
<1>1. CASE Launch(e)
  <2>1. view' \in [Owners -> SUBSET (Nat \X Status)]
    BY <1>1, ListType DEF Launch, FireChanged, TypeOK
  <2>2. TypeOK'
    BY <1>1, <2>1 DEF Launch, TypeOK, regVars, callVars, Stages
  <2>3. LifeInv'
    BY <1>1 DEF Launch, TypeOK, LifeInv, regVars, Listed, Settled
  <2> QED
    BY <2>2, <2>3
<1>2. CASE RecordOutcome(e)
  <2>1. Outcome(e) \in Terminal
    BY DEF Outcome, Terminal
  <2>2. TypeOK'
    BY <1>2, <2>1 DEF RecordOutcome, TypeOK, regVars, callVars, seenVars, Stages, Status
  <2>3. LifeInv'
    BY <1>2, <2>1 DEF RecordOutcome, TypeOK, LifeInv, regVars, seenVars, Listed, Settled
  <2> QED
    BY <2>2, <2>3
<1>3. CASE SettleNotify(e)
  <2>1. notices[e] = <<>> /\ status[e] \in Terminal
    BY <1>3 DEF SettleNotify, LifeInv, Settled
  <2>2. Append(notices[e], status[e]) = <<status[e]>>
    BY <2>1
  <2>3. <<status[e]>> \in Seq(Terminal)
    BY <2>1
  <2>4. notices' = IF notifier THEN [notices EXCEPT ![e] = <<status[e]>>] ELSE notices
    BY <1>3, <2>2 DEF SettleNotify
  <2>5. notices' \in [Entries -> Seq(Terminal)]
    BY <2>3, <2>4 DEF TypeOK
  <2>6. TypeOK'
    BY <1>3, <2>5 DEF SettleNotify, TypeOK, regVars, callVars, Stages
  <2>7. LifeInv'
    BY <1>3, <2>1, <2>4 DEF SettleNotify, TypeOK, LifeInv, regVars, Listed, Settled
  <2> QED
    BY <2>6, <2>7
<1>4. CASE SettlePublish(e)
  <2>1. view' \in [Owners -> SUBSET (Nat \X Status)]
    BY <1>4, ListType DEF SettlePublish, FireChanged, TypeOK
  <2>2. TypeOK'
    BY <1>4, <2>1 DEF SettlePublish, TypeOK, regVars, callVars, Stages
  <2>3. LifeInv'
    BY <1>4 DEF SettlePublish, TypeOK, LifeInv, regVars, Listed, Settled
  <2> QED
    BY <2>2, <2>3
<1>5. CASE Release(e)
  <2>1. \A n \in Nat : Decrement(n) \in Nat
    BY DEF Decrement
  <2>2. perOwner' \in [Owners -> Nat]
    BY <1>5, <2>1 DEF Release, TypeOK
  <2>3. TypeOK'
    BY <1>5, <2>2 DEF Release, TypeOK, callVars, seenVars, Stages
  <2>4. LifeInv'
    BY <1>5 DEF Release, TypeOK, LifeInv, seenVars, Listed, Settled
  <2> QED
    BY <2>3, <2>4
<1> QED
  BY <1>1, <1>2, <1>3, <1>4, <1>5 DEF Goroutine

(* Kill and Teardown.                                                      *)
LEMMA KillJobInv ==
  ASSUME JobInv, NEW e \in Entries, KillStep(e)
  PROVE  JobInv'
<1> USE DEF JobInv
<1>1. CASE KillMark(e)
  <2>1. TypeOK'
    BY <1>1 DEF KillMark, TypeOK, regVars, seenVars, Status
  <2>2. LifeInv'
    BY <1>1 DEF KillMark, Killable, TypeOK, LifeInv, regVars, seenVars, Listed, Settled,
                Terminal
  <2> QED
    BY <2>1, <2>2
<1>2. CASE KillCancel(e)
  <2>1. view' \in [Owners -> SUBSET (Nat \X Status)]
    BY <1>2, ListType DEF KillCancel, FireChanged, TypeOK
  <2>2. TypeOK'
    BY <1>2, <2>1 DEF KillCancel, TypeOK, regVars
  <2>3. LifeInv'
    BY <1>2 DEF KillCancel, TypeOK, LifeInv, regVars, Listed, Settled
  <2> QED
    BY <2>2, <2>3
<1> QED
  BY <1>1, <1>2 DEF KillStep

LEMMA TeardownMarkJobInv ==
  ASSUME JobInv, NEW o \in Owners, TeardownMark(o)
  PROVE  JobInv'
<1> USE DEF JobInv
<1>1. /\ DOMAIN items' \subseteq DOMAIN items
      /\ \A k \in DOMAIN items' : items'[k] = items[k] /\ items[k] \notin Forced(o)
  BY DEF TeardownMark, Drop, Forgotten, Forced
<1>2. status' \in [Entries -> Status]
  BY DEF TeardownMark, TypeOK, Status, Terminal
<1>3. TypeOK'
  BY <1>1, <1>2 DEF TeardownMark, TypeOK, Forced, Mine
<1>4. \A e \in Entries : Listed(e)' => Listed(e) /\ e \notin Forced(o)
  BY <1>1 DEF Listed
<1>5. \A e \in Entries : e \in Forced(o) => pc[e] \notin Settled
  BY DEF Forced, LifeInv, Terminal
<1>6. LifeInv'
  BY <1>4, <1>5 DEF TeardownMark, TypeOK, LifeInv, Settled, Terminal
<1> QED
  BY <1>3, <1>6

LEMMA NextJobInv == JobInv /\ [Next]_vars => JobInv'
<1> SUFFICES ASSUME JobInv, [Next]_vars PROVE JobInv'
  OBVIOUS
<1>1. CASE SetNotifier
  BY <1>1 DEF SetNotifier, JobInv, TypeOK, LifeInv, Listed, entryVars, callVars, seenVars
<1>2. ASSUME NEW n \in CapSettings, SetMaxPerOwner(n) PROVE JobInv'
  <2>1. maxPerOwner' \in Nat
    BY <1>2, JobAssumption DEF SetMaxPerOwner
  <2> QED
    BY <1>2, <2>1
       DEF SetMaxPerOwner, JobInv, TypeOK, LifeInv, Listed, entryVars, callVars, seenVars
<1>3. ASSUME NEW e \in Entries, NEW o \in AnyOwner, NEW x \in ExplicitIds \cup {NoId},
             Start(e, o, x)
      PROVE  JobInv'
  BY <1>3, StartJobInv
<1>4. ASSUME NEW e \in Entries, Goroutine(e) PROVE JobInv'
  BY <1>4, GoroutineJobInv
<1>5. ASSUME NEW e \in Entries, NEW failed \in BOOLEAN, RunReturns(e, failed)
      PROVE  JobInv'
  <2>1. TypeOK'
    BY <1>5 DEF RunReturns, JobInv, TypeOK, regVars, callVars, seenVars, Stages
  <2>2. LifeInv'
    BY <1>5 DEF RunReturns, JobInv, TypeOK, LifeInv, Listed, regVars, seenVars, Settled
  <2> QED
    BY <2>1, <2>2 DEF JobInv
<1>6. ASSUME NEW i \in DOMAIN items, KillLookup(i) PROVE JobInv'
  BY <1>6 DEF KillLookup, JobInv, TypeOK, LifeInv, Listed, regVars, entryVars, seenVars
<1>7. ASSUME NEW e \in Entries, KillStep(e) PROVE JobInv'
  BY <1>7, KillJobInv
<1>8. ASSUME NEW o \in Owners, TeardownMark(o) PROVE JobInv'
  BY <1>8, TeardownMarkJobInv
<1>9. ASSUME NEW o \in Owners, TeardownCancel(o) PROVE JobInv'
  <2>1. view' \in [Owners -> SUBSET (Nat \X Status)]
    BY <1>9, ListType DEF TeardownCancel, FireChanged, JobInv, TypeOK
  <2>2. TypeOK'
    BY <1>9, <2>1 DEF TeardownCancel, Collected, JobInv, TypeOK, regVars
  <2>3. LifeInv'
    BY <1>9 DEF TeardownCancel, JobInv, LifeInv, Listed, regVars
  <2> QED
    BY <2>2, <2>3 DEF JobInv
<1>10. CASE UNCHANGED vars
  BY <1>10 DEF vars, regVars, entryVars, callVars, seenVars, JobInv, TypeOK, LifeInv, Listed
<1> QED
  BY <1>1, <1>2, <1>3, <1>4, <1>5, <1>6, <1>7, <1>8, <1>9, <1>10 DEF Next

(* Every reachable state is well typed and satisfies the strengthening.    *)
THEOREM JobInvariant == Spec => []JobInv
  BY InitJobInv, NextJobInv, PTL DEF Spec

(* The registry's variables keep their types: no owner's count of running  *)
(* jobs goes below zero, whatever Teardown resets under a running job.     *)
THEOREM TypeCorrect == Spec => []TypeOK
  BY JobInvariant, PTL DEF JobInv

(* settle reports a job at most once, with the status its record keeps.    *)
THEOREM NoticesAreHonest == Spec => []NoticeAgreesWithRecord
<1>1. JobInv => NoticeAgreesWithRecord
  BY DEF JobInv, LifeInv, NoticeAgreesWithRecord
<1> QED
  BY <1>1, JobInvariant, PTL

-----------------------------------------------------------------------------
(* Slots.                                                                  *)
LEMMA HoldingFinite ==
  ASSUME NEW o
  PROVE  /\ IsFiniteSet(Holding(o))
         /\ Cardinality(Holding(o)) \in Nat
<1>1. IsFiniteSet(Holding(o))
  BY JobAssumption, FS_Subset DEF Holding
<1> QED
  BY <1>1, FS_CardinalityType

SlotInv == NoLeakedSlot /\ ExactSlots

(* Start charges one slot and adds one entry.                              *)
LEMMA StartHolding ==
  ASSUME JobInv, NEW e \in Entries, NEW o \in AnyOwner,
         NEW x \in ExplicitIds \cup {NoId}, Start(e, o, x), NEW p \in Owners
  PROVE  /\ p # o => Holding(p)' = Holding(p)
         /\ p = o => Cardinality(Holding(p)') = Cardinality(Holding(p)) + 1
<1>1. pc[e] = "unused" /\ pc' = [pc EXCEPT ![e] = "registered"]
                       /\ owner' = [owner EXCEPT ![e] = o]
  BY DEF Start
<1>2. p # o => Holding(p)' = Holding(p)
  BY <1>1 DEF Holding, JobInv, TypeOK
<1>3. p = o => Holding(p)' = Holding(p) \cup {e} /\ e \notin Holding(p)
  BY <1>1 DEF Holding, JobInv, TypeOK
<1> QED
  BY <1>2, <1>3, HoldingFinite, FS_AddElement

(* Release gives the entry's slot back.                                    *)
LEMMA ReleaseHolding ==
  ASSUME JobInv, NEW e \in Entries, Release(e), NEW p \in Owners
  PROVE  /\ p # owner[e] => Holding(p)' = Holding(p)
         /\ p = owner[e] => /\ Cardinality(Holding(p)) > 0
                           /\ Cardinality(Holding(p)') = Cardinality(Holding(p)) - 1
<1>1. pc[e] = "published" /\ pc' = [pc EXCEPT ![e] = "finished"] /\ owner' = owner
  BY DEF Release
<1>2. p # owner[e] => Holding(p)' = Holding(p)
  BY <1>1 DEF Holding, JobInv, TypeOK
<1>3. p = owner[e] => Holding(p)' = Holding(p) \ {e} /\ e \in Holding(p)
  BY <1>1 DEF Holding, JobInv, TypeOK
<1>4. p = owner[e] => Cardinality(Holding(p)') = Cardinality(Holding(p)) - 1
  BY <1>3, HoldingFinite, FS_RemoveElement
<1>5. p = owner[e] => Cardinality(Holding(p)) > 0
  BY <1>3, HoldingFinite, FS_EmptySet
<1> QED
  BY <1>2, <1>4, <1>5

(* No other step changes who holds a slot.                                 *)
LEMMA OtherHolding ==
  ASSUME JobInv, NEW p \in Owners, owner' = owner,
         pc' = pc \/ \E e \in Entries, s \in Stages \ {"unused", "finished"} :
                      pc[e] \notin {"unused", "finished"} /\ pc' = [pc EXCEPT ![e] = s]
  PROVE  Holding(p)' = Holding(p)
  BY DEF Holding, JobInv, TypeOK

LEMMA QuietStep ==
  ASSUME JobInv, [Next]_vars,
         ~ \E e \in Entries, o \in AnyOwner, x \in ExplicitIds \cup {NoId} : Start(e, o, x),
         ~ \E e \in Entries : Release(e)
  PROVE  /\ \A p \in Owners : Holding(p)' = Holding(p)
         /\ \A p \in Owners : perOwner'[p] = perOwner[p] \/ (perOwner'[p] = 0 /\ p \in tornDown')
         /\ tornDown \subseteq tornDown'
<1>1. CASE SetNotifier
  BY <1>1, OtherHolding DEF SetNotifier, entryVars, seenVars
<1>2. CASE \E n \in CapSettings : SetMaxPerOwner(n)
  BY <1>2, OtherHolding DEF SetMaxPerOwner, entryVars, seenVars
<1>3. ASSUME NEW e \in Entries, Goroutine(e)
      PROVE  /\ \A p \in Owners : Holding(p)' = Holding(p)
             /\ perOwner' = perOwner /\ tornDown' = tornDown
  <2>1. Launch(e) \/ RecordOutcome(e) \/ SettleNotify(e) \/ SettlePublish(e)
    BY <1>3 DEF Goroutine
  <2>2. /\ owner' = owner /\ pc[e] \notin {"unused", "finished"}
        /\ perOwner' = perOwner /\ tornDown' = tornDown
        /\ \E s \in Stages \ {"unused", "finished"} : pc' = [pc EXCEPT ![e] = s]
    BY <2>1 DEF Launch, RecordOutcome, SettleNotify, SettlePublish, regVars, seenVars, Stages
  <2> QED
    BY <2>2, OtherHolding
<1>4. ASSUME NEW e \in Entries, NEW failed \in BOOLEAN, RunReturns(e, failed)
      PROVE  /\ \A p \in Owners : Holding(p)' = Holding(p)
             /\ perOwner' = perOwner /\ tornDown' = tornDown
  BY <1>4, OtherHolding DEF RunReturns, regVars, seenVars, Stages
<1>5. CASE \E i \in DOMAIN items : KillLookup(i)
  BY <1>5, OtherHolding DEF KillLookup, regVars, entryVars, seenVars
<1>6. CASE \E e \in Entries : KillStep(e)
  BY <1>6, OtherHolding DEF KillStep, KillMark, KillCancel, regVars, seenVars
<1>7. ASSUME NEW o \in Owners, TeardownMark(o)
      PROVE  /\ \A p \in Owners : Holding(p)' = Holding(p)
             /\ \A p \in Owners : perOwner'[p] = perOwner[p]
                                  \/ (perOwner'[p] = 0 /\ p \in tornDown')
             /\ tornDown \subseteq tornDown'
  BY <1>7, OtherHolding DEF TeardownMark, JobInv, TypeOK
<1>8. CASE \E o \in Owners : TeardownCancel(o)
  BY <1>8, OtherHolding DEF TeardownCancel, regVars
<1>9. CASE UNCHANGED vars
  BY <1>9, OtherHolding DEF vars, regVars, entryVars, seenVars
<1> QED
  BY <1>1, <1>2, <1>3, <1>4, <1>5, <1>6, <1>7, <1>8, <1>9 DEF Next

LEMMA NextSlotInv == JobInv /\ SlotInv /\ [Next]_vars => SlotInv'
<1> SUFFICES ASSUME JobInv, SlotInv, [Next]_vars PROVE SlotInv'
  OBVIOUS
<1> USE DEF SlotInv, NoLeakedSlot, ExactSlots
<1>1. \A p \in Owners : perOwner[p] \in Nat
  BY DEF JobInv, TypeOK
<1>2. ASSUME NEW e \in Entries, NEW o \in AnyOwner, NEW x \in ExplicitIds \cup {NoId},
             Start(e, o, x)
      PROVE  SlotInv'
  <2>1. \A p \in Owners : perOwner'[p] = IF p = o THEN perOwner[p] + 1 ELSE perOwner[p]
    BY <1>2 DEF Start, JobInv, TypeOK
  <2>2. tornDown' = tornDown
    BY <1>2 DEF Start, seenVars
  <2> QED
    BY <1>1, <1>2, <2>1, <2>2, StartHolding, HoldingFinite
<1>3. ASSUME NEW e \in Entries, Release(e) PROVE SlotInv'
  <2>1. \A p \in Owners :
          perOwner'[p] = IF p = owner[e] THEN Decrement(perOwner[p]) ELSE perOwner[p]
    BY <1>3 DEF Release, JobInv, TypeOK
  <2>2. tornDown' = tornDown
    BY <1>3 DEF Release, seenVars
  <2> QED
    BY <1>1, <1>3, <2>1, <2>2, ReleaseHolding, HoldingFinite DEF Decrement
<1>4. CASE /\ ~ \E e \in Entries, o \in AnyOwner, x \in ExplicitIds \cup {NoId} : Start(e, o, x)
           /\ ~ \E e \in Entries : Release(e)
  BY <1>1, <1>4, QuietStep, HoldingFinite
<1> QED
  BY <1>2, <1>3, <1>4

LEMMA InitSlotInv == Init => SlotInv
<1> SUFFICES ASSUME Init PROVE SlotInv
  OBVIOUS
<1>1. \A o : Holding(o) = {}
  BY DEF Init, Holding
<1>2. Cardinality({}) = 0
  BY FS_EmptySet
<1>3. \A o \in Owners : perOwner[o] = 0 /\ Cardinality(Holding(o)) = 0
  BY <1>1, <1>2 DEF Init
<1> QED
  BY <1>3 DEF SlotInv, NoLeakedSlot, ExactSlots

THEOREM SlotInvariant == Spec => []SlotInv
  BY InitSlotInv, NextSlotInv, JobInvariant, PTL DEF Spec

(* An owner is never charged for more jobs than it has work in progress:   *)
(* the guard in release keeps Teardown's reset from leaking a slot.        *)
THEOREM SlotsNeverLeak == Spec => []NoLeakedSlot
  BY SlotInvariant, PTL DEF SlotInv

(* Until its first Teardown an owner is charged exactly.                   *)
THEOREM SlotsAreExact == Spec => []ExactSlots
  BY SlotInvariant, PTL DEF SlotInv

(* The count the cap is tested against is exact until the first Teardown   *)
(* and never too high after it.                                            *)
THEOREM SlotsAreAccounted == Spec => []SlotsAccounted
  BY SlotsNeverLeak, SlotsAreExact, PTL DEF SlotsAccounted

(* Until its first Teardown an owner's work in progress grows only within  *)
(* the cap.                                                                *)
THEOREM CapIsRespected == Spec => AdmittedUnderCap
<1>1. JobInv /\ SlotInv /\ [Next]_vars
        => [\A o \in Owners \ tornDown :
               Cardinality(Holding(o)') > Cardinality(Holding(o))
                 => Cardinality(Holding(o)') <= maxPerOwner]_vars
  <2> SUFFICES ASSUME JobInv, SlotInv, [Next]_vars, NEW p \in Owners \ tornDown,
                      Cardinality(Holding(p)') > Cardinality(Holding(p))
               PROVE  Cardinality(Holding(p)') <= maxPerOwner
    OBVIOUS
  <2>1. Cardinality(Holding(p)) \in Nat /\ perOwner[p] = Cardinality(Holding(p))
    BY HoldingFinite DEF SlotInv, ExactSlots
  <2>2. ~ \E e \in Entries : Release(e)
    BY <2>1, ReleaseHolding
  <2>3. PICK e \in Entries, o \in AnyOwner, x \in ExplicitIds \cup {NoId} : Start(e, o, x)
    BY <2>1, <2>2, QuietStep
  <2>4. p = o
    BY <2>1, <2>3, StartHolding
  <2>5. perOwner[p] < maxPerOwner
    BY <2>3, <2>4 DEF Start, HasRoom
  <2> QED
    BY <2>1, <2>3, <2>4, <2>5, StartHolding DEF JobInv, TypeOK
<1> QED
  BY <1>1, JobInvariant, SlotInvariant, PTL DEF Spec, AdmittedUnderCap

-----------------------------------------------------------------------------
(* A listed terminal record is never rewritten.                            *)
THEOREM RecordsAreStable == Spec => RecordStable
<1>1. JobInv /\ [Next]_vars
        => [\A e \in Entries : Listed(e) /\ status[e] \in Terminal /\ Listed(e)'
              => status'[e] = status[e]]_vars
  <2> SUFFICES ASSUME JobInv, [Next]_vars, NEW d \in Entries,
                      Listed(d), status[d] \in Terminal, Listed(d)'
               PROVE  status'[d] = status[d]
    OBVIOUS
  <2>1. pc[d] \in Settled
    BY DEF JobInv, LifeInv
  <2>2. ASSUME NEW e \in Entries, NEW o \in AnyOwner, NEW x \in ExplicitIds \cup {NoId},
               Start(e, o, x)
        PROVE  status'[d] = status[d]
    BY <2>1, <2>2 DEF Start, Settled, JobInv, TypeOK
  <2>3. ASSUME NEW e \in Entries, Goroutine(e) PROVE status'[d] = status[d]
    BY <2>1, <2>3 DEF Goroutine, Launch, RecordOutcome, SettleNotify, SettlePublish, Release,
                      Settled, JobInv, TypeOK
  <2>4. ASSUME NEW e \in Entries, KillStep(e) PROVE status'[d] = status[d]
    BY <2>4 DEF KillStep, KillMark, KillCancel, Killable, Terminal, JobInv, TypeOK
  <2>5. ASSUME NEW o \in Owners, TeardownMark(o) PROVE status'[d] = status[d]
    BY <2>5 DEF TeardownMark, Forced, Terminal
  <2>6. CASE \/ SetNotifier
             \/ \E n \in CapSettings : SetMaxPerOwner(n)
             \/ \E e \in Entries, failed \in BOOLEAN : RunReturns(e, failed)
             \/ \E i \in DOMAIN items : KillLookup(i)
             \/ \E o \in Owners : TeardownCancel(o)
             \/ UNCHANGED vars
    BY <2>6 DEF SetNotifier, SetMaxPerOwner, RunReturns, KillLookup, TeardownCancel, vars,
                entryVars
  <2> QED
    BY <2>2, <2>3, <2>4, <2>5, <2>6 DEF Next
<1> QED
  BY <1>1, JobInvariant, PTL DEF Spec, RecordStable

-----------------------------------------------------------------------------
(* The change feed.  It holds where no explicit id has a number the        *)
(* sequence can come to: an automatic id is not compared with the ids in   *)
(* use, so it would take such an id's record over (see IdsUnique).         *)
IdsOutOfReach == \A x \in ExplicitIds : x > Cardinality(Entries)

Started == {e \in Entries : pc[e] # "unused"}

(* The strengthening: each Start takes the sequence one further at most,   *)
(* and what the map holds is either numbered by it or explicit.            *)
IdInv ==
  /\ seq <= Cardinality(Started)
  /\ \A i \in DOMAIN items : i <= seq \/ i \in ExplicitIds
  /\ RecordNotLost
  /\ \A e \in Entries : pc[e] = "unused" => owner[e] = NoOwner

FeedInv == IdInv /\ ChangedFeedConverges

LEMMA StartedFinite ==
  /\ IsFiniteSet(Started) /\ Cardinality(Started) \in Nat
  /\ Cardinality(Started) <= Cardinality(Entries)
  /\ Cardinality(Entries) \in Nat
<1>1. Started \subseteq Entries
  BY DEF Started
<1> QED
  BY <1>1, JobAssumption, FS_Subset, FS_CardinalityType

LEMMA InitFeedInv == Init => FeedInv
<1> SUFFICES ASSUME Init PROVE FeedInv
  OBVIOUS
<1>1. DOMAIN items = {}
  BY DEF Init
<1>2. IdInv
  BY <1>1, StartedFinite DEF Init, IdInv, RecordNotLost
<1>3. ChangedFeedConverges
  BY <1>1 DEF Init, ChangedFeedConverges, List
<1> QED
  BY <1>2, <1>3 DEF FeedInv

(* A Start uses an id that no listed job has.                              *)
LEMMA StartId ==
  ASSUME IdsOutOfReach, JobInv, IdInv, NEW e \in Entries, NEW o \in AnyOwner,
         NEW x \in ExplicitIds \cup {NoId}, Start(e, o, x)
  PROVE  /\ id'[e] \notin DOMAIN items
         /\ DOMAIN items' = DOMAIN items \cup {id'[e]}
         /\ items'[id'[e]] = e
         /\ \A i \in DOMAIN items : items'[i] = items[i]
         /\ seq' <= Cardinality(Started')
         /\ id'[e] <= seq' \/ id'[e] \in ExplicitIds
         /\ seq <= seq'
<1> DEFINE i == IF x = NoId THEN seq + 1 ELSE x
<1>1. id'[e] = i /\ items' = Put(items, i, e)
  BY DEF Start, JobInv, TypeOK
<1>2. Started' = Started \cup {e} /\ e \notin Started
  BY DEF Start, Started, JobInv, TypeOK
<1>3. Cardinality(Started') = Cardinality(Started) + 1
  BY <1>2, StartedFinite, FS_AddElement
<1>4. seq \in Nat /\ seq' = IF x = NoId THEN seq + 1 ELSE seq
  BY DEF Start, JobInv, TypeOK
<1>5. seq <= Cardinality(Started) /\ Cardinality(Started) < Cardinality(Entries)
  <2>1. Cardinality(Started') <= Cardinality(Entries)
    <3>1. Started' \subseteq Entries
      BY DEF Started
    <3> QED
      BY <3>1, JobAssumption, FS_Subset
  <2> QED
    BY <2>1, <1>3, StartedFinite DEF IdInv
<1>6. i \notin DOMAIN items
  <2>1. CASE x = NoId
    <3>1. i = seq + 1 /\ seq + 1 <= Cardinality(Entries)
      BY <2>1, <1>4, <1>5, StartedFinite
    <3>2. \A k \in DOMAIN items : k \in Nat /\ (k <= seq \/ k > Cardinality(Entries))
      BY DEF IdInv, IdsOutOfReach, JobInv, TypeOK
    <3> HIDE DEF i
    <3> QED
      BY <3>1, <3>2, <1>4, StartedFinite
  <2>2. CASE x # NoId
    BY <2>2 DEF Start, Free
  <2> QED
    BY <2>1, <2>2
<1>7. /\ DOMAIN items' = DOMAIN items \cup {i} /\ items'[i] = e
      /\ \A k \in DOMAIN items : items'[k] = items[k]
  BY <1>1, <1>6 DEF Put
<1> HIDE DEF i
<1>8. i <= seq' \/ i \in ExplicitIds
  BY <1>4 DEF i
<1> QED
  BY <1>1, <1>3, <1>4, <1>5, <1>6, <1>7, <1>8, StartedFinite

LEMMA NextIdInv == ASSUME IdsOutOfReach PROVE JobInv /\ IdInv /\ [Next]_vars => IdInv'
<1> SUFFICES ASSUME JobInv, IdInv, [Next]_vars PROVE IdInv'
  OBVIOUS
<1>1. ASSUME NEW e \in Entries, NEW o \in AnyOwner, NEW x \in ExplicitIds \cup {NoId},
             Start(e, o, x)
      PROVE  IdInv'
  <2>1. /\ pc[e] = "unused" /\ pc' = [pc EXCEPT ![e] = "registered"]
        /\ id' = [id EXCEPT ![e] = id'[e]] /\ owner' = [owner EXCEPT ![e] = o]
        /\ tornDown' = tornDown
    BY <1>1 DEF Start, seenVars, JobInv, TypeOK
  <2>2. /\ id'[e] \notin DOMAIN items
        /\ DOMAIN items' = DOMAIN items \cup {id'[e]}
        /\ items'[id'[e]] = e
        /\ \A i \in DOMAIN items : items'[i] = items[i]
        /\ id'[e] <= seq' \/ id'[e] \in ExplicitIds
        /\ seq <= seq'
    BY <1>1, StartId
  <2>3. \A d \in Entries \ {e} : pc'[d] = pc[d] /\ id'[d] = id[d] /\ owner'[d] = owner[d]
    BY <2>1 DEF JobInv, TypeOK
  <2>4. RecordNotLost'
    BY <2>1, <2>2, <2>3 DEF RecordNotLost, IdInv
  <2>5. \A k \in DOMAIN items' : k <= seq' \/ k \in ExplicitIds
    <3>1. seq \in Nat /\ seq' \in Nat /\ DOMAIN items \subseteq Nat
      BY <1>1, StartJobInv DEF JobInv, TypeOK
    <3> QED
      BY <2>2, <3>1 DEF IdInv
  <2> QED
    BY <1>1, <2>1, <2>4, <2>5, StartId DEF IdInv, JobInv, TypeOK
<1>2. ASSUME NEW o \in Owners, TeardownMark(o) PROVE IdInv'
  <2>1. /\ DOMAIN items' = DOMAIN items \ Forgotten(o)
        /\ \A k \in DOMAIN items' : items'[k] = items[k]
    BY <1>2 DEF TeardownMark, Drop
  <2>2. \A k \in Forgotten(o) : owner[items[k]] = o
    BY DEF Forgotten, Mine
  <2>3. /\ pc' = pc /\ id' = id /\ owner' = owner /\ seq' = seq
        /\ tornDown' = tornDown \cup {o}
    BY <1>2 DEF TeardownMark
  <2>4. RecordNotLost'
    BY <2>1, <2>2, <2>3 DEF RecordNotLost, IdInv
  <2> QED
    BY <2>1, <2>3, <2>4 DEF IdInv, Started
<1>3. ASSUME UNCHANGED <<items, seq, id, owner, tornDown>>,
             pc' = pc \/ \E e \in Entries, s \in Stages \ {"unused"} :
                           pc[e] # "unused" /\ pc' = [pc EXCEPT ![e] = s]
      PROVE  IdInv'
  <2>1. \A e \in Entries : pc'[e] = "unused" <=> pc[e] = "unused"
    BY <1>3 DEF JobInv, TypeOK
  <2>2. Started' = Started
    BY <2>1 DEF Started
  <2> QED
    BY <1>3, <2>1, <2>2 DEF IdInv, RecordNotLost
<1>4. ASSUME NEW e \in Entries, Goroutine(e) PROVE IdInv'
  <2>1. /\ UNCHANGED <<items, seq, id, owner, tornDown>> /\ pc[e] # "unused"
        /\ \E s \in Stages \ {"unused"} : pc' = [pc EXCEPT ![e] = s]
    BY <1>4 DEF Goroutine, Launch, RecordOutcome, SettleNotify, SettlePublish, Release,
                regVars, seenVars, Stages
  <2> QED
    BY <2>1, <1>3
<1>5. ASSUME NEW e \in Entries, NEW failed \in BOOLEAN, RunReturns(e, failed) PROVE IdInv'
  <2>1. /\ UNCHANGED <<items, seq, id, owner, tornDown>> /\ pc[e] # "unused"
        /\ \E s \in Stages \ {"unused"} : pc' = [pc EXCEPT ![e] = s]
    BY <1>5 DEF RunReturns, regVars, seenVars, Stages
  <2> QED
    BY <2>1, <1>3
<1>6. CASE \/ SetNotifier
           \/ \E n \in CapSettings : SetMaxPerOwner(n)
           \/ \E i \in DOMAIN items : KillLookup(i)
           \/ \E e \in Entries : KillStep(e)
           \/ \E o \in Owners : TeardownCancel(o)
           \/ UNCHANGED vars
  <2>1. UNCHANGED <<items, seq, id, owner, tornDown, pc>>
    BY <1>6 DEF SetNotifier, SetMaxPerOwner, KillLookup, KillStep, KillMark, KillCancel,
                TeardownCancel, vars, regVars, entryVars, seenVars
  <2> QED
    BY <2>1, <1>3
<1> QED
  BY <1>1, <1>2, <1>4, <1>5, <1>6 DEF Next

(* A step that leaves the map, the owners and an owner's records alone     *)
(* leaves the owner's list as it is.                                       *)
LEMMA ListKept ==
  ASSUME JobInv, NEW o, owner' = owner, items' = items,
         \A e \in Entries : owner[e] = o => status'[e] = status[e]
  PROVE  List(o)' = List(o)
<1>1. \A i \in DOMAIN items : items[i] \in Entries
  BY DEF JobInv, TypeOK
<1> QED
  BY <1>1 DEF List

(* An owner whose list, view and pending changes a step leaves alone.      *)
LEMMA Bystander ==
  ASSUME JobInv, ChangedFeedConverges, NEW p \in Owners, owner' = owner,
         view'[p] = view[p], List(p)' = List(p),
         p \in tearing => p \in tearing',
         \A e \in Entries : owner[e] = p =>
           /\ pc[e] \in {"registered", "recorded", "noticed"} => pc'[e] = pc[e]
           /\ kill[e] = "marked" => kill'[e] = "marked"
  PROVE  ChangePending(p)' \/ view'[p] = List(p)'
<1>1. ChangePending(p) => ChangePending(p)'
  BY DEF ChangePending
<1> QED
  BY <1>1 DEF ChangedFeedConverges

(* A step after which the owner's change is still to be fired, or in which *)
(* it is fired, keeps the feed converging; so does one that the owner does *)
(* not notice.                                                             *)
LEMMA NextFeed ==
  ASSUME IdsOutOfReach
  PROVE  JobInv /\ FeedInv /\ [Next]_vars => ChangedFeedConverges'
<1> SUFFICES ASSUME JobInv, FeedInv, [Next]_vars, NEW p \in Owners
             PROVE  ChangePending(p)' \/ view'[p] = List(p)'
  BY DEF ChangedFeedConverges
<1> USE DEF FeedInv
<1>1. ChangePending(p) \/ view[p] = List(p)
  BY DEF ChangedFeedConverges
<1>2. ASSUME NEW e \in Entries, NEW o \in AnyOwner, NEW x \in ExplicitIds \cup {NoId},
             Start(e, o, x)
      PROVE  ChangePending(p)' \/ view'[p] = List(p)'
  <2>1. /\ pc[e] = "unused" /\ pc' = [pc EXCEPT ![e] = "registered"]
        /\ owner' = [owner EXCEPT ![e] = o] /\ status' = [status EXCEPT ![e] = "running"]
        /\ kill' = kill /\ tearing' = tearing /\ view' = view
    BY <1>2 DEF Start, callVars, seenVars
  <2>2. CASE p = o
    BY <2>1, <2>2 DEF ChangePending, JobInv, TypeOK
  <2>3. CASE p # o
    <3>1. ChangePending(p) => ChangePending(p)'
      <4>1. owner[e] # p
        BY <2>1, JobAssumption DEF IdInv
      <4> QED
        BY <2>1, <4>1 DEF ChangePending, JobInv, TypeOK
    <3>2. \A i \in DOMAIN items : items[i] # e
      BY <2>1 DEF JobInv, LifeInv, Listed
    <3>3. List(p)' = List(p)
      <4>1. /\ DOMAIN items' = DOMAIN items \cup {id'[e]} /\ items'[id'[e]] = e
            /\ \A i \in DOMAIN items : items'[i] = items[i] /\ items[i] \in Entries
        BY <1>2, StartId DEF JobInv, TypeOK
      <4>2. owner'[e] # p
        BY <2>1, <2>3 DEF JobInv, TypeOK
      <4>3. \A i : i \in DOMAIN items' /\ owner'[items'[i]] = p
                  <=> i \in DOMAIN items /\ owner[items[i]] = p
        BY <2>1, <3>2, <4>1, <4>2 DEF JobInv, TypeOK
      <4>4. \A i \in DOMAIN items : status'[items'[i]] = status[items[i]]
        BY <2>1, <3>2, <4>1 DEF JobInv, TypeOK
      <4> QED
        BY <4>1, <4>3, <4>4 DEF List
    <3> QED
      BY <1>1, <2>1, <3>1, <3>3
  <2> QED
    BY <2>2, <2>3
<1>3. ASSUME NEW e \in Entries, Goroutine(e)
      PROVE  ChangePending(p)' \/ view'[p] = List(p)'
  <2>1. /\ owner' = owner /\ items' = items /\ tearing' = tearing /\ kill' = kill
        /\ \E s \in Stages : pc' = [pc EXCEPT ![e] = s]
        /\ \A d \in Entries : d # e => status'[d] = status[d]
    BY <1>3 DEF Goroutine, Launch, RecordOutcome, SettleNotify, SettlePublish, Release,
                regVars, callVars, Stages, JobInv, TypeOK
  <2>2. CASE owner[e] # p
    <3>1. view'[p] = view[p]
      BY <1>3, <2>2 DEF Goroutine, Launch, RecordOutcome, SettleNotify, SettlePublish, Release,
                        FireChanged, seenVars
    <3>2. List(p)' = List(p)
      BY <2>1, <2>2, ListKept
    <3> QED
      BY <2>1, <2>2, <3>1, <3>2, Bystander DEF JobInv, TypeOK
  <2>3. CASE owner[e] = p /\ (Launch(e) \/ SettlePublish(e))
    <3>1. status' = status
      BY <2>3 DEF Launch, SettlePublish
    <3>2. List(p)' = List(p)
      BY <2>1, <3>1, ListKept
    <3>3. view'[p] = List(p)
      BY <2>3 DEF Launch, SettlePublish, FireChanged
    <3> QED
      BY <3>2, <3>3
  <2>4. CASE owner[e] = p /\ (RecordOutcome(e) \/ SettleNotify(e))
    BY <2>1, <2>4 DEF RecordOutcome, SettleNotify, ChangePending, JobInv, TypeOK
  <2>5. CASE Release(e)
    <3>1. status' = status /\ view' = view /\ pc[e] = "published"
      BY <2>5 DEF Release, seenVars
    <3>2. List(p)' = List(p)
      BY <2>1, <3>1, ListKept
    <3> QED
      BY <2>1, <3>1, <3>2, Bystander DEF JobInv, TypeOK
  <2> QED
    BY <1>3, <2>2, <2>3, <2>4, <2>5 DEF Goroutine
<1>4. ASSUME NEW e \in Entries, KillStep(e)
      PROVE  ChangePending(p)' \/ view'[p] = List(p)'
  <2>1. /\ owner' = owner /\ items' = items /\ tearing' = tearing /\ pc' = pc
        /\ \E k \in {"none", "marked"} : kill' = [kill EXCEPT ![e] = k]
        /\ \A d \in Entries : d # e => status'[d] = status[d]
    BY <1>4 DEF KillStep, KillMark, KillCancel, regVars, JobInv, TypeOK
  <2>2. CASE owner[e] # p
    <3>1. view'[p] = view[p]
      BY <1>4, <2>2 DEF KillStep, KillMark, KillCancel, FireChanged, seenVars
    <3>2. List(p)' = List(p)
      BY <2>1, <2>2, ListKept
    <3> QED
      BY <2>1, <2>2, <3>1, <3>2, Bystander DEF JobInv, TypeOK
  <2>3. CASE owner[e] = p /\ KillMark(e) /\ Killable(e)
    BY <2>1, <2>3 DEF KillMark, ChangePending, JobInv, TypeOK
  <2>4. CASE KillMark(e) /\ ~Killable(e)
    <3>1. status' = status /\ view' = view /\ kill[e] = "found"
      BY <2>4 DEF KillMark, seenVars
    <3>2. List(p)' = List(p)
      BY <2>1, <3>1, ListKept
    <3> QED
      BY <2>1, <3>1, <3>2, Bystander DEF JobInv, TypeOK
  <2>5. CASE owner[e] = p /\ KillCancel(e)
    <3>1. status' = status /\ view'[p] = List(p)
      BY <2>5 DEF KillCancel, FireChanged
    <3>2. List(p)' = List(p)
      BY <2>1, <3>1, ListKept
    <3> QED
      BY <3>1, <3>2
  <2> QED
    BY <1>4, <2>2, <2>3, <2>4, <2>5 DEF KillStep
<1>5. ASSUME NEW o \in Owners, TeardownMark(o)
      PROVE  ChangePending(p)' \/ view'[p] = List(p)'
  <2>1. /\ owner' = owner /\ pc' = pc /\ kill' = kill /\ view' = view
        /\ tearing' = tearing \cup {o} /\ items' = Drop(items, Forgotten(o))
        /\ \A d \in Entries : owner[d] # o => status'[d] = status[d]
    BY <1>5 DEF TeardownMark, Forced, Mine
  <2>2. CASE p # o
    <3>1. \A i \in DOMAIN items : owner[items[i]] = p => i \notin Forgotten(o)
      BY <2>2 DEF Forgotten, Mine
    <3>2. \A i : i \in DOMAIN items' /\ owner[items'[i]] = p
                <=> i \in DOMAIN items /\ owner[items[i]] = p
      BY <2>1, <3>1 DEF Drop
    <3>3. \A i \in DOMAIN items' : items'[i] = items[i] /\ items[i] \in Entries
      BY <2>1 DEF Drop, JobInv, TypeOK
    <3>4. List(p)' = List(p)
      BY <2>1, <2>2, <3>2, <3>3 DEF List
    <3> QED
      BY <2>1, <3>4, Bystander
  <2> QED
    BY <2>1, <2>2 DEF ChangePending
<1>6. ASSUME NEW o \in Owners, TeardownCancel(o)
      PROVE  ChangePending(p)' \/ view'[p] = List(p)'
  <2>1. /\ owner' = owner /\ items' = items /\ status' = status /\ pc' = pc /\ kill' = kill
        /\ tearing' = tearing \ {o}
        /\ view' = [v \in Owners |-> IF v = o THEN List(o) ELSE view[v]]
    BY <1>6 DEF TeardownCancel, FireChanged, regVars
  <2>2. List(p)' = List(p)
    BY <2>1, ListKept
  <2> QED
    BY <2>1, <2>2, Bystander
<1>7. CASE \/ SetNotifier
           \/ \E n \in CapSettings : SetMaxPerOwner(n)
           \/ \E i \in DOMAIN items : KillLookup(i)
           \/ UNCHANGED vars
  <2>1. /\ UNCHANGED <<items, owner, status, pc, tearing, view>>
        /\ \A e \in Entries : kill[e] = "marked" => kill'[e] = "marked"
    BY <1>7 DEF SetNotifier, SetMaxPerOwner, KillLookup, vars, regVars, entryVars, callVars,
                seenVars, JobInv, TypeOK
  <2>2. List(p)' = List(p)
    BY <2>1, ListKept
  <2> QED
    BY <2>1, <2>2, Bystander
<1>8. ASSUME NEW e \in Entries, NEW failed \in BOOLEAN, RunReturns(e, failed)
      PROVE  ChangePending(p)' \/ view'[p] = List(p)'
  <2>1. /\ UNCHANGED <<items, owner, status, kill, tearing, view>>
        /\ pc[e] = "working" /\ pc' = [pc EXCEPT ![e] = "returned"]
    BY <1>8 DEF RunReturns, regVars, callVars, seenVars
  <2>2. List(p)' = List(p)
    BY <2>1, ListKept
  <2> QED
    BY <2>1, <2>2, Bystander DEF JobInv, TypeOK
<1> QED
  BY <1>2, <1>3, <1>4, <1>5, <1>6, <1>7, <1>8 DEF Next

(* A listener that lists when it is told to ends up with the list as it    *)
(* is, and no record is lost to another job: fireChanged comes after every *)
(* change, in whatever order the calls of an owner overlap.                *)
THEOREM FeedConverges == ASSUME IdsOutOfReach PROVE Spec => []FeedShowsEveryJob
<1>1. JobInv /\ FeedInv /\ [Next]_vars => FeedInv'
  BY NextIdInv, NextFeed DEF FeedInv
<1>2. FeedInv => FeedShowsEveryJob
  BY DEF FeedInv, IdInv, FeedShowsEveryJob
<1> QED
  BY <1>1, <1>2, InitFeedInv, JobInvariant, PTL DEF Spec
=============================================================================
