------------------------------ MODULE GuardProofs ------------------------------
(***************************************************************************)
(* Proofs about the circuit breaker (CircuitBreaker), for every number of  *)
(* concurrent calls, every failure threshold and every number of half-open *)
(* slots, and about the decisions on tool calls (Decisions), for every     *)
(* setup of the host, any calls and any number of them.                    *)
(***************************************************************************)
EXTENDS CircuitBreaker, Decisions, FiniteSetTheorems, TLAPS

(* The breaker alone: what the counters are worth in each state.  A late   *)
(* result may leave halfOpenCalls one below zero, but only on the way to   *)
(* closed, where nobody reads it before it is set to zero again.           *)
CounterInv ==
  /\ TypeOK
  /\ OpensOnThreshold
  /\ state = "closed" => halfOpenCalls <= 0
  /\ state = "half-open" => failures = MaxFail

(* The breaker and its calls together: the inductive invariant.            *)
BreakerInv == CounterInv /\ SlotsAreCovered

-----------------------------------------------------------------------------
LEMMA InFlightFinite ==
  IsFiniteSet(InFlight) /\ Cardinality(InFlight) \in Nat
<1>1. InFlight \in SUBSET Calls
  BY DEF InFlight
<1>2. IsFiniteSet(InFlight)
  BY <1>1, FS_Subset, BreakerAssumption
<1> QED
  BY <1>2, FS_CardinalityType

(* A call that is let through is one more in flight.                       *)
LEMMA OneMoreInFlight ==
  ASSUME TypeOK, NEW c \in Calls, call[c] = "idle", call' = [call EXCEPT ![c] = "calling"]
  PROVE  Cardinality(InFlight') = Cardinality(InFlight) + 1
<1>1. InFlight' = InFlight \cup {c} /\ c \notin InFlight
  BY DEF InFlight, TypeOK
<1> QED
  BY <1>1, InFlightFinite, FS_AddElement

(* A call that reports is one less.                                        *)
LEMMA OneLessInFlight ==
  ASSUME TypeOK, NEW c \in Calls, call[c] # "idle", Finish(c)
  PROVE  Cardinality(InFlight') = Cardinality(InFlight) - 1
<1>1. InFlight' = InFlight \ {c} /\ c \in InFlight
  BY DEF InFlight, TypeOK, Finish
<1> QED
  BY <1>1, InFlightFinite, FS_RemoveElement

(* A call that only changes its phase stays in flight.                     *)
LEMMA StillInFlight ==
  ASSUME TypeOK, NEW c \in Calls, call[c] # "idle",
         NEW p \in Phases \ {"idle"}, call' = [call EXCEPT ![c] = p]
  PROVE  InFlight' = InFlight
BY DEF InFlight, TypeOK, Phases

-----------------------------------------------------------------------------
(* RecordSuccess and RecordFailure: the counters keep their invariant, and *)
(* a circuit that is still half-open has given back one slot.              *)
LEMMA SuccessKeepsCounters ==
  ASSUME BreakerInv, RecordSuccess, call' \in [Calls -> Phases]
  PROVE  /\ CounterInv'
         /\ state' = "half-open" =>
              state = "half-open" /\ halfOpenCalls' = halfOpenCalls - 1 /\ halfOpenCalls' >= 1
<1> USE BreakerAssumption, InFlightFinite
    DEF BreakerInv, CounterInv, TypeOK, OpensOnThreshold, SlotsAreCovered, SlotReturned
<1>1. CASE state = "half-open"
  BY <1>1 DEF RecordSuccess
<1>2. CASE state = "closed"
  BY <1>2 DEF RecordSuccess
<1>3. CASE state = "open"
  BY <1>3 DEF RecordSuccess
<1> QED
  BY <1>1, <1>2, <1>3

LEMMA FailureKeepsCounters ==
  ASSUME BreakerInv, RecordFailure, call' \in [Calls -> Phases]
  PROVE  CounterInv' /\ state' # "half-open"
<1> USE BreakerAssumption, InFlightFinite
    DEF BreakerInv, CounterInv, TypeOK, OpensOnThreshold, SlotsAreCovered, Tripped
<1>1. CASE state = "half-open"
  BY <1>1 DEF RecordFailure
<1>2. CASE state = "closed"
  <2>1. /\ failures \in Nat /\ failures < MaxFail /\ streak = failures
        /\ failures' = failures + 1 /\ streak' = streak + 1
        /\ aged' = FALSE /\ probes' = probes /\ halfOpenCalls' = halfOpenCalls
    BY <1>2 DEF RecordFailure
  <2>2. CASE failures + 1 >= MaxFail
    <3>1. state' = "open" /\ failures' = MaxFail
      BY <1>2, <2>1, <2>2 DEF RecordFailure
    <3>2. halfOpenCalls' \in -1..HalfOpenMax /\ failures' \in 0..MaxFail /\ streak' \in 0..MaxFail
      BY <1>2, <2>1, <3>1
    <3>3. TypeOK'
      BY <2>1, <3>1, <3>2
    <3> QED
      BY <3>1, <3>3
  <2>3. CASE ~(failures + 1 >= MaxFail)
    <3>1. state' = "closed" /\ failures' < MaxFail
      BY <1>2, <2>1, <2>3 DEF RecordFailure
    <3>2. halfOpenCalls' \in -1..HalfOpenMax /\ failures' \in 0..MaxFail /\ streak' \in 0..MaxFail
      BY <1>2, <2>1, <3>1
    <3>3. TypeOK'
      BY <2>1, <3>1, <3>2
    <3> QED
      BY <1>2, <2>1, <3>1, <3>3
  <2> QED
    BY <2>2, <2>3
<1>3. CASE state = "open"
  BY <1>3 DEF RecordFailure
<1> QED
  BY <1>1, <1>2, <1>3

LEMMA BreakerInitially == Init => BreakerInv
<1> SUFFICES ASSUME Init PROVE BreakerInv
  OBVIOUS
<1> USE BreakerAssumption DEF Init
<1>1. call \in [Calls -> Phases]
  BY DEF Phases
<1>2. TypeOK
  <2>1. aged \in BOOLEAN
    OBVIOUS
  <2>2. failures \in 0..MaxFail /\ streak \in 0..MaxFail
    OBVIOUS
  <2>3. halfOpenCalls \in -1..HalfOpenMax
    OBVIOUS
  <2>4. state \in {"closed", "open", "half-open"} /\ probes \subseteq Calls
    OBVIOUS
  <2> QED
    BY <1>1, <2>1, <2>2, <2>3, <2>4, Zenon DEF TypeOK
<1>3. OpensOnThreshold /\ SlotsAreCovered
  BY DEF OpensOnThreshold, SlotsAreCovered
<1> QED
  BY <1>2, <1>3 DEF BreakerInv, CounterInv

LEMMA BreakerStep == BreakerInv /\ [Next]_vars => BreakerInv'
<1> SUFFICES ASSUME BreakerInv, [Next]_vars PROVE BreakerInv'
  OBVIOUS
<1> USE BreakerAssumption
<1>0. TypeOK
  BY DEF BreakerInv, CounterInv
<1>1. CASE Age
  <2>1. CounterInv'
    BY <1>1 DEF Age, BreakerInv, CounterInv, TypeOK, OpensOnThreshold
  <2>2. SlotsAreCovered'
    BY <1>1 DEF Age, BreakerInv, SlotsAreCovered, InFlight
  <2> QED
    BY <2>1, <2>2 DEF BreakerInv
<1>2. ASSUME NEW c \in Calls, Admit(c, "calling") PROVE BreakerInv'
  <2>0. /\ call[c] = "idle" /\ call' = [call EXCEPT ![c] = "calling"]
        /\ call' \in [Calls -> Phases]
    BY <1>0, <1>2 DEF Admit, TypeOK, Phases
  <2>1. Cardinality(InFlight') = Cardinality(InFlight) + 1
    BY <1>0, <2>0, OneMoreInFlight
  <2>2. CounterInv'
    BY <1>2, <2>0 DEF Admit, Slot, BreakerInv, CounterInv, TypeOK, OpensOnThreshold, SlotsAreCovered
  <2>3. SlotsAreCovered'
    BY <1>0, <1>2, <2>1, InFlightFinite
       DEF Admit, Slot, BreakerInv, SlotsAreCovered, TypeOK
  <2> QED
    BY <2>2, <2>3 DEF BreakerInv
<1>3. ASSUME NEW c \in Calls, call[c] # "idle", Finish(c), RecordSuccess PROVE BreakerInv'
  <2>0. call' \in [Calls -> Phases]
    BY <1>0, <1>3 DEF Finish, TypeOK, Phases
  <2>1. CounterInv' /\ (state' = "half-open" =>
           state = "half-open" /\ halfOpenCalls' = halfOpenCalls - 1 /\ halfOpenCalls' >= 1)
    BY <1>3, <2>0, SuccessKeepsCounters
  <2>2. Cardinality(InFlight') = Cardinality(InFlight) - 1
    BY <1>0, <1>3, OneLessInFlight
  <2>3. SlotsAreCovered'
    BY <1>0, <2>1, <2>2, InFlightFinite DEF BreakerInv, SlotsAreCovered, TypeOK
  <2> QED
    BY <2>1, <2>3 DEF BreakerInv
<1>4. ASSUME NEW c \in Calls, call[c] # "idle", Finish(c), RecordFailure PROVE BreakerInv'
  <2>0. call' \in [Calls -> Phases]
    BY <1>0, <1>4 DEF Finish, TypeOK, Phases
  <2> QED
    BY <1>4, <2>0, FailureKeepsCounters DEF BreakerInv, SlotsAreCovered
<1>5. ASSUME NEW c \in Calls, Returns(c) PROVE BreakerInv'
  <2>1. call[c] # "idle" /\ Finish(c) /\ (RecordSuccess \/ RecordFailure)
    BY <1>5 DEF Returns, CallSucceeds, CallFails, StreamCloses
  <2> QED
    BY <1>3, <1>4, <2>1
<1>6. ASSUME NEW c \in Calls, StreamOpens(c) \/ StreamBreaks(c) \/ StreamHookFails(c)
      PROVE  BreakerInv'
  <2>1. PICK p \in {"streaming", "broken", "abandoned"} :
          call[c] # "idle" /\ call' = [call EXCEPT ![c] = p] /\ UNCHANGED <<breakerVars, streak, probes>>
    BY <1>6 DEF StreamOpens, StreamBreaks, StreamHookFails
  <2>2. InFlight' = InFlight /\ call' \in [Calls -> Phases]
    BY <1>0, <2>1, StillInFlight DEF TypeOK, Phases
  <2> QED
    BY <2>1, <2>2
       DEF BreakerInv, CounterInv, TypeOK, OpensOnThreshold, SlotsAreCovered, breakerVars
<1>7. CASE UNCHANGED vars
  BY <1>7 DEF vars, breakerVars, BreakerInv, CounterInv, TypeOK, OpensOnThreshold,
              SlotsAreCovered, InFlight
<1> QED
  BY <1>1, <1>2, <1>5, <1>6, <1>7 DEF Next

LEMMA BreakerInvariant == Spec => []BreakerInv
BY BreakerInitially, BreakerStep, PTL DEF Spec

-----------------------------------------------------------------------------
(* The counters keep their bounds: failures up to MaxFail, the half-open   *)
(* slots between -1 and HalfOpenMax, although RecordSuccess decrements a   *)
(* counter the reporting call need not have incremented.                   *)
THEOREM BreakerTyping == Spec => []TypeOK
<1>1. BreakerInv => TypeOK
  BY DEF BreakerInv, CounterInv
<1> QED
  BY <1>1, BreakerInvariant, PTL

(* The circuit opens exactly at the threshold: while closed the counter is *)
(* the number of failures in a row and below it.                           *)
THEOREM ThresholdHolds == Spec => []OpensOnThreshold
<1>1. BreakerInv => OpensOnThreshold
  BY DEF BreakerInv, CounterInv
<1> QED
  BY <1>1, BreakerInvariant, PTL

(* Every half-open slot that is counted belongs to a call in flight: late  *)
(* results of calls admitted earlier cannot make the breaker refuse trial  *)
(* calls on account of calls that are over.                                *)
THEOREM SlotsCovered == Spec => []SlotsAreCovered
<1>1. BreakerInv => SlotsAreCovered
  BY DEF BreakerInv
<1> QED
  BY <1>1, BreakerInvariant, PTL

-----------------------------------------------------------------------------
(* The decisions on tool calls.                                            *)

(* The hook of a module has let the call pass.                             *)
Passed(c, m) == \E k \in DOMAIN setting.order : k < at[c] /\ setting.order[k] = m

(* The types, with those of the lists.                                     *)
Spent == {<<"timeout">>, <<"cancelled">>}
RequestType == [tool : {"plain", "dialogue", "exit"}, writes : BOOLEAN, executes : BOOLEAN,
                path : Paths, rule : BOOLEAN]
Reporters == {"permission", "hitl"}
Said == {"approved", "rejected", "policy_deny", "timeout"} \cup HostAnswers
ListInv ==
  /\ request \in [ToolCalls -> RequestType]
  /\ inbox = <<>> \/ \E a \in ToolCalls \X HostAnswers : inbox = <<a>>
  /\ reports \in [ToolCalls -> Seq(Reporters \X Said)]
DecisionsTyped == DecisionsTypeOK /\ ListInv

(* Where a call is: calls that are being hooked, asked about or running    *)
(* belong to the batch and to its stage, and a wait is that of the module  *)
(* the call has come to.                                                   *)
PlaceInv(c) ==
  /\ phase[c] = "new" => at[c] = 1
  /\ phase[c] \in {"hooking", "host", "human"}
       => at[c] <= Len(setting.order) /\ stage = "hooking" /\ c \in batch
  /\ phase[c] \in {"host", "human"}
       => \A d \in batch : d < c => phase[d] \in {"ready", "blocked"}
  /\ phase[c] = "ready" => stage # "over" /\ c \in batch
  /\ phase[c] \in {"talks", "asks"} => stage = "running" /\ c \in batch
  /\ phase[c] \in {"ready", "skipped"} \cup Started => at[c] = Len(setting.order) + 1

(* What the permission module has decided, asked and reported.             *)
PermissionInv(c) ==
  /\ phase[c] = "host" => /\ setting.order[at[c]] = "permission"
                          /\ setting.delegated = "no" /\ Approval \in {"ask", "nil"}
  /\ Passed(c, "permission") => AllowedByPermission(c)
  /\ ~Passed(c, "permission") /\ phase[c] # "blocked"
       => host[c] = "silent" /\ PermissionReports(c) = {}
  /\ \A j, k \in PermissionReports(c) : j = k
  /\ host[c] # "silent" => PermissionReports(c) # {}
  /\ \A k \in PermissionReports(c) :
       IF reports[c][k][2] = "approved" THEN host[c] = "yes" ELSE phase[c] = "blocked"

(* What the call has heard through the channel.                            *)
HumanInv(c) ==
  /\ phase[c] = "human" => /\ setting.order[at[c]] = "hitl"
                           /\ request[c].rule /\ request[c].tool # "dialogue"
  /\ phase[c] = "talks" => request[c].tool = "dialogue"
  /\ Passed(c, "hitl") => AllowedByHuman(c)
  /\ ~Passed(c, "hitl") /\ phase[c] # "blocked" => heard[c] = <<>>
  /\ request[c].tool = "dialogue" /\ phase[c] \notin {"ran", "failed"} => heard[c] = <<>>
  /\ Answered(c) => phase[heard[c][1]] # "new"

(* Plan mode since the call was issued.                                    *)
GateInv(c) ==
  c \in held /\ Passed(c, "planmode") => request[c].tool = "exit" \/ ~Mutates(request[c])

CallInv(c) == PlaceInv(c) /\ PermissionInv(c) /\ HumanInv(c) /\ GateInv(c)

(* Calls are numbered as they are issued; the answer in the channel is one *)
(* to a request that still waits or has given up.                          *)
IssueInv == \E n \in 0..MaxCalls : {c \in ToolCalls : phase[c] # "new"} = 1..n
InboxInv == inbox # <<>> => \/ phase[inbox[1][1]] \in {"human", "talks"}
                           \/ heard[inbox[1][1]] \in Spent
ModeInv == planned = planDue /\ (held # {} => planned)

DecisionsInv == /\ DecisionsTyped /\ IssueInv /\ InboxInv /\ ModeInv
                /\ AnswersGoAstrayOnlyAfter
                /\ \A c \in ToolCalls : CallInv(c)

-----------------------------------------------------------------------------
(* Each module is somewhere in the order, once.                            *)
LEMMA OrderFacts ==
  ASSUME setting \in Settings
  PROVE  /\ setting.order \in Seq(Modules) /\ Len(setting.order) \in Nat
         /\ DOMAIN setting.order = 1..Len(setting.order)
         /\ \A m \in Modules : \E k \in 1..Len(setting.order) : setting.order[k] = m
         /\ \A j, k \in 1..Len(setting.order) : setting.order[j] = setting.order[k] => j = k
BY DecisionsAssumption

LEMMA NotYet ==
  ASSUME DecisionsInv, NEW c \in ToolCalls, at[c] <= Len(setting.order)
  PROVE  ~Passed(c, setting.order[at[c]])
<1>1. setting \in Settings /\ at \in [ToolCalls -> 1..Len(setting.order) + 1]
  BY DEF DecisionsInv, DecisionsTyped, DecisionsTypeOK
<1>2. PICK n \in Nat : n = at[c] /\ n \in 1..Len(setting.order)
  <2>1. at[c] \in 1..Len(setting.order) + 1 /\ Len(setting.order) \in Nat
    BY <1>1, OrderFacts
  <2> QED
    BY <2>1
<1>3. ASSUME NEW k \in 1..Len(setting.order), k < n, setting.order[k] = setting.order[n]
      PROVE  FALSE
  <2>1. \A i, j \in 1..Len(setting.order) : setting.order[i] = setting.order[j] => i = j
    BY <1>1, OrderFacts
  <2>2. k = n
    BY <1>2, <1>3, <2>1, Zenon
  <2> QED
    BY <1>2, <1>3, <2>2
<1> QED
  BY <1>1, <1>2, <1>3, OrderFacts DEF Passed

(* A hook lets the call pass: its module, and no other, has passed it now. *)
LEMMA PassesOne ==
  ASSUME DecisionsInv, NEW c \in ToolCalls, at[c] <= Len(setting.order), Pass(c),
         setting' = setting
  PROVE  /\ ~Passed(c, setting.order[at[c]])
         /\ \A m \in Modules : Passed(c, m)' <=> Passed(c, m) \/ setting.order[at[c]] = m
<1>1. setting \in Settings /\ at \in [ToolCalls -> 1..Len(setting.order) + 1]
  BY DEF DecisionsInv, DecisionsTyped, DecisionsTypeOK
<1>2. PICK n \in Nat : n = at[c] /\ n \in 1..Len(setting.order)
  <2>1. at[c] \in 1..Len(setting.order) + 1 /\ Len(setting.order) \in Nat
    BY <1>1, OrderFacts
  <2> QED
    BY <2>1
<1>3. at'[c] = n + 1
  BY <1>1, <1>2 DEF Pass
<1>4. ~Passed(c, setting.order[at[c]])
  BY NotYet
<1>5. ASSUME NEW m \in Modules
      PROVE  Passed(c, m)' <=> Passed(c, m) \/ setting.order[at[c]] = m
  <2>1. Passed(c, m)' <=> \E k \in 1..Len(setting.order) : k < n + 1 /\ setting.order[k] = m
    BY <1>1, <1>3, OrderFacts DEF Passed
  <2>2. Passed(c, m) <=> \E k \in 1..Len(setting.order) : k < n /\ setting.order[k] = m
    BY <1>1, <1>2, OrderFacts DEF Passed
  <2>3. \A k \in 1..Len(setting.order) : k < n + 1 <=> k < n \/ k = n
    BY <1>2
  <2> QED
    BY <1>2, <2>1, <2>2, <2>3
<1> QED
  BY <1>4, <1>5

(* A call that is through its hooks has been passed by every module.       *)
LEMMA PassedByAll ==
  ASSUME DecisionsInv, NEW c \in ToolCalls, at[c] = Len(setting.order) + 1, NEW m \in Modules
  PROVE  Passed(c, m)
<1>1. setting \in Settings
  BY DEF DecisionsInv, DecisionsTyped, DecisionsTypeOK
<1> QED
  BY <1>1, OrderFacts DEF Passed

LEMMA NonePassed ==
  ASSUME DecisionsInv, NEW c \in ToolCalls, at[c] = 1
  PROVE  \A m \in Modules : ~Passed(c, m)
<1>1. setting \in Settings
  BY DEF DecisionsInv, DecisionsTyped, DecisionsTypeOK
<1> QED
  BY <1>1, OrderFacts DEF Passed

LEMMA PassedStays ==
  ASSUME NEW c, at'[c] = at[c], setting' = setting
  PROVE  \A m \in Modules : Passed(c, m)' <=> Passed(c, m)
BY DEF Passed

-----------------------------------------------------------------------------
(* An answer names a call and is not a wait that was given up.             *)
LEMMA AnswersDiffer == \A a \in ToolCalls \X HostAnswers : a \notin Spent /\ a # <<>>
<1> SUFFICES ASSUME NEW a \in ToolCalls \X HostAnswers PROVE a \notin Spent /\ a # <<>>
  OBVIOUS
<1>1. PICK b \in ToolCalls, s \in HostAnswers : a = <<b, s>>
  OBVIOUS
<1>2. Len(a) = 2
  BY <1>1
<1>3. Len(<<"timeout">>) = 1 /\ Len(<<"cancelled">>) = 1 /\ Len(<<>>) = 0 /\ 2 # 1 /\ 2 # 0
  OBVIOUS
<1>4. a # <<"timeout">> /\ a # <<"cancelled">> /\ a # <<>>
  BY <1>2, <1>3, Zenon
<1> QED
  BY <1>4, Zenon DEF Spent

-----------------------------------------------------------------------------
(* Reports: those of human in the loop leave the permission module's alone.*)
LEMMA ReportsGrow ==
  ASSUME DecisionsInv, NEW c \in ToolCalls, NEW by, NEW says, Report(c, by, says)
  PROVE  /\ reports'[c] = Append(reports[c], <<by, says>>)
         /\ Len(reports[c]) \in Nat
         /\ DOMAIN reports[c] = 1..Len(reports[c])
         /\ DOMAIN reports'[c] = 1..Len(reports[c]) + 1
         /\ reports'[c][Len(reports[c]) + 1] = <<by, says>>
         /\ \A k \in 1..Len(reports[c]) : reports'[c][k] = reports[c][k]
<1>1. reports \in [ToolCalls -> Seq(Reporters \X Said)]
  BY DEF DecisionsInv, DecisionsTyped, ListInv
<1>2. PICK s \in Seq(Reporters \X Said) : s = reports[c]
  BY <1>1
<1>3. reports'[c] = Append(s, <<by, says>>)
  BY <1>1, <1>2 DEF Report
<1> QED
  BY <1>2, <1>3

LEMMA ReportTyped ==
  ASSUME DecisionsInv, NEW c \in ToolCalls, NEW by \in Reporters, NEW says \in Said,
         Report(c, by, says)
  PROVE  /\ reports' \in [ToolCalls -> Seq(Reporters \X Said)]
         /\ \A d \in ToolCalls \ {c} : reports'[d] = reports[d]
<1>1. reports \in [ToolCalls -> Seq(Reporters \X Said)]
  BY DEF DecisionsInv, DecisionsTyped, ListInv
<1>2. <<by, says>> \in Reporters \X Said
  OBVIOUS
<1>3. Append(reports[c], <<by, says>>) \in Seq(Reporters \X Said)
  BY <1>1, <1>2
<1> QED
  BY <1>1, <1>3 DEF Report

LEMMA HumanReport ==
  ASSUME DecisionsInv, NEW c \in ToolCalls, NEW says, Report(c, "hitl", says)
  PROVE  /\ PermissionReports(c)' = PermissionReports(c)
         /\ \A k \in PermissionReports(c) : reports'[c][k] = reports[c][k]
<1>1. <<"hitl", says>>[1] # "permission"
  OBVIOUS
<1>2. ASSUME NEW k PROVE k \in PermissionReports(c)' <=> k \in PermissionReports(c)
  <2>1. CASE k \in 1..Len(reports[c])
    BY <2>1, ReportsGrow DEF PermissionReports
  <2>2. CASE k = Len(reports[c]) + 1
    BY <1>1, <2>2, ReportsGrow DEF PermissionReports
  <2>3. CASE k \notin 1..Len(reports[c]) + 1
    BY <2>3, ReportsGrow DEF PermissionReports
  <2> QED
    BY <2>1, <2>2, <2>3, ReportsGrow
<1> QED
  BY <1>2, ReportsGrow DEF PermissionReports

LEMMA PermissionReport ==
  ASSUME DecisionsInv, NEW c \in ToolCalls, NEW says, Report(c, "permission", says),
         PermissionReports(c) = {}
  PROVE  \E n : /\ PermissionReports(c)' = {n}
                /\ reports'[c][n][2] = says
<1> DEFINE n == Len(reports[c]) + 1
<1>1. n \in PermissionReports(c)'
  BY ReportsGrow DEF PermissionReports
<1>2. ASSUME NEW k \in PermissionReports(c)' PROVE k = n
  <2>1. CASE k \in 1..Len(reports[c])
    BY <1>2, <2>1, ReportsGrow DEF PermissionReports
  <2> QED
    BY <1>2, <2>1, ReportsGrow DEF PermissionReports
<1>3. reports'[c][n][2] = says
  BY ReportsGrow
<1> QED
  BY <1>1, <1>2, <1>3

-----------------------------------------------------------------------------
(* What a step leaves alone keeps its part of the invariant.               *)
LEMMA AllowedStays ==
  ASSUME NEW c, setting' = setting, request'[c].writes = request[c].writes,
         cleared'[c] = cleared[c], host'[c] = host[c], AllowedByPermission(c)
  PROVE  AllowedByPermission(c)'
BY DEF AllowedByPermission, FitsTier, Approval, DefaultApprovalFor

LEMMA PermissionKept ==
  ASSUME NEW c, PermissionInv(c), setting' = setting,
         request'[c].writes = request[c].writes, cleared'[c] = cleared[c], host'[c] = host[c],
         PermissionReports(c)' = PermissionReports(c),
         \A k \in PermissionReports(c) : reports'[c][k] = reports[c][k],
         Passed(c, "permission")' <=> Passed(c, "permission"),
         phase[c] = "blocked" => phase'[c] = "blocked",
         phase'[c] = "host" => phase[c] = "host" /\ at'[c] = at[c]
  PROVE  PermissionInv(c)'
<1>1. Approval' = Approval
  BY DEF Approval, DefaultApprovalFor
<1>2. AllowedByPermission(c) => AllowedByPermission(c)'
  BY AllowedStays
<1>3. phase'[c] = "host" => /\ setting'.order[at'[c]] = "permission"
                            /\ setting'.delegated = "no" /\ Approval' \in {"ask", "nil"}
  BY <1>1 DEF PermissionInv
<1>4. Passed(c, "permission")' => AllowedByPermission(c)'
  BY <1>2 DEF PermissionInv
<1>5. ~Passed(c, "permission")' /\ phase'[c] # "blocked"
        => host'[c] = "silent" /\ PermissionReports(c)' = {}
  BY DEF PermissionInv
<1>6. /\ \A j, k \in PermissionReports(c)' : j = k
      /\ host'[c] # "silent" => PermissionReports(c)' # {}
      /\ \A k \in PermissionReports(c)' :
           IF reports'[c][k][2] = "approved" THEN host'[c] = "yes" ELSE phase'[c] = "blocked"
  BY DEF PermissionInv
<1> QED
  BY <1>3, <1>4, <1>5, <1>6 DEF PermissionInv

LEMMA HumanKept ==
  ASSUME NEW c, HumanInv(c), setting' = setting, request'[c] = request[c],
         heard'[c] = heard[c],
         Passed(c, "hitl")' <=> Passed(c, "hitl"),
         phase[c] = "blocked" => phase'[c] = "blocked",
         phase'[c] = "human" => phase[c] = "human" /\ at'[c] = at[c],
         phase'[c] = "talks" => request[c].tool = "dialogue",
         phase[c] \in {"ran", "failed"} => phase'[c] \in {"ran", "failed"},
         \A d \in ToolCalls : phase[d] # "new" => phase'[d] # "new"
  PROVE  HumanInv(c)'
<1>1. AllowedByHuman(c)' <=> AllowedByHuman(c)
  BY DEF AllowedByHuman, Answered
<1>2. Answered(c)' <=> Answered(c)
  BY DEF Answered
<1>3. Answered(c) => heard[c][1] \in ToolCalls
  BY DEF Answered
<1>4. Answered(c)' => phase'[heard'[c][1]] # "new"
  BY <1>2, <1>3 DEF HumanInv
<1> QED
  BY <1>1, <1>4 DEF HumanInv

LEMMA GateKept ==
  ASSUME NEW c, GateInv(c), request'[c].tool = request[c].tool,
         request'[c].writes = request[c].writes, request'[c].executes = request[c].executes,
         c \in held' => c \in held,
         Passed(c, "planmode")' <=> Passed(c, "planmode")
  PROVE  GateInv(c)'
BY DEF GateInv, Mutates

(* A call the step is not about.                                           *)
SameCall(d) == /\ request'[d] = request[d] /\ at'[d] = at[d] /\ phase'[d] = phase[d]
               /\ host'[d] = host[d] /\ heard'[d] = heard[d] /\ cleared'[d] = cleared[d]
               /\ reports'[d] = reports[d]

LEMMA BystanderKept ==
  ASSUME NEW d \in ToolCalls, CallInv(d), SameCall(d),
         setting' = setting, batch' = batch, stage' = stage, batch \subseteq ToolCalls,
         d \in held' => d \in held,
         stage = "hooking" =>
           \A e \in batch : phase[e] \in {"ready", "blocked"} => phase'[e] \in {"ready", "blocked"},
         \A e \in ToolCalls : phase[e] # "new" => phase'[e] # "new"
  PROVE  CallInv(d)'
<1>1. \A m \in Modules : Passed(d, m)' <=> Passed(d, m)
  BY PassedStays DEF SameCall
<1>2. PlaceInv(d)'
  BY DEF CallInv, PlaceInv, SameCall
<1>3. PermissionInv(d)'
  <2>1. PermissionReports(d)' = PermissionReports(d)
    BY DEF PermissionReports, SameCall
  <2> QED
    BY <1>1, <2>1, PermissionKept DEF CallInv, SameCall, Modules
<1>4. HumanInv(d)'
  <2>1. phase[d] = "talks" => request[d].tool = "dialogue"
    BY DEF CallInv, HumanInv
  <2> QED
    BY <1>1, <2>1, HumanKept DEF CallInv, SameCall, Modules
<1>5. GateInv(d)'
  BY <1>1, GateKept DEF CallInv, SameCall, Modules
<1> QED
  BY <1>2, <1>3, <1>4, <1>5 DEF CallInv

-----------------------------------------------------------------------------
(* How the hooks move a call.                                              *)
CallPhases == {"new", "hooking", "ready"} \cup Waiting \cup Over
Untouched(c) == \A d \in ToolCalls \ {c} : at'[d] = at[d] /\ phase'[d] = phase[d]

LEMMA PassMoves ==
  ASSUME DecisionsInv, NEW c \in ToolCalls, Pass(c), stage = "hooking", c \in batch,
         at[c] <= Len(setting.order), UNCHANGED <<setting, stage, batch>>
  PROVE  /\ at' \in [ToolCalls -> 1..Len(setting.order) + 1]
         /\ phase' \in [ToolCalls -> CallPhases]
         /\ phase'[c] \in {"hooking", "ready"}
         /\ PlaceInv(c)' /\ Untouched(c)
<1>1. /\ at \in [ToolCalls -> 1..Len(setting.order) + 1] /\ setting \in Settings
      /\ phase \in [ToolCalls -> CallPhases]
  BY DEF DecisionsInv, DecisionsTyped, DecisionsTypeOK, CallPhases
<1>2. PICK len \in Nat : len = Len(setting.order)
  BY <1>1, OrderFacts
<1>3. PICK n \in 1..len : n = at[c]
  BY <1>1, <1>2
<1>4. at' = [at EXCEPT ![c] = n + 1] /\ n + 1 \in 1..len + 1
  BY <1>1, <1>3 DEF Pass
<1>5. at' \in [ToolCalls -> 1..Len(setting.order) + 1] /\ at'[c] = n + 1
  BY <1>1, <1>2, <1>4
<1>6. phase' = [phase EXCEPT ![c] = IF n = len THEN "ready" ELSE "hooking"]
  BY <1>2, <1>3 DEF Pass
<1>7. phase' \in [ToolCalls -> CallPhases] /\ Untouched(c)
  BY <1>1, <1>4, <1>6 DEF CallPhases, Untouched
<1>8. /\ n = len => phase'[c] = "ready" /\ at'[c] = len + 1
      /\ n # len => phase'[c] = "hooking" /\ at'[c] <= len
  BY <1>1, <1>5, <1>6
<1>9. PlaceInv(c)'
  BY <1>2, <1>8 DEF PlaceInv, Started
<1> QED
  BY <1>5, <1>7, <1>8, <1>9

LEMMA BlockMoves ==
  ASSUME DecisionsInv, NEW c \in ToolCalls, Block(c)
  PROVE  /\ at' \in [ToolCalls -> 1..Len(setting.order) + 1]
         /\ phase' \in [ToolCalls -> CallPhases]
         /\ phase'[c] = "blocked" /\ at'[c] = at[c]
         /\ PlaceInv(c)' /\ Untouched(c)
<1>1. /\ at \in [ToolCalls -> 1..Len(setting.order) + 1]
      /\ phase \in [ToolCalls -> CallPhases]
  BY DEF DecisionsInv, DecisionsTyped, DecisionsTypeOK, CallPhases
<1>2. phase' \in [ToolCalls -> CallPhases] /\ phase'[c] = "blocked" /\ Untouched(c) /\ at' = at
  BY <1>1 DEF Block, CallPhases, Over, Untouched
<1> QED
  BY <1>1, <1>2 DEF PlaceInv, Started

LEMMA SuspendMoves ==
  ASSUME DecisionsInv, NEW c \in ToolCalls, NEW why \in {"host", "human"}, Suspend(c, why),
         Turn(c), phase[c] = "hooking", UNCHANGED <<setting, stage, batch>>
  PROVE  /\ at' \in [ToolCalls -> 1..Len(setting.order) + 1]
         /\ phase' \in [ToolCalls -> CallPhases]
         /\ phase'[c] = why /\ at'[c] = at[c]
         /\ PlaceInv(c)' /\ Untouched(c)
<1>1. /\ at \in [ToolCalls -> 1..Len(setting.order) + 1] /\ batch \subseteq ToolCalls
      /\ phase \in [ToolCalls -> CallPhases]
  BY DEF DecisionsInv, DecisionsTyped, DecisionsTypeOK, CallPhases
<1>2. /\ phase' \in [ToolCalls -> CallPhases] /\ phase'[c] = why /\ at' = at
      /\ Untouched(c)
  BY <1>1 DEF Suspend, CallPhases, Waiting, Untouched
<1>3. at[c] <= Len(setting.order)
  BY DEF DecisionsInv, CallInv, PlaceInv
<1>4. \A d \in batch : d < c => phase'[d] \in {"ready", "blocked"}
  <2> SUFFICES ASSUME NEW d \in batch, d < c PROVE phase'[d] \in {"ready", "blocked"}
    OBVIOUS
  <2>1. d \in ToolCalls \ {c}
    BY <1>1 DEF ToolCalls
  <2>2. phase'[d] = phase[d]
    BY <1>2, <2>1 DEF Untouched
  <2> QED
    BY <2>2 DEF Turn
<1>5. PlaceInv(c)'
  BY <1>2, <1>3, <1>4 DEF PlaceInv, Turn, Started
<1> QED
  BY <1>1, <1>2, <1>5

(* A call whose turn it is.                                                *)
LEMMA TurnFacts ==
  ASSUME DecisionsInv, NEW c \in ToolCalls, NEW m \in Modules, HookTurn(c, m)
  PROVE  /\ stage = "hooking" /\ c \in batch /\ phase[c] = "hooking" /\ Turn(c)
         /\ at[c] <= Len(setting.order) /\ setting.order[at[c]] = m
         /\ CallInv(c)
BY DEF DecisionsInv, HookTurn, Turn, CallInv, PlaceInv

LEMMA WaitFacts ==
  ASSUME DecisionsInv, NEW c \in ToolCalls, phase[c] \in {"host", "human"}
  PROVE  /\ stage = "hooking" /\ c \in batch
         /\ at[c] <= Len(setting.order)
         /\ setting.order[at[c]] = IF phase[c] = "host" THEN "permission" ELSE "hitl"
         /\ CallInv(c)
BY DEF DecisionsInv, CallInv, PlaceInv, PermissionInv, HumanInv

-----------------------------------------------------------------------------
(* A step about one call: the others and the numbering take care of        *)
(* themselves.                                                             *)
LEMMA OneCallStep ==
  ASSUME DecisionsInv, NEW c \in ToolCalls, DecisionsTyped',
         UNCHANGED <<setting, batch, stage>>, held' \subseteq held,
         \A d \in ToolCalls \ {c} : SameCall(d),
         phase[c] # "new", phase'[c] # "new",
         stage = "hooking" /\ phase[c] \in {"ready", "blocked"}
           => phase'[c] \in {"ready", "blocked"},
         CallInv(c)', InboxInv', ModeInv', AnswersGoAstrayOnlyAfter'
  PROVE  DecisionsInv'
<1>1. \A d \in ToolCalls : phase[d] # "new" <=> phase'[d] # "new"
  BY DEF SameCall
<1>2. IssueInv'
  BY <1>1 DEF DecisionsInv, IssueInv
<1>3. batch \subseteq ToolCalls
  BY DEF DecisionsInv, DecisionsTyped, DecisionsTypeOK
<1>4. stage = "hooking" =>
        \A e \in batch : phase[e] \in {"ready", "blocked"} => phase'[e] \in {"ready", "blocked"}
  BY <1>3 DEF SameCall
<1>5. ASSUME NEW d \in ToolCalls PROVE CallInv(d)'
  <2>1. CASE d = c
    BY <2>1
  <2>2. CASE d # c
    <3>1. CallInv(d) /\ SameCall(d)
      BY <2>2 DEF DecisionsInv
    <3> QED
      BY <1>1, <1>3, <1>4, <3>1, BystanderKept
  <2> QED
    BY <2>1, <2>2
<1> QED
  BY <1>2, <1>5 DEF DecisionsInv

(* Nothing is said and no wait is given up.                                *)
LEMMA QuietStep ==
  ASSUME DecisionsInv, inbox' = inbox, heard' = heard,
         \A d \in ToolCalls : request'[d].tool = request[d].tool,
         \A d \in ToolCalls : phase[d] \in {"human", "talks"} => phase'[d] = phase[d]
  PROVE  InboxInv' /\ AnswersGoAstrayOnlyAfter'
<1>1. inbox # <<>> => inbox[1][1] \in ToolCalls
  BY DEF DecisionsInv, DecisionsTyped, ListInv
<1>2. InboxInv'
  BY <1>1 DEF DecisionsInv, InboxInv
<1>3. \A d \in ToolCalls : Answered(d)' <=> Answered(d)
  BY DEF Answered
<1>4. \A d \in ToolCalls : Answered(d) => heard[d][1] \in ToolCalls
  BY DEF Answered
<1>5. AnswersGoAstrayOnlyAfter'
  BY <1>3, <1>4 DEF DecisionsInv, AnswersGoAstrayOnlyAfter
<1> QED
  BY <1>2, <1>5

-----------------------------------------------------------------------------
(* The steps: plan mode.                                                   *)
LEMMA PlanGateStep ==
  ASSUME DecisionsInv, NEW c \in ToolCalls, PlanGate(c)
  PROVE  DecisionsInv'
<1>1. /\ stage = "hooking" /\ c \in batch /\ phase[c] = "hooking"
      /\ at[c] <= Len(setting.order) /\ setting.order[at[c]] = "planmode" /\ CallInv(c)
  BY TurnFacts DEF PlanGate, Modules
<1>2. UNCHANGED <<setting, planned, enters, stage, batch, request, done, inbox, host, heard,
                  answered, cleared, reports, planDue, held>>
  BY DEF PlanGate, historyVars
<1>3. CASE planned /\ request[c].tool # "exit" /\ Gated(request[c])
  <2>1. Block(c)
    BY <1>3 DEF PlanGate
  <2>2. /\ at' \in [ToolCalls -> 1..Len(setting.order) + 1]
        /\ phase' \in [ToolCalls -> CallPhases]
        /\ phase'[c] = "blocked" /\ at'[c] = at[c] /\ PlaceInv(c)' /\ Untouched(c)
    BY <2>1, BlockMoves
  <2>3. DecisionsTyped'
    BY <1>2, <2>2 DEF DecisionsInv, DecisionsTyped, DecisionsTypeOK, ListInv, CallPhases
  <2>4. \A m \in Modules : Passed(c, m)' <=> Passed(c, m)
    BY <1>2, <2>2, PassedStays
  <2>5. PermissionReports(c)' = PermissionReports(c)
    BY <1>2 DEF PermissionReports
  <2>6. \A d \in ToolCalls \ {c} : SameCall(d)
    BY <1>2, <2>2 DEF SameCall, Untouched
  <2>7. \A d \in ToolCalls : phase[d] # "new" => phase'[d] # "new"
    BY <2>2, <2>6 DEF SameCall
  <2>8. PermissionInv(c)'
    BY <1>1, <1>2, <2>2, <2>4, <2>5, PermissionKept DEF CallInv, Modules
  <2>9. HumanInv(c)'
    BY <1>1, <1>2, <2>2, <2>4, <2>7, HumanKept DEF CallInv, Modules
  <2>10. GateInv(c)'
    BY <1>1, <1>2, <2>4, GateKept DEF CallInv, Modules
  <2>11. InboxInv' /\ AnswersGoAstrayOnlyAfter'
    BY <1>1, <1>2, <2>6, QuietStep DEF SameCall
  <2>12. ModeInv'
    BY <1>2 DEF DecisionsInv, ModeInv
  <2> QED
    BY <1>1, <1>2, <2>2, <2>3, <2>6, <2>8, <2>9, <2>10, <2>11, <2>12, OneCallStep DEF CallInv
<1>4. CASE ~(planned /\ request[c].tool # "exit" /\ Gated(request[c]))
  <2>1. Pass(c)
    BY <1>4 DEF PlanGate
  <2>2. /\ at' \in [ToolCalls -> 1..Len(setting.order) + 1]
        /\ phase' \in [ToolCalls -> CallPhases]
        /\ phase'[c] \in {"hooking", "ready"} /\ PlaceInv(c)' /\ Untouched(c)
    BY <1>1, <1>2, <2>1, PassMoves
  <2>3. DecisionsTyped'
    BY <1>2, <2>2 DEF DecisionsInv, DecisionsTyped, DecisionsTypeOK, ListInv, CallPhases
  <2>4. \A m \in Modules : Passed(c, m)' <=> Passed(c, m) \/ m = "planmode"
    BY <1>1, <1>2, <2>1, PassesOne
  <2>5. PermissionReports(c)' = PermissionReports(c)
    BY <1>2 DEF PermissionReports
  <2>6. \A d \in ToolCalls \ {c} : SameCall(d)
    BY <1>2, <2>2 DEF SameCall, Untouched
  <2>7. \A d \in ToolCalls : phase[d] # "new" => phase'[d] # "new"
    BY <2>2, <2>6 DEF SameCall
  <2>8. PermissionInv(c)'
    BY <1>1, <1>2, <2>2, <2>4, <2>5, PermissionKept DEF CallInv, Modules
  <2>9. HumanInv(c)'
    BY <1>1, <1>2, <2>2, <2>4, <2>7, HumanKept DEF CallInv, Modules
  <2>10. GateInv(c)'
    <3>1. c \in held => planned
      BY DEF DecisionsInv, ModeInv
    <3> QED
      BY <1>2, <1>4, <3>1 DEF GateInv, Gated
  <2>11. InboxInv' /\ AnswersGoAstrayOnlyAfter'
    BY <1>1, <1>2, <2>6, QuietStep DEF SameCall
  <2>12. ModeInv'
    BY <1>2 DEF DecisionsInv, ModeInv
  <2> QED
    BY <1>1, <1>2, <2>2, <2>3, <2>6, <2>8, <2>9, <2>10, <2>11, <2>12, OneCallStep DEF CallInv
<1> QED
  BY <1>3, <1>4

-----------------------------------------------------------------------------
(* The steps: permission.                                                  *)
LEMMA AllowMeans ==
  ASSUME NEW c, Disposition(request[c]) = "allow"
  PROVE  /\ setting.delegated = "no" => Approval = "auto"
         /\ setting.delegated # "no" => setting.delegated = "auto"
         /\ request[c].writes => request[c].path # "garbled" /\ FitsTier(request[c].path)
<1>1. \A escalate \in BOOLEAN :
        Contain(request[c], escalate) = "none"
          => (request[c].writes => request[c].path # "garbled" /\ FitsTier(request[c].path))
  BY DEF Contain, Outside, Stays
<1>2. CASE setting.delegated # "no"
  <2>1. Contain(request[c], FALSE) = "none" /\ setting.delegated = "auto"
    BY <1>2 DEF Disposition
  <2> QED
    BY <1>1, <1>2, <2>1
<1>3. CASE setting.delegated = "no"
  <2>1. Contain(request[c], TRUE) \in {"none", "deny", "ask"}
    BY DEF Contain, Outside
  <2>2. Contain(request[c], TRUE) = "none" /\ Approval = "auto"
    BY <1>3, <2>1 DEF Disposition
  <2> QED
    BY <1>1, <1>3, <2>2
<1> QED
  BY <1>2, <1>3

LEMMA AskMeans ==
  ASSUME NEW c, Disposition(request[c]) = "ask"
  PROVE  setting.delegated = "no" /\ Approval \in {"ask", "nil"}
<1>1. setting.delegated = "no"
  BY DEF Disposition
<1>2. Contain(request[c], TRUE) = "ask" => Approval = "ask"
  BY DEF Contain, Outside
<1>3. Contain(request[c], TRUE) = "ask" \/ Approval \in {"ask", "nil"}
  BY <1>1 DEF Disposition
<1> QED
  BY <1>1, <1>2, <1>3

LEMMA PermissionAllowsStep ==
  ASSUME DecisionsInv, NEW c \in ToolCalls, PermissionAllows(c)
  PROVE  DecisionsInv'
<1>1. /\ stage = "hooking" /\ c \in batch /\ phase[c] = "hooking"
      /\ at[c] <= Len(setting.order) /\ setting.order[at[c]] = "permission" /\ CallInv(c)
  BY TurnFacts DEF PermissionAllows, Modules
<1>2. /\ UNCHANGED <<setting, planned, enters, stage, batch, request, done, inbox, host, heard,
                     answered, reports, planDue, held>>
      /\ cleared' = [cleared EXCEPT ![c] = request[c].path]
      /\ Pass(c) /\ Disposition(request[c]) = "allow"
  BY DEF PermissionAllows, Clear
<1>3. /\ at' \in [ToolCalls -> 1..Len(setting.order) + 1]
      /\ phase' \in [ToolCalls -> CallPhases]
      /\ phase'[c] \in {"hooking", "ready"} /\ PlaceInv(c)' /\ Untouched(c)
  BY <1>1, <1>2, PassMoves
<1>4. /\ ~Passed(c, "permission")
      /\ \A m \in Modules : Passed(c, m)' <=> Passed(c, m) \/ m = "permission"
  BY <1>1, <1>2, PassesOne
<1>5. /\ request[c].path \in Paths /\ cleared' \in [ToolCalls -> Paths]
      /\ cleared'[c] = request[c].path
      /\ \A d \in ToolCalls \ {c} : cleared'[d] = cleared[d]
  <2>1. request[c] \in RequestType /\ cleared \in [ToolCalls -> Paths]
    BY DEF DecisionsInv, DecisionsTyped, DecisionsTypeOK, ListInv
  <2>2. request[c].path \in Paths
    BY <2>1 DEF RequestType
  <2> QED
    BY <1>2, <2>1, <2>2
<1>6. DecisionsTyped'
  BY <1>2, <1>3, <1>5 DEF DecisionsInv, DecisionsTyped, DecisionsTypeOK, ListInv, CallPhases
<1>7. \A d \in ToolCalls \ {c} : SameCall(d)
  BY <1>2, <1>3, <1>5 DEF SameCall, Untouched
<1>8. \A d \in ToolCalls : phase[d] # "new" => phase'[d] # "new"
  BY <1>3, <1>7 DEF SameCall
<1>9. PermissionInv(c)'
  <2>1. host[c] = "silent" /\ PermissionReports(c) = {}
    BY <1>1, <1>4 DEF CallInv, PermissionInv
  <2>2. PermissionReports(c)' = {} /\ host'[c] = "silent"
    BY <1>2, <2>1 DEF PermissionReports
  <2>3. AllowedByPermission(c)'
    <3>1. Approval' = Approval /\ FitsTier(cleared[c])' = FitsTier(request[c].path)
      BY <1>2, <1>5 DEF Approval, DefaultApprovalFor, FitsTier
    <3> QED
      BY <1>2, <1>5, <2>2, <3>1, AllowMeans DEF AllowedByPermission
  <2> QED
    BY <1>3, <1>4, <2>2, <2>3 DEF PermissionInv, Modules
<1>10. HumanInv(c)'
  BY <1>1, <1>2, <1>3, <1>4, <1>8, HumanKept DEF CallInv, Modules
<1>11. GateInv(c)'
  BY <1>1, <1>2, <1>4, GateKept DEF CallInv, Modules
<1>12. InboxInv' /\ AnswersGoAstrayOnlyAfter'
  BY <1>1, <1>2, <1>7, QuietStep DEF SameCall
<1>13. ModeInv'
  BY <1>2 DEF DecisionsInv, ModeInv
<1> QED
  BY <1>1, <1>2, <1>3, <1>6, <1>7, <1>9, <1>10, <1>11, <1>12, <1>13, OneCallStep DEF CallInv

LEMMA PermissionDeniesStep ==
  ASSUME DecisionsInv, NEW c \in ToolCalls, PermissionDenies(c)
  PROVE  DecisionsInv'
<1>1. /\ stage = "hooking" /\ c \in batch /\ phase[c] = "hooking"
      /\ at[c] <= Len(setting.order) /\ setting.order[at[c]] = "permission" /\ CallInv(c)
  BY TurnFacts DEF PermissionDenies, Modules
<1>2. UNCHANGED <<setting, planned, enters, stage, batch, request, done, inbox, host, heard,
                  answered, cleared, planDue, held>>
  BY DEF PermissionDenies
<1>3. PICK says \in {"policy_deny", "rejected"} : Report(c, "permission", says)
  BY DEF PermissionDenies
<1>4. /\ at' \in [ToolCalls -> 1..Len(setting.order) + 1]
      /\ phase' \in [ToolCalls -> CallPhases]
      /\ phase'[c] = "blocked" /\ at'[c] = at[c] /\ PlaceInv(c)' /\ Untouched(c)
  BY BlockMoves DEF PermissionDenies
<1>5. /\ ~Passed(c, "permission")
      /\ \A m \in Modules : Passed(c, m)' <=> Passed(c, m)
  BY <1>1, <1>2, <1>4, NotYet, PassedStays
<1>6. reports' \in [ToolCalls -> Seq(Reporters \X Said)]
      /\ \A d \in ToolCalls \ {c} : reports'[d] = reports[d]
  BY <1>3, ReportTyped DEF Said, Reporters
<1>7. DecisionsTyped'
  BY <1>2, <1>4, <1>6 DEF DecisionsInv, DecisionsTyped, DecisionsTypeOK, ListInv, CallPhases
<1>8. \A d \in ToolCalls \ {c} : SameCall(d)
  BY <1>2, <1>4, <1>6 DEF SameCall, Untouched
<1>9. \A d \in ToolCalls : phase[d] # "new" => phase'[d] # "new"
  BY <1>4, <1>8 DEF SameCall
<1>10. PermissionInv(c)'
  <2>1. host[c] = "silent" /\ PermissionReports(c) = {}
    BY <1>1, <1>5 DEF CallInv, PermissionInv
  <2>2. PICK n : PermissionReports(c)' = {n} /\ reports'[c][n][2] = says
    BY <1>3, <2>1, PermissionReport
  <2> QED
    BY <1>2, <1>4, <1>5, <2>1, <2>2 DEF PermissionInv, Modules
<1>11. HumanInv(c)'
  BY <1>1, <1>2, <1>4, <1>5, <1>9, HumanKept DEF CallInv, Modules
<1>12. GateInv(c)'
  BY <1>1, <1>2, <1>5, GateKept DEF CallInv, Modules
<1>13. InboxInv' /\ AnswersGoAstrayOnlyAfter'
  BY <1>1, <1>2, <1>8, QuietStep DEF SameCall
<1>14. ModeInv'
  BY <1>2 DEF DecisionsInv, ModeInv
<1> QED
  BY <1>1, <1>2, <1>4, <1>7, <1>8, <1>10, <1>11, <1>12, <1>13, <1>14, OneCallStep DEF CallInv

LEMMA PermissionAsksStep ==
  ASSUME DecisionsInv, NEW c \in ToolCalls, PermissionAsks(c)
  PROVE  DecisionsInv'
<1>1. /\ stage = "hooking" /\ c \in batch /\ phase[c] = "hooking" /\ Turn(c)
      /\ at[c] <= Len(setting.order) /\ setting.order[at[c]] = "permission" /\ CallInv(c)
  BY TurnFacts DEF PermissionAsks, Modules
<1>2. /\ UNCHANGED <<setting, planned, enters, stage, batch, request, done, inbox, host, heard,
                     answered, cleared, reports, planDue, held>>
      /\ Suspend(c, "host") /\ Disposition(request[c]) = "ask"
  BY DEF PermissionAsks, historyVars
<1>3. /\ at' \in [ToolCalls -> 1..Len(setting.order) + 1]
      /\ phase' \in [ToolCalls -> CallPhases]
      /\ phase'[c] = "host" /\ at'[c] = at[c] /\ PlaceInv(c)' /\ Untouched(c)
  BY <1>1, <1>2, SuspendMoves
<1>4. /\ ~Passed(c, "permission")
      /\ \A m \in Modules : Passed(c, m)' <=> Passed(c, m)
  BY <1>1, <1>2, <1>3, NotYet, PassedStays
<1>5. DecisionsTyped'
  BY <1>2, <1>3 DEF DecisionsInv, DecisionsTyped, DecisionsTypeOK, ListInv, CallPhases
<1>6. \A d \in ToolCalls \ {c} : SameCall(d)
  BY <1>2, <1>3 DEF SameCall, Untouched
<1>7. \A d \in ToolCalls : phase[d] # "new" => phase'[d] # "new"
  BY <1>3, <1>6 DEF SameCall
<1>8. PermissionInv(c)'
  <2>1. host[c] = "silent" /\ PermissionReports(c) = {}
    BY <1>1, <1>4 DEF CallInv, PermissionInv
  <2>2. PermissionReports(c)' = {}
    BY <1>2, <2>1 DEF PermissionReports
  <2>3. Approval' = Approval
    BY <1>2 DEF Approval, DefaultApprovalFor
  <2> QED
    BY <1>1, <1>2, <1>3, <1>4, <2>1, <2>2, <2>3, AskMeans DEF PermissionInv, Modules
<1>9. HumanInv(c)'
  BY <1>1, <1>2, <1>3, <1>4, <1>7, HumanKept DEF CallInv, Modules
<1>10. GateInv(c)'
  BY <1>1, <1>2, <1>4, GateKept DEF CallInv, Modules
<1>11. InboxInv' /\ AnswersGoAstrayOnlyAfter'
  BY <1>1, <1>2, <1>6, QuietStep DEF SameCall
<1>12. ModeInv'
  BY <1>2 DEF DecisionsInv, ModeInv
<1> QED
  BY <1>1, <1>2, <1>3, <1>5, <1>6, <1>8, <1>9, <1>10, <1>11, <1>12, OneCallStep DEF CallInv

LEMMA HostDecidesStep ==
  ASSUME DecisionsInv, NEW c \in ToolCalls, NEW says \in {"yes", "no", "error"},
         HostDecides(c, says)
  PROVE  DecisionsInv'
<1>1. /\ stage = "hooking" /\ c \in batch /\ phase[c] = "host"
      /\ at[c] <= Len(setting.order) /\ setting.order[at[c]] = "permission" /\ CallInv(c)
      /\ setting.delegated = "no" /\ Approval \in {"ask", "nil"}
  BY WaitFacts DEF HostDecides, CallInv, PermissionInv
<1>2. /\ UNCHANGED <<setting, planned, enters, stage, batch, request, done, inbox, heard,
                     answered, planDue, held>>
      /\ host' = [host EXCEPT ![c] = says]
  BY DEF HostDecides
<1>3. /\ host' \in [ToolCalls -> {"silent", "yes", "no", "error"}] /\ host'[c] = says
      /\ \A d \in ToolCalls \ {c} : host'[d] = host[d]
  BY <1>2 DEF DecisionsInv, DecisionsTyped, DecisionsTypeOK
<1>4. ~Passed(c, "permission") /\ PermissionReports(c) = {}
  <2>1. ~Passed(c, "permission")
    BY <1>1, NotYet
  <2> QED
    BY <1>1, <2>1 DEF CallInv, PermissionInv
<1>5. Approval' = Approval
  BY <1>2 DEF Approval, DefaultApprovalFor
<1>6. CASE says = "yes" /\ ~done
  <2>1. Pass(c) /\ Report(c, "permission", "approved")
        /\ cleared' = [cleared EXCEPT ![c] = request[c].path]
    BY <1>6 DEF HostDecides, Clear
  <2>2. /\ at' \in [ToolCalls -> 1..Len(setting.order) + 1]
        /\ phase' \in [ToolCalls -> CallPhases]
        /\ phase'[c] \in {"hooking", "ready"} /\ PlaceInv(c)' /\ Untouched(c)
    BY <1>1, <1>2, <2>1, PassMoves
  <2>3. \A m \in Modules : Passed(c, m)' <=> Passed(c, m) \/ m = "permission"
    BY <1>1, <1>2, <2>1, PassesOne
  <2>4. /\ cleared' \in [ToolCalls -> Paths]
        /\ \A d \in ToolCalls \ {c} : cleared'[d] = cleared[d]
    <3>1. request[c] \in RequestType /\ cleared \in [ToolCalls -> Paths]
      BY DEF DecisionsInv, DecisionsTyped, DecisionsTypeOK, ListInv
    <3>2. request[c].path \in Paths
      BY <3>1 DEF RequestType
    <3> QED
      BY <2>1, <3>1, <3>2
  <2>5. reports' \in [ToolCalls -> Seq(Reporters \X Said)]
        /\ \A d \in ToolCalls \ {c} : reports'[d] = reports[d]
    BY <2>1, ReportTyped DEF Said, Reporters
  <2>6. DecisionsTyped'
    BY <1>2, <1>3, <2>2, <2>4, <2>5
       DEF DecisionsInv, DecisionsTyped, DecisionsTypeOK, ListInv, CallPhases
  <2>7. \A d \in ToolCalls \ {c} : SameCall(d)
    BY <1>2, <1>3, <2>2, <2>4, <2>5 DEF SameCall, Untouched
  <2>8. \A d \in ToolCalls : phase[d] # "new" => phase'[d] # "new"
    BY <2>2, <2>7 DEF SameCall
  <2>9. PermissionInv(c)'
    <3>1. PICK n : PermissionReports(c)' = {n} /\ reports'[c][n][2] = "approved"
      BY <1>4, <2>1, PermissionReport
    <3>2. AllowedByPermission(c)'
      BY <1>1, <1>2, <1>3, <1>5, <1>6 DEF AllowedByPermission
    <3> QED
      BY <1>3, <1>6, <2>2, <2>3, <3>1, <3>2 DEF PermissionInv, Modules
  <2>10. HumanInv(c)'
    BY <1>1, <1>2, <2>2, <2>3, <2>8, HumanKept DEF CallInv, Modules
  <2>11. GateInv(c)'
    BY <1>1, <1>2, <2>3, GateKept DEF CallInv, Modules
  <2>12. InboxInv' /\ AnswersGoAstrayOnlyAfter'
    BY <1>1, <1>2, <2>7, QuietStep DEF SameCall
  <2>13. ModeInv'
    BY <1>2 DEF DecisionsInv, ModeInv
  <2> QED
    BY <1>1, <1>2, <2>2, <2>6, <2>7, <2>9, <2>10, <2>11, <2>12, <2>13, OneCallStep DEF CallInv
<1>7. CASE ~(says = "yes" /\ ~done)
  <2>1. Block(c) /\ Report(c, "permission", "rejected") /\ cleared' = cleared
    BY <1>7 DEF HostDecides
  <2>2. /\ at' \in [ToolCalls -> 1..Len(setting.order) + 1]
        /\ phase' \in [ToolCalls -> CallPhases]
        /\ phase'[c] = "blocked" /\ at'[c] = at[c] /\ PlaceInv(c)' /\ Untouched(c)
    BY <2>1, BlockMoves
  <2>3. \A m \in Modules : Passed(c, m)' <=> Passed(c, m)
    BY <1>2, <2>2, PassedStays
  <2>5. reports' \in [ToolCalls -> Seq(Reporters \X Said)]
        /\ \A d \in ToolCalls \ {c} : reports'[d] = reports[d]
    BY <2>1, ReportTyped DEF Said, Reporters
  <2>6. DecisionsTyped'
    BY <1>2, <1>3, <2>1, <2>2, <2>5
       DEF DecisionsInv, DecisionsTyped, DecisionsTypeOK, ListInv, CallPhases
  <2>7. \A d \in ToolCalls \ {c} : SameCall(d)
    BY <1>2, <1>3, <2>1, <2>2, <2>5 DEF SameCall, Untouched
  <2>8. \A d \in ToolCalls : phase[d] # "new" => phase'[d] # "new"
    BY <2>2, <2>7 DEF SameCall
  <2>9. PermissionInv(c)'
    <3>1. PICK n : PermissionReports(c)' = {n} /\ reports'[c][n][2] = "rejected"
      BY <1>4, <2>1, PermissionReport
    <3> QED
      BY <1>4, <2>2, <2>3, <3>1 DEF PermissionInv, Modules
  <2>10. HumanInv(c)'
    BY <1>1, <1>2, <2>2, <2>3, <2>8, HumanKept DEF CallInv, Modules
  <2>11. GateInv(c)'
    BY <1>1, <1>2, <2>3, GateKept DEF CallInv, Modules
  <2>12. InboxInv' /\ AnswersGoAstrayOnlyAfter'
    BY <1>1, <1>2, <2>7, QuietStep DEF SameCall
  <2>13. ModeInv'
    BY <1>2 DEF DecisionsInv, ModeInv
  <2> QED
    BY <1>1, <1>2, <2>2, <2>6, <2>7, <2>9, <2>10, <2>11, <2>12, <2>13, OneCallStep DEF CallInv
<1> QED
  BY <1>6, <1>7

-----------------------------------------------------------------------------
(* The steps: human in the loop.                                           *)
LEMMA HITLPassesStep ==
  ASSUME DecisionsInv, NEW c \in ToolCalls, HITLPasses(c)
  PROVE  DecisionsInv'
<1>1. /\ stage = "hooking" /\ c \in batch /\ phase[c] = "hooking"
      /\ at[c] <= Len(setting.order) /\ setting.order[at[c]] = "hitl" /\ CallInv(c)
  BY TurnFacts DEF HITLPasses, Modules
<1>2. /\ UNCHANGED <<setting, planned, enters, stage, batch, request, done, inbox, host, heard,
                     answered, cleared, reports, planDue, held>>
      /\ Pass(c) /\ (request[c].tool = "dialogue" \/ ~request[c].rule)
  BY DEF HITLPasses, historyVars
<1>3. /\ at' \in [ToolCalls -> 1..Len(setting.order) + 1]
      /\ phase' \in [ToolCalls -> CallPhases]
      /\ phase'[c] \in {"hooking", "ready"} /\ PlaceInv(c)' /\ Untouched(c)
  BY <1>1, <1>2, PassMoves
<1>4. /\ ~Passed(c, "hitl")
      /\ \A m \in Modules : Passed(c, m)' <=> Passed(c, m) \/ m = "hitl"
  BY <1>1, <1>2, PassesOne
<1>5. DecisionsTyped'
  BY <1>2, <1>3 DEF DecisionsInv, DecisionsTyped, DecisionsTypeOK, ListInv, CallPhases
<1>6. \A d \in ToolCalls \ {c} : SameCall(d)
  BY <1>2, <1>3 DEF SameCall, Untouched
<1>7. PermissionReports(c)' = PermissionReports(c)
  BY <1>2 DEF PermissionReports
<1>8. PermissionInv(c)'
  BY <1>1, <1>2, <1>3, <1>4, <1>7, PermissionKept DEF CallInv, Modules
<1>9. HumanInv(c)'
  <2>1. heard[c] = <<>> /\ heard' = heard
    BY <1>1, <1>2, <1>4 DEF CallInv, HumanInv
  <2>2. ~Answered(c)'
    BY <2>1, AnswersDiffer DEF Answered
  <2>3. AllowedByHuman(c)'
    BY <1>2 DEF AllowedByHuman
  <2> QED
    BY <1>3, <2>1, <2>2, <2>3 DEF HumanInv
<1>10. GateInv(c)'
  BY <1>1, <1>2, <1>4, GateKept DEF CallInv, Modules
<1>11. InboxInv' /\ AnswersGoAstrayOnlyAfter'
  BY <1>1, <1>2, <1>6, QuietStep DEF SameCall
<1>12. ModeInv'
  BY <1>2 DEF DecisionsInv, ModeInv
<1> QED
  BY <1>1, <1>2, <1>3, <1>5, <1>6, <1>8, <1>9, <1>10, <1>11, <1>12, OneCallStep DEF CallInv

LEMMA RequestApprovalStep ==
  ASSUME DecisionsInv, NEW c \in ToolCalls, RequestApproval(c)
  PROVE  DecisionsInv'
<1>1. /\ stage = "hooking" /\ c \in batch /\ phase[c] = "hooking" /\ Turn(c)
      /\ at[c] <= Len(setting.order) /\ setting.order[at[c]] = "hitl" /\ CallInv(c)
  BY TurnFacts DEF RequestApproval, Modules
<1>2. /\ UNCHANGED <<setting, planned, enters, stage, batch, request, done, inbox, host, heard,
                     answered, cleared, reports, planDue, held>>
      /\ Suspend(c, "human") /\ request[c].tool # "dialogue" /\ request[c].rule
  BY DEF RequestApproval, historyVars
<1>3. /\ at' \in [ToolCalls -> 1..Len(setting.order) + 1]
      /\ phase' \in [ToolCalls -> CallPhases]
      /\ phase'[c] = "human" /\ at'[c] = at[c] /\ PlaceInv(c)' /\ Untouched(c)
  BY <1>1, <1>2, SuspendMoves
<1>4. /\ ~Passed(c, "hitl")
      /\ \A m \in Modules : Passed(c, m)' <=> Passed(c, m)
  BY <1>1, <1>2, <1>3, NotYet, PassedStays
<1>5. DecisionsTyped'
  BY <1>2, <1>3 DEF DecisionsInv, DecisionsTyped, DecisionsTypeOK, ListInv, CallPhases
<1>6. \A d \in ToolCalls \ {c} : SameCall(d)
  BY <1>2, <1>3 DEF SameCall, Untouched
<1>7. PermissionReports(c)' = PermissionReports(c)
  BY <1>2 DEF PermissionReports
<1>8. PermissionInv(c)'
  BY <1>1, <1>2, <1>3, <1>4, <1>7, PermissionKept DEF CallInv, Modules
<1>9. HumanInv(c)'
  <2>1. heard[c] = <<>> /\ heard' = heard
    BY <1>1, <1>2, <1>4 DEF CallInv, HumanInv
  <2>2. ~Answered(c)'
    BY <2>1, AnswersDiffer DEF Answered
  <2> QED
    BY <1>1, <1>2, <1>3, <1>4, <2>1, <2>2 DEF HumanInv, Modules
<1>10. GateInv(c)'
  BY <1>1, <1>2, <1>4, GateKept DEF CallInv, Modules
<1>11. InboxInv' /\ AnswersGoAstrayOnlyAfter'
  BY <1>1, <1>2, <1>6, QuietStep DEF SameCall
<1>12. ModeInv'
  BY <1>2 DEF DecisionsInv, ModeInv
<1> QED
  BY <1>1, <1>2, <1>3, <1>5, <1>6, <1>8, <1>9, <1>10, <1>11, <1>12, OneCallStep DEF CallInv

(* A call that has not been issued has heard nothing.                      *)
LEMMA HeardIsIssued ==
  ASSUME DecisionsInv, NEW c \in ToolCalls, heard[c] # <<>>
  PROVE  phase[c] # "new"
<1> SUFFICES ASSUME phase[c] = "new" PROVE FALSE
  OBVIOUS
<1>1. at[c] = 1 /\ HumanInv(c)
  BY DEF DecisionsInv, CallInv, PlaceInv
<1>2. ~Passed(c, "hitl")
  BY <1>1, NonePassed DEF Modules
<1> QED
  BY <1>1, <1>2 DEF HumanInv

LEMMA HumanAnswersStep ==
  ASSUME DecisionsInv, NEW c \in ToolCalls, NEW says \in HostAnswers, HumanAnswers(c, says)
  PROVE  DecisionsInv'
<1>1. /\ phase[c] \in {"human", "talks"} \/ heard[c] \in Spent
      /\ inbox' = <<<<c, says>>>> /\ answered' = answered \cup {c}
      /\ UNCHANGED <<setting, planned, enters, stage, batch, request, at, phase, done, host,
                     heard, cleared, reports, planDue, held>>
  BY DEF HumanAnswers, callVars, Spent
<1>2. DecisionsTyped'
  BY <1>1 DEF DecisionsInv, DecisionsTyped, DecisionsTypeOK, ListInv
<1>3. \A d \in ToolCalls : SameCall(d)
  BY <1>1 DEF SameCall
<1>4. CallInv(c)'
  <2>1. batch \subseteq ToolCalls /\ CallInv(c)
    BY DEF DecisionsInv, DecisionsTyped, DecisionsTypeOK
  <2> QED
    BY <1>1, <1>3, <2>1, BystanderKept
<1>5. phase[c] # "new"
  <2>1. heard[c] \in Spent => heard[c] # <<>>
    BY DEF Spent
  <2> QED
    BY <1>1, <2>1, HeardIsIssued
<1>6. InboxInv'
  BY <1>1 DEF InboxInv
<1>7. AnswersGoAstrayOnlyAfter'
  <2>1. \A d \in ToolCalls : Answered(d)' <=> Answered(d)
    BY <1>1 DEF Answered
  <2> QED
    BY <1>1, <2>1 DEF DecisionsInv, AnswersGoAstrayOnlyAfter
<1>8. ModeInv'
  BY <1>1 DEF DecisionsInv, ModeInv
<1> QED
  BY <1>1, <1>2, <1>3, <1>4, <1>5, <1>6, <1>7, <1>8, OneCallStep

(* Where an answer goes astray: a call that hears something while it waits *)
(* was in nobody's way before.                                             *)
LEMMA AstrayKept ==
  ASSUME DecisionsInv, NEW c \in ToolCalls, heard[c] = <<>>,
         \A d \in ToolCalls \ {c} : heard'[d] = heard[d],
         \A d \in ToolCalls : request'[d].tool = request[d].tool,
         heard'[c] \in Spent \/ (Answered(c)' /\ (heard'[c][1] # c =>
             \/ heard[heard'[c][1]] \in Spent
             \/ request[c].tool = "dialogue" /\ request[heard'[c][1]].tool = "dialogue"))
  PROVE  AnswersGoAstrayOnlyAfter'
<1>1. heard[c] \notin Spent
  <2>1. Len(<<"timeout">>) = 1 /\ Len(<<"cancelled">>) = 1 /\ Len(<<>>) = 0
    OBVIOUS
  <2> QED
    BY <2>1 DEF Spent
<1> SUFFICES ASSUME NEW d \in ToolCalls, Answered(d)', heard'[d][1] # d
             PROVE  \/ heard'[heard'[d][1]] \in Spent
                    \/ /\ request'[d].tool = "dialogue"
                       /\ request'[heard'[d][1]].tool = "dialogue"
  BY DEF AnswersGoAstrayOnlyAfter, Spent
<1>2. PICK e \in ToolCalls : e = heard'[d][1]
  BY DEF Answered
<1>3. CASE d = c
  <2>1. heard'[c] \notin Spent
    BY <1>3, AnswersDiffer DEF Answered
  <2>2. heard[e] \in Spent \/ (request[c].tool = "dialogue" /\ request[e].tool = "dialogue")
    BY <1>2, <1>3, <2>1
  <2>3. e # c
    BY <1>2, <1>3
  <2>4. heard'[e] = heard[e]
    BY <2>3
  <2> QED
    BY <1>2, <1>3, <2>2, <2>4
<1>4. CASE d # c
  <2>1. heard[d] = heard'[d] /\ Answered(d)
    BY <1>4 DEF Answered
  <2>2. \/ heard[e] \in Spent
        \/ request[d].tool = "dialogue" /\ request[e].tool = "dialogue"
    BY <1>2, <2>1 DEF DecisionsInv, AnswersGoAstrayOnlyAfter, Spent
  <2>3. CASE request[d].tool = "dialogue" /\ request[e].tool = "dialogue"
    BY <1>2, <2>3
  <2>4. CASE heard[e] \in Spent
    <3>1. e # c
      BY <1>1, <2>4
    <3>2. heard'[e] = heard[e]
      BY <3>1
    <3> QED
      BY <1>2, <2>4, <3>2
  <2> QED
    BY <2>2, <2>3, <2>4
<1> QED
  BY <1>3, <1>4

(* What the channel holds.                                                 *)
LEMMA InboxHead ==
  ASSUME DecisionsInv, inbox # <<>>
  PROVE  \E d \in ToolCalls, says \in HostAnswers :
           /\ Head(inbox) = <<d, says>> /\ Tail(inbox) = <<>>
           /\ phase[d] \in {"human", "talks"} \/ heard[d] \in Spent
           /\ phase[d] # "new"
<1>1. PICK a \in ToolCalls \X HostAnswers : inbox = <<a>>
  BY DEF DecisionsInv, DecisionsTyped, ListInv
<1>2. PICK d \in ToolCalls, says \in HostAnswers : a = <<d, says>>
  BY <1>1
<1>3. Head(inbox) = <<d, says>> /\ Tail(inbox) = <<>> /\ inbox[1][1] = d
  BY <1>1, <1>2
<1>4. phase[d] \in {"human", "talks"} \/ heard[d] \in Spent
  BY <1>3 DEF DecisionsInv, InboxInv
<1>5. phase[d] # "new"
  <2>1. Len(<<"timeout">>) = 1 /\ Len(<<"cancelled">>) = 1 /\ Len(<<>>) = 0
    OBVIOUS
  <2>2. <<>> \notin Spent
    BY <2>1 DEF Spent
  <2> QED
    BY <1>4, <2>2, HeardIsIssued
<1> QED
  BY <1>3, <1>4, <1>5

LEMMA InboxKept ==
  ASSUME DecisionsInv, NEW c \in ToolCalls, inbox' = inbox, heard'[c] \in Spent,
         \A d \in ToolCalls \ {c} : SameCall(d)
  PROVE  InboxInv'
<1> SUFFICES ASSUME inbox # <<>> PROVE InboxInv'
  BY DEF InboxInv
<1>1. PICK d \in ToolCalls : d = inbox[1][1]
  BY DEF DecisionsInv, DecisionsTyped, ListInv
<1>2. phase[d] \in {"human", "talks"} \/ heard[d] \in Spent
  BY <1>1 DEF DecisionsInv, InboxInv
<1>3. phase'[d] \in {"human", "talks"} \/ heard'[d] \in Spent
  BY <1>2 DEF SameCall
<1> QED
  BY <1>1, <1>3 DEF InboxInv

LEMMA HeardTyped ==
  ASSUME DecisionsInv, NEW c \in ToolCalls, NEW h \in Heard, heard' = [heard EXCEPT ![c] = h]
  PROVE  /\ heard' \in [ToolCalls -> Heard] /\ heard'[c] = h
         /\ \A d \in ToolCalls \ {c} : heard'[d] = heard[d]
BY DEF DecisionsInv, DecisionsTyped, DecisionsTypeOK

LEMMA TakeAnswerStep ==
  ASSUME DecisionsInv, NEW c \in ToolCalls, TakeAnswer(c)
  PROVE  DecisionsInv'
<1>1. /\ stage = "hooking" /\ c \in batch /\ phase[c] = "human"
      /\ at[c] <= Len(setting.order) /\ setting.order[at[c]] = "hitl" /\ CallInv(c)
      /\ request[c].rule /\ request[c].tool # "dialogue"
  BY WaitFacts DEF TakeAnswer, CallInv, HumanInv
<1>2. PICK d \in ToolCalls, says \in HostAnswers :
        /\ Head(inbox) = <<d, says>> /\ Tail(inbox) = <<>>
        /\ phase[d] \in {"human", "talks"} \/ heard[d] \in Spent
        /\ phase[d] # "new"
  BY InboxHead DEF TakeAnswer
<1>3. /\ UNCHANGED <<setting, planned, enters, stage, batch, done, host, answered, cleared,
                     planDue, held>>
      /\ heard' = [heard EXCEPT ![c] = <<d, says>>] /\ inbox' = <<>>
      /\ IF says = "reject" THEN Block(c) ELSE Pass(c)
      /\ Report(c, "hitl", says)
  <2>1. Head(inbox)[2] = says
    BY <1>2
  <2>2. UNCHANGED <<setting, planned, enters, stage, batch, done, host, answered, cleared,
                    planDue, held>>
    BY DEF TakeAnswer
  <2>3. heard' = [heard EXCEPT ![c] = <<d, says>>] /\ inbox' = <<>>
    BY <1>2 DEF TakeAnswer
  <2>4. IF says = "reject" THEN Block(c) ELSE Pass(c)
    BY <2>1 DEF TakeAnswer
  <2>5. Report(c, "hitl", says)
    BY <2>1, Zenon DEF TakeAnswer
  <2> QED
    BY <2>2, <2>3, <2>4, <2>5
<1>4. PICK p \in Paths : \/ request' = [request EXCEPT ![c].path = p]
                         \/ request' = request
  BY <1>2 DEF TakeAnswer, Paths
<1>5. /\ request' \in [ToolCalls -> RequestType]
      /\ \A e \in ToolCalls \ {c} : request'[e] = request[e]
      /\ request'[c].tool = request[c].tool /\ request'[c].writes = request[c].writes
      /\ request'[c].executes = request[c].executes /\ request'[c].rule = request[c].rule
  <2>1. request \in [ToolCalls -> RequestType]
    BY DEF DecisionsInv, DecisionsTyped, ListInv
  <2>2. CASE request' = request
    BY <2>1, <2>2
  <2>3. CASE request' = [request EXCEPT ![c].path = p]
    <3>1. request'[c] = [request[c] EXCEPT !.path = p] /\ request[c] \in RequestType
      BY <2>1, <2>3
    <3>2. request'[c] \in RequestType
      BY <3>1 DEF RequestType
    <3> QED
      BY <2>1, <2>3, <3>1, <3>2 DEF RequestType
  <2> QED
    BY <1>4, <2>2, <2>3
<1>6. <<d, says>> \in Heard /\ <<d, says>> \in ToolCalls \X HostAnswers
  BY DEF Heard
<1>7. /\ heard' \in [ToolCalls -> Heard] /\ heard'[c] = <<d, says>>
      /\ \A e \in ToolCalls \ {c} : heard'[e] = heard[e]
  BY <1>3, <1>6, HeardTyped
<1>8. /\ at' \in [ToolCalls -> 1..Len(setting.order) + 1]
      /\ phase' \in [ToolCalls -> CallPhases]
      /\ IF says = "reject" THEN phase'[c] = "blocked" ELSE phase'[c] \in {"hooking", "ready"}
      /\ PlaceInv(c)' /\ Untouched(c)
  <2>1. CASE says = "reject"
    BY <1>3, <2>1, BlockMoves
  <2>2. CASE says # "reject"
    BY <1>1, <1>3, <2>2, PassMoves
  <2> QED
    BY <2>1, <2>2
<1>9. /\ ~Passed(c, "hitl")
      /\ \A m \in Modules : Passed(c, m)' <=> Passed(c, m) \/ (m = "hitl" /\ says # "reject")
  <2>1. CASE says = "reject"
    BY <1>1, <1>3, <2>1, NotYet, PassedStays DEF Block
  <2>2. CASE says # "reject"
    BY <1>1, <1>3, <2>2, PassesOne
  <2> QED
    BY <2>1, <2>2
<1>10. reports' \in [ToolCalls -> Seq(Reporters \X Said)]
       /\ \A e \in ToolCalls \ {c} : reports'[e] = reports[e]
  BY <1>3, ReportTyped DEF Said, Reporters
<1>11. DecisionsTyped'
  <2>1. Len(inbox') <= 1
    BY <1>3
  <2> QED
    BY <1>3, <1>5, <1>7, <1>8, <1>10, <2>1
       DEF DecisionsInv, DecisionsTyped, DecisionsTypeOK, ListInv, CallPhases
<1>12. \A e \in ToolCalls \ {c} : SameCall(e)
  BY <1>3, <1>5, <1>7, <1>8, <1>10 DEF SameCall, Untouched
<1>13. /\ PermissionReports(c)' = PermissionReports(c)
       /\ \A k \in PermissionReports(c) : reports'[c][k] = reports[c][k]
  BY <1>3, HumanReport
<1>14. PermissionInv(c)'
  BY <1>1, <1>3, <1>5, <1>8, <1>9, <1>13, PermissionKept DEF CallInv, Modules
<1>15. HumanInv(c)'
  <2>1. phase'[heard'[c][1]] # "new"
    BY <1>2, <1>7, <1>8, <1>12 DEF SameCall
  <2>2. says # "reject" => AllowedByHuman(c)'
    BY <1>6, <1>7 DEF AllowedByHuman, Answered
  <2> QED
    BY <1>1, <1>5, <1>8, <1>9, <2>1, <2>2 DEF HumanInv, Modules
<1>16. GateInv(c)'
  BY <1>1, <1>3, <1>5, <1>9, GateKept DEF CallInv, Modules
<1>17. InboxInv'
  BY <1>3 DEF InboxInv
<1>18. heard[c] = <<>>
  BY <1>1, <1>9 DEF CallInv, HumanInv
<1>19. d # c => heard[d] \in Spent
  <2> SUFFICES ASSUME d # c, phase[d] \in {"human", "talks"} PROVE FALSE
    BY <1>2
  <2>1. CallInv(d) /\ stage = "hooking"
    BY <1>1 DEF DecisionsInv
  <2>2. phase[d] = "human" /\ d \in batch
    BY <2>1 DEF CallInv, PlaceInv
  <2>3. c < d => phase[c] \in {"ready", "blocked"}
    BY <1>1, <2>1, <2>2 DEF CallInv, PlaceInv
  <2>4. d < c => phase[d] \in {"ready", "blocked"}
    BY <1>1, <2>2 DEF CallInv, PlaceInv
  <2>5. c < d \/ d < c
    BY DEF ToolCalls
  <2> QED
    BY <1>1, <2>2, <2>3, <2>4, <2>5
<1>20. AnswersGoAstrayOnlyAfter'
  <2>1. Answered(c)' /\ heard'[c][1] = d
    BY <1>6, <1>7 DEF Answered
  <2>2. \A e \in ToolCalls : request'[e].tool = request[e].tool
    BY <1>5
  <2> QED
    BY <1>7, <1>18, <1>19, <2>1, <2>2, AstrayKept
<1>21. ModeInv'
  BY <1>3 DEF DecisionsInv, ModeInv
<1> QED
  BY <1>1, <1>3, <1>8, <1>11, <1>12, <1>14, <1>15, <1>16, <1>17, <1>20, <1>21, OneCallStep
     DEF CallInv

(* A wait that ends without an answer: the call goes on only if the module *)
(* lets calls go at a timeout.                                             *)
LEMMA WaitEndsStep ==
  ASSUME DecisionsInv, NEW c \in ToolCalls, WaitTimesOut(c) \/ WaitCancelled(c)
  PROVE  DecisionsInv'
<1>1. /\ stage = "hooking" /\ c \in batch /\ phase[c] = "human"
      /\ at[c] <= Len(setting.order) /\ setting.order[at[c]] = "hitl" /\ CallInv(c)
      /\ request[c].rule /\ request[c].tool # "dialogue"
  BY WaitFacts DEF WaitTimesOut, WaitCancelled, CallInv, HumanInv
<1>2. PICK h \in Spent, passes \in BOOLEAN :
        /\ UNCHANGED <<setting, planned, enters, stage, batch, request, done, inbox, host,
                       answered, cleared, planDue, held>>
        /\ heard' = [heard EXCEPT ![c] = h]
        /\ IF passes THEN Pass(c) ELSE Block(c)
        /\ Report(c, "hitl", "timeout") \/ UNCHANGED reports
        /\ passes => h = <<"timeout">> /\ LetsThrough
  <2>1. <<"timeout">> \in Spent /\ <<"cancelled">> \in Spent
    BY DEF Spent
  <2>2. CASE WaitTimesOut(c) /\ LetsThrough
    BY <2>1, <2>2 DEF WaitTimesOut
  <2>3. CASE WaitTimesOut(c) /\ ~LetsThrough
    BY <2>1, <2>3 DEF WaitTimesOut
  <2>4. CASE WaitCancelled(c)
    BY <2>1, <2>4 DEF WaitCancelled
  <2> QED
    BY <2>2, <2>3, <2>4
<1>3. h \in Heard
  BY DEF Heard, Spent
<1>4. /\ heard' \in [ToolCalls -> Heard] /\ heard'[c] = h
      /\ \A e \in ToolCalls \ {c} : heard'[e] = heard[e]
  BY <1>2, <1>3, HeardTyped
<1>5. /\ at' \in [ToolCalls -> 1..Len(setting.order) + 1]
      /\ phase' \in [ToolCalls -> CallPhases]
      /\ IF passes THEN phase'[c] \in {"hooking", "ready"} ELSE phase'[c] = "blocked"
      /\ PlaceInv(c)' /\ Untouched(c)
  <2>1. CASE passes
    BY <1>1, <1>2, <2>1, PassMoves
  <2>2. CASE ~passes
    BY <1>2, <2>2, BlockMoves
  <2> QED
    BY <2>1, <2>2
<1>6. /\ ~Passed(c, "hitl")
      /\ \A m \in Modules : Passed(c, m)' <=> Passed(c, m) \/ (m = "hitl" /\ passes)
  <2>1. CASE passes
    BY <1>1, <1>2, <2>1, PassesOne
  <2>2. CASE ~passes
    BY <1>1, <1>2, <2>2, NotYet, PassedStays DEF Block
  <2> QED
    BY <2>1, <2>2
<1>7. reports' \in [ToolCalls -> Seq(Reporters \X Said)]
      /\ \A e \in ToolCalls \ {c} : reports'[e] = reports[e]
  <2>1. CASE Report(c, "hitl", "timeout")
    BY <2>1, ReportTyped DEF Said, Reporters
  <2>2. CASE UNCHANGED reports
    BY <2>2 DEF DecisionsInv, DecisionsTyped, ListInv
  <2> QED
    BY <1>2, <2>1, <2>2
<1>8. DecisionsTyped'
  BY <1>2, <1>4, <1>5, <1>7 DEF DecisionsInv, DecisionsTyped, DecisionsTypeOK, ListInv, CallPhases
<1>9. \A e \in ToolCalls \ {c} : SameCall(e)
  BY <1>2, <1>4, <1>5, <1>7 DEF SameCall, Untouched
<1>10. /\ PermissionReports(c)' = PermissionReports(c)
       /\ \A k \in PermissionReports(c) : reports'[c][k] = reports[c][k]
  <2>1. CASE Report(c, "hitl", "timeout")
    BY <2>1, HumanReport
  <2>2. CASE UNCHANGED reports
    BY <2>2 DEF PermissionReports
  <2> QED
    BY <1>2, <2>1, <2>2
<1>11. PermissionInv(c)'
  BY <1>1, <1>2, <1>5, <1>6, <1>10, PermissionKept DEF CallInv, Modules
<1>12. HumanInv(c)'
  <2>1. ~Answered(c)'
    BY <1>4, AnswersDiffer DEF Answered
  <2>2. passes => AllowedByHuman(c)'
    BY <1>2, <1>4 DEF AllowedByHuman, LetsThrough
  <2> QED
    BY <1>1, <1>2, <1>5, <1>6, <2>1, <2>2 DEF HumanInv, Modules
<1>13. GateInv(c)'
  BY <1>1, <1>2, <1>6, GateKept DEF CallInv, Modules
<1>14. InboxInv'
  BY <1>2, <1>4, <1>9, InboxKept
<1>15. AnswersGoAstrayOnlyAfter'
  <2>1. heard[c] = <<>>
    BY <1>1, <1>6 DEF CallInv, HumanInv
  <2> QED
    BY <1>2, <1>4, <2>1, AstrayKept
<1>16. ModeInv'
  BY <1>2 DEF DecisionsInv, ModeInv
<1> QED
  BY <1>1, <1>2, <1>5, <1>8, <1>9, <1>11, <1>12, <1>13, <1>14, <1>15, <1>16, OneCallStep
     DEF CallInv

-----------------------------------------------------------------------------
(* The steps: the tools.                                                   *)
LEMMA ToolMoves ==
  ASSUME DecisionsInv, NEW c \in ToolCalls, phase[c] \in {"ready", "talks", "asks"},
         stage = "running", NEW p \in Started, phase' = [phase EXCEPT ![c] = p],
         UNCHANGED <<setting, stage, batch, at>>
  PROVE  /\ at[c] = Len(setting.order) + 1 /\ CallInv(c) /\ c \in batch
         /\ phase' \in [ToolCalls -> CallPhases] /\ phase'[c] = p
         /\ PlaceInv(c)' /\ Untouched(c)
         /\ \A m \in Modules : Passed(c, m) /\ Passed(c, m)'
<1>1. CallInv(c) /\ phase \in [ToolCalls -> CallPhases]
  BY DEF DecisionsInv, DecisionsTyped, DecisionsTypeOK, CallPhases
<1>2. at[c] = Len(setting.order) + 1 /\ c \in batch
  BY <1>1 DEF CallInv, PlaceInv, Started
<1>3. phase' \in [ToolCalls -> CallPhases] /\ phase'[c] = p
  BY <1>1 DEF CallPhases, Started, Waiting, Over
<1>4. Untouched(c)
  BY <1>1 DEF Untouched
<1>5. PlaceInv(c)'
  BY <1>2, <1>3 DEF PlaceInv, Started
<1>6. \A m \in Modules : Passed(c, m) /\ Passed(c, m)'
  BY <1>2, PassedByAll, PassedStays
<1> QED
  BY <1>1, <1>2, <1>3, <1>4, <1>5, <1>6

LEMMA StartToolStep ==
  ASSUME DecisionsInv, NEW c \in ToolCalls, StartTool(c)
  PROVE  DecisionsInv'
<1>1. /\ stage = "running" /\ phase[c] = "ready"
      /\ UNCHANGED <<setting, planned, enters, stage, batch, request, at, done, inbox, host,
                     heard, answered, cleared, reports, planDue, held>>
  BY DEF StartTool, historyVars
<1>2. PICK p \in {"talks", "asks", "ran"} :
        phase' = [phase EXCEPT ![c] = p] /\ (p = "talks" => request[c].tool = "dialogue")
  <2>1. CASE request[c].tool = "dialogue"
    BY <2>1 DEF StartTool
  <2>2. CASE request[c].tool = "exit" /\ planned
    BY <2>2 DEF StartTool
  <2>3. CASE ~(request[c].tool = "dialogue") /\ ~(request[c].tool = "exit" /\ planned)
    BY <2>3 DEF StartTool
  <2> QED
    BY <2>1, <2>2, <2>3
<1>3. p \in Started
  BY DEF Started
<1>4. /\ CallInv(c) /\ phase' \in [ToolCalls -> CallPhases] /\ phase'[c] = p
      /\ PlaceInv(c)' /\ Untouched(c)
      /\ \A m \in Modules : Passed(c, m) /\ Passed(c, m)'
  BY <1>1, <1>2, <1>3, ToolMoves
<1>5. DecisionsTyped'
  BY <1>1, <1>4 DEF DecisionsInv, DecisionsTyped, DecisionsTypeOK, ListInv, CallPhases
<1>6. \A d \in ToolCalls \ {c} : SameCall(d)
  BY <1>1, <1>4 DEF SameCall, Untouched
<1>7. \A d \in ToolCalls : phase[d] # "new" => phase'[d] # "new"
  BY <1>4, <1>6 DEF SameCall
<1>8. PermissionReports(c)' = PermissionReports(c)
  BY <1>1 DEF PermissionReports
<1>9. PermissionInv(c)'
  BY <1>1, <1>4, <1>8, PermissionKept DEF CallInv, Modules
<1>10. HumanInv(c)'
  BY <1>1, <1>2, <1>4, <1>7, HumanKept DEF CallInv, Modules
<1>11. GateInv(c)'
  BY <1>1, <1>4, GateKept DEF CallInv, Modules
<1>12. InboxInv' /\ AnswersGoAstrayOnlyAfter'
  BY <1>1, <1>6, QuietStep DEF SameCall
<1>13. ModeInv'
  BY <1>1 DEF DecisionsInv, ModeInv
<1> QED
  BY <1>1, <1>4, <1>5, <1>6, <1>9, <1>10, <1>11, <1>12, <1>13, OneCallStep DEF CallInv

LEMMA DialogueReturnsStep ==
  ASSUME DecisionsInv, NEW c \in ToolCalls, DialogueReturns(c)
  PROVE  DecisionsInv'
<1>1. /\ phase[c] = "talks"
      /\ UNCHANGED <<setting, planned, enters, stage, batch, request, at, done, host, answered,
                     cleared, reports, planDue, held>>
  BY DEF DialogueReturns
<1>2. /\ stage = "running" /\ CallInv(c) /\ request[c].tool = "dialogue" /\ heard[c] = <<>>
  BY <1>1 DEF DecisionsInv, CallInv, PlaceInv, HumanInv
<1>3. PICK h \in Heard, p \in {"ran", "failed"} :
        heard' = [heard EXCEPT ![c] = h] /\ phase' = [phase EXCEPT ![c] = p]
        /\ \/ /\ h \in Spent /\ inbox' = inbox
           \/ /\ inbox' = <<>>
              /\ \E d \in ToolCalls, says \in HostAnswers :
                   /\ h = <<d, says>> /\ phase[d] # "new"
                   /\ phase[d] \in {"human", "talks"} \/ heard[d] \in Spent
  <2>1. <<"timeout">> \in Spent /\ <<"cancelled">> \in Spent /\ Spent \subseteq Heard
    BY DEF Spent, Heard
  <2>2. CASE heard' = [heard EXCEPT ![c] = <<"timeout">>] /\ inbox' = inbox
             /\ phase' = [phase EXCEPT ![c] = IF setting.onTimeout = "error" THEN "failed" ELSE "ran"]
    BY <2>1, <2>2
  <2>3. CASE heard' = [heard EXCEPT ![c] = <<"cancelled">>] /\ inbox' = inbox
             /\ phase' = [phase EXCEPT ![c] = "failed"]
    BY <2>1, <2>3
  <2>4. CASE /\ inbox # <<>> /\ heard' = [heard EXCEPT ![c] = Head(inbox)]
             /\ inbox' = Tail(inbox) /\ phase' = [phase EXCEPT ![c] = "ran"]
    <3>1. PICK d \in ToolCalls, says \in HostAnswers :
            /\ Head(inbox) = <<d, says>> /\ Tail(inbox) = <<>>
            /\ phase[d] \in {"human", "talks"} \/ heard[d] \in Spent
            /\ phase[d] # "new"
      BY <2>4, InboxHead
    <3>2. <<d, says>> \in Heard
      BY DEF Heard
    <3> QED
      BY <2>4, <3>1, <3>2
  <2> QED
    BY <2>2, <2>3, <2>4 DEF DialogueReturns
<1>4. p \in Started
  BY DEF Started
<1>5. /\ phase' \in [ToolCalls -> CallPhases] /\ phase'[c] = p
      /\ PlaceInv(c)' /\ Untouched(c)
      /\ \A m \in Modules : Passed(c, m) /\ Passed(c, m)'
  BY <1>1, <1>2, <1>3, <1>4, ToolMoves
<1>6. /\ heard' \in [ToolCalls -> Heard] /\ heard'[c] = h
      /\ \A e \in ToolCalls \ {c} : heard'[e] = heard[e]
  BY <1>3, HeardTyped
<1>7. DecisionsTyped'
  <2>1. Len(inbox') <= 1
    BY <1>3 DEF DecisionsInv, DecisionsTyped, DecisionsTypeOK
  <2> QED
    BY <1>1, <1>3, <1>5, <1>6, <2>1
       DEF DecisionsInv, DecisionsTyped, DecisionsTypeOK, ListInv, CallPhases
<1>8. \A d \in ToolCalls \ {c} : SameCall(d)
  BY <1>1, <1>5, <1>6 DEF SameCall, Untouched
<1>9. PermissionReports(c)' = PermissionReports(c)
  BY <1>1 DEF PermissionReports
<1>10. PermissionInv(c)'
  BY <1>1, <1>2, <1>5, <1>9, PermissionKept DEF CallInv, Modules
<1>11. HumanInv(c)'
  <2>1. Answered(c)' => phase'[heard'[c][1]] # "new"
    <3>1. CASE h \in Spent
      BY <1>6, <3>1, AnswersDiffer DEF Answered
    <3>2. CASE h \notin Spent
      BY <1>3, <1>5, <1>6, <1>8, <3>2 DEF SameCall
    <3> QED
      BY <3>1, <3>2
  <2>2. AllowedByHuman(c)'
    BY <1>1, <1>2 DEF AllowedByHuman
  <2> QED
    BY <1>5, <2>1, <2>2 DEF HumanInv, Modules
<1>12. GateInv(c)'
  BY <1>1, <1>2, <1>5, GateKept DEF CallInv, Modules
<1>13. InboxInv'
  <2>1. CASE inbox' = <<>>
    BY <2>1 DEF InboxInv
  <2>2. CASE h \in Spent /\ inbox' = inbox
    BY <1>6, <1>8, <2>2, InboxKept
  <2> QED
    BY <1>3, <2>1, <2>2
<1>14. AnswersGoAstrayOnlyAfter'
  <2>1. \A e \in ToolCalls : request'[e].tool = request[e].tool
    BY <1>1
  <2>2. CASE h \in Spent
    BY <1>2, <1>6, <2>1, <2>2, AstrayKept
  <2>3. CASE h \notin Spent
    <3>1. PICK d \in ToolCalls, says \in HostAnswers :
            h = <<d, says>> /\ (phase[d] \in {"human", "talks"} \/ heard[d] \in Spent)
      BY <1>3, <2>3
    <3>2. Answered(c)' /\ heard'[c][1] = d
      BY <1>6, <3>1 DEF Answered
    <3>3. CallInv(d)
      BY DEF DecisionsInv
    <3>4. phase[d] # "human"
      BY <1>2, <3>3 DEF CallInv, PlaceInv
    <3>5. phase[d] = "talks" => request[d].tool = "dialogue"
      BY <3>3 DEF CallInv, HumanInv
    <3> QED
      BY <1>2, <1>6, <2>1, <3>1, <3>2, <3>4, <3>5, AstrayKept
  <2> QED
    BY <2>2, <2>3
<1>15. ModeInv'
  BY <1>1 DEF DecisionsInv, ModeInv
<1>16. phase[c] # "new" /\ phase'[c] # "new" /\ stage # "hooking"
  BY <1>1, <1>2, <1>5
<1> QED
  BY <1>1, <1>5, <1>7, <1>8, <1>10, <1>11, <1>12, <1>13, <1>14, <1>15, <1>16, OneCallStep
     DEF CallInv

LEMMA PlanDecidedStep ==
  ASSUME DecisionsInv, NEW c \in ToolCalls, NEW says \in {"yes", "no", "error"},
         PlanDecided(c, says)
  PROVE  DecisionsInv'
<1>1. /\ phase[c] = "asks"
      /\ UNCHANGED <<setting, enters, stage, batch, request, at, done, inbox, host, heard,
                     answered, cleared, reports>>
      /\ planned' = (IF says = "yes" THEN FALSE ELSE planned)
      /\ planDue' = (planDue /\ says # "yes")
      /\ held' = IF says = "yes" THEN {} ELSE held
  BY DEF PlanDecided, Approves
<1>2. stage = "running" /\ CallInv(c)
  BY <1>1 DEF DecisionsInv, CallInv, PlaceInv
<1>3. PICK p \in {"ran", "failed"} : phase' = [phase EXCEPT ![c] = p]
  BY DEF PlanDecided
<1>4. p \in Started
  BY DEF Started
<1>5. /\ phase' \in [ToolCalls -> CallPhases] /\ phase'[c] = p
      /\ PlaceInv(c)' /\ Untouched(c)
      /\ \A m \in Modules : Passed(c, m) /\ Passed(c, m)'
  BY <1>1, <1>2, <1>3, <1>4, ToolMoves
<1>6. planned \in BOOLEAN /\ planDue \in BOOLEAN /\ held \subseteq ToolCalls
      /\ planned = planDue /\ (held # {} => planned)
  BY DEF DecisionsInv, DecisionsTyped, DecisionsTypeOK, ModeInv
<1>7. /\ planned' \in BOOLEAN /\ planDue' \in BOOLEAN /\ held' \subseteq held
      /\ planned' = planDue' /\ (held' # {} => planned')
  <2>1. CASE says = "yes"
    BY <1>1, <2>1
  <2>2. CASE says # "yes"
    BY <1>1, <1>6, <2>2
  <2> QED
    BY <2>1, <2>2
<1>8. DecisionsTyped'
  BY <1>1, <1>5, <1>6, <1>7 DEF DecisionsInv, DecisionsTyped, DecisionsTypeOK, ListInv, CallPhases
<1>9. \A d \in ToolCalls \ {c} : SameCall(d)
  BY <1>1, <1>5 DEF SameCall, Untouched
<1>10. \A d \in ToolCalls : phase[d] # "new" => phase'[d] # "new"
  BY <1>5, <1>9 DEF SameCall
<1>11. PermissionReports(c)' = PermissionReports(c)
  BY <1>1 DEF PermissionReports
<1>12. PermissionInv(c)'
  BY <1>1, <1>2, <1>5, <1>11, PermissionKept DEF CallInv, Modules
<1>13. HumanInv(c)'
  BY <1>1, <1>2, <1>5, <1>10, HumanKept DEF CallInv, Modules
<1>14. GateInv(c)'
  BY <1>1, <1>2, <1>5, <1>7, GateKept DEF CallInv, Modules
<1>15. InboxInv' /\ AnswersGoAstrayOnlyAfter'
  BY <1>1, <1>9, QuietStep DEF SameCall
<1>16. ModeInv'
  BY <1>7 DEF ModeInv
<1> QED
  BY <1>1, <1>2, <1>5, <1>7, <1>8, <1>9, <1>12, <1>13, <1>14, <1>15, <1>16, OneCallStep
     DEF CallInv

-----------------------------------------------------------------------------
(* The steps: the batch.                                                   *)
BatchFrame == UNCHANGED <<setting, planned, enters, batch, request, at, done, inbox, host, heard,
                          answered, cleared, reports, planDue, held>>

(* ExecTools goes on to its next stage when no call is in the last one.    *)
LEMMA StageStep ==
  ASSUME DecisionsInv, BatchFrame, stage' \in {"running", "over"},
         phase' \in [ToolCalls -> CallPhases],
         \A d \in ToolCalls :
           /\ phase[d] \notin {"hooking", "host", "human", "talks", "asks"}
           /\ phase'[d] = phase[d] \/ (phase[d] = "ready" /\ phase'[d] = "skipped")
           /\ phase'[d] = "ready" => stage' = "running"
  PROVE  DecisionsInv'
<1>1. DecisionsTyped'
  BY DEF DecisionsInv, DecisionsTyped, DecisionsTypeOK, ListInv, CallPhases, BatchFrame
<1>2. \A d \in ToolCalls : phase[d] # "new" <=> phase'[d] # "new"
  OBVIOUS
<1>3. IssueInv'
  BY <1>2 DEF DecisionsInv, IssueInv
<1>4. InboxInv' /\ AnswersGoAstrayOnlyAfter'
  BY QuietStep DEF BatchFrame
<1>5. ModeInv'
  BY DEF DecisionsInv, ModeInv, BatchFrame
<1>6. ASSUME NEW d \in ToolCalls PROVE CallInv(d)'
  <2>1. CallInv(d)
    BY DEF DecisionsInv
  <2>2. \A m \in Modules : Passed(d, m)' <=> Passed(d, m)
    BY PassedStays DEF BatchFrame
  <2>3. PlaceInv(d)'
    <3>1. phase'[d] \notin {"hooking", "host", "human", "talks", "asks"}
      OBVIOUS
    <3>2. phase'[d] = "new" => at'[d] = 1
      BY <2>1 DEF CallInv, PlaceInv, BatchFrame
    <3>3. phase'[d] = "ready" => stage' # "over" /\ d \in batch'
      BY <2>1 DEF CallInv, PlaceInv, BatchFrame
    <3>4. phase'[d] \in {"ready", "skipped"} \cup Started => at'[d] = Len(setting'.order) + 1
      BY <2>1 DEF CallInv, PlaceInv, BatchFrame, Started
    <3> QED
      BY <3>1, <3>2, <3>3, <3>4 DEF PlaceInv
  <2>4. PermissionReports(d)' = PermissionReports(d)
    BY DEF PermissionReports, BatchFrame
  <2>5. PermissionInv(d)'
    BY <2>1, <2>2, <2>4, PermissionKept DEF CallInv, Modules, BatchFrame
  <2>6. HumanInv(d)'
    BY <1>2, <2>1, <2>2, HumanKept DEF CallInv, Modules, BatchFrame
  <2>7. GateInv(d)'
    BY <2>1, <2>2, GateKept DEF CallInv, Modules, BatchFrame
  <2> QED
    BY <2>3, <2>5, <2>6, <2>7 DEF CallInv
<1> QED
  BY <1>1, <1>3, <1>4, <1>5, <1>6 DEF DecisionsInv

LEMMA HooksOverFacts ==
  ASSUME DecisionsInv, HooksOver, NEW d \in ToolCalls
  PROVE  /\ phase[d] \notin {"hooking", "host", "human", "talks", "asks"}
         /\ phase[d] = "ready" => d \in batch
<1>1. CallInv(d) /\ stage = "hooking" /\ \A c \in batch : phase[c] \in {"ready", "blocked"}
  BY DEF DecisionsInv, HooksOver
<1> QED
  BY <1>1 DEF CallInv, PlaceInv

LEMMA BatchStageStep ==
  ASSUME DecisionsInv, BlockBatch \/ StartBatch \/ BatchOver
  PROVE  DecisionsInv'
<1>0. phase \in [ToolCalls -> CallPhases]
  BY DEF DecisionsInv, DecisionsTyped, DecisionsTypeOK, CallPhases
<1>1. CASE BlockBatch
  <2>1. /\ BatchFrame /\ stage' = "over" /\ HooksOver
        /\ phase' = [c \in ToolCalls |-> IF c \in batch /\ phase[c] = "ready" THEN "skipped"
                                                                            ELSE phase[c]]
    BY <1>1 DEF BlockBatch, BatchFrame, historyVars
  <2>2. phase' \in [ToolCalls -> CallPhases]
    BY <1>0, <2>1 DEF CallPhases, Over
  <2>3. ASSUME NEW d \in ToolCalls
        PROVE  /\ phase[d] \notin {"hooking", "host", "human", "talks", "asks"}
               /\ phase'[d] = phase[d] \/ (phase[d] = "ready" /\ phase'[d] = "skipped")
               /\ phase'[d] # "ready"
    BY <2>1, HooksOverFacts
  <2> QED
    BY <2>1, <2>2, <2>3, StageStep
<1>2. CASE StartBatch
  <2>1. BatchFrame /\ stage' = "running" /\ HooksOver /\ phase' = phase
    BY <1>2 DEF StartBatch, BatchFrame, historyVars, callVars
  <2> QED
    BY <1>0, <2>1, HooksOverFacts, StageStep
<1>3. CASE BatchOver
  <2>1. BatchFrame /\ stage = "running" /\ stage' = "over" /\ phase' = phase
        /\ \A c \in batch : phase[c] \in Over
    BY <1>3 DEF BatchOver, BatchFrame, historyVars, callVars
  <2>2. ASSUME NEW d \in ToolCalls
        PROVE  phase[d] \notin {"hooking", "host", "human", "talks", "asks", "ready"}
    <3>1. CallInv(d)
      BY DEF DecisionsInv
    <3> QED
      BY <2>1, <3>1 DEF CallInv, PlaceInv, Over
  <2> QED
    BY <1>0, <2>1, <2>2, StageStep
<1> QED
  BY <1>1, <1>2, <1>3

(* The host enters plan mode, the run is cancelled, or nothing happens.    *)
LEMMA AroundStep ==
  ASSUME DecisionsInv, Enter \/ Cancel \/ UNCHANGED decisionVars
  PROVE  DecisionsInv'
<1>1. /\ UNCHANGED <<setting, stage, batch, request, at, phase, inbox, host, heard,
                     answered, cleared, reports, held>>
      /\ \/ planned' = TRUE /\ planDue' = TRUE
         \/ UNCHANGED <<planned, planDue>>
  BY DEF Enter, Cancel, decisionVars, callVars, historyVars
<1>2. enters' \in 0..MaxEnters /\ done' \in BOOLEAN
  <2>1. enters \in 0..MaxEnters /\ done \in BOOLEAN /\ MaxEnters \in Nat
    BY DecisionsAssumption DEF DecisionsInv, DecisionsTyped, DecisionsTypeOK
  <2>2. CASE Enter
    BY <2>1, <2>2 DEF Enter
  <2>3. CASE Cancel
    BY <2>1, <2>3 DEF Cancel
  <2>4. CASE UNCHANGED decisionVars
    BY <2>1, <2>4 DEF decisionVars
  <2> QED
    BY <2>2, <2>3, <2>4
<1>3. DecisionsTyped'
  BY <1>1, <1>2 DEF DecisionsInv, DecisionsTyped, DecisionsTypeOK, ListInv
<1>4. ModeInv'
  BY <1>1 DEF DecisionsInv, ModeInv
<1>5. InboxInv' /\ AnswersGoAstrayOnlyAfter'
  BY <1>1, QuietStep
<1>6. IssueInv'
  BY <1>1 DEF DecisionsInv, IssueInv
<1>7. ASSUME NEW d \in ToolCalls PROVE CallInv(d)'
  <2>1. CallInv(d) /\ batch \subseteq ToolCalls
    BY DEF DecisionsInv, DecisionsTyped, DecisionsTypeOK
  <2>2. SameCall(d)
    BY <1>1 DEF SameCall
  <2> QED
    BY <1>1, <2>1, <2>2, BystanderKept
<1> QED
  BY <1>3, <1>4, <1>5, <1>6, <1>7 DEF DecisionsInv

(* A batch is issued: its calls are new, the ones before it are over.      *)
LEMMA IssueBatchStep ==
  ASSUME DecisionsInv, NEW size \in 1..2, IssueBatch(size)
  PROVE  DecisionsInv'
<1> DEFINE issued == {c \in ToolCalls : phase[c] # "new"}
           calls == Cardinality(issued) + 1..Cardinality(issued) + 1 + size - 1
<1>1. /\ stage = "over" /\ stage' = "hooking" /\ calls \subseteq ToolCalls /\ batch' = calls
      /\ phase' = [c \in ToolCalls |-> IF c \in calls THEN "hooking" ELSE phase[c]]
      /\ held' = IF planDue THEN held \cup calls ELSE held
      /\ UNCHANGED <<setting, planned, enters, at, done, inbox, host, heard, answered, cleared,
                     reports, planDue>>
  BY DEF IssueBatch
<1>2. PICK rs \in [calls -> Requests] :
        request' = [c \in ToolCalls |-> IF c \in calls THEN rs[c] ELSE request[c]]
  BY DEF IssueBatch
<1>3. PICK n \in 0..MaxCalls : issued = 1..n
  BY DEF DecisionsInv, IssueInv
<1>4. Cardinality(issued) = n /\ n \in Nat
  <2>1. n \in Nat
    BY DecisionsAssumption
  <2>2. Cardinality(1..n) = n
    BY <2>1, FS_Interval
  <2> QED
    BY <1>3, <2>1, <2>2
<1>5. calls = n + 1..n + size
  BY <1>4
<1> HIDE DEF calls
<1>6. \A c \in calls : c \in ToolCalls /\ phase[c] = "new"
  <2> SUFFICES ASSUME NEW c \in calls PROVE c \in ToolCalls /\ c \notin issued
    OBVIOUS
  <2> QED
    BY <1>1, <1>3, <1>4, <1>5
<1>7. n + size \in 0..MaxCalls
  <2>1. n + size \in calls
    BY <1>4, <1>5
  <2> QED
    BY <1>1, <1>4, <2>1 DEF ToolCalls
<1>8. {c \in ToolCalls : phase'[c] # "new"} = 1..n + size
  <2>1. \A c \in ToolCalls : phase'[c] # "new" <=> c \in issued \/ c \in calls
    BY <1>1
  <2>2. \A c : c \in 1..n + size <=> c \in 1..n \/ c \in calls
    BY <1>4, <1>5
  <2>3. \A c \in calls : c \in ToolCalls
    BY <1>6
  <2> HIDE DEF issued
  <2>4. issued \subseteq ToolCalls
    BY DEF issued
  <2> QED
    BY <1>3, <2>1, <2>2, <2>3, <2>4
<1>9. IssueInv'
  BY <1>7, <1>8 DEF IssueInv
<1> HIDE DEF issued
<1>10. /\ request' \in [ToolCalls -> RequestType]
       /\ phase' \in [ToolCalls -> CallPhases]
       /\ \A d \in ToolCalls \ calls : request'[d] = request[d] /\ phase'[d] = phase[d]
       /\ \A d \in calls : phase'[d] = "hooking"
  <2>1. request \in [ToolCalls -> RequestType] /\ phase \in [ToolCalls -> CallPhases]
    BY DEF DecisionsInv, DecisionsTyped, DecisionsTypeOK, ListInv, CallPhases
  <2>2. Requests \subseteq RequestType
    BY DecisionsAssumption DEF RequestType
  <2> QED
    BY <1>1, <1>2, <1>6, <2>1, <2>2 DEF CallPhases
<1>11. DecisionsTyped'
  BY <1>1, <1>6, <1>10 DEF DecisionsInv, DecisionsTyped, DecisionsTypeOK, ListInv, CallPhases
<1>12. ModeInv'
  BY <1>1 DEF DecisionsInv, ModeInv
<1>13. InboxInv'
  <2> SUFFICES ASSUME inbox # <<>>
               PROVE  phase'[inbox[1][1]] \in {"human", "talks"} \/ heard[inbox[1][1]] \in Spent
    BY <1>1 DEF InboxInv
  <2>1. PICK d \in ToolCalls : d = inbox[1][1]
    BY DEF DecisionsInv, DecisionsTyped, ListInv
  <2>2. phase[d] \in {"human", "talks"} \/ heard[d] \in Spent
    BY <2>1 DEF DecisionsInv, InboxInv
  <2>3. phase[d] \in {"human", "talks"} => d \notin calls
    BY <1>6
  <2> QED
    BY <1>10, <2>1, <2>2, <2>3
<1>14. \A d \in ToolCalls : Answered(d) =>
          d \notin calls /\ heard[d][1] \in ToolCalls \ calls
  <2> SUFFICES ASSUME NEW d \in ToolCalls, Answered(d)
               PROVE  d \notin calls /\ heard[d][1] \in ToolCalls \ calls
    OBVIOUS
  <2>1. phase[d] # "new"
    BY AnswersDiffer, HeardIsIssued DEF Answered
  <2>2. phase[heard[d][1]] # "new"
    BY DEF DecisionsInv, CallInv, HumanInv
  <2>3. heard[d][1] \in ToolCalls
    BY DEF Answered
  <2> QED
    BY <1>6, <2>1, <2>2, <2>3
<1>15. AnswersGoAstrayOnlyAfter'
  <2>1. \A d \in ToolCalls : Answered(d)' <=> Answered(d)
    BY <1>1 DEF Answered
  <2> SUFFICES ASSUME NEW d \in ToolCalls, Answered(d), heard[d][1] # d
               PROVE  \/ heard[heard[d][1]] \in Spent
                      \/ /\ request'[d].tool = "dialogue"
                         /\ request'[heard[d][1]].tool = "dialogue"
    BY <1>1, <2>1 DEF AnswersGoAstrayOnlyAfter, Spent
  <2>2. request'[d] = request[d] /\ request'[heard[d][1]] = request[heard[d][1]]
    BY <1>10, <1>14
  <2> QED
    BY <2>2 DEF DecisionsInv, AnswersGoAstrayOnlyAfter, Spent
<1>16. ASSUME NEW d \in ToolCalls \ calls PROVE CallInv(d)'
  <2>1. CallInv(d) /\ d \in ToolCalls
    BY DEF DecisionsInv
  <2>2. \A m \in Modules : Passed(d, m)' <=> Passed(d, m)
    BY <1>1, PassedStays
  <2>3. phase[d] \notin {"hooking", "host", "human", "ready", "talks", "asks"}
    BY <1>1, <2>1 DEF CallInv, PlaceInv
  <2>4. PlaceInv(d)'
    BY <1>1, <1>10, <2>1, <2>3 DEF CallInv, PlaceInv, Started
  <2>5. PermissionReports(d)' = PermissionReports(d)
    BY <1>1 DEF PermissionReports
  <2>6. PermissionInv(d)'
    BY <1>1, <1>10, <2>1, <2>2, <2>3, <2>5, PermissionKept DEF CallInv, Modules
  <2>7. \A e \in ToolCalls : phase[e] # "new" => phase'[e] # "new"
    BY <1>6, <1>10
  <2>8. HumanInv(d)'
    BY <1>1, <1>10, <2>1, <2>2, <2>3, <2>7, HumanKept DEF CallInv, Modules
  <2>9. GateInv(d)'
    BY <1>1, <1>10, <2>1, <2>2, GateKept DEF CallInv, Modules
  <2> QED
    BY <2>4, <2>6, <2>8, <2>9 DEF CallInv
<1>17. ASSUME NEW d \in calls PROVE CallInv(d)'
  <2>1. CallInv(d) /\ d \in ToolCalls /\ phase[d] = "new" /\ phase'[d] = "hooking"
    BY <1>6, <1>10 DEF DecisionsInv
  <2>2. at[d] = 1
    BY <2>1 DEF CallInv, PlaceInv
  <2>3. \A m \in Modules : ~Passed(d, m) /\ ~Passed(d, m)'
    BY <1>1, <2>1, <2>2, NonePassed, PassedStays
  <2>4. 1 <= Len(setting.order)
    <3>1. setting \in Settings
      BY DEF DecisionsInv, DecisionsTyped, DecisionsTypeOK
    <3>2. "hitl" \in Modules
      BY DEF Modules
    <3> QED
      BY <3>1, <3>2, OrderFacts
  <2>5. PlaceInv(d)'
    BY <1>1, <2>1, <2>2, <2>4 DEF PlaceInv, Started
  <2>6. host[d] = "silent" /\ PermissionReports(d) = {} /\ heard[d] = <<>>
    BY <2>1, <2>3 DEF CallInv, PermissionInv, HumanInv, Modules
  <2>7. PermissionReports(d)' = {} /\ host'[d] = "silent" /\ heard'[d] = <<>>
    BY <1>1, <2>6 DEF PermissionReports
  <2>8. PermissionInv(d)'
    BY <2>1, <2>3, <2>7 DEF PermissionInv, Modules
  <2>9. ~Answered(d)'
    BY <2>7, AnswersDiffer DEF Answered
  <2>10. HumanInv(d)'
    BY <2>1, <2>3, <2>7, <2>9 DEF HumanInv, Modules
  <2>11. GateInv(d)'
    BY <2>3 DEF GateInv, Modules
  <2> QED
    BY <2>5, <2>8, <2>10, <2>11 DEF CallInv
<1> QED
  BY <1>9, <1>11, <1>12, <1>13, <1>15, <1>16, <1>17 DEF DecisionsInv

-----------------------------------------------------------------------------
LEMMA DecisionsInitially == DecisionsInit => DecisionsInv
<1> SUFFICES ASSUME DecisionsInit PROVE DecisionsInv
  OBVIOUS
<1> DEFINE first == CHOOSE r \in Requests : TRUE
<1>1. first \in RequestType
  BY DecisionsAssumption DEF RequestType
<1> HIDE DEF first
<1>2. request = [c \in ToolCalls |-> first]
  BY DEF DecisionsInit, first
<1>3. /\ setting \in Settings /\ setting.order \in Seq(Modules) /\ Len(setting.order) \in Nat
      /\ DOMAIN setting.order = 1..Len(setting.order)
  BY OrderFacts DEF DecisionsInit
<1>4. /\ request \in [ToolCalls -> RequestType]
      /\ at \in [ToolCalls -> 1..Len(setting.order) + 1]
  <2>1. 1 \in 1..Len(setting.order) + 1
    BY <1>3
  <2>2. at = [c \in ToolCalls |-> 1]
    BY DEF DecisionsInit
  <2> QED
    BY <1>1, <1>2, <2>1, <2>2
<1>5. ListInv
  <2>1. <<>> \in Seq(Reporters \X Said)
    OBVIOUS
  <2> QED
    BY <1>4, <2>1 DEF ListInv, DecisionsInit
<1>6. DecisionsTypeOK
  <2>1. enters \in 0..MaxEnters /\ Len(inbox) <= 1
    BY DecisionsAssumption DEF DecisionsInit
  <2>2. heard \in [ToolCalls -> Heard] /\ cleared \in [ToolCalls -> Paths]
    BY DEF DecisionsInit, Heard, Paths
  <2>3. phase \in [ToolCalls -> {"new", "hooking", "ready"} \cup Waiting \cup Over]
    BY DEF DecisionsInit
  <2>4. /\ planned \in BOOLEAN /\ planDue \in BOOLEAN /\ done \in BOOLEAN
        /\ stage \in {"hooking", "running", "over"} /\ batch \subseteq ToolCalls
        /\ answered \subseteq ToolCalls /\ held \subseteq ToolCalls
        /\ host \in [ToolCalls -> {"silent", "yes", "no", "error"}]
    BY DEF DecisionsInit
  <2> QED
    BY <1>3, <1>4, <2>1, <2>2, <2>3, <2>4 DEF DecisionsTypeOK
<1>7. IssueInv
  <2>1. {c \in ToolCalls : phase[c] # "new"} = 1..0
    BY DEF DecisionsInit
  <2>2. 0 \in 0..MaxCalls
    BY DecisionsAssumption
  <2> QED
    BY <2>1, <2>2 DEF IssueInv
<1>8. InboxInv /\ ModeInv
  BY DEF InboxInv, ModeInv, DecisionsInit
<1>9. \A c \in ToolCalls : ~Answered(c)
  BY AnswersDiffer DEF Answered, DecisionsInit
<1>10. AnswersGoAstrayOnlyAfter
  BY <1>9 DEF AnswersGoAstrayOnlyAfter
<1>11. ASSUME NEW c \in ToolCalls PROVE CallInv(c)
  <2>1. /\ at[c] = 1 /\ phase[c] = "new" /\ host[c] = "silent" /\ heard[c] = <<>>
        /\ reports[c] = <<>>
    BY DEF DecisionsInit
  <2>2. \A m : ~Passed(c, m)
    BY <1>3, <2>1 DEF Passed
  <2>3. PermissionReports(c) = {}
    BY <2>1 DEF PermissionReports
  <2>4. PlaceInv(c) /\ PermissionInv(c)
    BY <2>1, <2>2, <2>3 DEF PlaceInv, PermissionInv, Started
  <2>5. HumanInv(c) /\ GateInv(c)
    BY <1>9, <2>1, <2>2 DEF HumanInv, GateInv
  <2> QED
    BY <2>4, <2>5 DEF CallInv
<1> QED
  BY <1>5, <1>6, <1>7, <1>8, <1>10, <1>11 DEF DecisionsInv, DecisionsTyped

LEMMA DecisionsStep == DecisionsInv /\ [DecisionsNext]_decisionVars => DecisionsInv'
<1> SUFFICES ASSUME DecisionsInv, [DecisionsNext]_decisionVars PROVE DecisionsInv'
  OBVIOUS
<1>1. CASE \E size \in 1..2 : IssueBatch(size)
  BY <1>1, IssueBatchStep
<1>2. ASSUME NEW c \in ToolCalls, PlanGate(c) PROVE DecisionsInv'
  BY <1>2, PlanGateStep
<1>3. ASSUME NEW c \in ToolCalls, Permission(c) PROVE DecisionsInv'
  BY <1>3, PermissionAllowsStep, PermissionDeniesStep, PermissionAsksStep, HostDecidesStep
     DEF Permission
<1>4. ASSUME NEW c \in ToolCalls, HITL(c) PROVE DecisionsInv'
  BY <1>4, HITLPassesStep, RequestApprovalStep, TakeAnswerStep, WaitEndsStep, HumanAnswersStep
     DEF HITL
<1>5. ASSUME NEW c \in ToolCalls, ToolRuns(c) PROVE DecisionsInv'
  BY <1>5, StartToolStep, DialogueReturnsStep, PlanDecidedStep DEF ToolRuns
<1>6. CASE BlockBatch \/ StartBatch \/ BatchOver
  BY <1>6, BatchStageStep
<1>7. CASE Enter \/ Cancel \/ UNCHANGED decisionVars
  BY <1>7, AroundStep
<1> QED
  BY <1>1, <1>2, <1>3, <1>4, <1>5, <1>6, <1>7 DEF DecisionsNext

(* The inductive invariant holds however the calls, the answers and the    *)
(* timeouts interleave.                                                    *)
THEOREM DecisionsInvariant == DecisionsSpec => []DecisionsInv
<1> QED
  BY DecisionsInitially, DecisionsStep, PTL DEF DecisionsSpec

(* Every variable of the decisions keeps its type.                         *)
THEOREM DecisionsTyping == DecisionsSpec => []DecisionsTypeOK
<1>1. DecisionsInv => DecisionsTypeOK
  BY DEF DecisionsInv, DecisionsTyped
<1> QED
  BY <1>1, DecisionsInvariant, PTL

(* A tool runs only when every module had a reason to let it, plan mode    *)
(* lets nothing change, every settled question is reported once and as it  *)
(* was settled, and an answer reaches another request than its own only    *)
(* after a wait was given up or among questions of the dialogue tool.      *)
THEOREM DecisionsKept == DecisionsSpec => []DecisionsAreKept
<1>1. ASSUME DecisionsInv, NEW c \in ToolCalls, phase[c] \in Started
      PROVE  CallInv(c) /\ \A m \in Modules : Passed(c, m)
  <2>1. CallInv(c)
    BY <1>1 DEF DecisionsInv
  <2>2. at[c] = Len(setting.order) + 1
    BY <1>1, <2>1 DEF CallInv, PlaceInv
  <2> QED
    BY <1>1, <2>1, <2>2, PassedByAll
<1>2. DecisionsInv => RunsOnlyWhenAllowed
  BY <1>1 DEF RunsOnlyWhenAllowed, CallInv, PermissionInv, HumanInv, Modules
<1>3. DecisionsInv => DecisionsAreReported
  <2> SUFFICES ASSUME DecisionsInv, NEW c \in ToolCalls
               PROVE  /\ \A j, k \in PermissionReports(c) : j = k
                      /\ host[c] # "silent" => PermissionReports(c) # {}
                      /\ \A k \in PermissionReports(c) :
                           /\ reports[c][k][2] = "approved" => host[c] = "yes"
                           /\ phase[c] \in Started => reports[c][k][2] = "approved"
    BY DEF DecisionsAreReported
  <2>1. PermissionInv(c)
    BY DEF DecisionsInv, CallInv
  <2>2. "blocked" \notin Started
    BY DEF Started
  <2> QED
    BY <2>1, <2>2 DEF PermissionInv
<1>4. DecisionsInv => PlanModeHolds
  <2> SUFFICES ASSUME DecisionsInv, NEW c \in held, phase[c] \in Started
               PROVE  request[c].tool = "exit" \/ ~Mutates(request[c])
    BY DEF PlanModeHolds
  <2>1. c \in ToolCalls
    BY DEF DecisionsInv, DecisionsTyped, DecisionsTypeOK
  <2> QED
    BY <1>1, <2>1 DEF CallInv, GateInv, Modules
<1>5. DecisionsInv => DecisionsAreKept
  BY <1>2, <1>3, <1>4 DEF DecisionsAreKept, DecisionsInv
<1> QED
  BY <1>5, DecisionsInvariant, PTL
=============================================================================
