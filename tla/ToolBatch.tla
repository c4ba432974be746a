------------------------------- MODULE ToolBatch -------------------------------
(***************************************************************************)
(* One batch of tool calls: Runtime.ExecTools and execToolsWithRetry       *)
(* (core/runtime/runtime.go) over ExecToolsConcurrentResults               *)
(* (core/orchestrate/orchestrate.go).                                      *)
(*                                                                         *)
(*   hooking -> executing -> (delaying -> executing)* -> reporting -> done *)
(*                                                                         *)
(* A call is its index in the assistant message.  A round runs a list of   *)
(* calls, one goroutine each, and writes what it got by POSITION in that   *)
(* list; a retry round runs the failed calls only and merges back by call. *)
(***************************************************************************)
EXTENDS Integers, Sequences, FiniteSets, FiniteSetTheorems, TLAPS

CONSTANTS NumCalls,        \* calls of the batch
          MaxConcurrency,  \* WithToolConcurrency (all calls by default)
          ToolRetries,     \* RetryPolicy.MaxRetries under RetryOnTool, or 0
          Budgeted         \* the calls whose tool declares TimeoutMs

Calls == 1..NumCalls

VARIABLES
  stage,     \* how far ExecTools has come
  hooked,    \* calls whose OnToolCall hooks have run: 1..hooked
  blocked,   \* calls a hook refused
  ctx,       \* the batch context: live, cancelled, or past its own deadline
  round,     \* the calls of the current round, in order
  launched,  \* positions of the round whose goroutine has been started
  running,   \* positions whose goroutine holds a semaphore slot
  expired,   \* running positions whose own budget has run out
  slots,     \* what the round's goroutines wrote, by position
  results,   \* execToolsWithRetry's results, by call
  rounds,    \* retry rounds so far
  reported,  \* calls whose OnToolResult hooks have run: 1..reported
  answers,   \* the tool messages ExecTools returns
  executed   \* what the tool itself did at each execution, by call (history)

roundVars == <<round, launched, running, expired, slots>>
batchVars ==
  <<stage, hooked, blocked, ctx, roundVars, results, rounds, reported, answers, executed>>

Outcomes == {"ok", "failed", "panicked"}
Reports  == Outcomes \cup {"timeout"}
Refusals == {"blocked", "skipped", "rejected"}

BatchInit ==
  /\ stage = "hooking"
  /\ hooked = 0 /\ reported = 0 /\ rounds = 0
  /\ blocked = {}
  /\ ctx = "live"
  /\ round = <<>> /\ launched = 0 /\ running = {} /\ expired = {} /\ slots = <<>>
  /\ results = [c \in Calls |-> "none"]
  /\ answers = [c \in Calls |-> "none"]
  /\ executed = [c \in Calls |-> <<>>]

-----------------------------------------------------------------------------
(* The OnToolCall hooks of each call, in order; a refusal does not stop the *)
(* hooks of the calls after it, but the whole batch is then given up.       *)
HookCall(refuses) ==
  /\ stage = "hooking" /\ hooked < NumCalls
  /\ hooked' = hooked + 1
  /\ blocked' = IF refuses THEN blocked \cup {hooked + 1} ELSE blocked
  /\ UNCHANGED <<stage, ctx, roundVars, results, rounds, reported, answers, executed>>

AbortBatch ==
  /\ stage = "hooking" /\ hooked = NumCalls /\ blocked # {}
  /\ answers' = [c \in Calls |-> IF c \in blocked THEN "blocked" ELSE "skipped"]
  /\ stage' = "done"
  /\ UNCHANGED <<hooked, blocked, ctx, roundVars, results, rounds, reported, executed>>

BeginRound(calls) ==
  /\ round' = calls
  /\ launched' = 0 /\ running' = {} /\ expired' = {}
  /\ slots' = [k \in 1..Len(calls) |-> "none"]
  /\ stage' = "executing"

PassesHooks == blocked = {}
FirstRound ==
  /\ stage = "hooking" /\ hooked = NumCalls /\ PassesHooks
  /\ BeginRound([c \in Calls |-> c])
  /\ UNCHANGED <<hooked, blocked, ctx, results, rounds, reported, answers, executed>>

-----------------------------------------------------------------------------
(* The dispatching loop takes a semaphore slot before each go statement.    *)
SlotFree == Cardinality(running) < MaxConcurrency
Launch ==
  /\ stage = "executing" /\ launched < Len(round)
  /\ SlotFree
  /\ launched' = launched + 1
  /\ running' = running \cup {launched + 1}
  /\ UNCHANGED <<stage, hooked, blocked, ctx, round, expired, slots, results,
                 rounds, reported, answers, executed>>

BudgetExpires(k) ==
  /\ k \in running \ expired /\ round[k] \in Budgeted
  /\ expired' = expired \cup {k}
  /\ UNCHANGED <<stage, hooked, blocked, ctx, round, launched, running, slots,
                 results, rounds, reported, answers, executed>>

ContextEnds(how) ==
  /\ ctx = "live" /\ stage # "done"
  /\ ctx' = how
  /\ UNCHANGED <<stage, hooked, blocked, roundVars, results, rounds, reported,
                 answers, executed>>

(* What a goroutine writes when its tool comes back: a call that is past a  *)
(* deadline, its own or the batch's, is a timeout even if the tool          *)
(* succeeded; a panic is reported as such whatever the clock says.          *)
Seen(k, outcome) ==
  IF outcome # "panicked" /\ (k \in expired \/ ctx = "expired") THEN "timeout" ELSE outcome

ReleasedUnlessPanic(k) == IF slots[k] = "panicked" THEN running ELSE running \ {k}
Released(k) == running \ {k}

ToolReturns(k, outcome) ==
  /\ stage = "executing" /\ k \in running /\ slots[k] = "none"
  /\ slots' = [slots EXCEPT ![k] = Seen(k, outcome)]
  /\ executed' = [executed EXCEPT ![round[k]] = Append(@, outcome)]
  /\ UNCHANGED <<stage, hooked, blocked, ctx, round, launched, running, expired,
                 results, rounds, reported, answers>>

(* The deferred release of the slot and wg.Done.                            *)
Leave(k) ==
  /\ stage = "executing" /\ k \in running /\ slots[k] # "none"
  /\ running' = Released(k)
  /\ expired' = expired \ {k}
  /\ UNCHANGED <<stage, hooked, blocked, ctx, round, launched, slots, results,
                 rounds, reported, answers, executed>>

-----------------------------------------------------------------------------
(* wg.Wait returned: merge the round by call, then decide about a retry.    *)
PositionOf(c) == CHOOSE k \in 1..Len(round) : round[k] = c
InRound(c) == \E k \in 1..Len(round) : round[k] = c
MergedByPosition ==
  [c \in Calls |-> IF c <= Len(slots) THEN slots[c] ELSE results[c]]
Merged == [c \in Calls |-> IF InRound(c) THEN slots[PositionOf(c)] ELSE results[c]]

RoundOverWhenLaunched == launched = Len(round) /\ \E k \in 1..Len(round) : slots[k] # "none"
RoundOver == launched = Len(round) /\ running = {}

(* The indices of the calls a result list holds as failed, in call order.   *)
Failing(res) == {c \in Calls : res[c] # "ok"}
InOrder(S) == [i \in 1..Cardinality(S) |->
                 CHOOSE c \in S : Cardinality({d \in S : d < c}) = i - 1]

MayRetryOnceMore == rounds <= ToolRetries
MayRetry == rounds < ToolRetries

EndRound ==
  /\ stage = "executing" /\ RoundOver
  /\ results' = Merged
  /\ stage' = IF MayRetry /\ Failing(Merged) # {} THEN "delaying" ELSE "reporting"
  /\ UNCHANGED <<hooked, blocked, ctx, roundVars, rounds, reported, answers, executed>>

(* waitRetryDelay: the timer, or the end of the context (when both are      *)
(* ready, either).                                                          *)
RetryAfterDelay ==
  /\ stage = "delaying"
  /\ rounds' = rounds + 1
  /\ BeginRound(InOrder(Failing(results)))
  /\ UNCHANGED <<hooked, blocked, ctx, results, reported, answers, executed>>

GiveUpRetrying ==
  /\ stage = "delaying" /\ ctx # "live"
  /\ stage' = "reporting"
  /\ UNCHANGED <<hooked, blocked, ctx, roundVars, results, rounds, reported, answers, executed>>

(* The OnToolResult hooks of each call, in order.                           *)
HookResult(rejects) ==
  /\ stage = "reporting" /\ reported < NumCalls
  /\ reported' = reported + 1
  /\ answers' = [answers EXCEPT ![reported + 1] =
                   IF rejects THEN "rejected" ELSE results[reported + 1]]
  /\ UNCHANGED <<stage, hooked, blocked, ctx, roundVars, results, rounds, executed>>

Return ==
  /\ stage = "reporting" /\ reported = NumCalls
  /\ stage' = "done"
  /\ UNCHANGED <<hooked, blocked, ctx, roundVars, results, rounds, reported, answers, executed>>

Positions == 1..NumCalls
Caller ==
  \/ \E refuses \in BOOLEAN : HookCall(refuses)
  \/ AbortBatch \/ FirstRound \/ Launch \/ EndRound \/ RetryAfterDelay
  \/ \E rejects \in BOOLEAN : HookResult(rejects)
  \/ Return
ToolEnds(k) == (\E o \in Outcomes : ToolReturns(k, o)) \/ Leave(k)

BatchNext ==
  \/ Caller
  \/ GiveUpRetrying
  \/ \E k \in Positions : ToolEnds(k)
  \/ \E k \in Positions : BudgetExpires(k)
  \/ \E how \in {"cancelled", "expired"} : ContextEnds(how)

BatchSpec == BatchInit /\ [][BatchNext]_batchVars

-----------------------------------------------------------------------------
(* Every variable keeps its type.                                          *)
BatchTypeOK ==
  /\ stage \in {"hooking", "executing", "delaying", "reporting", "done"}
  /\ hooked \in 0..NumCalls /\ reported \in 0..NumCalls /\ rounds \in 0..ToolRetries
  /\ blocked \subseteq Calls
  /\ ctx \in {"live", "cancelled", "expired"}
  /\ round \in Seq(Calls) /\ launched \in 0..Len(round)
  /\ running \subseteq 1..launched /\ expired \subseteq running
  /\ slots \in [1..Len(round) -> Reports \cup {"none"}]
  /\ results \in [Calls -> Reports \cup {"none"}]
  /\ answers \in [Calls -> Reports \cup Refusals \cup {"none"}]
  /\ executed \in [Calls -> Seq(Outcomes)]

(* Providers reject an assistant message whose tool calls are not answered *)
(* one by one: when ExecTools returns every call has an answer, and it     *)
(* tells what the LAST execution of that very call did, however failed     *)
(* calls were regrouped for retries.                                       *)
Tells(answer, outcome) ==
  \/ answer \in {"rejected", outcome}
  \/ answer = "timeout" /\ outcome # "panicked"
AnswersTellTheLastRun ==
  stage = "done" /\ blocked = {} =>
    \A c \in Calls : executed[c] # <<>> /\ Tells(answers[c], executed[c][Len(executed[c])])

(* A batch with one blocked call has no side effect at all, and its        *)
(* answers name the blocked calls as blocked, the others as skipped.       *)
BlockedBatchRunsNothing ==
  blocked # {} =>
    /\ \A c \in Calls : executed[c] = <<>>
    /\ stage = "done" => {c \in Calls : answers[c] = "blocked"} = blocked

(* The semaphore: no more goroutines than slots run a tool at a time.      *)
ConcurrencyBounded ==
  Cardinality({k \in running : slots[k] = "none"}) <= MaxConcurrency

(* A round never outlives its wait: while the caller delays, reports or    *)
(* has returned, no tool of the batch is still running.                    *)
NothingRunsUnwatched == stage # "executing" => running = {}

(* Execution stays within the batch: blocked batches run nothing, the      *)
(* semaphore holds, and nothing runs on behind the caller's back.          *)
BatchIsContained == BlockedBatchRunsNothing /\ ConcurrencyBounded /\ NothingRunsUnwatched

(* What the step loop relies on when it calls ExecTools.                   *)
BatchIsHonest == AnswersTellTheLastRun /\ BatchIsContained

(* What a comment of the source says and the code does not do: "retries    *)
(* only apply to genuine execution failures".                              *)
SuccessNotRepeated ==
  \A c \in Calls : \A i \in 1..(Len(executed[c]) - 1) : executed[c][i] # "ok"

(* Every batch returns once its tools do: a tool that never returns blocks *)
(* wg.Wait whatever its budget says.                                       *)
Returned == stage = "done"

-----------------------------------------------------------------------------
(* Proofs, for every size of a batch, every concurrency and every number   *)
(* of retries (the code takes a concurrency of zero or less for the number *)
(* of calls).                                                              *)
BatchConstants == NumCalls \in Nat /\ MaxConcurrency \in Nat /\ ToolRetries \in Nat
ASSUME BatchAssumption == BatchConstants

(* v is what the last execution of call c is reported as.                  *)
Told(c, v) == executed[c] # <<>> /\ Tells(v, executed[c][Len(executed[c])])

(* What a stage says of the batch as a whole.                              *)
StageInv ==
  /\ stage \in {"executing", "delaying", "reporting"} => blocked = {}
  /\ stage = "hooking" \/ blocked # {} => executed = [c \in Calls |-> <<>>]
  /\ stage = "delaying" => rounds < ToolRetries
  /\ reported # 0 => stage \in {"reporting", "done"} /\ blocked = {}
  /\ stage = "done" /\ blocked = {} => reported = NumCalls
  /\ stage = "done" /\ blocked # {} =>
       answers = [c \in Calls |-> IF c \in blocked THEN "blocked" ELSE "skipped"]

(* The round: no call is in it twice, a position that was launched and has *)
(* written nothing is still running, and what it wrote is true.            *)
RoundInv ==
  /\ \A i, j \in 1..Len(round) : round[i] = round[j] => i = j
  /\ stage # "executing" => running = {}
  /\ Cardinality(running) <= MaxConcurrency
  /\ stage = "executing" => \A k \in 1..Len(round) :
       IF slots[k] = "none" THEN k > launched \/ k \in running ELSE Told(round[k], slots[k])

(* The merged results are true of the calls that are not being run again,  *)
(* and an answer is a result or a rejection.                               *)
AnswerInv ==
  /\ stage = "executing" => \A c \in Calls : InRound(c) \/ Told(c, results[c])
  /\ stage \in {"delaying", "reporting"} => \A c \in Calls : Told(c, results[c])
  /\ stage = "done" /\ blocked = {} => \A c \in Calls : Told(c, results[c])
  /\ \A c \in 1..reported : answers[c] \in {"rejected", results[c]}

(* The inductive invariant.                                                *)
BatchInv == BatchTypeOK /\ StageInv /\ RoundInv /\ AnswerInv

-----------------------------------------------------------------------------
(* InOrder lists a set of calls, each once: the rank of a call in the set  *)
(* is injective, and a set has as many ranks as members.                   *)
Rank(S, c) == Cardinality({d \in S : d < c})

(* Sets of calls are finite sets of numbers.                               *)
LEMMA CallSet == ASSUME BatchConstants, NEW S \in SUBSET Calls
                 PROVE  IsFiniteSet(S) /\ Cardinality(S) \in Nat /\ S \subseteq Int
<1>1. 1 \in Int /\ NumCalls \in Int
  BY DEF BatchConstants
<1>2. IsFiniteSet(1..NumCalls)
  BY <1>1, FS_Interval
<1>3. IsFiniteSet(S)
  BY <1>2, FS_Subset DEF Calls
<1> QED
  BY <1>1, <1>3, FS_CardinalityType DEF Calls

(* A later call has more calls before it.                                  *)
LEMMA RankGrows ==
  ASSUME BatchConstants, NEW S \in SUBSET Calls, NEW c \in S, NEW e \in S, c < e
  PROVE  Rank(S, c) < Rank(S, e)
<1> DEFINE C == {d \in S : d < c}
           E == {d \in S : d < e}
<1>1. S \subseteq Int
  BY CallSet
<1>7. \A d \in S : d < c => d < e
  BY <1>1
<1>2. C \subseteq E /\ c \in E /\ c \notin C
  <2>1. ~(c < c)
    BY <1>1
  <2> QED
    BY <1>7, <2>1
<1>3. C \in SUBSET Calls /\ E \in SUBSET Calls
  OBVIOUS
<1>4. /\ IsFiniteSet(E) /\ Cardinality(E) \in Nat
      /\ IsFiniteSet(C) /\ Cardinality(C) \in Nat
  BY <1>3, CallSet
<1>5. Rank(S, c) = Cardinality(C) /\ Rank(S, e) = Cardinality(E)
  BY DEF Rank
<1> HIDE DEF C, E
<1>6. Cardinality(C) <= Cardinality(E) /\ (Cardinality(E) = Cardinality(C) => E = C)
  BY <1>2, <1>4, FS_Subset
<1> QED
  BY <1>2, <1>4, <1>5, <1>6

(* A set has fewer ranks below one of its calls than members.              *)
LEMMA RankBelow ==
  ASSUME BatchConstants, NEW S \in SUBSET Calls, NEW c \in S
  PROVE  Rank(S, c) \in 0..(Cardinality(S) - 1)
<1> DEFINE C == {d \in S : d < c}
<1>1. IsFiniteSet(S) /\ Cardinality(S) \in Nat /\ S \subseteq Int
  BY CallSet
<1>2. C \subseteq S /\ c \notin C
  BY <1>1
<1>3. C \in SUBSET Calls
  OBVIOUS
<1>4. Cardinality(C) \in Nat
  BY <1>3, CallSet
<1>5. Rank(S, c) = Cardinality(C)
  BY DEF Rank
<1> HIDE DEF C
<1>6. Cardinality(C) <= Cardinality(S) /\ (Cardinality(S) = Cardinality(C) => S = C)
  BY <1>1, <1>2, FS_Subset
<1> QED
  BY <1>1, <1>2, <1>4, <1>5, <1>6

(* So each place of the list has its call.                                 *)
LEMMA EveryRank ==
  ASSUME BatchConstants, NEW S \in SUBSET Calls, NEW n \in 0..(Cardinality(S) - 1)
  PROVE  \E c \in S : Rank(S, c) = n
<1> DEFINE last == Cardinality(S) - 1
           T == 0..last
           rank == [c \in S |-> Rank(S, c)]
<1>1. IsFiniteSet(S) /\ Cardinality(S) \in Nat /\ S \subseteq Int
  BY CallSet
<1>2. rank \in [S -> T]
  BY RankBelow
<1>3. ASSUME NEW c \in S, NEW e \in S, c # e
      PROVE  rank[c] # rank[e]
  <2>1. c \in Int /\ e \in Int
    BY <1>1
  <2>2. Rank(S, c) \in Int /\ Rank(S, e) \in Int
    BY RankBelow
  <2>3. c < e \/ e < c
    BY <1>3, <2>1
  <2>4. Rank(S, c) < Rank(S, e) \/ Rank(S, e) < Rank(S, c)
    BY <2>3, RankGrows
  <2> QED
    BY <2>2, <2>4
<1>4. 0 \in Int /\ last \in Int /\ (IF 0 > last THEN 0 ELSE last - 0 + 1) = Cardinality(S)
  BY <1>1
<1> HIDE DEF last
<1>5. IsFiniteSet(T) /\ Cardinality(T) = Cardinality(S)
  BY <1>4, FS_Interval
<1> HIDE DEF T
<1>6. rank \in Injection(S, T)
  BY <1>2, <1>3 DEF Injection, IsInjective
<1>7. rank \in Surjection(S, T)
  BY <1>5, <1>6, FS_Injection
<1>8. \E c \in S : rank[c] = n
  BY <1>7 DEF Surjection, T, last
<1> QED
  BY <1>8

(* The list holds calls of the set, in call order.                         *)
LEMMA InOrderLists ==
  ASSUME BatchConstants, NEW S \in SUBSET Calls
  PROVE  /\ InOrder(S) \in Seq(Calls) /\ Len(InOrder(S)) = Cardinality(S)
         /\ \A i \in 1..Cardinality(S) : InOrder(S)[i] \in S /\ Rank(S, InOrder(S)[i]) = i - 1
<1> DEFINE n == Cardinality(S)
           q == InOrder(S)
<1>1. n \in Nat
  BY CallSet
<1>2. q = [i \in 1..n |-> CHOOSE c \in S : Rank(S, c) = i - 1]
  BY DEF InOrder, Rank
<1>3. ASSUME NEW i \in 1..n
      PROVE  q[i] \in S /\ Rank(S, q[i]) = i - 1
  <2>1. i - 1 \in 0..(Cardinality(S) - 1)
    BY <1>1
  <2>2. \E c \in S : Rank(S, c) = i - 1
    BY <2>1, EveryRank
  <2>3. q[i] = CHOOSE c \in S : Rank(S, c) = i - 1
    BY <1>2
  <2> QED
    BY <2>2, <2>3
<1>4. q \in [1..n -> Calls]
  BY <1>2, <1>3
<1> HIDE DEF n, q
<1>5. q \in Seq(Calls) /\ Len(q) = n
  BY <1>1, <1>4
<1> QED
  BY <1>3, <1>5 DEF n, q

(* Each call of the set is in the list, once.                              *)
LEMMA InOrderIsComplete ==
  ASSUME BatchConstants, NEW S \in SUBSET Calls
  PROVE  /\ \A c \in S : \E i \in 1..Len(InOrder(S)) : InOrder(S)[i] = c
         /\ \A i, j \in 1..Len(InOrder(S)) : InOrder(S)[i] = InOrder(S)[j] => i = j
<1> DEFINE n == Cardinality(S)
           q == InOrder(S)
<1>1. n \in Nat /\ Len(q) = n /\ \A i \in 1..n : q[i] \in S /\ Rank(S, q[i]) = i - 1
  BY CallSet, InOrderLists
<1>2. ASSUME NEW c \in S
      PROVE  \E i \in 1..n : q[i] = c
  <2>1. Rank(S, c) \in 0..(n - 1)
    BY RankBelow
  <2>2. Rank(S, c) + 1 \in 1..n /\ (Rank(S, c) + 1) - 1 = Rank(S, c)
    BY <1>1, <2>1
  <2> DEFINE i == Rank(S, c) + 1
  <2>3. q[i] \in S /\ Rank(S, q[i]) = Rank(S, c)
    BY <1>1, <2>2
  <2>4. c \in Int /\ q[i] \in Int /\ Rank(S, c) \in Int
    BY <2>1, <2>3, CallSet
  <2>5. ~(q[i] < c) /\ ~(c < q[i])
    BY <2>3, <2>4, RankGrows
  <2> HIDE DEF i
  <2>6. q[i] = c
    BY <2>4, <2>5
  <2> QED
    BY <2>2, <2>6 DEF i
<1>3. ASSUME NEW i \in 1..n, NEW j \in 1..n, q[i] = q[j]
      PROVE  i = j
  <2>1. i - 1 = j - 1
    BY <1>1, <1>3
  <2> QED
    BY <1>1, <2>1
<1> QED
  BY <1>1, <1>2, <1>3

-----------------------------------------------------------------------------
(* Lists beside the round.                                                 *)
LEMMA FirstRoundList ==
  ASSUME BatchConstants
  PROVE  LET all == [c \in Calls |-> c]
         IN  all \in Seq(Calls) /\ Len(all) = NumCalls
<1> QED
  BY DEF BatchConstants, Calls

(* What a step leaves alone of a call's record stays true of it.           *)
LEMMA StillTold ==
  ASSUME NEW c, NEW v, Told(c, v), UNCHANGED executed
  PROVE  Told(c, v)'
<1> QED
  BY DEF Told

(* A round that begins satisfies what is said of rounds.                   *)
LEMMA RoundBegins ==
  ASSUME BatchConstants, NEW calls \in Seq(Calls), BeginRound(calls),
         \A i, j \in 1..Len(calls) : calls[i] = calls[j] => i = j
  PROVE  /\ round' \in Seq(Calls) /\ launched' \in 0..Len(round')
         /\ running' \subseteq 1..launched' /\ expired' \subseteq running'
         /\ slots' \in [1..Len(round') -> Reports \cup {"none"}]
         /\ RoundInv'
<1>1. Len(calls) \in Nat
  OBVIOUS
<1>2. launched' = 0 /\ running' = {} /\ round' = calls
  BY DEF BeginRound
<1>3. Cardinality(running') <= MaxConcurrency
  BY <1>2, FS_EmptySet DEF BatchConstants
<1>4. slots' = [k \in 1..Len(calls) |-> "none"]
  BY DEF BeginRound
<1>5. slots' \in [1..Len(round') -> Reports \cup {"none"}]
  BY <1>2, <1>4
<1>6. \A k \in 1..Len(round') : slots'[k] = "none" /\ k > launched'
  BY <1>1, <1>2, <1>4
<1>7. expired' = {}
  BY DEF BeginRound
<1> QED
  BY <1>1, <1>2, <1>3, <1>5, <1>6, <1>7 DEF RoundInv

(* One more goroutine than before still fits, where a slot was free.       *)
LEMMA RunningCount ==
  ASSUME BatchConstants, BatchTypeOK
  PROVE  /\ IsFiniteSet(running) /\ Cardinality(running) \in Nat
         /\ \A k : Cardinality(running \cup {k}) <= Cardinality(running) + 1
         /\ \A S \in SUBSET running : IsFiniteSet(S) /\ Cardinality(S) <= Cardinality(running)
<1>1. launched \in Int /\ 1 \in Int /\ running \in SUBSET (1..launched)
  BY DEF BatchTypeOK
<1>2. IsFiniteSet(1..launched)
  BY <1>1, FS_Interval
<1>3. IsFiniteSet(running)
  BY <1>1, <1>2, FS_Subset
<1>4. Cardinality(running) \in Nat
  BY <1>3, FS_CardinalityType
<1>5. ASSUME NEW k
      PROVE  Cardinality(running \cup {k}) <= Cardinality(running) + 1
  BY <1>3, <1>4, FS_AddElement
<1>6. ASSUME NEW S \in SUBSET running
      PROVE  IsFiniteSet(S) /\ Cardinality(S) <= Cardinality(running)
  BY <1>3, FS_Subset
<1> QED
  BY <1>3, <1>4, <1>5, <1>6

(* Merging a round that is over: every call has what its last execution    *)
(* is reported as.                                                         *)
LEMMA MergedIsTrue ==
  ASSUME BatchInv, stage = "executing", RoundOver
  PROVE  /\ Merged \in [Calls -> Reports \cup {"none"}]
         /\ \A c \in Calls : Told(c, Merged[c])
<1>1. Len(round) \in Nat /\ slots \in [1..Len(round) -> Reports \cup {"none"}]
  BY DEF BatchInv, BatchTypeOK
<1>2. ASSUME NEW k \in 1..Len(round)
      PROVE  Told(round[k], slots[k])
  BY <1>1 DEF BatchInv, RoundInv, RoundOver
<1>3. ASSUME NEW c \in Calls, InRound(c)
      PROVE  PositionOf(c) \in 1..Len(round) /\ round[PositionOf(c)] = c
  BY <1>3 DEF InRound, PositionOf
<1>4. ASSUME NEW c \in Calls
      PROVE  Merged[c] \in Reports \cup {"none"} /\ Told(c, Merged[c])
  <2>1. CASE InRound(c)
    <3>1. Merged[c] = slots[PositionOf(c)]
      BY <2>1 DEF Merged
    <3> QED
      BY <1>1, <1>2, <1>3, <2>1, <3>1
  <2>2. CASE ~InRound(c)
    <3>1. Merged[c] = results[c] /\ results[c] \in Reports \cup {"none"}
      BY <2>2 DEF Merged, BatchInv, BatchTypeOK
    <3> QED
      BY <2>2, <3>1 DEF BatchInv, AnswerInv
  <2> QED
    BY <2>1, <2>2
<1>5. Merged = [c \in Calls |-> Merged[c]]
  BY DEF Merged
<1> QED
  BY <1>4, <1>5

-----------------------------------------------------------------------------
(* The invariant holds before the first hook.                              *)
LEMMA BatchInitially == ASSUME BatchConstants PROVE BatchInit => BatchInv
<1> SUFFICES ASSUME BatchInit PROVE BatchInv
  OBVIOUS
<1>1. Cardinality({}) = 0
  BY FS_EmptySet
<1>2. <<>> \in Seq(Calls) /\ <<>> \in Seq(Outcomes) /\ Len(<<>>) = 0
  OBVIOUS
<1>3. slots \in [1..Len(round) -> Reports \cup {"none"}]
  BY DEF BatchInit
<1>4. BatchTypeOK
  BY <1>2, <1>3 DEF BatchInit, BatchTypeOK, BatchConstants
<1>5. StageInv
  BY DEF BatchInit, StageInv
<1>6. RoundInv
  BY <1>1, <1>2 DEF BatchInit, RoundInv, BatchConstants
<1>7. AnswerInv
  BY DEF BatchInit, AnswerInv
<1> QED
  BY <1>4, <1>5, <1>6, <1>7 DEF BatchInv

(* A hook runs before anything else does.                                  *)
LEMMA HookStep == ASSUME BatchConstants, BatchInv, NEW refuses \in BOOLEAN,
                         HookCall(refuses)
                  PROVE  BatchInv'
<1>1. BatchTypeOK'
  BY DEF BatchInv, BatchTypeOK, HookCall, roundVars, BatchConstants, Calls
<1>2. StageInv'
  BY DEF BatchInv, StageInv, HookCall, roundVars
<1>3. RoundInv'
  BY DEF BatchInv, RoundInv, HookCall, roundVars
<1>4. AnswerInv'
  BY DEF BatchInv, AnswerInv, StageInv, HookCall, roundVars
<1> QED
  BY <1>1, <1>2, <1>3, <1>4 DEF BatchInv

(* A blocked batch is given up before anything runs.                       *)
LEMMA AbortStep == ASSUME BatchConstants, BatchInv, AbortBatch PROVE BatchInv'
<1>1. BatchTypeOK'
  BY DEF BatchInv, BatchTypeOK, AbortBatch, roundVars, Refusals
<1>2. StageInv'
  BY DEF BatchInv, StageInv, AbortBatch, roundVars
<1>3. RoundInv'
  BY DEF BatchInv, RoundInv, AbortBatch, roundVars
<1>4. reported' = 0
  BY DEF BatchInv, StageInv, AbortBatch
<1>5. AnswerInv'
  BY <1>4 DEF AnswerInv, AbortBatch
<1> QED
  BY <1>1, <1>2, <1>3, <1>5 DEF BatchInv

(* The first round is the whole batch.                                     *)
LEMMA FirstRoundStep == ASSUME BatchConstants, BatchInv, FirstRound PROVE BatchInv'
<1> DEFINE all == [c \in Calls |-> c]
<1>1. all \in Seq(Calls) /\ Len(all) = NumCalls /\ NumCalls \in Nat
  BY FirstRoundList DEF BatchConstants
<1>2. \A i, j \in 1..Len(all) : all[i] = all[j] => i = j
  BY <1>1 DEF Calls
<1>3. BeginRound(all) /\ stage' = "executing"
  BY DEF FirstRound, BeginRound
<1>4. \A c \in Calls : \E k \in 1..Len(all) : all[k] = c
  BY <1>1 DEF Calls
<1> HIDE DEF all
<1>5. /\ round' \in Seq(Calls) /\ launched' \in 0..Len(round')
      /\ running' \subseteq 1..launched' /\ expired' \subseteq running'
      /\ slots' \in [1..Len(round') -> Reports \cup {"none"}]
      /\ RoundInv'
  BY <1>1, <1>2, <1>3, RoundBegins
<1>6. BatchTypeOK'
  BY <1>3, <1>5 DEF BatchInv, BatchTypeOK, FirstRound
<1>7. StageInv'
  BY <1>3 DEF BatchInv, StageInv, FirstRound, PassesHooks
<1>8. round' = all
  BY <1>3 DEF BeginRound
<1>9. \A c \in Calls : InRound(c)'
  BY <1>4, <1>8 DEF InRound
<1>10. reported' = 0 /\ stage' = "executing"
  BY <1>3 DEF BatchInv, StageInv, FirstRound
<1>11. AnswerInv'
  BY <1>9, <1>10 DEF AnswerInv
<1> QED
  BY <1>5, <1>6, <1>7, <1>11 DEF BatchInv

(* A goroutine starts where a slot is free.                                *)
LEMMA LaunchStep == ASSUME BatchConstants, BatchInv, Launch PROVE BatchInv'
<1>1. /\ launched \in Nat /\ Len(round) \in Nat /\ launched < Len(round)
      /\ running \subseteq 1..launched /\ MaxConcurrency \in Nat
  BY DEF BatchInv, BatchTypeOK, Launch, BatchConstants
<1>2. launched' \in 0..Len(round) /\ running' \subseteq 1..launched'
  BY <1>1 DEF Launch
<1>3. BatchTypeOK'
  BY <1>2 DEF BatchInv, BatchTypeOK, Launch
<1>4. StageInv'
  BY DEF BatchInv, StageInv, Launch
<1>5. Cardinality(running) \in Nat /\ Cardinality(running') \in Nat
      /\ Cardinality(running') <= Cardinality(running) + 1
  <2>1. IsFiniteSet(running) /\ Cardinality(running) \in Nat
        /\ Cardinality(running \cup {launched + 1}) <= Cardinality(running) + 1
    BY RunningCount DEF BatchInv
  <2>2. IsFiniteSet(running \cup {launched + 1})
    BY <2>1, FS_AddElement
  <2> QED
    BY <2>1, <2>2, FS_CardinalityType DEF Launch
<1>6. Cardinality(running') <= MaxConcurrency
  BY <1>1, <1>5 DEF Launch, SlotFree
<1>7. ASSUME NEW k \in 1..Len(round), slots[k] = "none"
      PROVE  k > launched' \/ k \in running'
  BY <1>1, <1>7 DEF BatchInv, RoundInv, Launch
<1>8. ASSUME NEW k \in 1..Len(round), slots[k] # "none"
      PROVE  Told(round[k], slots[k])
  BY <1>8 DEF BatchInv, RoundInv, Launch
<1>9. /\ UNCHANGED <<round, slots, executed, stage, results, reported, answers, blocked>>
      /\ stage = "executing"
  BY DEF Launch
<1>10. RoundInv'
  BY <1>6, <1>7, <1>8, <1>9 DEF BatchInv, RoundInv, Told
<1>11. AnswerInv'
  BY <1>9 DEF BatchInv, AnswerInv, Told, InRound
<1> QED
  BY <1>3, <1>4, <1>10, <1>11 DEF BatchInv

(* A budget that runs out changes nothing yet.                             *)
LEMMA BudgetStep == ASSUME BatchConstants, BatchInv, NEW k \in Positions, BudgetExpires(k)
                    PROVE  BatchInv'
<1>1. BatchTypeOK'
  BY DEF BatchInv, BatchTypeOK, BudgetExpires
<1>2. StageInv'
  BY DEF BatchInv, StageInv, BudgetExpires
<1>3. RoundInv'
  BY DEF BatchInv, RoundInv, BudgetExpires, Told
<1>4. AnswerInv'
  BY DEF BatchInv, AnswerInv, BudgetExpires, Told, InRound
<1> QED
  BY <1>1, <1>2, <1>3, <1>4 DEF BatchInv

(* Neither does the end of the context.                                    *)
LEMMA ContextStep == ASSUME BatchConstants, BatchInv, NEW how \in {"cancelled", "expired"},
                            ContextEnds(how)
                     PROVE  BatchInv'
<1>1. BatchTypeOK'
  BY DEF BatchInv, BatchTypeOK, ContextEnds, roundVars
<1>2. StageInv'
  BY DEF BatchInv, StageInv, ContextEnds, roundVars
<1>3. RoundInv'
  BY DEF BatchInv, RoundInv, ContextEnds, roundVars, Told
<1>4. AnswerInv'
  BY DEF BatchInv, AnswerInv, ContextEnds, roundVars, Told, InRound
<1> QED
  BY <1>1, <1>2, <1>3, <1>4 DEF BatchInv

(* The history of a call ends with its last execution.                     *)
LEMMA OneMoreRun ==
  ASSUME NEW s \in Seq(Outcomes), NEW o \in Outcomes
  PROVE  /\ Append(s, o) \in Seq(Outcomes)
         /\ Append(s, o) # <<>> /\ Append(s, o)[Len(Append(s, o))] = o
<1> QED
  OBVIOUS

(* A tool comes back: its position tells what it did, and no other changes.*)
LEMMA ReturnStep == ASSUME BatchConstants, BatchInv, NEW k \in Positions,
                           NEW outcome \in Outcomes, ToolReturns(k, outcome)
                    PROVE  BatchInv'
<1>1. k \in 1..Len(round) /\ Len(round) \in Nat /\ round[k] \in Calls
  BY DEF BatchInv, BatchTypeOK, ToolReturns
<1>2. PICK c \in Calls : c = round[k]
  BY <1>1
<1>3. Seen(k, outcome) \in Reports /\ Seen(k, outcome) # "none" /\ Tells(Seen(k, outcome), outcome)
  BY DEF Seen, Outcomes, Reports, Tells
<1>4. PICK v \in Reports : v = Seen(k, outcome) /\ v # "none" /\ Tells(v, outcome)
  BY <1>3
<1>5. UNCHANGED <<stage, hooked, blocked, ctx, round, launched, running, expired,
                  results, rounds, reported, answers>> /\ stage = "executing"
  BY DEF ToolReturns
<1>6. slots' = [slots EXCEPT ![k] = v] /\ executed' = [executed EXCEPT ![c] = Append(@, outcome)]
  BY <1>2, <1>4 DEF ToolReturns
<1>7. slots \in [1..Len(round) -> Reports \cup {"none"}] /\ executed \in [Calls -> Seq(Outcomes)]
  BY DEF BatchInv, BatchTypeOK
<1>8. PICK h \in Seq(Outcomes) : /\ h = Append(executed[c], outcome)
                                 /\ h # <<>> /\ h[Len(h)] = outcome
  <2>1. executed[c] \in Seq(Outcomes)
    BY <1>7
  <2> QED
    BY <2>1, OneMoreRun
<1>9. h # <<>> /\ h[Len(h)] = outcome
  BY <1>8
<1>10. executed'[c] = h /\ \A e \in Calls \ {c} : executed'[e] = executed[e]
  BY <1>6, <1>7, <1>8
<1>11. Told(c, v)'
  BY <1>4, <1>9, <1>10 DEF Told, Tells
<1>12. ASSUME NEW e \in Calls \ {c}, NEW w, Told(e, w)
       PROVE  Told(e, w)'
  BY <1>10, <1>12 DEF Told, Tells
<1>13. executed' \in [Calls -> Seq(Outcomes)]
  BY <1>6, <1>7, <1>8
<1>14. slots' \in [1..Len(round) -> Reports \cup {"none"}] /\ slots'[k] = v
       /\ \A j \in 1..Len(round) : j # k => slots'[j] = slots[j]
  BY <1>1, <1>6, <1>7
<1>15. BatchTypeOK'
  BY <1>5, <1>13, <1>14 DEF BatchInv, BatchTypeOK
<1>16. StageInv'
  BY <1>5 DEF BatchInv, StageInv
<1>17. ASSUME NEW j \in 1..Len(round)
       PROVE  (IF slots[j] = "none" THEN j > launched \/ j \in running ELSE Told(round[j], slots[j]))'
  <2>1. CASE j = k
    BY <1>1, <1>2, <1>4, <1>5, <1>11, <1>14, <2>1 DEF Told
  <2>2. CASE j # k
    <3>1. slots'[j] = slots[j] /\ round[j] \in Calls /\ round[j] # c
      BY <1>1, <1>2, <1>14, <2>2 DEF BatchInv, RoundInv, BatchTypeOK
    <3>2. slots[j] # "none" => Told(round[j], slots[j])
      BY <1>5 DEF BatchInv, RoundInv
    <3>3. slots[j] = "none" => j > launched \/ j \in running
      BY <1>5 DEF BatchInv, RoundInv
    <3>4. PICK e \in Calls \ {c}, w \in Reports \cup {"none"} : e = round[j] /\ w = slots[j]
      BY <1>7, <3>1
    <3>5. w # "none" => Told(e, w)'
      BY <1>12, <3>2, <3>4
    <3> QED
      BY <1>5, <3>1, <3>3, <3>4, <3>5 DEF Told
  <2> QED
    BY <2>1, <2>2
<1>18. RoundInv'
  BY <1>5, <1>17 DEF BatchInv, RoundInv
<1>19. InRound(c)
  BY <1>1, <1>2 DEF InRound
<1>20. ASSUME NEW e \in Calls
       PROVE  (InRound(e) \/ Told(e, results[e]))'
  <2>1. CASE e = c
    BY <1>5, <1>19, <2>1 DEF InRound
  <2>2. CASE e # c
    <3>1. InRound(e) \/ Told(e, results[e])
      BY <1>5 DEF BatchInv, AnswerInv
    <3>2. InRound(e)' = InRound(e)
      BY <1>5 DEF InRound
    <3>3. PICK w \in Reports \cup {"none"} : w = results[e]
      BY DEF BatchInv, BatchTypeOK
    <3>4. Told(e, w) => Told(e, w)'
      BY <1>12, <2>2
    <3> QED
      BY <1>5, <3>1, <3>2, <3>3, <3>4 DEF Told
  <2> QED
    BY <2>1, <2>2
<1>21. AnswerInv'
  BY <1>5, <1>20 DEF BatchInv, AnswerInv
<1> QED
  BY <1>15, <1>16, <1>18, <1>21 DEF BatchInv

(* A goroutine gives its slot back after it has written.                   *)
LEMMA LeaveStep == ASSUME BatchConstants, BatchInv, NEW k \in Positions, Leave(k)
                   PROVE  BatchInv'
<1>1. UNCHANGED <<stage, hooked, blocked, ctx, round, launched, slots, results,
                  rounds, reported, answers, executed>> /\ stage = "executing"
  BY DEF Leave
<1>2. running' = running \ {k} /\ slots[k] # "none" /\ expired' = expired \ {k}
  BY DEF Leave, Released
<1>3. BatchTypeOK'
  BY <1>1, <1>2 DEF BatchInv, BatchTypeOK
<1>4. StageInv'
  BY <1>1 DEF BatchInv, StageInv
<1>5. /\ Cardinality(running) \in Nat /\ IsFiniteSet(running')
      /\ Cardinality(running') <= Cardinality(running)
  BY <1>2, RunningCount DEF BatchInv
<1>6. Cardinality(running') <= MaxConcurrency
  BY <1>5, FS_CardinalityType DEF BatchInv, RoundInv, BatchConstants
<1>7. RoundInv'
  BY <1>1, <1>2, <1>6 DEF BatchInv, RoundInv, Told
<1>8. AnswerInv'
  BY <1>1 DEF BatchInv, AnswerInv, Told, InRound
<1> QED
  BY <1>3, <1>4, <1>7, <1>8 DEF BatchInv

(* The round is merged: each call is told what its own last execution did. *)
LEMMA EndRoundStep == ASSUME BatchConstants, BatchInv, EndRound PROVE BatchInv'
<1>1. Merged \in [Calls -> Reports \cup {"none"}] /\ \A c \in Calls : Told(c, Merged[c])
  BY MergedIsTrue DEF EndRound
<1>2. results' = Merged /\ stage = "executing" /\ stage' \in {"delaying", "reporting"}
      /\ (stage' = "delaying" => rounds < ToolRetries) /\ running = {}
      /\ UNCHANGED <<hooked, blocked, ctx, round, launched, running, expired, slots,
                     rounds, reported, answers, executed>>
  BY DEF EndRound, MayRetry, RoundOver, roundVars
<1>3. BatchTypeOK'
  BY <1>1, <1>2 DEF BatchInv, BatchTypeOK
<1>4. StageInv'
  BY <1>2 DEF BatchInv, StageInv
<1>5. RoundInv'
  BY <1>2 DEF BatchInv, RoundInv
<1>6. reported' = 0
  BY <1>2 DEF BatchInv, StageInv
<1>7. \A c \in Calls : Told(c, results[c])'
  BY <1>1, <1>2 DEF Told
<1>8. AnswerInv'
  BY <1>2, <1>6, <1>7 DEF AnswerInv
<1> QED
  BY <1>3, <1>4, <1>5, <1>8 DEF BatchInv

(* The failed calls run again; the others keep what is told of them.       *)
LEMMA RetryStep == ASSUME BatchConstants, BatchInv, RetryAfterDelay PROVE BatchInv'
<1> DEFINE q == InOrder(Failing(results))
<1>1. Failing(results) \in SUBSET Calls
  BY DEF Failing
<1>2. q \in Seq(Calls)
  BY <1>1, InOrderLists
<1>3. \A i, j \in 1..Len(q) : q[i] = q[j] => i = j
  BY <1>1, InOrderIsComplete
<1>4. BeginRound(q)
  BY DEF RetryAfterDelay
<1> HIDE DEF q
<1>5. /\ round' \in Seq(Calls) /\ launched' \in 0..Len(round')
      /\ running' \subseteq 1..launched' /\ expired' \subseteq running'
      /\ slots' \in [1..Len(round') -> Reports \cup {"none"}]
      /\ RoundInv'
  BY <1>2, <1>3, <1>4, RoundBegins
<1>6. /\ stage = "delaying" /\ stage' = "executing" /\ rounds' = rounds + 1
      /\ UNCHANGED <<hooked, blocked, ctx, results, reported, answers, executed>>
  BY <1>4 DEF RetryAfterDelay, BeginRound
<1>7. rounds \in Nat /\ rounds < ToolRetries /\ ToolRetries \in Nat
  BY <1>6 DEF BatchInv, BatchTypeOK, StageInv, BatchConstants
<1>8. rounds' \in 0..ToolRetries
  BY <1>6, <1>7
<1>9. BatchTypeOK'
  BY <1>5, <1>6, <1>8 DEF BatchInv, BatchTypeOK
<1>10. StageInv'
  BY <1>6 DEF BatchInv, StageInv
<1>11. \A c \in Calls : Told(c, results[c])'
  BY <1>6 DEF BatchInv, AnswerInv, Told
<1>12. reported' = 0
  BY <1>6 DEF BatchInv, StageInv
<1>13. AnswerInv'
  BY <1>6, <1>11, <1>12 DEF AnswerInv
<1> QED
  BY <1>5, <1>9, <1>10, <1>13 DEF BatchInv

(* The context ended in the delay: the results stay as they are.           *)
LEMMA GiveUpStep == ASSUME BatchConstants, BatchInv, GiveUpRetrying PROVE BatchInv'
<1>1. BatchTypeOK'
  BY DEF BatchInv, BatchTypeOK, GiveUpRetrying, roundVars
<1>2. StageInv'
  BY DEF BatchInv, StageInv, GiveUpRetrying, roundVars
<1>3. RoundInv'
  BY DEF BatchInv, RoundInv, GiveUpRetrying, roundVars
<1>4. AnswerInv'
  BY DEF BatchInv, AnswerInv, GiveUpRetrying, roundVars, Told
<1> QED
  BY <1>1, <1>2, <1>3, <1>4 DEF BatchInv

(* The next call is answered with its result or a rejection.               *)
LEMMA ReportStep == ASSUME BatchConstants, BatchInv, NEW rejects \in BOOLEAN,
                           HookResult(rejects)
                    PROVE  BatchInv'
<1>1. PICK c \in Calls : c = reported + 1
  BY DEF BatchInv, BatchTypeOK, HookResult, BatchConstants, Calls
<1>2. PICK v \in Reports \cup {"none", "rejected"} :
        v = IF rejects THEN "rejected" ELSE results[c]
  BY DEF BatchInv, BatchTypeOK
<1>3. /\ stage = "reporting" /\ reported' = c /\ answers' = [answers EXCEPT ![c] = v]
      /\ UNCHANGED <<stage, hooked, blocked, ctx, round, launched, running, expired, slots,
                     results, rounds, executed>>
  BY <1>1, <1>2 DEF HookResult, roundVars
<1>4. answers \in [Calls -> Reports \cup Refusals \cup {"none"}] /\ reported \in Nat
  BY DEF BatchInv, BatchTypeOK
<1>5. answers' \in [Calls -> Reports \cup Refusals \cup {"none"}]
  BY <1>3, <1>4 DEF Refusals
<1>6. BatchTypeOK'
  BY <1>3, <1>5 DEF BatchInv, BatchTypeOK, Calls
<1>7. StageInv'
  BY <1>3 DEF BatchInv, StageInv
<1>8. RoundInv'
  BY <1>3 DEF BatchInv, RoundInv, Told
<1>9. ASSUME NEW e \in 1..c
      PROVE  answers'[e] \in {"rejected", results'[e]}
  <2>1. CASE e = c
    BY <1>2, <1>3, <1>4, <2>1
  <2>2. CASE e # c
    <3>1. e \in 1..reported /\ e \in Calls
      BY <1>1, <1>4, <2>2 DEF Calls, BatchConstants
    <3> QED
      BY <1>3, <1>4, <2>2, <3>1 DEF BatchInv, AnswerInv
  <2> QED
    BY <2>1, <2>2
<1>10. AnswerInv'
  BY <1>3, <1>9 DEF BatchInv, AnswerInv, Told
<1> QED
  BY <1>6, <1>7, <1>8, <1>10 DEF BatchInv

(* ExecTools returns when every call is answered.                          *)
LEMMA CloseStep == ASSUME BatchConstants, BatchInv, Return PROVE BatchInv'
<1>1. BatchTypeOK'
  BY DEF BatchInv, BatchTypeOK, Return, roundVars
<1>2. StageInv'
  BY DEF BatchInv, StageInv, Return, roundVars
<1>3. RoundInv'
  BY DEF BatchInv, RoundInv, Return, roundVars
<1>4. AnswerInv'
  BY DEF BatchInv, AnswerInv, Return, roundVars, Told
<1> QED
  BY <1>1, <1>2, <1>3, <1>4 DEF BatchInv

(* Every step keeps the invariant.                                         *)
LEMMA BatchStep == ASSUME BatchConstants PROVE BatchInv /\ [BatchNext]_batchVars => BatchInv'
<1> SUFFICES ASSUME BatchInv, [BatchNext]_batchVars PROVE BatchInv'
  OBVIOUS
<1>1. CASE Caller
  BY <1>1, HookStep, AbortStep, FirstRoundStep, LaunchStep, EndRoundStep, RetryStep,
     ReportStep, CloseStep DEF Caller
<1>2. CASE GiveUpRetrying
  BY <1>2, GiveUpStep
<1>3. CASE \E k \in Positions : ToolEnds(k)
  BY <1>3, ReturnStep, LeaveStep DEF ToolEnds
<1>4. CASE \E k \in Positions : BudgetExpires(k)
  BY <1>4, BudgetStep
<1>5. CASE \E how \in {"cancelled", "expired"} : ContextEnds(how)
  BY <1>5, ContextStep
<1>6. CASE UNCHANGED batchVars
  <2>1. BatchTypeOK'
    BY <1>6 DEF BatchInv, BatchTypeOK, batchVars, roundVars
  <2>2. StageInv' /\ RoundInv'
    BY <1>6 DEF BatchInv, StageInv, RoundInv, batchVars, roundVars, Told
  <2>3. AnswerInv'
    BY <1>6 DEF BatchInv, AnswerInv, batchVars, roundVars, Told, InRound
  <2> QED
    BY <2>1, <2>2, <2>3 DEF BatchInv
<1> QED
  BY <1>1, <1>2, <1>3, <1>4, <1>5, <1>6 DEF BatchNext

(* The inductive invariant holds in batches of any size.                   *)
THEOREM BatchInvariant == BatchSpec => []BatchInv
<1>1. BatchInit => BatchInv
  BY BatchAssumption, BatchInitially
<1>2. BatchInv /\ [BatchNext]_batchVars => BatchInv'
  BY BatchAssumption, BatchStep
<1> QED
  BY <1>1, <1>2, PTL DEF BatchSpec

(* However failed calls are regrouped for retries and whatever deadlines   *)
(* pass, an answer tells what the last execution of its own call did; a    *)
(* blocked batch runs nothing, the semaphore holds, and nothing runs while *)
(* nobody waits for it.                                                    *)
THEOREM BatchHonest == BatchSpec => []BatchIsHonest
<1>1. BatchInv => AnswersTellTheLastRun
  <2> SUFFICES ASSUME BatchInv, stage = "done", blocked = {}, NEW c \in Calls
               PROVE  executed[c] # <<>> /\ Tells(answers[c], executed[c][Len(executed[c])])
    BY DEF AnswersTellTheLastRun
  <2>1. c \in 1..reported
    BY DEF BatchInv, StageInv, Calls
  <2>2. Told(c, results[c]) /\ answers[c] \in {"rejected", results[c]}
    BY <2>1 DEF BatchInv, AnswerInv
  <2> QED
    BY <2>2 DEF Told, Tells
<1>2. BatchInv => BlockedBatchRunsNothing
  <2> SUFFICES ASSUME BatchInv, blocked # {} PROVE BlockedBatchRunsNothing
    BY DEF BlockedBatchRunsNothing
  <2>1. \A c \in Calls : executed[c] = <<>>
    BY DEF BatchInv, StageInv
  <2>2. stage = "done" => \A c \in Calls : answers[c] = "blocked" <=> c \in blocked
    BY DEF BatchInv, StageInv
  <2>3. blocked \subseteq Calls
    BY DEF BatchInv, BatchTypeOK
  <2> QED
    BY <2>1, <2>2, <2>3 DEF BlockedBatchRunsNothing
<1>3. BatchInv => ConcurrencyBounded
  <2> SUFFICES ASSUME BatchInv PROVE ConcurrencyBounded
    OBVIOUS
  <2> DEFINE busy == {k \in running : slots[k] = "none"}
  <2>1. busy \in SUBSET running
    OBVIOUS
  <2>2. Cardinality(running) <= MaxConcurrency /\ MaxConcurrency \in Nat
    BY BatchAssumption DEF BatchInv, RoundInv, BatchConstants
  <2> HIDE DEF busy
  <2>3. /\ IsFiniteSet(busy) /\ Cardinality(busy) <= Cardinality(running)
        /\ Cardinality(running) \in Nat
    BY <2>1, BatchAssumption, RunningCount DEF BatchInv
  <2>4. Cardinality(busy) \in Nat
    BY <2>3, FS_CardinalityType
  <2>5. Cardinality(busy) <= MaxConcurrency
    BY <2>2, <2>3, <2>4
  <2> QED
    BY <2>5 DEF ConcurrencyBounded, busy
<1>4. BatchInv => NothingRunsUnwatched
  BY DEF BatchInv, RoundInv, NothingRunsUnwatched
<1>5. BatchInv => BatchIsHonest
  BY <1>1, <1>2, <1>3, <1>4 DEF BatchIsHonest, BatchIsContained
<1>6. BatchSpec => []BatchInv
  BY BatchInvariant
<1> QED
  BY <1>5, <1>6, PTL
=============================================================================
