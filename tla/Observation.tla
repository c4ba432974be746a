------------------------------ MODULE Observation ------------------------------
(***************************************************************************)
(* What is recorded of runs: the observability module opens a span per     *)
(* step, model call and tool call and finds it again in the context of the *)
(* hook that ends it; the audit module emits a sampled line per hook.  The *)
(* contexts are those the runtime threads through its hooks.  Another      *)
(* module, registered after the two, may refuse or lose the context.       *)
(***************************************************************************)
EXTENDS Naturals, Sequences, FiniteSets

CONSTANTS Runs, MaxSteps, MaxAttempts, NumTools,
          Rates,           \* sample rates of the audit, a pair each
          MaxInitFailures

VARIABLES
  provider, initFailures,  \* lazyInit: "none", "ready" or "down"
  closedOnce,              \* closeOnce of Shutdown
  rate, sampled, emitted,  \* the audit
  pc, step, attempt, done, \* of each run; done counts hooked or returned calls
  ctx, callCtx,            \* the context of the loop and of the model call
  spans,                   \* of each run, in the order they were opened
  counted,                 \* the metrics
  attempts, returned,      \* history: what there was to measure
  excused,                 \* history: spans no end hook was to see
  located                  \* history: the step the last audit line names, and the real one
moduleVars == <<provider, initFailures, closedOnce, rate, sampled, emitted, counted>>
runVars == <<pc, step, attempt, done, ctx, callCtx, spans, attempts, returned, excused, located>>
observationVars == <<moduleVars, runVars>>

NoStep == MaxSteps     \* StepIndex -1
NoContext == [step |-> 0, model |-> 0, tool |-> 0, index |-> NoStep]
ObservationInit ==
  /\ provider = "none" /\ initFailures = 0 /\ closedOnce = FALSE
  /\ rate \in Rates /\ sampled = 0 /\ emitted = 0
  /\ pc = [r \in Runs |-> "loop"] /\ step = [r \in Runs |-> 0]
  /\ attempt = [r \in Runs |-> 1] /\ done = [r \in Runs |-> 0]
  /\ ctx = [r \in Runs |-> NoContext] /\ callCtx = [r \in Runs |-> NoContext]
  /\ spans = [r \in Runs |-> <<>>]
  /\ counted = [k \in {"step", "model", "tool"} |-> 0]
  /\ attempts = 0 /\ returned = 0
  /\ excused = [r \in Runs |-> {}] /\ located = [r \in Runs |-> [says |-> 0, is |-> 0]]

-----------------------------------------------------------------------------
Goes(r, to) == pc' = [pc EXCEPT ![r] = to]
Open(r) == {i \in DOMAIN spans[r] : spans[r][i].ends = 0}

(* lazyInit: what fails is tried again by the next hook.                   *)
LazyInitFails ==
  /\ provider = "none" /\ initFailures < MaxInitFailures
  /\ initFailures' = initFailures + 1 /\ UNCHANGED provider
LazyInit ==
  /\ provider' = IF provider = "none" THEN "ready" ELSE provider
  /\ UNCHANGED initFailures

(* mkSpan: a child is sampled as its parent is.                            *)
Span(r, kind, parent, sampledSpan) ==
  [kind |-> kind, of |-> step[r], parent |-> parent, ends |-> 0,
   recorded |-> IF parent = 0 THEN sampledSpan ELSE spans[r][parent].recorded]
Starts(r, kind, c) ==
  \/ LazyInitFails /\ UNCHANGED spans
  \/ LazyInit /\ \E b \in BOOLEAN :
       /\ c.step > 0 => b
       /\ spans' = [spans EXCEPT ![r] = Append(@, Span(r, kind, c.step, b))]
Opened(r) == Len(spans'[r]) > Len(spans[r])

(* onStepEnd, onModelResult, onToolResult: a span that records is ended.   *)
Anyway(s) == TRUE
IsRecording(s) == s.recorded /\ s.ends = 0
Finishes(r, kind, i) ==
  IF i > 0 /\ IsRecording(spans[r][i])
  THEN /\ spans' = [spans EXCEPT ![r][i].ends = @ + 1]
       /\ counted' = [counted EXCEPT ![kind] = @ + 1]
  ELSE UNCHANGED <<spans, counted>>

(* emit: of so many lines the share of the rate is written.                *)
Generous(n) == n * rate[1] < emitted * rate[2]
Passes(n) == rate[1] < rate[2] /\ n * rate[1] <= emitted * rate[2]
Emit(r, index) ==
  /\ sampled' = sampled + 1
  /\ emitted' = IF Passes(sampled + 1) THEN emitted ELSE emitted + 1
  /\ located' = [located EXCEPT ![r] = [says |-> index, is |-> step[r]]]
Silent == UNCHANGED <<sampled, emitted, located>>

-----------------------------------------------------------------------------
(* FireStepStart: the step's index is in the context again whatever the    *)
(* hooks made of it.                                                       *)
NotReinjected(c, r) == c
Reinjected(c, r) == [c EXCEPT !.index = step[r]]
WithSpan(r, kind, c) == IF Opened(r) THEN [c EXCEPT ![kind] = Len(spans'[r])] ELSE c
StepStarts(r) ==
  /\ pc[r] = "loop" /\ step[r] < MaxSteps /\ Starts(r, "step", ctx[r])
  /\ LET c == WithSpan(r, "step", [ctx[r] EXCEPT !.index = step[r]])
         own == IF Opened(r) THEN {c.step} ELSE {} IN
       \/ /\ Goes(r, "model") /\ ctx' = [ctx EXCEPT ![r] = Reinjected(c, r)] /\ UNCHANGED excused
       \/ /\ Goes(r, "model") /\ ctx' = [ctx EXCEPT ![r] = Reinjected(NoContext, r)]
          /\ excused' = [excused EXCEPT ![r] = @ \cup own]
       \/ /\ Goes(r, "over") /\ ctx' = [ctx EXCEPT ![r] = c]
          /\ excused' = [excused EXCEPT ![r] = @ \cup own]
  /\ Silent /\ attempt' = [attempt EXCEPT ![r] = 1] /\ done' = [done EXCEPT ![r] = 0]
  /\ UNCHANGED <<closedOnce, rate, counted, step, callCtx, attempts, returned>>

(* fireModelCall: the call has a context of its own, with its span.        *)
ModelStarts(r) ==
  /\ pc[r] = "model" /\ Starts(r, "model", ctx[r]) /\ Emit(r, ctx[r].index)
  /\ LET c == WithSpan(r, "model", ctx[r])
         own == IF Opened(r) THEN {c.model} ELSE {} IN
       \/ /\ Goes(r, "calling") /\ callCtx' = [callCtx EXCEPT ![r] = c] /\ UNCHANGED excused
       \/ /\ Goes(r, "calling") /\ callCtx' = [callCtx EXCEPT ![r] = NoContext]
          /\ excused' = [excused EXCEPT ![r] = @ \cup own]
       \/ /\ Goes(r, "ends") /\ UNCHANGED callCtx
          /\ excused' = [excused EXCEPT ![r] = @ \cup own]
  /\ UNCHANGED <<closedOnce, rate, counted, step, attempt, done, ctx, attempts, returned>>

(* CallModel: each attempt that ends fires the result hooks in the context *)
(* of the call; a stream that breaks fires none.                           *)
AttemptEnds(r) ==
  /\ pc[r] = "calling" /\ attempts' = attempts + 1
  /\ Finishes(r, "model", callCtx[r].model) /\ Emit(r, callCtx[r].index)
  /\ \/ Goes(r, "hooks") /\ UNCHANGED attempt
     \/ Goes(r, "ends") /\ UNCHANGED attempt
     \/ /\ attempt[r] < MaxAttempts /\ attempt' = [attempt EXCEPT ![r] = @ + 1]
        /\ UNCHANGED pc
  /\ UNCHANGED <<provider, initFailures, closedOnce, rate, step, done, ctx, callCtx, returned, excused>>
StreamBreaks(r) ==
  /\ pc[r] = "calling" /\ attempt[r] = 1 /\ Goes(r, "ends")
  /\ excused' = [excused EXCEPT ![r] = @ \cup ({callCtx[r].model} \ {0})]
  /\ UNCHANGED <<moduleVars, step, attempt, done, ctx, callCtx, spans, attempts, returned, located>>

(* ExecTools: the hooks of all calls come first; the context they return   *)
(* is dropped, and the result hooks get the context of the step.           *)
BatchContext(r, c) == ctx[r]
ToolStarts(r) ==
  /\ pc[r] = "hooks" /\ done[r] < NumTools /\ Starts(r, "tool", ctx[r]) /\ Emit(r, ctx[r].index)
  /\ done' = [done EXCEPT ![r] = @ + 1]
  /\ ctx' = [ctx EXCEPT ![r] = BatchContext(r, WithSpan(r, "tool", ctx[r]))]
  /\ excused' = [excused EXCEPT ![r] = @ \cup (IF Opened(r) THEN {Len(spans'[r])} ELSE {})]
  /\ UNCHANGED <<closedOnce, rate, counted, pc, step, attempt, callCtx, attempts, returned>>
BatchRuns(r) ==
  /\ pc[r] = "hooks" /\ done[r] = NumTools
  /\ \/ Goes(r, "results") /\ done' = [done EXCEPT ![r] = 0]
     \/ Goes(r, "ends") /\ UNCHANGED done
  /\ UNCHANGED <<moduleVars, step, attempt, ctx, callCtx, spans, attempts, returned, excused, located>>
ToolReturns(r) ==
  /\ pc[r] = "results" /\ done[r] < NumTools
  /\ done' = [done EXCEPT ![r] = @ + 1] /\ returned' = returned + 1
  /\ Finishes(r, "tool", ctx[r].tool) /\ Emit(r, ctx[r].index)
  /\ IF done'[r] = NumTools THEN Goes(r, "ends") ELSE UNCHANGED pc
  /\ UNCHANGED <<provider, initFailures, closedOnce, rate, step, attempt, ctx, callCtx, attempts, excused>>

(* RunStep: however the body ends, the step ends; the loop goes on with    *)
(* the context of the step.                                                *)
FirstSpan(r) == IF spans[r] = <<>> THEN 0 ELSE 1
EndedSpan(r) == ctx[r].step
StepEnds(r) ==
  /\ pc[r] = "ends" /\ Finishes(r, "step", EndedSpan(r))
  /\ step' = [step EXCEPT ![r] = @ + 1]
  /\ \/ Goes(r, "loop")
     \/ Goes(r, "over")
  /\ Silent
  /\ UNCHANGED <<provider, initFailures, closedOnce, rate, attempt, done, ctx, callCtx,
                 attempts, returned, excused>>

(* onAgentEnd of both; the summary is a span that begins and ends here.    *)
AgentEnds(r) ==
  /\ pc[r] = "over" \/ (pc[r] = "loop" /\ step[r] = MaxSteps)
  /\ Goes(r, "done")
  /\ LazyInitFails \/ LazyInit
  /\ Emit(r, NoStep)
  /\ UNCHANGED <<closedOnce, rate, counted, step, attempt, done, ctx, callCtx, spans,
                 attempts, returned, excused>>

Shutdown ==
  /\ closedOnce' = TRUE
  /\ provider' = IF ~closedOnce /\ provider = "ready" THEN "down" ELSE provider
  /\ UNCHANGED <<initFailures, rate, sampled, emitted, counted, runVars>>

ObservationNext ==
  \/ Shutdown
  \/ \E r \in Runs :
       \/ StepStarts(r) \/ ModelStarts(r) \/ AttemptEnds(r) \/ StreamBreaks(r)
       \/ ToolStarts(r) \/ BatchRuns(r) \/ ToolReturns(r) \/ StepEnds(r) \/ AgentEnds(r)
ObservationSpec == ObservationInit /\ [][ObservationNext]_observationVars

-----------------------------------------------------------------------------
ObservationTypeOK ==
  /\ provider \in {"none", "ready", "down"} /\ initFailures \in 0..MaxInitFailures
  /\ sampled \in Nat /\ emitted \in Nat /\ attempts \in Nat /\ returned \in Nat
  /\ \A r \in Runs :
       /\ pc[r] \in {"loop", "model", "calling", "hooks", "results", "ends", "over", "done"}
       /\ step[r] \in 0..MaxSteps /\ attempt[r] \in 1..MaxAttempts /\ done[r] \in 0..NumTools
       /\ {ctx[r].step, callCtx[r].model} \subseteq 0..Len(spans[r])
       /\ excused[r] \subseteq DOMAIN spans[r]

Ended(kind) ==
  UNION {{<<r, i>> : i \in {j \in DOMAIN spans[r] : spans[r][j].kind = kind /\ spans[r][j].ends > 0}} :
           r \in Runs}

(* observability.go:513 and the like: no span ends twice, each end is one  *)
(* count, and only the end hooks that never came leave a span open.        *)
SpansAreClosed ==
  /\ \A k \in DOMAIN counted : counted[k] = Cardinality(Ended(k))
  /\ \A r \in Runs : \A i \in DOMAIN spans[r] :
       LET s == spans[r][i] IN
       /\ s.ends <= 1
       /\ s.parent < i /\ (s.parent > 0 => spans[r][s.parent].of <= s.of)
       /\ s.recorded /\ s.ends = 0 /\ i \notin excused[r] =>
            \/ s.kind = "model" /\ pc[r] = "calling"
            \/ s.kind = "step" /\ pc[r] \in {"model", "calling", "hooks", "results", "ends"}
                 /\ s.of = step[r]

(* audit.go: of n lines the rate's share is written, rounded up.           *)
AuditKeepsItsRate ==
  /\ emitted * rate[2] >= sampled * rate[1]
  /\ emitted * rate[2] < sampled * rate[1] + rate[2]

(* runtime.go:290: a line names its step, or no step at all.               *)
StepIsKnown == \A r \in Runs : located[r].says \in {located[r].is, NoStep}
StepIsNamed ==
  \A r \in Runs : pc[r] \in {"hooks", "results"} /\ done[r] > 0 => located[r].says = step[r]

RunsAreObserved == SpansAreClosed /\ AuditKeepsItsRate /\ StepIsKnown /\ StepIsNamed

(* Not what the code does.  observability.go:41: metrics are recorded for  *)
(* tool calls; the span is in the context ExecTools drops, so none is      *)
(* ended or counted.  A call that is tried again is counted for its first  *)
(* attempt alone.                                                          *)
AllRecorded == \A r \in Runs : \A i \in DOMAIN spans[r] : spans[r][i].recorded
Measurable == initFailures = 0 /\ AllRecorded
                /\ \A r \in Runs : ctx[r].step > 0 \/ spans[r] = <<>>
ToolCallsAreMeasured == Measurable => counted["tool"] = returned
AttemptsAreMeasured ==
  Measurable /\ (\A r \in Runs : callCtx[r].model > 0) => counted["model"] >= attempts

(* Not what the code does.  observability.go:118: Shutdown flushes what    *)
(* remains; one before the first hook keeps all later ones from it.        *)
ShutdownEndsIt == closedOnce => provider # "ready"
=============================================================================
