------------------------------- MODULE MCGuards -------------------------------
(***************************************************************************)
(* What stands between an agent and its model and tools, each part on a    *)
(* small instance: the circuit breaker (CircuitBreaker), the decisions on  *)
(* tool calls (Decisions), the way of a model call (ModelCalls) and the    *)
(* messages it is sent (ContextGuard).  part says which of them a          *)
(* behaviour is about; the others stay in a first state.                   *)
(***************************************************************************)
EXTENDS CircuitBreaker, Decisions, TLC

CONSTANTS Callers, Routes, RouteSetups, Answers, MaxRetries, MaxRepeats, BaseDelay, MaxDelay,
          Width, Capacity, MaxRefills
VARIABLES routing, mode, kind, counter, tokens, refills, progress, attempt, route, errs,
          flight, stopped, source, broken, delays, passes, picks, admitted, leaked
modelCallVars == <<routing, mode, kind, counter, tokens, refills, progress, attempt, route,
                   errs, flight, stopped, source, broken, delays, passes, picks, admitted,
                   leaked>>
Route == INSTANCE ModelCalls WITH strategy <- routing, phase <- progress, Setups <- RouteSetups

CONSTANTS ContextSetups, Budget, NearBudget, Reserve, Truncate, MaxLines, HeadPercent,
          MinPreserve, SummarySizes, PruneThreshold, PruneHead, PruneTail, ResultSizes, Tools,
          Ratios, Thresholds, MaxRuns, MaxSteps
VARIABLES compaction, summarizer, prompted, msgs, turn, runs, steps, factor, chain, pending,
          sent, how, dropped, summarized, built, observed, reminded
contextVars == <<compaction, summarizer, prompted, msgs, turn, runs, steps, factor, chain,
                 pending, sent, how, dropped, summarized, built, observed, reminded>>
Context == INSTANCE ContextGuard WITH strategy <- compaction, phase <- turn,
                                      Setups <- ContextSetups

VARIABLE part
allVars == <<vars, decisionVars, modelCallVars, contextVars, part>>

-----------------------------------------------------------------------------
GuardsInit ==
  /\ part \in {"breaker", "decisions", "calls", "context"}
  /\ Init /\ DecisionsInit /\ Route!ModelCallsInit /\ Context!ContextInit
  /\ part # "decisions" => setting = (CHOOSE s \in Settings : TRUE) /\ ~planned
  /\ part # "calls" => <<routing, mode, kind>> = (CHOOSE s \in RouteSetups : TRUE)
  /\ part # "context" => <<compaction, summarizer, prompted>> = (CHOOSE s \in ContextSetups : TRUE)

GuardsNext ==
  \/ /\ part = "breaker" /\ Next
     /\ UNCHANGED <<decisionVars, modelCallVars, contextVars, part>>
  \/ /\ part = "decisions" /\ DecisionsNext
     /\ UNCHANGED <<vars, modelCallVars, contextVars, part>>
  \/ /\ part = "calls" /\ Route!ModelCallsNext
     /\ UNCHANGED <<vars, decisionVars, contextVars, part>>
  \/ /\ part = "context" /\ Context!ContextNext
     /\ UNCHANGED <<vars, decisionVars, modelCallVars, part>>

GuardsSpec == GuardsInit /\ [][GuardsNext]_allVars

-----------------------------------------------------------------------------
(* Every variable of the four parts keeps its type.                        *)
TypesOK == CASE part = "breaker" -> TypeOK
             [] part = "decisions" -> DecisionsTypeOK
             [] part = "calls" -> Route!ModelCallsTypeOK
             [] part = "context" -> Context!ContextTypeOK

(* Retries and routes: only what may be repeated is, with waits that do    *)
(* not shrink; routes are asked in their order or by their weights; a      *)
(* limiter admits no more than its tokens.                                 *)
CallsAreRoutedRight ==
  part = "calls" => /\ Route!RetriesAreDue /\ Route!DelaysGrow /\ Route!RoutesInOrder
                    /\ Route!WeightsAreKept /\ Route!LimitersHold

(* Whatever is trimmed, compacted or summarized, the model is sent a well  *)
(* formed conversation that fits its budget, no message leaves unreported  *)
(* and a reminder about repeated calls is earned.                          *)
RequestsAreSound ==
  part = "context" => /\ Context!RequestsAreWellFormed /\ Context!TrimmedFits
                      /\ Context!LeavesAreReported /\ Context!RemindersAreEarned

-----------------------------------------------------------------------------
CONSTANTS c1, c2, c3, c4, p1, p2, ta, tb
FourCalls == {c1, c2, c3, c4}
TwoCallers == {p1, p2}
TwoTools == {ta, tb}
GuardSymmetry == Permutations(TwoCallers) \cup Permutations(TwoTools)

Host(tier, disposition, delegated, asker, onTimeout, order) ==
  [tier |-> tier, disposition |-> disposition, delegated |-> delegated, asker |-> asker,
   onTimeout |-> onTimeout, order |-> order]
PlanFirst == <<"planmode", "permission", "hitl">>
HumanFirst == <<"hitl", "permission", "planmode">>
SomeSettings ==
  { Host("workspace-write", "ask", "no", TRUE, "reject", PlanFirst),
    Host("workspace-write", "ask", "no", FALSE, "skip", HumanFirst),
    Host("danger-full-access", "never", "no", TRUE, "approve", HumanFirst),
    Host("read-only", "", "no", TRUE, "error", PlanFirst),
    Host("workspace-write", "never", "no", TRUE, "reject", HumanFirst),
    Host("workspace-write", "nil", "no", TRUE, "reject", PlanFirst),
    Host("workspace-write", "broken", "no", TRUE, "reject", PlanFirst),
    Host("workspace-write", "ask", "auto", TRUE, "reject", PlanFirst),
    Host("workspace-write", "ask", "ask", TRUE, "reject", PlanFirst) }
Ask(tool, writes, executes, path, rule) ==
  [tool |-> tool, writes |-> writes, executes |-> executes, path |-> path, rule |-> rule]
SomeRequests ==
  { Ask("plain", FALSE, FALSE, "none", FALSE), Ask("plain", TRUE, FALSE, "inside", FALSE),
    Ask("plain", TRUE, FALSE, "outside", TRUE), Ask("plain", FALSE, TRUE, "none", TRUE),
    Ask("plain", TRUE, FALSE, "garbled", FALSE), Ask("dialogue", FALSE, FALSE, "none", FALSE),
    Ask("exit", FALSE, FALSE, "none", FALSE) }

TwoRoutes == <<[weight |-> 2, timed |-> TRUE, limited |-> FALSE],
               [weight |-> 0, timed |-> FALSE, limited |-> TRUE]>>
SomeRouteSetups ==
  { <<"priority", "normal", "generate">>, <<"round_robin", "always", "stream">>,
    <<"weighted_round_robin", "normal", "generate">>, <<"race_all", "normal", "stream">> }

SomeContextSetups == { <<"simple", FALSE, TRUE>>, <<"smart", TRUE, TRUE>>,
                       <<"summary", TRUE, FALSE>> }
ThreeSizes == {1, 4, 6}
TwoRatios == {3, 4}
TwoOrThree == {2, 3}
OneSize == {3}
=============================================================================
