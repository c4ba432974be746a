---- MODULE MCOrchestration ----
(* Orchestration of agents, each part on its own small instance: the graph  *)
(* engine on every graph of four nodes, a graph state shared by goroutines, *)
(* the interrupt node and its handle, the workflow engine, the agents       *)
(* composed of several, and what is recorded of a run. part says which of   *)
(* them a behaviour is about; the others stay in a first state.             *)
EXTENDS Workflow, TLC

CONSTANTS Cases, NoState, NoBranch
VARIABLES case, choice, loop, ctxDone, canceled, remaining, condPending, condPassed,
          skipped, running, nodeStates, exec, parts, resultCh, firstErr, finalState,
          starts, failures
graphVars ==
  <<case, choice, loop, ctxDone, canceled, remaining, condPending, condPassed, skipped,
    running, nodeStates, exec, parts, resultCh, firstErr, finalState, starts, failures>>
Graph == INSTANCE GraphEngine

CONSTANTS Keys, Values, Absent, Writers, Watchers, MaxChanges
VARIABLES data, history, watchers, calls, toSet, changes, told
stateVars == <<data, history, watchers, calls, toSet, changes, told>>
CONSTANTS k1, t1
Watched == t1 :> {k1}
State == INSTANCE GraphState WITH WatchedKeys <- Watched

CONSTANTS Visits, MaxInputs
VARIABLES inputCh, handleClosed, checkID, visit, relayPc, relay, routed, accepted
interruptVars ==
  <<inputCh, handleClosed, checkID, visit, relayPc, relay, routed, accepted>>
Interrupt == INSTANCE GraphInterrupt

CONSTANTS NumAgents, Forms, Limits
VARIABLES form, limit, phase, at, did, given, input, reports, results, order, answer
compositionVars ==
  <<form, limit, phase, at, did, given, input, reports, results, order, answer>>
Compose == INSTANCE Compositions WITH resultCh <- reports

CONSTANTS WatchedRuns, MaxSteps, MaxAttempts, NumTools, Rates, MaxInitFailures
VARIABLES provider, initFailures, closedOnce, rate, sampled, emitted, pc, step, attempt,
          hooked, ctx, callCtx, spans, counted, attempts, returnedTools, excused, located
observationVars ==
  <<provider, initFailures, closedOnce, rate, sampled, emitted, pc, step, attempt,
    hooked, ctx, callCtx, spans, counted, attempts, returnedTools, excused, located>>
Observed == INSTANCE Observation WITH Runs <- WatchedRuns, done <- hooked, returned <- returnedTools

\* A batch has a number of agents; New brings a sample rate into [0,1]
\* (audit.go:155).
ASSUME AgentsAssumption ==
  /\ NumAgents \in Nat /\ MaxSteps \in Nat
  /\ \A r \in Rates : r[1] \in Nat /\ r[2] \in Nat \ {0} /\ r[1] <= r[2]

VARIABLE part
agentVars == <<compositionVars, observationVars>>
allVars == <<graphVars, stateVars, interruptVars, workflowVars, agentVars, part>>

----------------------------------------------------------------------------
Pairs == <<<<1, 2>>, <<1, 3>>, <<1, 4>>, <<2, 3>>, <<2, 4>>, <<3, 4>>>>
Edges(l) == SelectSeq([i \in 1..6 |->
              [from |-> Pairs[i][1], to |-> Pairs[i][2], label |-> l[i]]],
              LAMBDA e: e.label # "absent")
LabelsOf(kind) == IF kind = "condition" THEN {"absent", "yes", "no"} ELSE {"absent", ""}

\* Every graph of four nodes whose edges go upwards; the edges of a condition
\* are labelled yes or no.
Shapes ==
  UNION {{[kind |-> k, edges |-> Edges(l)] :
            l \in {m \in [1..6 -> {"absent", "", "yes", "no"}] :
                     \A i \in 1..6 : m[i] \in LabelsOf(k[Pairs[i][1]])}} :
           k \in {<<a, b, c, "agent">> : a, b, c \in {"agent", "condition"}}}

Plain(m, n) == [from |-> m, to |-> n, label |-> ""]
Labeled(m, n, l) == [from |-> m, to |-> n, label |-> l]
Diamond(kinds) ==
  [kind |-> kinds, edges |-> <<Plain(1, 2), Plain(1, 3), Plain(3, 4), Plain(2, 4)>>]
Gate == [kind |-> <<"condition", "agent", "agent">>,
         edges |-> <<Labeled(1, 2, "yes"), Labeled(1, 3, "no")>>]
Cyclic == [kind |-> <<"agent", "agent", "agent">>,
           edges |-> <<Plain(1, 2), Plain(2, 3), Plain(3, 2)>>]

Sound(g) == [graph |-> g, retries |-> 0, faults |-> FALSE]
Faulty(g) == [graph |-> g, retries |-> 1, faults |-> TRUE]
SmallCases ==
  {Sound(g) : g \in Shapes} \union
  {Sound(Cyclic), Sound(Diamond(<<"transform", "transform", "parallel", "agent">>)),
   Sound(Diamond(<<"agent", "transform", "transform", "transform">>)),
   Faulty(Diamond(<<"transform", "parallel", "agent", "agent">>)), Faulty(Gate)}

\* An approval between two agents, and a branch of two nodes.
Approval == [kind |-> <<"agent", "interrupt", "agent", "agent">>,
             edges |-> <<Plain(1, 2), Labeled(2, 3, "approve"), Labeled(2, 4, "reject")>>]
LongBranch == [kind |-> <<"condition", "agent", "agent", "agent">>,
               edges |-> <<Labeled(1, 2, "yes"), Labeled(1, 3, "no"), Plain(3, 4)>>]
BranchCases == {Sound(Approval), Sound(LongBranch)}

SmallDocs == <<[items |-> 2, stages |-> 2], [items |-> 1, stages |-> 1],
               [items |-> 3, stages |-> 1], [items |-> 2, stages |-> 3],
               [items |-> 2, stages |-> 0]>>

TwoThirds == {<<2, 3>>}
----------------------------------------------------------------------------
\* The engine waits on one graph in the behaviours about another part.
OrchestrationInit ==
  /\ part \in {"graph", "state", "interrupt", "workflow", "agents", "observation"}
  /\ Graph!Init /\ (part # "graph" => case = Sound(Cyclic))
  /\ State!StateInit /\ Interrupt!InterruptInit /\ WorkflowInit
  /\ form \in (IF part = "agents" THEN Forms ELSE {"chain"})
  /\ limit \in (IF part = "agents" THEN Limits ELSE {0})
  /\ Compose!CompositionInit
  /\ rate \in (IF part = "observation" THEN Rates ELSE {CHOOSE r \in Rates : TRUE})
  /\ Observed!ObservationInit

OrchestrationNext ==
  \/ /\ part = "graph" /\ Graph!Next
     /\ UNCHANGED <<stateVars, interruptVars, workflowVars, agentVars, part>>
  \/ /\ part = "state" /\ State!StateNext
     /\ UNCHANGED <<graphVars, interruptVars, workflowVars, agentVars, part>>
  \/ /\ part = "interrupt" /\ Interrupt!InterruptNext
     /\ UNCHANGED <<graphVars, stateVars, workflowVars, agentVars, part>>
  \/ /\ part = "workflow" /\ WorkflowNext
     /\ UNCHANGED <<graphVars, stateVars, interruptVars, agentVars, part>>
  \/ /\ part = "agents" /\ Compose!CompositionNext
     /\ UNCHANGED <<graphVars, stateVars, interruptVars, workflowVars, observationVars, part>>
  \/ /\ part = "observation" /\ Observed!ObservationNext
     /\ UNCHANGED <<graphVars, stateVars, interruptVars, workflowVars, compositionVars, part>>

OrchestrationSpec == OrchestrationInit /\ [][OrchestrationNext]_allVars

(* Every variable of the six parts keeps its type.                         *)
TypesOK == CASE part = "graph" -> Graph!TypeOK
             [] part = "state" -> State!StateTypeOK
             [] part = "interrupt" -> Interrupt!InterruptTypeOK
             [] part = "workflow" -> WorkflowTypeOK
             [] part = "agents" -> Compose!CompositionTypeOK
             [] part = "observation" -> Observed!ObservationTypeOK

(* A graph: a node runs when its routes and its predecessors say so, and    *)
(* the loop counts exactly the results it is still owed; the state of a     *)
(* graph is what its history says, and a watcher is told of each change of  *)
(* its keys once; an interrupt node resumes on inputs that were injected,   *)
(* each once.                                                               *)
GraphsAreSound ==
  /\ Graph!GatingRule /\ Graph!RunningIsExact
  /\ State!HistoryIsTheData /\ State!WatchersAreTold
  /\ Interrupt!OneInputOneResume

(* tryStart: "A node reachable only through unchosen condition branches is  *)
(* skipped (cascade)": a node runs only if a predecessor ran and chose it.  *)
UnchosenNeverRuns == Graph!UnchosenNeverRuns

(* Agents together: the result of a workflow hides no item that was cut     *)
(* short; of several agents each is heard once, in its place, and nobody    *)
(* waits for a goroutine that waits for it. A run is recorded as it was:    *)
(* spans are closed and counted once, and lines name their step.            *)
AgentsAreSound ==
  /\ part = "workflow" => ResultHidesNothing
  /\ part = "agents" => Compose!CompositionsAreSound
  /\ part = "observation" => Observed!RunsAreObserved
====
