------------------------------- MODULE MCProgress -------------------------------
(***************************************************************************)
(* What must eventually happen: the liveness of the background jobs, the   *)
(* subagent sessions, the circuit breaker, a tool batch, an agent run, the *)
(* event streams, the graph engine and the workflow engine, each on a      *)
(* small instance under the fairness its code justifies.  part says which  *)
(* of them a behaviour is about; names two of the modules share are        *)
(* renamed in the instances.                                               *)
(***************************************************************************)
EXTENDS Integers

CONSTANTS Entries, Owners, NoOwner, ExplicitIds, NoId, CapSettings, DefaultCap
VARIABLES items, seq, perOwner, maxPerOwner, notifier, pc, id, owner, status, runErr,
          hasCancel, canceled, kill, tearing, doomed, notices, view, tornDown
jobVars == <<items, seq, perOwner, maxPerOwner, notifier, pc, id, owner, status, runErr,
             hasCancel, canceled, kill, tearing, doomed, notices, view, tornDown>>
Job == INSTANCE JobRegistry

CONSTANTS Sessions, Disposers, ChanCap, MaxMessages
VARIABLES children, awaited, disposed, call, loop, oneShot, childStatus, failing, verdict,
          childNotices, closes, queue, inHand, accepted, ran, sender, armed,
          turnCanceled, interrupt, meant
childVars == <<children, awaited, disposed, call, loop, oneShot, childStatus, failing,
               verdict, childNotices, closes, queue, inHand, accepted, ran, sender,
               armed, turnCanceled, interrupt, meant>>
Child == INSTANCE SubagentRegistry
           WITH items <- children, pc <- loop, status <- childStatus,
                notices <- childNotices, canceled <- turnCanceled

CONSTANTS GuardedCalls, MaxFail, HalfOpenMax, HookFails
VARIABLES state, failures, halfOpenCalls, aged, guarded, probes, streak
breakerVars == <<state, failures, halfOpenCalls, aged, guarded, probes, streak>>
Breaker == INSTANCE CircuitBreaker WITH call <- guarded, Calls <- GuardedCalls

CONSTANTS NumCalls, MaxConcurrency, MaxRetries, Budgeted
VARIABLES stage, hooked, blocked, ctx, round, launched, running, expired, slots,
          results, rounds, reported, answers, executed
batchVars == <<stage, hooked, blocked, ctx, round, launched, running, expired, slots,
               results, rounds, reported, answers, executed>>
Batch == INSTANCE ToolBatch WITH ToolRetries <- MaxRetries

CONSTANTS DefaultSteps, Interval, Barriers, Asks, MaxResumes
VARIABLES at, mode, hasSender, streaming, runCanceled, budget, step, msgs, work, attempt,
          final, stop, failed, usage, result, cp, events, resumes, open, ends, spent
runVars == <<at, mode, hasSender, streaming, runCanceled, budget, step, msgs, work, attempt,
             final, stop, failed, usage, result, cp, events, resumes, open, ends, spent>>
Run == INSTANCE AgentRun WITH sender <- hasSender, canceled <- runCanceled

CONSTANTS NumSources, NumValues, BatchSize, Kinds
VARIABLES kind, chan, phase, err, prod, sent, pump, hand, from, last, given, refused,
          got, ended, quit
streamVars == <<kind, chan, phase, err, prod, sent, pump, hand, from, last, given, refused,
                got, ended, quit>>
Stream == INSTANCE EventStream WITH canceled <- given, ChanCap <- 1

CONSTANTS Cases, NoState, NoBranch
VARIABLES case, choice, graphLoop, ctxDone, loopCanceled, remaining, condPending, condPassed,
          skipped, nodesRunning, nodeStates, exec, parts, resultCh, firstErr, finalState,
          starts, nodeFailures
graphVars == <<case, choice, graphLoop, ctxDone, loopCanceled, remaining, condPending,
               condPassed, skipped, nodesRunning, nodeStates, exec, parts, resultCh,
               firstErr, finalState, starts, nodeFailures>>
Graph == INSTANCE GraphEngine
           WITH loop <- graphLoop, canceled <- loopCanceled, running <- nodesRunning,
                failures <- nodeFailures

CONSTANTS Docs, MaxConcurrent, MaxTotalAgents, MaxItemsPerCall
VARIABLES outcome, callerDone, flowCanceled, fatalErr, free, waiters, worker, handed, done,
          agentsStarted, nulled
flowVars == <<outcome, callerDone, flowCanceled, fatalErr, free, waiters, worker, handed,
              done, agentsStarted, nulled>>
Flow == INSTANCE Workflow WITH runCanceled <- flowCanceled

VARIABLE part
workVars == <<jobVars, childVars, breakerVars, batchVars, runVars, streamVars>>
orderVars == <<graphVars, flowVars>>
allVars == <<workVars, orderVars, part>>

ProgressInit ==
  /\ part \in {"job", "child", "breaker", "batch", "run", "stream", "graph", "workflow"}
  /\ Job!Init /\ Child!Init /\ Breaker!Init /\ Batch!BatchInit /\ Run!Init /\ Stream!Init
  /\ Graph!Init /\ Flow!WorkflowInit
  /\ part # "stream" => kind = "map"

ProgressNext ==
  \/ /\ part = "job" /\ Job!Next
     /\ UNCHANGED <<childVars, breakerVars, batchVars, runVars, streamVars, orderVars, part>>
  \/ /\ part = "child" /\ Child!Next
     /\ UNCHANGED <<jobVars, breakerVars, batchVars, runVars, streamVars, orderVars, part>>
  \/ /\ part = "breaker" /\ Breaker!Next
     /\ UNCHANGED <<jobVars, childVars, batchVars, runVars, streamVars, orderVars, part>>
  \/ /\ part = "batch" /\ Batch!BatchNext
     /\ UNCHANGED <<jobVars, childVars, breakerVars, runVars, streamVars, orderVars, part>>
  \/ /\ part = "run" /\ Run!Next
     /\ UNCHANGED <<jobVars, childVars, breakerVars, batchVars, streamVars, orderVars, part>>
  \/ /\ part = "stream" /\ Stream!Next
     /\ UNCHANGED <<jobVars, childVars, breakerVars, batchVars, runVars, orderVars, part>>
  \/ part = "graph" /\ Graph!Next /\ UNCHANGED <<workVars, flowVars, part>>
  \/ part = "workflow" /\ Flow!WorkflowNext /\ UNCHANGED <<workVars, graphVars, part>>

(* Goroutines and calls in progress keep running; Run of a job returns once *)
(* it is cancelled, turns of a child and tools are finite, the application  *)
(* keeps calling the model and every call of it ends, producers of events   *)
(* finish and a consumer reads until it closes the stream.  (Actions that   *)
(* are enabled initially are fair in the behaviours of their part only.)    *)
BreakerFairness ==
  /\ WF_breakerVars(part = "breaker" /\ Breaker!Age)
  /\ WF_breakerVars(part = "breaker" /\ \E c \in GuardedCalls : Breaker!Admit(c, "calling"))
  /\ \A c \in GuardedCalls : WF_breakerVars(Breaker!Returns(c))
BatchFairness ==
  /\ WF_batchVars(part = "batch" /\ Batch!Caller)
  /\ \A k \in 1..NumCalls : WF_batchVars(Batch!ToolEnds(k))
StreamFairness ==
  /\ \A s \in 1..NumSources : /\ WF_streamVars(part = "stream" /\ Stream!Producer(s))
                              /\ WF_streamVars(Stream!Pump(s))
  /\ \A i \in 0..NumSources : WF_streamVars(Stream!CloseStep(i))
  /\ WF_streamVars(part = "stream" /\ Stream!ConsumerReads)

ProgressSpec ==
  /\ ProgressInit /\ [][ProgressNext]_allVars
  /\ Job!Fairness /\ Child!FiniteTurns /\ Run!Fairness
  /\ BreakerFairness /\ BatchFairness /\ StreamFairness
  /\ Graph!LoopLeaves /\ Flow!WorkflowFairness

-----------------------------------------------------------------------------
(* Workers: a cancel that Kill or Teardown collected ends the job's        *)
(* goroutine, Dispose ends a session's loop, an accepted follow-up gets    *)
(* its turn unless the session settles first, and no state of the breaker  *)
(* refuses calls for ever.                                                 *)
WorkersGoOn == /\ Job!CollectedCancelSettles
               /\ Child!DisposeSettles /\ Child!FollowUpServed
               /\ Breaker!NeverRefusesForever
(* Runs: a run that is started and not killed comes to an end, a batch     *)
(* returns once its tools do, a consumer that reads on gets to the end of  *)
(* its stream, and a Close releases a transform blocked on a full channel. *)
RunsEnd == /\ Run!RunEnds
           /\ part = "batch" ~> Batch!Returned
           /\ part = "stream" ~> Stream!ConsumerSeesEnd
           /\ Stream!CloseReleasesSend

(* A graph whose caller gives up ends, although its nodes may never        *)
(* answer; a workflow ends once its children do.                           *)
OrchestrationEnds == Graph!CancelEndsTheGraph /\ Flow!WorkflowEnds

-----------------------------------------------------------------------------
CONSTANTS j1, alice, s1, d1, c1, c2, c3
OneEntry == {j1}
OneOwner == {alice}
OneSession == {s1}
OneDisposer == {d1}
ThreeCalls == {c1, c2, c3}
NoneOf == {}
CapChanges == {2}
AskSizes == {0, 1}
OneEach == <<1, 1>>
BudgetedCalls == {2}
Edge(m, n) == [from |-> m, to |-> n, label |-> ""]
FailingDiamond ==
  [kind |-> <<"transform", "parallel", "agent", "agent">>,
   edges |-> <<Edge(1, 2), Edge(1, 3), Edge(2, 4), Edge(3, 4)>>]
OneGraph == {[graph |-> FailingDiamond, retries |-> 1, faults |-> TRUE]}
TwoDocs == <<[items |-> 2, stages |-> 1], [items |-> 1, stages |-> 2]>>
SequentialKinds == {"map", "mapErr", "filter", "concat", "buffer"}
=============================================================================
