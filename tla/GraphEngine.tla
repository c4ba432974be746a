---- MODULE GraphEngine ----
(* The DAG engine of graph/graph.go: Compile, Run, the scheduler with its   *)
(* readiness counters, the goroutine of every node with its retries, the    *)
(* agents of a parallel node, branch routing and the state each node hands  *)
(* to its successors (GraphState of graph/state.go, with Fork and           *)
(* MergeFrom).                                                              *)
(*                                                                          *)
(* A graph is a record: kind and edges. Edges are a sequence in the order   *)
(* AddLabeledEdge was called, which is the order of outEdges and inEdges;   *)
(* nodes are numbered 1..N. The run loop is one goroutine, so handling one  *)
(* result with everything complete and tryStart do is one action.           *)
EXTENDS Integers, Sequences, FiniteSets, SequencesExt

CONSTANTS
  Cases,        \* [graph, retries, faults]: a graph, the maxRetries of its
                \* nodes and whether its nodes may fail
  NoState,      \* the nil *GraphState
  NoBranch      \* the "branch" key is absent

VARIABLES
  case,         \* the graph being run
  choice,       \* what each condition function or resume signal will choose
  loop,         \* runLoop: "built", "rejected", "looping", "returned"
  ctxDone,      \* the caller's context has ended
  canceled,     \* s.cancel was called
  remaining, condPending, condPassed, skipped, running,  \* graphScheduler
  nodeStates,   \* nodeStates: the state of each completed node
  exec,         \* the goroutine of each node
  parts,        \* the agents of a parallel node that have answered
  resultCh,     \* results sent and not yet received
  firstErr, finalState,
  starts,       \* history: how many goroutines were started for a node
  failures      \* history: nodes whose result carried an error

scheduler == <<remaining, condPending, condPassed, skipped, running>>
returned == <<firstErr, finalState>>
vars == <<case, choice, loop, ctxDone, canceled, scheduler, nodeStates, exec,
          parts, resultCh, returned, starts, failures>>

graph == case.graph
Nodes == 1..Len(graph.kind)
Kind(n) == graph.kind[n]
Out(n) == SelectSeq(graph.edges, LAMBDA e: e.from = n)
In(n) == SelectSeq(graph.edges, LAMBDA e: e.to = n)
Labels(n) == {Out(n)[i].label : i \in DOMAIN Out(n)}
FromCondition(e) == Kind(e.from) = "condition"

\* hasLabeledOut and the condition kind: the node routes by its branch label.
Routes(n) == Kind(n) = "condition" \/ Labels(n) \ {""} # {}

Agents == {1, 2}
----------------------------------------------------------------------------
(* GraphState, as far as routing and joining tell states apart: who wrote   *)
(* "output", who wrote "outputs", the branch label, and the keys transforms *)
(* have set (one per node).                                                 *)
EmptyState == [output |-> 0, outputs |-> 0, branch |-> NoBranch, keys |-> {}]

\* MergeFrom: only keys that do not exist yet are taken over.
MergeFrom(own, other) ==
  [output  |-> IF own.output # 0 THEN own.output ELSE other.output,
   outputs |-> IF own.outputs # 0 THEN own.outputs ELSE other.outputs,
   branch  |-> IF own.branch # NoBranch THEN own.branch ELSE other.branch,
   keys    |-> own.keys \union other.keys]

\* What a node that succeeds writes (runAgentNode, runChainNode,
\* runParallelNode, runConditionNode, a transform, an interrupt).
Written(n, st) ==
  CASE Kind(n) = "agent"     -> [st EXCEPT !.output = n]
    [] Kind(n) = "parallel"  -> [st EXCEPT !.output = n, !.outputs = n]
    [] Kind(n) = "condition" -> [st EXCEPT !.output = n, !.branch = choice[n]]
    [] Kind(n) = "transform" -> [st EXCEPT !.keys = @ \union {n}]
    [] Kind(n) = "interrupt" -> [st EXCEPT !.branch = choice[n]]

\* collectPredecessorState: the only predecessor's state, or the merge of
\* those of the predecessors that have one, in the order of the edges.
Collected(preds, states) ==
  LET present == SelectSeq(preds, LAMBDA e: states[e.from] # NoState)
      ofEdge == [i \in DOMAIN present |-> states[present[i].from]]
  IN IF ofEdge = <<>> THEN NoState
     ELSE FoldLeft(MergeFrom, Head(ofEdge), Tail(ofEdge))
----------------------------------------------------------------------------
(* topoSort: Kahn's algorithm. The frontier is taken as a whole; Go takes   *)
(* one node of it at a time, in an order its map iteration picks.           *)
KahnStep(done) ==
  done \union {n \in Nodes : \A i \in DOMAIN In(n) : In(n)[i].from \in done}
Frontiers == FoldLeft(LAMBDA sets, n: Append(sets, KahnStep(Last(sets))), <<{}>>,
                      [n \in Nodes |-> n])
Compiles == Nodes # {} /\ Last(Frontiers) = Nodes

Idle == [pc |-> "idle", attempt |-> 0, state |-> EmptyState]
Started(parent) == [pc |-> "running", attempt |-> 0,
                    state |-> IF parent = NoState THEN EmptyState ELSE parent]

\* The label a condition function may return includes one no edge carries; a
\* resume signal is any label of the node's edges.
MayChoose(n) == IF Kind(n) = "condition" THEN Labels(n) \union {"none"}
              ELSE IF Kind(n) = "interrupt" THEN Labels(n) ELSE {""}

Init ==
  /\ case \in Cases
  /\ choice \in [Nodes -> UNION {MayChoose(n) : n \in Nodes}]
  /\ \A n \in Nodes : choice[n] \in MayChoose(n)
  /\ loop = "built" /\ ctxDone = FALSE /\ canceled = FALSE
  /\ remaining = [n \in Nodes |-> 0]
  /\ condPending = [n \in Nodes |-> 0]
  /\ condPassed = [n \in Nodes |-> 0]
  /\ skipped = {} /\ running = 0
  /\ nodeStates = [n \in Nodes |-> NoState]
  /\ exec = [n \in Nodes |-> Idle]
  /\ parts = [n \in Nodes |-> {}]
  /\ resultCh = <<>>
  /\ firstErr = "" /\ finalState = NoState
  /\ starts = [n \in Nodes |-> 0] /\ failures = {}

\* Compile of a graph with a cycle fails; there is nothing to run.
Reject ==
  /\ loop = "built" /\ ~Compiles
  /\ loop' = "rejected"
  /\ UNCHANGED <<case, choice, ctxDone, canceled, scheduler, nodeStates, exec,
                 parts, resultCh, returned, starts, failures>>

CondIn(n) == Cardinality({i \in DOMAIN In(n) : FromCondition(In(n)[i])})

\* newScheduler and startEntries: every entry node starts from the input.
StartEntries ==
  /\ loop = "built" /\ Compiles
  /\ loop' = "looping"
  /\ condPending' = [n \in Nodes |-> CondIn(n)]
  /\ remaining' = [n \in Nodes |-> Len(In(n)) - CondIn(n)]
  /\ LET entries == {n \in Nodes : In(n) = <<>>}
     IN /\ exec' = [n \in Nodes |->
                      IF n \in entries THEN Started(EmptyState) ELSE Idle]
        /\ nodeStates' = [n \in Nodes |->
                            IF n \in entries THEN EmptyState ELSE NoState]
        /\ starts' = [n \in Nodes |-> IF n \in entries THEN 1 ELSE 0]
        /\ running' = Cardinality(entries)
  /\ UNCHANGED <<case, choice, ctxDone, canceled, condPassed, skipped, parts,
                 resultCh, returned, failures>>
----------------------------------------------------------------------------
(* The goroutine of a node: executeNode. It sends exactly one result.       *)
Stopped == ctxDone \/ canceled          \* s.ctx is done

Send(n, error) ==
  /\ exec' = [exec EXCEPT ![n].pc = "sent"]
  /\ resultCh' = Append(resultCh, [id |-> n, err |-> error,
                   state |-> IF error = "" THEN Written(n, exec[n].state)
                             ELSE exec[n].state])
  /\ failures' = IF error = "" THEN failures ELSE failures \union {n}

Executing(n) == exec[n].pc = "running"

\* A condition's label must be the label of one of its edges; a parallel node
\* has all its agents' answers.
MaySucceed(n) ==
  /\ Kind(n) = "condition" => choice[n] \in Labels(n)
  /\ Kind(n) = "parallel" => parts[n] = Agents

NodeSucceeds(n) ==
  /\ Executing(n) /\ MaySucceed(n)
  /\ Send(n, "")
  /\ UNCHANGED <<case, choice, loop, ctxDone, canceled, scheduler, nodeStates,
                 parts, returned, starts>>

\* One agent of a parallel node answers; the node has failed as soon as one
\* of them fails, whatever the others still do.
AgentAnswers(n, a) ==
  /\ Executing(n) /\ Kind(n) = "parallel" /\ a \notin parts[n]
  /\ parts' = [parts EXCEPT ![n] = @ \union {a}]
  /\ UNCHANGED <<case, choice, loop, ctxDone, canceled, scheduler, nodeStates,
                 exec, resultCh, returned, starts, failures>>

Fails(n) == case.faults \/ Stopped
              \/ (Kind(n) = "condition" /\ choice[n] \notin Labels(n))

\* A failure no retry is due for: not retryable, or the last attempt.
NodeFails(n) ==
  /\ Executing(n) /\ Fails(n)
  /\ Send(n, "node")
  /\ UNCHANGED <<case, choice, loop, ctxDone, canceled, scheduler, nodeStates,
                 parts, returned, starts>>

MoreAttempts(n) == exec[n].attempt < case.retries

NodeFailsRetryable(n) ==
  /\ Executing(n) /\ case.faults /\ MoreAttempts(n)
  /\ exec' = [exec EXCEPT ![n].pc = "delaying", ![n].attempt = @ + 1]
  /\ parts' = [parts EXCEPT ![n] = {}]
  /\ UNCHANGED <<case, choice, loop, ctxDone, canceled, scheduler, nodeStates,
                 resultCh, returned, starts, failures>>

DelayOver(n) ==
  /\ exec[n].pc = "delaying"
  /\ exec' = [exec EXCEPT ![n].pc = "running"]
  /\ UNCHANGED <<case, choice, loop, ctxDone, canceled, scheduler, nodeStates,
                 parts, resultCh, returned, starts, failures>>

DelayCanceledGoesOn(n) ==
  /\ exec[n].pc = "delaying" /\ (Stopped \/ case.faults)
  /\ exec' = [exec EXCEPT ![n].pc = "running"]
  /\ resultCh' = Append(resultCh, [id |-> n, err |-> "ctx", state |-> exec[n].state])
  /\ UNCHANGED <<case, choice, loop, ctxDone, canceled, scheduler, nodeStates,
                 parts, returned, starts, failures>>
\* The context, or the node's own timeout, ends while it waits for its next
\* attempt.
DelayCanceled(n) ==
  /\ exec[n].pc = "delaying" /\ (Stopped \/ case.faults)
  /\ Send(n, "ctx")
  /\ UNCHANGED <<case, choice, loop, ctxDone, canceled, scheduler, nodeStates,
                 parts, returned, starts>>
----------------------------------------------------------------------------
(* complete, tryStart and skip. A cascade of skips runs down the edges, so  *)
(* it is a fold over the nodes in topological order: sc holds the counters, *)
(* the nodes skipped and started so far, and the nodes an edge of which has *)
(* just been resolved.                                                      *)
Resolve(sc, e, conditional, chosen) ==
  [sc EXCEPT
     !.remaining[e.to] = IF conditional THEN @ ELSE @ - 1,
     !.condPending[e.to] = IF conditional THEN @ - 1 ELSE @,
     !.condPassed[e.to] = IF conditional /\ e.label = chosen THEN @ + 1 ELSE @,
     !.touched = @ \union {e.to}]

ResolveOut(sc, n, conditional, chosen) ==
  FoldLeft(LAMBDA s, e: Resolve(s, e, conditional, chosen), sc, Out(n))

ReadyEarly(sc, n) == sc.remaining[n] <= 0
Ready(sc, n) == sc.remaining[n] <= 0 /\ sc.condPending[n] <= 0

\* Every predecessor was a condition and none chose this node.
Unreached(sc, n) ==
  sc.condPassed[n] = 0 /\ Len(In(n)) = CondIn(n) /\ In(n) # <<>>

SkipNothing(sc, n) == [sc EXCEPT !.skipped = @ \union {n}]
\* The out-edges of a skipped condition count as unchosen: no label is "".
Skip(sc, n) ==
  ResolveOut([sc EXCEPT !.skipped = @ \union {n}], n, Kind(n) = "condition",
             "no edge has this label")

TryStart(sc, n) ==
  IF n \notin sc.touched \/ n \in sc.skipped \/ ~Ready(sc, n) THEN sc
  ELSE IF Unreached(sc, n) THEN Skip(sc, n)
  ELSE [sc EXCEPT !.started = @ \union {n}]

\* A topological order of the compiled graph: nodes with fewer ancestors first.
TopoOrder ==
  LET done == Frontiers
  IN FoldLeft(LAMBDA q, k: q \o SetToSeq(done[k + 1] \ done[k]), <<>>, [n \in Nodes |-> n])

Completed(n, states) ==
  LET now == [remaining |-> remaining, condPending |-> condPending,
              condPassed |-> condPassed, skipped |-> skipped,
              started |-> {}, touched |-> {}]
      resolved == ResolveOut(now, n, Routes(n), states[n].branch)
  IN FoldLeft(TryStart, resolved, TopoOrder)

Complete(n, states) ==
  \E sc \in {Completed(n, states)} :
     /\ remaining' = sc.remaining
     /\ condPending' = sc.condPending
     /\ condPassed' = sc.condPassed
     /\ skipped' = sc.skipped
     /\ running' = running - 1 + Cardinality(sc.started)
     /\ exec' = [m \in Nodes |-> IF m \in sc.started
                                 THEN Started(Collected(In(m), states))
                                 ELSE exec[m]]
     /\ starts' = [m \in Nodes |-> starts[m] + IF m \in sc.started THEN 1 ELSE 0]
----------------------------------------------------------------------------
(* runLoop. *)
Looping == loop = "looping" /\ running > 0

ResultSucceeds ==
  /\ Looping /\ resultCh # <<>> /\ Head(resultCh).err = ""
  /\ LET res == Head(resultCh)
         states == [nodeStates EXCEPT ![res.id] = res.state]
     IN /\ nodeStates' = states
        /\ finalState' = res.state
        /\ Complete(res.id, states)
  /\ resultCh' = Tail(resultCh)
  /\ UNCHANGED <<case, choice, loop, ctxDone, canceled, parts, firstErr,
                 failures>>

\* drainResults: what is available now, without waiting for more. q is what
\* is left of the channel, counted off against running.
Drain(q, err, live) ==
  LET k == IF Len(q) < live THEN Len(q) ELSE live
      taken == SubSeq(q, 1, k)
      bad == SelectSeq(taken, LAMBDA r: r.err # "")
  IN /\ running' = live - k
     /\ firstErr' = IF err # "" THEN err
                    ELSE IF bad # <<>> THEN Head(bad).err ELSE ""
     /\ finalState' = IF finalState # NoState \/ k = 0 THEN finalState
                      ELSE Head(taken).state
     /\ resultCh' = SubSeq(q, k + 1, Len(q))

ResultFails ==
  /\ Looping /\ resultCh # <<>> /\ Head(resultCh).err # ""
  /\ Drain(Tail(resultCh), Head(resultCh).err, running - 1)
  /\ canceled' = TRUE
  /\ loop' = "returned"
  /\ UNCHANGED <<case, choice, ctxDone, remaining, condPending, condPassed,
                 skipped, nodeStates, exec, parts, starts, failures>>

SeeDoneWaits ==
  /\ Looping /\ Stopped /\ Len(resultCh) >= running
  /\ Drain(resultCh, "ctx", running)
  /\ loop' = "returned"
  /\ UNCHANGED <<case, choice, ctxDone, canceled, remaining, condPending,
                 condPassed, skipped, nodeStates, exec, parts, starts, failures>>
\* The context ended: a drained error is reported before ctx.Err().
SeeDone ==
  /\ Looping /\ Stopped
  /\ LET bad == SelectSeq(resultCh, LAMBDA r: r.err # "")
     IN Drain(resultCh, IF bad # <<>> THEN Head(bad).err ELSE "ctx", running)
  /\ loop' = "returned"
  /\ UNCHANGED <<case, choice, ctxDone, canceled, remaining, condPending,
                 condPassed, skipped, nodeStates, exec, parts, starts, failures>>

\* Nothing runs any more: the result channel is closed and Run returns.
LoopEnds ==
  /\ loop = "looping" /\ running <= 0
  /\ loop' = "returned"
  /\ UNCHANGED <<case, choice, ctxDone, canceled, scheduler, nodeStates, exec,
                 parts, resultCh, returned, starts, failures>>

Cancel ==
  /\ loop = "looping" /\ case.faults /\ ~ctxDone
  /\ ctxDone' = TRUE
  /\ UNCHANGED <<case, choice, loop, canceled, scheduler, nodeStates, exec,
                 parts, resultCh, returned, starts, failures>>

Node(n) ==
  \/ NodeSucceeds(n) \/ NodeFails(n) \/ NodeFailsRetryable(n)
  \/ DelayOver(n) \/ DelayCanceled(n)
  \/ \E a \in Agents : AgentAnswers(n, a)

RunLoop ==
  Reject \/ StartEntries \/ ResultSucceeds \/ ResultFails \/ SeeDone \/ LoopEnds

Next == RunLoop \/ (\E n \in Nodes : Node(n)) \/ Cancel

Spec == Init /\ [][Next]_vars
----------------------------------------------------------------------------
(* What a run must come to, as the comment of graphScheduler states the     *)
(* rule: a node runs when all its predecessors are resolved and one of them *)
(* chose it or it has one that is not a condition.                          *)
Wanted(n, ran) ==
  \/ In(n) = <<>>
  \/ \E i \in DOMAIN In(n) : ~FromCondition(In(n)[i])
  \/ \E i \in DOMAIN In(n) :
       /\ ran[In(n)[i].from] # NoState
       /\ choice[In(n)[i].from] = In(n)[i].label

Reference ==
  LET state[n \in Nodes] ==
        LET before == [m \in {In(n)[i].from : i \in DOMAIN In(n)} |-> state[m]]
            given == Collected(In(n), before)
        IN IF ~Wanted(n, before) THEN NoState
           ELSE Written(n, IF given = NoState THEN EmptyState ELSE given)
  IN state

Returned == loop = "returned"
Edge(m, n) == \E i \in DOMAIN In(n) : In(n)[i].from = m
OnCycle(n) ==
  \E p \in UNION {[1..k -> Nodes] : k \in 1..Cardinality(Nodes)} :
    p[1] = n /\ Edge(p[Len(p)], n) /\ \A i \in 1..Len(p) - 1 : Edge(p[i], p[i + 1])

(* One type invariant.                                                      *)
TypeOK ==
  /\ loop \in {"built", "rejected", "looping", "returned"}
  /\ ctxDone \in BOOLEAN /\ canceled \in BOOLEAN
  /\ running \in 0..Cardinality(Nodes)
  /\ skipped \subseteq Nodes /\ failures \subseteq Nodes
  /\ \A n \in Nodes :
       /\ exec[n].pc \in {"idle", "running", "delaying", "sent"}
       /\ exec[n].attempt \in 0..case.retries
       /\ condPending[n] \in 0..Len(In(n))
       /\ remaining[n] \in 0..Len(In(n)) /\ condPassed[n] \in 0..Len(In(n))
       /\ starts[n] \in 0..1

(* Whatever order the nodes finish in, a run that ends well has run exactly *)
(* the nodes the branch rule selects, each once, and each left the state a  *)
(* sequential run of the graph would have left it. It ends badly only if a  *)
(* node failed or the caller gave up, and a graph is refused just when it   *)
(* has a cycle.                                                             *)
GatingRule ==
  /\ Returned /\ firstErr = "" =>
       /\ nodeStates = Reference
       /\ \A n \in Nodes : starts[n] = IF Reference[n] = NoState THEN 0 ELSE 1
       /\ \E n \in Nodes : finalState = Reference[n]
  /\ Returned /\ firstErr = "" => failures = {}
  /\ Returned /\ firstErr # "" => failures # {} \/ ctxDone
  /\ Returned => ~\E n \in Nodes : OnCycle(n)
  /\ loop = "rejected" => \E n \in Nodes : OnCycle(n)

(* running counts the goroutines that still owe the loop a result, so the   *)
(* loop neither returns while a node works nor waits for a result that      *)
(* nobody will send, and the buffer takes every result.                     *)
RunningIsExact ==
  loop = "looping" =>
    /\ running = Cardinality({n \in Nodes : exec[n].pc \in {"running", "delaying"}})
                   + Len(resultCh)
    /\ Len(resultCh) <= Cardinality(Nodes)

(* tryStart: "A node reachable only through unchosen condition branches is  *)
(* skipped (cascade)". A node runs only if a predecessor ran and, when that *)
(* is a condition, chose it.                                                *)
UnchosenNeverRuns ==
  \A n \in Nodes : starts[n] > 0 /\ In(n) # <<>> =>
    \E i \in DOMAIN In(n) :
      /\ starts[In(n)[i].from] > 0
      /\ FromCondition(In(n)[i]) => choice[In(n)[i].from] = In(n)[i].label

(* The resume signal of an interrupt node is the label of the edge the      *)
(* scheduler takes: its target runs before the graph ends well.             *)
ResumeSignalIsFollowed ==
  Returned /\ firstErr = "" =>
    \A n \in Nodes : Kind(n) = "interrupt" /\ starts[n] > 0 =>
      \A i \in DOMAIN Out(n) : Out(n)[i].label = choice[n] => starts[Out(n)[i].to] > 0

(* A caller that gives up ends the run although nodes may never answer: the *)
(* loop does not wait for them once its context is done.                    *)
CancelEndsTheGraph == (loop = "looping" /\ ctxDone) ~> Returned

\* Go's select takes one of the ready cases: a loop whose context is done
\* cannot choose results for ever, there are finitely many.
LoopLeaves == WF_vars(ResultFails \/ SeeDone \/ LoopEnds)
FairSpec == Spec /\ LoopLeaves
====
