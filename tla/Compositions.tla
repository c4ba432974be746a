------------------------------ MODULE Compositions ------------------------------
(***************************************************************************)
(* One agent made of several (core/orchestrate): Parallel runs them at the *)
(* same time and merges their results, Chain and Pipe run one after the    *)
(* other, SpawnAndWait starts a goroutine for each.                        *)
(*                                                                         *)
(* A conversation is what it adds up to: the agents whose system prompts   *)
(* are in it, and its talk, both in order; 0 is the caller.                *)
(***************************************************************************)
EXTENDS Naturals, Sequences, FiniteSets, SequencesExt

CONSTANTS NumAgents,
          Forms,       \* of {"parallel", "spawn", "chain", "pipe", "transform"}
          Limits       \* values of WithMaxConcurrency
Agents == 1..NumAgents

VARIABLES
  form, limit,
  phase,      \* running, returned; panicked: to the caller; crashed: the process
  at,         \* an agent's goroutine: waiting, running, reporting, leaving, over
  did,        \* how an agent's Run ended (history)
  given,      \* the conversation an agent was given (history)
  input,      \* Chain and Pipe: currentInput
  resultCh,   \* the agents whose results are in the channel
  results,    \* Parallel: results, by agent
  order,      \* SpawnAndWait: the agents in the order of its results
  answer      \* the result of the whole
compositionVars == <<form, limit, phase, at, did, given, input, resultCh, results, order, answer>>

Ends == {"answers", "fails", "nil", "panics"}
Nothing == [err |-> 0, prompts |-> <<>>, talk |-> <<>>, said |-> <<>>, usage |-> 0]
Asked == [system |-> TRUE, prompts |-> <<>>, talk |-> <<0>>]

CompositionInit ==
  /\ form \in Forms /\ limit \in Limits
  /\ phase = "running"
  /\ at = [i \in Agents |-> "waiting"]
  /\ did = [i \in Agents |-> "none"]
  /\ given = [i \in Agents |-> Asked]
  /\ input = Asked
  /\ resultCh = <<>>
  /\ results = [i \in Agents |-> "nil"]
  /\ order = <<>>
  /\ answer = Nothing

-----------------------------------------------------------------------------
(* What an agent's Run makes of its input: its own prompt and the input's  *)
(* go before those the conversation has already (buildMessages), all of    *)
(* them become one (collapseSystem); a failed run, too, returns the        *)
(* conversation so far.                                                    *)
buildMessages(i, in) == <<<<i>>, IF in.system THEN <<0>> ELSE <<>>, in.prompts>>
collapseSystem(parts) == parts[1] \o parts[2] \o parts[3]
Result(i, in, o) ==
  [err |-> IF o = "fails" THEN i ELSE 0,
   prompts |-> collapseSystem(buildMessages(i, in)),
   talk |-> IF o = "answers" THEN Append(in.talk, i) ELSE in.talk,
   said |-> IF o = "answers" THEN <<i>> ELSE <<>>,
   usage |-> 1]

(* mergeResults goes through the agents in their order, whatever the order *)
(* in which they ended, and passes over those without a result; a panic    *)
(* is an error without a conversation.                                     *)
ResultOf(i) ==
  IF results[i] = "panics" THEN [Nothing EXCEPT !.err = i] ELSE Result(i, Asked, results[i])
LastError(err, new) == IF new = 0 THEN err ELSE new
FirstError(err, new) == IF err = 0 THEN new ELSE err
Merged(all, r) ==
  [err |-> FirstError(all.err, r.err), prompts |-> all.prompts \o r.prompts,
   talk |-> all.talk \o r.talk, said |-> all.said \o r.said, usage |-> all.usage + r.usage]
mergeResults ==
  LET upTo[i \in 0..NumAgents] ==
        IF i = 0 THEN Nothing
        ELSE IF results[i] = "nil" THEN upTo[i - 1] ELSE Merged(upTo[i - 1], ResultOf(i))
  IN upTo[NumAgents]

-----------------------------------------------------------------------------
(* Parallel.Run starts its agents in order, each when there is a slot of   *)
(* the semaphore; SpawnAndWait starts them all, in the order of a map.     *)
Busy == {i \in Agents : at[i] \in {"running", "reporting", "leaving"}}
AnySlots == NumAgents
Slots == IF limit \in Agents THEN limit ELSE NumAgents
OnePlace == 1
Buffer == NumAgents
Together == form \in {"parallel", "spawn"}
Launched == \A i \in Agents : at[i] # "waiting"

Launch(i) ==
  /\ Together /\ phase = "running" /\ at[i] = "waiting"
  /\ form = "parallel" => /\ \A j \in 1..(i - 1) : at[j] # "waiting"
                          /\ Cardinality(Busy) < Slots
  /\ at' = [at EXCEPT ![i] = "running"]
  /\ UNCHANGED <<form, limit, phase, did, given, input, resultCh, results, order, answer>>

(* Run returns or panics.  Parallel recovers the panic and keeps it as the *)
(* agent's result; Spawn recovers nothing, and takes a nil result's Err.   *)
RunEnds(i, o) ==
  /\ Together /\ phase = "running" /\ at[i] = "running"
  /\ did' = [did EXCEPT ![i] = o]
  /\ \/ /\ form = "parallel" /\ o = "panics"
        /\ results' = [results EXCEPT ![i] = o]
        /\ at' = [at EXCEPT ![i] = "leaving"] /\ UNCHANGED phase
     \/ /\ (form = "parallel" /\ o = "nil") \/ o \in {"answers", "fails"}
        /\ at' = [at EXCEPT ![i] = "reporting"] /\ UNCHANGED <<results, phase>>
     \/ /\ form = "spawn" /\ o \in {"nil", "panics"}
        /\ phase' = "crashed" /\ UNCHANGED <<results, at>>
  /\ UNCHANGED <<form, limit, given, input, resultCh, order, answer>>

(* The result goes into the channel; then the slot is given back and the   *)
(* wait group told.                                                        *)
Report(i) ==
  /\ phase = "running" /\ at[i] = "reporting"
  /\ Len(resultCh) < Buffer
  /\ resultCh' = Append(resultCh, i)
  /\ at' = [at EXCEPT ![i] = "leaving"]
  /\ UNCHANGED <<form, limit, phase, did, given, input, results, order, answer>>
LeaveGroup(i) ==
  /\ phase = "running" /\ at[i] = "leaving"
  /\ at' = [at EXCEPT ![i] = "over"]
  /\ UNCHANGED <<form, limit, phase, did, given, input, resultCh, results, order, answer>>

(* Once all have been started the caller takes the results as they come,   *)
(* until the channel is closed and empty.                                  *)
Collect ==
  /\ Together /\ phase = "running" /\ Launched /\ resultCh # <<>>
  /\ resultCh' = Tail(resultCh)
  /\ order' = Append(order, Head(resultCh))
  /\ results' = [results EXCEPT ![Head(resultCh)] = did[Head(resultCh)]]
  /\ UNCHANGED <<form, limit, phase, at, did, given, input, answer>>
AllOver == \A i \in Agents : at[i] = "over"
ReturnMerged ==
  /\ Together /\ phase = "running" /\ AllOver /\ resultCh = <<>>
  /\ answer' = IF form = "parallel" THEN mergeResults ELSE answer
  /\ phase' = "returned"
  /\ UNCHANGED <<form, limit, at, did, given, input, resultCh, results, order>>

-----------------------------------------------------------------------------
(* What Chain and Pipe hand to the next agent: the result's conversation   *)
(* and the prompt of the first input, or what the transform makes of it    *)
(* (here: the last answer alone).                                          *)
HandsQuestion(r) == [system |-> input.system, prompts |-> r.prompts, talk |-> input.talk]
Handed(r) ==
  IF form = "transform" THEN [system |-> FALSE, prompts |-> <<>>, talk |-> r.said]
  ELSE [system |-> input.system, prompts |-> r.prompts, talk |-> r.talk]

(* One turn of the loop; a nil result is dereferenced.                     *)
RunNext(i, o) ==
  /\ ~Together /\ phase = "running" /\ at[i] = "waiting"
  /\ \A j \in 1..(i - 1) : at[j] = "over"
  /\ LET r == Result(i, input, o) IN
     /\ at' = [at EXCEPT ![i] = "over"]
     /\ did' = [did EXCEPT ![i] = o]
     /\ given' = [given EXCEPT ![i] = input]
     /\ \/ o \in {"nil", "panics"} /\ phase' = "panicked" /\ UNCHANGED <<input, answer>>
        \/ o = "fails" /\ phase' = "returned" /\ answer' = r /\ UNCHANGED input
        \/ /\ o = "answers"
           /\ answer' = r /\ input' = Handed(r)
           /\ phase' = IF i = NumAgents THEN "returned" ELSE "running"
  /\ UNCHANGED <<form, limit, resultCh, results, order>>

CompositionNext ==
  \/ \E i \in Agents : Launch(i) \/ Report(i) \/ LeaveGroup(i)
  \/ \E i \in Agents, o \in Ends : RunEnds(i, o) \/ RunNext(i, o)
  \/ Collect
  \/ ReturnMerged

CompositionSpec == CompositionInit /\ [][CompositionNext]_compositionVars

-----------------------------------------------------------------------------
CompositionTypeOK ==
  /\ form \in Forms /\ limit \in Limits
  /\ phase \in {"running", "returned", "panicked", "crashed"}
  /\ at \in [Agents -> {"waiting", "running", "reporting", "leaving", "over"}]
  /\ did \in [Agents -> Ends \cup {"none"}] /\ results \in [Agents -> Ends]
  /\ {order, resultCh} \subseteq Seq(Agents)

(* When Parallel returns, every agent has run once, no more of them at a   *)
(* time than the limit allows; its result holds what each of them said, in *)
(* the agents' order and not in that of their ends, and the first error in *)
(* that order, a panic included (parallelAgent.Run, mergeResults).         *)
Failing == {i \in Agents : did[i] \in {"fails", "panics"}}
Rising(s) == \A p, q \in DOMAIN s : p < q => s[p] < s[q]
ParallelIsWhole ==
  form = "parallel" =>
    /\ Cardinality(Busy) <= (IF limit \in Agents THEN limit ELSE NumAgents)
    /\ phase = "returned" =>
         /\ \A i \in Agents : at[i] = "over" /\ did[i] # "none"
         /\ ToSet(answer.said) = {i \in Agents : did[i] = "answers"} /\ Rising(answer.said)
         /\ answer.usage = Cardinality({i \in Agents : did[i] \in {"answers", "fails"}})
         /\ IF Failing = {} THEN answer.err = 0
            ELSE answer.err \in Failing /\ \A i \in Failing : answer.err <= i

(* The caller who waits for agents is never left waiting for a goroutine   *)
(* that waits for it: as long as it runs somebody can go on, and           *)
(* SpawnAndWait has one result of each agent.                              *)
NobodyIsStuck ==
  Together /\ phase = "running" =>
    \/ \E i \in Busy : at[i] = "reporting" => Len(resultCh) < Buffer
    \/ ~Launched /\ Cardinality(Busy) < Slots
    \/ Launched /\ resultCh # <<>>
    \/ AllOver
SpawnIsWhole ==
  form = "spawn" /\ phase = "returned" => ToSet(order) = Agents /\ Len(order) = NumAgents

(* An agent of a chain runs only when all before it have answered, and     *)
(* hears the question and all their answers in order, under the prompts of *)
(* all of them besides its own and the caller's; through a transform       *)
(* it hears what the transform kept; the answer is that of the last one    *)
(* that ran (chainAgent.Run, pipeAgent.Run).                               *)
ChainIsSequential ==
  ~Together => \A i \in Agents : at[i] = "over" =>
    /\ \A j \in 1..(i - 1) : did[j] = "answers"
    /\ form # "transform" /\ i > 1 => ToSet(given[i].prompts) = 0..(i - 1)
    /\ given[i].talk = IF form = "transform" /\ i > 1 THEN <<i - 1>> ELSE [j \in 1..i |-> j - 1]
    /\ phase = "returned" /\ (\A j \in Agents : j > i => at[j] = "waiting") =>
         answer = Result(i, given[i], did[i])

CompositionsAreSound == ParallelIsWhole /\ NobodyIsStuck /\ SpawnIsWhole /\ ChainIsSequential

-----------------------------------------------------------------------------
(* Not what the code does.  spawn.go:41: results in the same order as the  *)
(* input map; they come in the order in which the agents end.              *)
SpawnKeepsOrder == form = "spawn" => Rising(order)

(* Not what the code does: a panicking or a nil agent under Spawn is one   *)
(* result among others, as it is under Parallel (orchestrate.go:131).      *)
SpawnContainsPanics == phase # "crashed"
=============================================================================
