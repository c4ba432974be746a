-------------------------------- MODULE AgentRun --------------------------------
(***************************************************************************)
(* One agent run from the Runner's entry points to the loop and back:      *)
(* Runner.Run, Stream and Resume (core/runner/runner.go), agent.Run        *)
(* (agents/agent.go), the step loop (engine/steploop.go), RunStep and      *)
(* CallModel (core/runtime/runtime.go), with the checkpoint autosave       *)
(* module (module/checkpoint/autosave.go) on its hooks.  The process may   *)
(* die at any point and be resumed from the checkpoint.                    *)
(*                                                                         *)
(*   idle -> agentStart -> built -> loop -> stepStart -> modelHook         *)
(*        -> model (-> delay -> model)* (-> toolHook -> tools) -> stepEnd  *)
(*        -> loop ... -> agentEnd -> terminal (-> consume) -> done         *)
(*                                                                         *)
(* The tool phase is one step here: it returns one answer per call, which  *)
(* is what ToolBatch shows of ExecTools.  A hook chain is its outcome: it  *)
(* passes, fails (an error or a panic) or, for step hooks, stops the loop. *)
(***************************************************************************)
EXTENDS Integers, Sequences, FiniteSets

CONSTANTS DefaultSteps,  \* the agent's step limit
          MaxRetries,    \* RetryPolicy.MaxRetries under RetryOnModel, or 0
          Interval,      \* autosave every Interval-th step
          Barriers,      \* subset of {"model", "tool"}: WithBarriers
          Asks,          \* numbers of tool calls an answer may ask for
          MaxResumes     \* bound: Resume calls of a behaviour

ASSUME AgentAssumption ==
  /\ DefaultSteps \in Nat /\ MaxRetries \in Nat /\ MaxResumes \in Nat
  /\ Interval \in Nat \ {0}
  /\ Barriers \subseteq {"model", "tool"}
  /\ Asks \subseteq Nat

VARIABLES
  at,        \* how far the run has come; "down" after a crash
  mode,      \* the entry point: run, stream or resume
  sender,    \* a StreamSender is attached
  streaming, \* the model is called through its stream
  canceled,  \* the caller's context is done
  budget,    \* the engine run's maxSteps
  step,      \* the loop variable
  msgs,      \* the loop's messages
  work,      \* stepInfo.Messages inside a step
  attempt,   \* model attempts of the step so far
  final,     \* stepRes is set: the step's answer asked for no tools
  stop,      \* a step hook cleared Continue
  failed,    \* the error of the step body or of its hooks
  usage,     \* totalUsage
  result,    \* the engine's Result
  cp,        \* the checkpoint in the store, or NoCp
  events,    \* what the sender was given
  resumes,   \* Resume calls so far
  open,      \* step_start hooks passed and not yet matched by step_end
  ends,      \* agent_end hooks fired by this run
  spent      \* tokens of the answers the runtime accepted in this run (history)

stepVars == <<step, msgs, work, attempt, final, stop, failed, usage>>
runVars  == <<mode, sender, streaming, canceled, budget>>
outVars  == <<result, events>>
histVars == <<resumes, open, ends, spent>>
vars == <<at, runVars, stepVars, outVars, cp, histVars>>

User      == [who |-> "user", asks |-> 0]
Answer(n) == [who |-> "model", asks |-> n]
ToolMsg   == [who |-> "tool", asks |-> 0]
NoCp      == [msgs |-> <<>>, step |-> -1, max |-> 0]
NoResult  == [why |-> "none", msgs |-> <<>>, usage |-> 0]

Init ==
  /\ at = "idle" /\ mode = "run" /\ sender = FALSE /\ streaming = FALSE /\ canceled = FALSE
  /\ budget = 0 /\ step = 0 /\ msgs = <<>> /\ work = <<>> /\ attempt = 0
  /\ final = FALSE /\ stop = FALSE /\ failed = FALSE /\ usage = 0
  /\ result = NoResult /\ cp = NoCp /\ events = <<>>
  /\ resumes = 0 /\ open = 0 /\ ends = 0 /\ spent = 0

Goto(place) == at' = place

-----------------------------------------------------------------------------
(* Entry points.                                                            *)
Enter(m, s, st, ms, max) ==
  /\ mode' = m /\ sender' = s /\ streaming' = st /\ canceled' = FALSE /\ budget' = max
  /\ step' = 0 /\ msgs' = ms /\ work' = <<>> /\ attempt' = 0
  /\ final' = FALSE /\ stop' = FALSE /\ failed' = FALSE /\ usage' = 0
  /\ result' = NoResult /\ events' = <<>>
  /\ open' = 0 /\ ends' = 0 /\ spent' = 0
  /\ Goto("agentStart")

(* A run streams when it is asked to and has somewhere to send; Stream      *)
(* always does.                                                             *)
Begin(m, s, st) ==
  /\ at = "idle"
  /\ st => s
  /\ m = "stream" => st
  /\ Enter(m, s, st, <<User>>, DefaultSteps)
  /\ UNCHANGED <<cp, resumes>>

(* The steps a checkpoint leaves.                                           *)
Remaining(c) ==
  IF c.max > 0 /\ c.step > 0 /\ c.max > c.step THEN c.max - c.step ELSE DefaultSteps

(* What a resumed run starts from.                                          *)
RestoredAsNew(c) == <<User>>
Restored(c) == c.msgs

Failure == result.why \in {"refused", "error", "canceled"}
Resume(s) ==
  /\ at = "down" \/ (at = "done" /\ Failure)
  /\ cp # NoCp /\ resumes < MaxResumes
  /\ Enter("resume", s, FALSE, Restored(cp), Remaining(cp))
  /\ resumes' = resumes + 1
  /\ UNCHANGED cp

-----------------------------------------------------------------------------
Conclude(why, ms, place) ==
  /\ result' = [why |-> why, msgs |-> ms, usage |-> usage]
  /\ Goto(place)
  /\ UNCHANGED <<runVars, stepVars, cp, events, histVars>>

(* A failing agent_start hook ends the run before the agent runs; Stream    *)
(* reports it and returns, Run and Resume fire agent_end and return.        *)
FireAgentStart(fails) ==
  /\ at = "agentStart"
  /\ IF fails
     THEN Conclude("refused", <<>>, IF mode = "stream" THEN "terminal" ELSE "agentEnd")
     ELSE Goto("built") /\ UNCHANGED <<runVars, stepVars, outVars, cp, histVars>>

FireMessagesBuilt(fails) ==
  /\ at = "built"
  /\ IF fails \/ msgs = <<>>
     THEN Conclude("error", <<>>, "agentEnd")
     ELSE Goto("loop") /\ UNCHANGED <<runVars, stepVars, outVars, cp, histVars>>

LoopTop ==
  /\ at = "loop"
  /\ CASE step >= budget -> Conclude("max_steps", msgs, "agentEnd")
       [] step < budget /\ canceled -> Conclude("canceled", msgs, "agentEnd")
       [] OTHER -> Goto("stepStart") /\ UNCHANGED <<runVars, stepVars, outVars, cp, histVars>>

FireStepStart(outcome) ==
  /\ at = "stepStart"
  /\ CASE outcome = "fails" -> Conclude("error", msgs, "agentEnd")
       [] outcome = "stops" -> Conclude("finished", msgs, "agentEnd")
       [] outcome = "passes" ->
            /\ work' = msgs /\ attempt' = 0 /\ final' = FALSE /\ stop' = FALSE /\ failed' = FALSE
            /\ open' = open + 1
            /\ Goto("modelHook")
            /\ UNCHANGED <<runVars, step, msgs, usage, outVars, cp, resumes, ends, spent>>

(* The step body failed: the deferred step_end hooks run next.              *)
BodyFails ==
  /\ failed' = TRUE
  /\ Goto("stepEnd")
  /\ UNCHANGED <<runVars, step, msgs, work, attempt, final, stop, usage, outVars, cp, histVars>>

Saved(ms, i, max) == [msgs |-> ms, step |-> i, max |-> max]

(* The on_model_call hooks, with the autosave barrier among them: the save  *)
(* may fail, and then blocks the call.                                      *)
BarrierBlocks(saves) == ~saves
FireModelCall(fails, saves) ==
  /\ at = "modelHook"
  /\ cp' = IF "model" \in Barriers /\ saves THEN Saved(work, Len(work), 0) ELSE cp
  /\ IF fails \/ ("model" \in Barriers /\ BarrierBlocks(saves))
     THEN failed' = TRUE /\ Goto("stepEnd")
     ELSE failed' = FALSE /\ Goto("model")
  /\ UNCHANGED <<runVars, step, msgs, work, attempt, final, stop, usage, outVars, histVars>>

-----------------------------------------------------------------------------
(* One attempt.  An answer the result hooks accept is appended and counted; *)
(* a streamed answer carries no usage.                                      *)
Cost(n) == IF streaming THEN 0 ELSE 1 + n
AddUsage(n) == usage + Cost(n)

ModelAnswers(n) ==
  /\ at = "model"
  /\ work' = Append(work, Answer(n))
  /\ usage' = AddUsage(n)
  /\ spent' = spent + Cost(n)
  /\ final' = (n = 0)
  /\ Goto(IF n = 0 THEN "stepEnd" ELSE "toolHook")
  /\ UNCHANGED <<runVars, step, msgs, attempt, stop, failed, outVars, cp, resumes, open, ends>>

(* A result hook refuses the answer, or the error is not worth a retry.     *)
ModelFails == at = "model" /\ BodyFails

MoreAttemptsInclusive == attempt <= MaxRetries
MoreAttempts == attempt < MaxRetries
ModelFailsRetryable ==
  /\ at = "model" /\ ~streaming
  /\ IF MoreAttempts
     THEN Goto("delay") /\ UNCHANGED <<runVars, stepVars, outVars, cp, histVars>>
     ELSE BodyFails

NextAttemptForgotten == attempt
NextAttempt == attempt + 1
RetryModel ==
  /\ at = "delay"
  /\ attempt' = NextAttempt
  /\ Goto("model")
  /\ UNCHANGED <<runVars, step, msgs, work, final, stop, failed, usage, outVars, cp, histVars>>

RetryCanceled == at = "delay" /\ canceled /\ BodyFails

(* A panic unwinds through RunStep, whose deferred step_end hooks still     *)
(* run, up to runAgentSafe, which answers with an error and no messages.    *)
ClosesOnPanicSkipped == open
ClosesOnPanic == 0
PanicSave(saves) ==
  IF saves /\ step > 0 /\ step % Interval = 0 THEN Saved(msgs, step, budget) ELSE cp
ModelPanics(saves) ==
  /\ at = "model"
  /\ result' = [why |-> "error", msgs |-> <<>>, usage |-> 0]
  /\ open' = ClosesOnPanic
  /\ cp' = PanicSave(saves)
  /\ Goto("agentEnd")
  /\ UNCHANGED <<runVars, stepVars, events, resumes, ends, spent>>

-----------------------------------------------------------------------------
(* The tool barrier runs inside ExecTools, before any tool does.  A failed  *)
(* save blocks the batch, whose calls are answered all the same.            *)
AnswersOneShort(n) == [i \in 1..(n - 1) |-> ToolMsg]
Answers(n) == [i \in 1..n |-> ToolMsg]
Answered == work \o Answers(work[Len(work)].asks)
Announce(es) == events' = IF sender THEN events \o es ELSE events

FireToolCall(saves) ==
  /\ at = "toolHook"
  /\ IF "tool" \in Barriers /\ ~saves
     THEN /\ work' = Answered /\ cp' = cp
          /\ Announce(<<"ask", "answer">>)
          /\ Goto("stepEnd")
     ELSE /\ work' = work /\ cp' = IF "tool" \in Barriers THEN Saved(<<>>, step, 0) ELSE cp
          /\ Announce(<<"ask">>)
          /\ Goto("tools")
  /\ UNCHANGED <<runVars, step, msgs, attempt, final, stop, failed, usage, result, histVars>>

ExecTools ==
  /\ at = "tools"
  /\ work' = Answered
  /\ Announce(<<"answer">>)
  /\ Goto("stepEnd")
  /\ UNCHANGED <<runVars, step, msgs, attempt, final, stop, failed, usage, result, cp, histVars>>

(* The step_end hooks, autosave among them: StepInfo carries the work of a  *)
(* body that succeeded and the messages before the step otherwise.          *)
StepMessages == IF failed THEN msgs ELSE work
Due == step > 0 /\ step % Interval = 0
FireStepEnd(outcome, saves) ==
  /\ at = "stepEnd"
  /\ open' = open - 1
  /\ cp' = IF Due /\ saves THEN Saved(StepMessages, step, budget) ELSE cp
  /\ failed' = (failed \/ outcome = "fails")
  /\ stop' = (outcome = "stops")
  /\ Goto("judge")
  /\ UNCHANGED <<runVars, step, msgs, work, attempt, final, usage, outVars, resumes, ends, spent>>

(* After RunStep: an error, then a final answer, then a stop, and only then *)
(* does the loop take over the messages of the step.                        *)
Judge ==
  /\ at = "judge"
  /\ CASE failed -> Conclude("error", msgs, "agentEnd")
       [] ~failed /\ final -> Conclude("finished", work, "agentEnd")
       [] ~failed /\ ~final /\ stop -> Conclude("finished", msgs, "agentEnd")
       [] OTHER ->
            /\ msgs' = work
            /\ step' = step + 1
            /\ Goto("loop")
            /\ UNCHANGED <<runVars, work, attempt, final, stop, failed, usage, outVars, cp, histVars>>

-----------------------------------------------------------------------------
(* emitAfterRun; an error of its hooks changes RunInfo.Err, not the result. *)
(* A refused Run or Resume returns right after it.                          *)
FireAgentEnd ==
  /\ at = "agentEnd"
  /\ ends' = ends + 1
  /\ Goto(IF result.why = "refused" THEN "done" ELSE "terminal")
  /\ UNCHANGED <<runVars, stepVars, outVars, cp, resumes, open, spent>>

TerminalEvents == IF Failure THEN <<"error">> ELSE <<"finish">>

AfterTerminalAlwaysConsume == IF mode = "resume" THEN "consume" ELSE "done"
AfterTerminal == IF mode = "resume" /\ ~Failure THEN "consume" ELSE "done"

SendTerminal ==
  /\ at = "terminal"
  /\ events' = IF sender THEN events \o TerminalEvents ELSE events
  /\ Goto(AfterTerminal)
  /\ UNCHANGED <<runVars, stepVars, result, cp, histVars>>

(* Resume deletes the checkpoint it consumed; the deletion may fail.        *)
Consume(deletes) ==
  /\ at = "consume"
  /\ cp' = IF deletes THEN NoCp ELSE cp
  /\ Goto("done")
  /\ UNCHANGED <<runVars, stepVars, outVars, histVars>>

Cancel ==
  /\ at \notin {"idle", "down", "done"} /\ ~canceled
  /\ canceled' = TRUE
  /\ UNCHANGED <<at, mode, sender, streaming, budget, stepVars, outVars, cp, histVars>>

Crash ==
  /\ at \notin {"idle", "down", "done"} /\ resumes < MaxResumes
  /\ Goto("down")
  /\ UNCHANGED <<runVars, stepVars, outVars, cp, histVars>>

Runner ==
  \/ \E fails \in BOOLEAN : FireAgentStart(fails) \/ FireMessagesBuilt(fails)
  \/ LoopTop
  \/ \E outcome \in {"passes", "fails", "stops"} : FireStepStart(outcome)
  \/ \E fails, saves \in BOOLEAN : FireModelCall(fails, saves)
  \/ \E n \in Asks : ModelAnswers(n)
  \/ ModelFails \/ ModelFailsRetryable \/ RetryModel \/ RetryCanceled
  \/ \E saves \in BOOLEAN : ModelPanics(saves)
  \/ \E saves \in BOOLEAN : FireToolCall(saves)
  \/ ExecTools
  \/ \E outcome \in {"passes", "fails", "stops"}, saves \in BOOLEAN : FireStepEnd(outcome, saves)
  \/ Judge \/ FireAgentEnd \/ SendTerminal
  \/ \E deletes \in BOOLEAN : Consume(deletes)

Next ==
  \/ \E m \in {"run", "stream"}, s, st \in BOOLEAN : Begin(m, s, st)
  \/ \E s \in BOOLEAN : Resume(s)
  \/ Runner
  \/ Cancel
  \/ Crash

Spec == Init /\ [][Next]_vars

(* A run that is under way goes on: hooks, model and tools come back.       *)
Fairness == WF_vars(Runner)

-----------------------------------------------------------------------------
Places == {"idle", "agentStart", "built", "loop", "stepStart", "modelHook", "model",
           "delay", "toolHook", "tools", "stepEnd", "judge", "agentEnd", "terminal",
           "consume", "done", "down"}
Items == [who : {"user", "model", "tool"}, asks : Nat]
InStep == at \in {"modelHook", "model", "delay", "toolHook", "tools", "stepEnd"}

Reasons == {"none", "refused", "error", "canceled", "max_steps", "finished"}

(* Every variable keeps its type; steps and attempts keep their limits.    *)
TypeOK ==
  /\ at \in Places /\ mode \in {"run", "stream", "resume"}
  /\ sender \in BOOLEAN /\ streaming \in BOOLEAN /\ canceled \in BOOLEAN
  /\ final \in BOOLEAN /\ stop \in BOOLEAN /\ failed \in BOOLEAN
  /\ budget \in 0..DefaultSteps /\ step \in 0..DefaultSteps /\ attempt \in 0..MaxRetries
  /\ msgs \in Seq(Items) /\ work \in Seq(Items) /\ usage \in Nat
  /\ result \in [why : Reasons, msgs : Seq(Items), usage : Nat]
  /\ cp \in [msgs : Seq(Items), step : Int, max : 0..DefaultSteps]
  /\ events \in Seq({"ask", "answer", "finish", "error"})
  /\ resumes \in 0..MaxResumes /\ open \in 0..1 /\ ends \in 0..1
  /\ spent \in Nat

(* What providers demand of a conversation: every request for n tools is   *)
(* followed by exactly n tool messages, and a tool message answers one.    *)
(* It holds of what a run returns and of every recovery point, whichever   *)
(* hook, retry, panic or crash cut the step short.                         *)
WellFormed(ms) ==
  \A i \in 1..Len(ms) :
    /\ ms[i].who = "model" =>
         LET n == ms[i].asks
         IN  /\ i + n <= Len(ms)
             /\ \A k \in 1..n : ms[i + k].who = "tool"
             /\ i + n < Len(ms) => ms[i + n + 1].who # "tool"
    /\ ms[i].who = "tool" => \E k \in 1..(i - 1) : ms[k].who = "model" /\ k + ms[k].asks >= i
TranscriptsAreAnswered ==
  WellFormed(msgs) /\ WellFormed(result.msgs) /\ WellFormed(cp.msgs)

(* Every step_start that passed is closed by one step_end, on every way    *)
(* out of the step: a failed hook, a failed model, a panic.  Modules that  *)
(* open something in the one and close it in the other rely on it.         *)
StepsAreClosed == at # "down" => open = (IF InStep THEN 1 ELSE 0)

(* The usage a run reports is what its accepted answers cost, retries and  *)
(* refused answers not counted.                                            *)
UsageIsSpent == result.why # "none" /\ result.msgs # <<>> => result.usage = spent

(* A sender sees one terminal event, last, and it tells how the run ended; *)
(* every announced tool batch is reported before the next one.             *)
Terminal == {"finish", "error"}
OneTerminalEventLast ==
  /\ \A i \in 1..Len(events) : events[i] \in Terminal => i = Len(events)
  /\ at \in {"consume", "done"} /\ sender /\ (result.why = "refused" => mode = "stream") =>
       events # <<>> /\ events[Len(events)] = (IF Failure THEN "error" ELSE "finish")
  /\ \A i \in 1..Len(events) :
       events[i] = "answer" => i > 1 /\ events[i - 1] = "ask"

(* A run is closed on every way out: steps, events and usage together.     *)
RunIsClosed == StepsAreClosed /\ OneTerminalEventLast /\ UsageIsSpent

(* Whatever moment the process dies at, the checkpoint holds a beginning   *)
(* of the conversation being worked on: resuming invents nothing and       *)
(* drops only the tail.                                                    *)
IsPrefixOf(a, b) == Len(a) <= Len(b) /\ \A i \in 1..Len(a) : a[i] = b[i]
Current == IF InStep \/ at = "judge" THEN work ELSE msgs
RecoveryPointIsPrefix ==
  at \notin {"idle", "agentEnd", "terminal", "consume", "done", "down"} =>
    IsPrefixOf(cp.msgs, Current)

(* A recovery point, once there, is given up only by a resumed run that    *)
(* has ended without an error.                                             *)
RecoveryPointKept ==
  [][cp # NoCp /\ cp' = NoCp => mode = "resume" /\ ~Failure /\ result.why # "none"]_vars

(* What comments of the source say and the code does not do.               *)
(* "the intent to call the tool is durable before the tool runs"           *)
ToolIntentIsDurable ==
  at = "tools" /\ "tool" \in Barriers => IsPrefixOf(work, cp.msgs)
(* Resume "reloads the saved messages, system prompt and step budget".     *)
StepsIn(ms) == {i \in 1..Len(ms) : ms[i].who = "model"}
BudgetIsKept == Cardinality(StepsIn(result.msgs)) <= DefaultSteps
(* Run delivers terminal events under "the same contract Stream provides". *)
StartFailureIsReported ==
  at = "done" /\ sender /\ result.why = "refused" => events # <<>>

(* Every run that is started and not killed comes to an end.               *)
RunEnds == at = "agentStart" ~> at \in {"done", "down"}
=============================================================================
