------------------------------- MODULE AgentRunProofs -------------------------------
(***************************************************************************)
(* Proofs about an agent run, for every step limit, retry policy, save     *)
(* interval, set of barriers and number of tool calls an answer asks for.  *)
(***************************************************************************)
EXTENDS AgentRun, SequenceTheorems, TLAPS

Starting == {"agentStart", "built", "loop", "stepStart"}
Asking   == {"modelHook", "model", "delay"}
Acting   == {"toolHook", "tools"}
Closing  == {"stepEnd", "judge"}
Running  == Starting \cup Asking \cup Acting \cup Closing
Ended    == {"agentEnd", "terminal", "consume", "done"}

(* The messages of a step against those of the loop.                       *)
WorkInv ==
  /\ at \in Asking => work = msgs
  /\ at \in Acting => \E n \in Asks : work = Append(msgs, Answer(n))
  /\ at \in Closing => IsPrefixOf(msgs, work) /\ (~failed => WellFormed(work))
TranscriptInv == WorkInv /\ TranscriptsAreAnswered

(* What was counted, and what is still to be counted.                      *)
CountInv ==
  /\ at \in {"stepStart"} \cup Asking \cup Acting \cup Closing => step < budget
  /\ at = "delay" => attempt < MaxRetries
  /\ at \in {"idle", "agentEnd"} \cup Running => ends = 0
  /\ usage = spent
  /\ StepsAreClosed

(* The result is written once, when the run is over; a checkpoint is given *)
(* up after that.                                                          *)
ResultInv ==
  /\ at \in Running => result.why = "none"
  /\ at \in Ended => result.why # "none"
  /\ at = "agentEnd" /\ result.why = "refused" => mode # "stream"
  /\ at = "consume" => mode = "resume" /\ ~Failure
  /\ UsageIsSpent

EventInv ==
  /\ at \in {"idle", "agentEnd", "terminal"} \cup Running =>
       \A i \in 1..Len(events) : events[i] \notin Terminal
  /\ at = "tools" /\ sender => events # <<>> /\ events[Len(events)] = "ask"
  /\ OneTerminalEventLast

PrefixInv ==
  /\ at = "idle" => cp = NoCp
  /\ RecoveryPointIsPrefix

(* The inductive invariant.                                                *)
RunInv == TypeOK /\ TranscriptInv /\ CountInv /\ ResultInv /\ EventInv /\ PrefixInv

-----------------------------------------------------------------------------
(* The counters.  Each conjunct is disturbed where a step opens or closes. *)
LEMMA CountStep == RunInv /\ [Next]_vars => CountInv'
<1> SUFFICES ASSUME RunInv, [Next]_vars PROVE CountInv'
  OBVIOUS
<1>0. TypeOK /\ CountInv
  BY DEF RunInv
<1> USE <1>0, AgentAssumption
    DEF TypeOK, CountInv, StepsAreClosed, InStep, Starting, Asking, Acting, Closing, Running, Goto,
        runVars, stepVars, outVars, histVars
<1>1. ASSUME NEW m \in {"run", "stream"}, NEW s \in BOOLEAN, NEW st \in BOOLEAN, Begin(m, s, st) PROVE CountInv'
  BY <1>1 DEF Begin, Enter, User
<1>2. ASSUME NEW s \in BOOLEAN, Resume(s) PROVE CountInv'
  BY <1>2 DEF Resume, Enter, Restored, Remaining
<1>3. ASSUME NEW b \in BOOLEAN, FireAgentStart(b) PROVE CountInv'
  BY <1>3 DEF FireAgentStart, Conclude
<1>4. ASSUME NEW b \in BOOLEAN, FireMessagesBuilt(b) PROVE CountInv'
  BY <1>4 DEF FireMessagesBuilt, Conclude
<1>5. ASSUME LoopTop PROVE CountInv'
  BY <1>5 DEF LoopTop, Conclude
<1>6. ASSUME NEW o \in {"passes", "fails", "stops"}, FireStepStart(o) PROVE CountInv'
  <2>1. CASE o = "passes"
    BY <1>6, <2>1 DEF FireStepStart
  <2>2. CASE o = "fails"
    BY <1>6, <2>2 DEF FireStepStart, Conclude
  <2>3. CASE o = "stops"
    BY <1>6, <2>3 DEF FireStepStart, Conclude
  <2> QED
    BY <2>1, <2>2, <2>3
<1>7. ASSUME NEW b \in BOOLEAN, NEW c \in BOOLEAN, FireModelCall(b, c) PROVE CountInv'
  BY <1>7 DEF FireModelCall, BarrierBlocks, Saved
<1>8. ASSUME NEW n \in Asks, ModelAnswers(n) PROVE CountInv'
  BY <1>8 DEF ModelAnswers, AddUsage, Cost
<1>9. ASSUME ModelFails PROVE CountInv'
  BY <1>9 DEF ModelFails, BodyFails
<1>10. ASSUME ModelFailsRetryable PROVE CountInv'
  BY <1>10 DEF ModelFailsRetryable, BodyFails, MoreAttempts
<1>11. ASSUME RetryModel PROVE CountInv'
  BY <1>11 DEF RetryModel, NextAttempt
<1>12. ASSUME RetryCanceled PROVE CountInv'
  BY <1>12 DEF RetryCanceled, BodyFails
<1>13. ASSUME NEW b \in BOOLEAN, ModelPanics(b) PROVE CountInv'
  BY <1>13 DEF ModelPanics, ClosesOnPanic, PanicSave, Saved
<1>14. ASSUME NEW b \in BOOLEAN, FireToolCall(b) PROVE CountInv'
  BY <1>14 DEF FireToolCall, Announce, Saved
<1>15. ASSUME ExecTools PROVE CountInv'
  BY <1>15 DEF ExecTools, Announce
<1>16. ASSUME NEW o \in {"passes", "fails", "stops"}, NEW b \in BOOLEAN, FireStepEnd(o, b) PROVE CountInv'
  BY <1>16 DEF FireStepEnd, Due, Saved, StepMessages
<1>17. ASSUME Judge PROVE CountInv'
  BY <1>17 DEF Judge, Conclude
<1>18. ASSUME FireAgentEnd PROVE CountInv'
  BY <1>18 DEF FireAgentEnd
<1>19. ASSUME SendTerminal PROVE CountInv'
  BY <1>19 DEF SendTerminal, TerminalEvents, AfterTerminal
<1>20. ASSUME NEW b \in BOOLEAN, Consume(b) PROVE CountInv'
  BY <1>20 DEF Consume
<1>21. ASSUME Cancel PROVE CountInv'
  BY <1>21 DEF Cancel
<1>22. ASSUME Crash PROVE CountInv'
  BY <1>22 DEF Crash
<1>23. ASSUME UNCHANGED vars PROVE CountInv'
  BY <1>23 DEF vars
<1> HIDE DEF RunInv, TypeOK, CountInv
<1> QED
  BY <1>1, <1>2, <1>3, <1>4, <1>5, <1>6, <1>7, <1>8, <1>9, <1>10, <1>11, <1>12, <1>13, <1>14, <1>15, <1>16, <1>17, <1>18, <1>19, <1>20, <1>21, <1>22, <1>23
     DEF Next, Runner

(* The result.                                                             *)
LEMMA ResultStep == RunInv /\ [Next]_vars => ResultInv'
<1> SUFFICES ASSUME RunInv, [Next]_vars PROVE ResultInv'
  OBVIOUS
<1>0. TypeOK /\ ResultInv /\ usage = spent
  BY DEF RunInv, CountInv
<1> USE <1>0
    DEF TypeOK, ResultInv, UsageIsSpent, Failure, Reasons, Starting, Asking, Acting, Closing,
        Running, Ended, NoResult, Goto, runVars, stepVars, outVars, histVars
<1>1. ASSUME NEW m \in {"run", "stream"}, NEW s \in BOOLEAN, NEW st \in BOOLEAN, Begin(m, s, st) PROVE ResultInv'
  BY <1>1 DEF Begin, Enter, User
<1>2. ASSUME NEW s \in BOOLEAN, Resume(s) PROVE ResultInv'
  BY <1>2 DEF Resume, Enter, Restored, Remaining
<1>3. ASSUME NEW b \in BOOLEAN, FireAgentStart(b) PROVE ResultInv'
  BY SMTT(30), <1>3 DEF FireAgentStart, Conclude
<1>4. ASSUME NEW b \in BOOLEAN, FireMessagesBuilt(b) PROVE ResultInv'
  BY SMTT(30), <1>4 DEF FireMessagesBuilt, Conclude
<1>5. ASSUME LoopTop PROVE ResultInv'
  BY <1>5 DEF LoopTop, Conclude
<1>6. ASSUME NEW o \in {"passes", "fails", "stops"}, FireStepStart(o) PROVE ResultInv'
  <2>1. CASE o = "passes"
    BY <1>6, <2>1 DEF FireStepStart
  <2>2. CASE o = "fails"
    BY <1>6, <2>2 DEF FireStepStart, Conclude
  <2>3. CASE o = "stops"
    BY <1>6, <2>3 DEF FireStepStart, Conclude
  <2> QED
    BY <2>1, <2>2, <2>3
<1>7. ASSUME NEW b \in BOOLEAN, NEW c \in BOOLEAN, FireModelCall(b, c) PROVE ResultInv'
  BY <1>7 DEF FireModelCall, BarrierBlocks, Saved
<1>8. ASSUME NEW n \in Asks, ModelAnswers(n) PROVE ResultInv'
  BY <1>8 DEF ModelAnswers, AddUsage, Cost
<1>9. ASSUME ModelFails PROVE ResultInv'
  BY <1>9 DEF ModelFails, BodyFails
<1>10. ASSUME ModelFailsRetryable PROVE ResultInv'
  BY <1>10 DEF ModelFailsRetryable, BodyFails, MoreAttempts
<1>11. ASSUME RetryModel PROVE ResultInv'
  BY <1>11 DEF RetryModel, NextAttempt
<1>12. ASSUME RetryCanceled PROVE ResultInv'
  BY <1>12 DEF RetryCanceled, BodyFails
<1>13. ASSUME NEW b \in BOOLEAN, ModelPanics(b) PROVE ResultInv'
  BY <1>13 DEF ModelPanics, ClosesOnPanic, PanicSave, Saved
<1>14. ASSUME NEW b \in BOOLEAN, FireToolCall(b) PROVE ResultInv'
  BY <1>14 DEF FireToolCall, Announce, Saved
<1>15. ASSUME ExecTools PROVE ResultInv'
  BY <1>15 DEF ExecTools, Announce
<1>16. ASSUME NEW o \in {"passes", "fails", "stops"}, NEW b \in BOOLEAN, FireStepEnd(o, b) PROVE ResultInv'
  BY <1>16 DEF FireStepEnd, Due, Saved, StepMessages
<1>17. ASSUME Judge PROVE ResultInv'
  BY <1>17 DEF Judge, Conclude
<1>18. ASSUME FireAgentEnd PROVE ResultInv'
  BY <1>18 DEF FireAgentEnd
<1>19. ASSUME SendTerminal PROVE ResultInv'
  BY <1>19 DEF SendTerminal, TerminalEvents, AfterTerminal
<1>20. ASSUME NEW b \in BOOLEAN, Consume(b) PROVE ResultInv'
  BY <1>20 DEF Consume
<1>21. ASSUME Cancel PROVE ResultInv'
  BY <1>21 DEF Cancel
<1>22. ASSUME Crash PROVE ResultInv'
  BY <1>22 DEF Crash
<1>23. ASSUME UNCHANGED vars PROVE ResultInv'
  BY <1>23 DEF vars
<1> HIDE DEF RunInv, TypeOK, ResultInv
<1> QED
  BY <1>1, <1>2, <1>3, <1>4, <1>5, <1>6, <1>7, <1>8, <1>9, <1>10, <1>11, <1>12, <1>13, <1>14, <1>15, <1>16, <1>17, <1>18, <1>19, <1>20, <1>21, <1>22, <1>23
     DEF Next, Runner

-----------------------------------------------------------------------------
(* The answers a batch of n calls gets, after the answer that asked.       *)
LEMMA AnsweredBatch ==
  ASSUME TypeOK, WorkInv, at \in Acting
  PROVE  \E n \in Asks : Answered = Append(msgs, Answer(n)) \o Answers(n)
<1>1. PICK n \in Asks : work = Append(msgs, Answer(n))
  BY DEF WorkInv
<1>2. msgs \in Seq(Items) /\ Answer(n) \in Items
  BY AgentAssumption DEF TypeOK, Answer, Items
<1>3. work[Len(work)] = Answer(n)
  BY <1>1, <1>2
<1>4. work[Len(work)].asks = n
  BY <1>3 DEF Answer
<1> QED
  BY <1>1, <1>4 DEF Answered

LEMMA BatchTyped ==
  ASSUME NEW ms \in Seq(Items), NEW n \in Nat
  PROVE  /\ Answer(n) \in Items /\ Append(ms, Answer(n)) \in Seq(Items)
         /\ Answers(n) \in Seq(Items) /\ Len(Answers(n)) = n
         /\ Append(ms, Answer(n)) \o Answers(n) \in Seq(Items)
<1>1. Answer(n) \in Items /\ ToolMsg \in Items
  BY DEF Answer, ToolMsg, Items
<1>2. Answers(n) \in [1..n -> Items] /\ Answers(n) \in Seq(Items) /\ Len(Answers(n)) = n
  BY <1>1 DEF Answers
<1>3. Append(ms, Answer(n)) \in Seq(Items)
  BY <1>1
<1> QED
  BY <1>1, <1>2, <1>3, ConcatProperties

LEMMA AnsweredTyped ==
  ASSUME TypeOK, WorkInv, at \in Acting
  PROVE  Answered \in Seq(Items)
<1>1. PICK n \in Asks : Answered = Append(msgs, Answer(n)) \o Answers(n)
  BY AnsweredBatch
<1> QED
  BY <1>1, BatchTyped, AgentAssumption DEF TypeOK

EventItems == {"ask", "answer", "finish", "error"}

LEMMA EnterTyped ==
  ASSUME TypeOK, NEW m \in {"run", "stream", "resume"}, NEW s \in BOOLEAN, NEW st \in BOOLEAN,
         NEW ms \in Seq(Items), NEW max \in 0..DefaultSteps, Enter(m, s, st, ms, max),
         UNCHANGED cp, resumes' \in 0..MaxResumes
  PROVE  TypeOK'
<1>1. result' \in [why : Reasons, msgs : Seq(Items), usage : Nat] /\ work' \in Seq(Items)
  BY DEF Enter, NoResult, Reasons
<1>2. events' \in Seq(EventItems)
  BY DEF Enter
<1>3. /\ at' \in Places /\ mode' \in {"run", "stream", "resume"}
      /\ step' \in 0..DefaultSteps /\ attempt' \in 0..MaxRetries /\ budget' \in 0..DefaultSteps
      /\ open' \in 0..1 /\ ends' \in 0..1 /\ usage' \in Nat /\ spent' \in Nat
  BY AgentAssumption DEF Enter, Goto, Places
<1>4. /\ sender' \in BOOLEAN /\ streaming' \in BOOLEAN /\ canceled' \in BOOLEAN
      /\ final' \in BOOLEAN /\ stop' \in BOOLEAN /\ failed' \in BOOLEAN
      /\ msgs' \in Seq(Items)
  BY DEF Enter
<1>5. cp' \in [msgs : Seq(Items), step : Int, max : 0..DefaultSteps]
  BY DEF TypeOK
<1> QED
  BY <1>1, <1>2, <1>3, <1>4, <1>5 DEF TypeOK, EventItems

LEMMA EventsTyped ==
  ASSUME TypeOK, NEW es \in Seq(EventItems)
  PROVE  events \o es \in Seq(EventItems)
<1>1. events \in Seq(EventItems)
  BY DEF TypeOK, EventItems
<1> QED
  BY <1>1, ConcatProperties

LEMMA AnnounceTyped ==
  ASSUME TypeOK, NEW es, Announce(es),
         es \in {<<"ask">>, <<"answer">>, <<"ask", "answer">>, <<"finish">>, <<"error">>}
  PROVE  events' \in Seq(EventItems)
<1>1. es \in Seq(EventItems)
  <2>1. <<"ask">> \in Seq(EventItems) /\ <<"answer">> \in Seq(EventItems)
    BY DEF EventItems
  <2>2. <<"ask", "answer">> \in Seq(EventItems)
    BY DEF EventItems
  <2>3. <<"finish">> \in Seq(EventItems) /\ <<"error">> \in Seq(EventItems)
    BY DEF EventItems
  <2> QED
    BY <2>1, <2>2, <2>3, Zenon
<1>2. events \in Seq(EventItems)
  BY DEF TypeOK, EventItems
<1>3. events' = events \o es \/ events' = events
  BY DEF Announce
<1> QED
  BY <1>1, <1>2, <1>3, EventsTyped

LEMMA RecordsTyped ==
  ASSUME NEW ms \in Seq(Items)
  PROVE  /\ \A i \in Int, max \in 0..DefaultSteps :
              Saved(ms, i, max) \in [msgs : Seq(Items), step : Int, max : 0..DefaultSteps]
         /\ \A why \in Reasons, u \in Nat :
              [why |-> why, msgs |-> ms, usage |-> u] \in [why : Reasons, msgs : Seq(Items), usage : Nat]
BY DEF Saved

LEMMA RunTypingStep == RunInv /\ [Next]_vars => TypeOK'
<1> SUFFICES ASSUME RunInv, [Next]_vars PROVE TypeOK'
  OBVIOUS
<1>0. TypeOK /\ WorkInv /\ CountInv
  BY DEF RunInv, TranscriptInv
<1> USE <1>0, AgentAssumption
    DEF TypeOK, CountInv, StepsAreClosed, InStep, Starting, Asking, Acting, Closing, Running, Goto,
        Places, Reasons, NoResult, NoCp, runVars, stepVars, outVars, histVars
<1>1. ASSUME NEW m \in {"run", "stream"}, NEW s \in BOOLEAN, NEW st \in BOOLEAN, Begin(m, s, st) PROVE TypeOK'
  <2>1. <<User>> \in Seq(Items)
    BY DEF User, Items
  <2>2. /\ DefaultSteps \in 0..DefaultSteps /\ m \in {"run", "stream", "resume"}
        /\ cp' = cp /\ resumes' \in 0..MaxResumes
    BY <1>1 DEF Begin
  <2>3. Enter(m, s, st, <<User>>, DefaultSteps)
    BY <1>1 DEF Begin
  <2> HIDE DEF TypeOK
  <2> QED
    BY <2>1, <2>2, <2>3, EnterTyped
<1>2. ASSUME NEW s \in BOOLEAN, Resume(s) PROVE TypeOK'
  <2>1. Restored(cp) \in Seq(Items)
    BY DEF Restored
  <2>2. Remaining(cp) \in 0..DefaultSteps
    BY DEF Remaining
  <2>3. resumes' \in 0..MaxResumes
    BY <1>2 DEF Resume
  <2> QED
    BY <1>2, <2>1, <2>2, <2>3, EnterTyped DEF Resume
<1>3. ASSUME NEW b \in BOOLEAN, FireAgentStart(b) PROVE TypeOK'
  <2>1. <<>> \in Seq(Items)
    OBVIOUS
  <2>2. result' \in [why : Reasons, msgs : Seq(Items), usage : Nat]
    <3>1. CASE b
      <4>1. result' = [why |-> "refused", msgs |-> <<>>, usage |-> usage]
        BY <1>3, <3>1 DEF FireAgentStart, Conclude
      <4>2. "refused" \in Reasons /\ usage \in Nat
        OBVIOUS
      <4> QED
        BY <2>1, <4>1, <4>2, RecordsTyped, Zenon
    <3>2. CASE ~b
      BY <1>3, <3>2 DEF FireAgentStart
    <3> QED
      BY <3>1, <3>2
  <2> QED
    BY SMTT(30), <1>3, <2>2 DEF FireAgentStart, Conclude
<1>4. ASSUME NEW b \in BOOLEAN, FireMessagesBuilt(b) PROVE TypeOK'
  <2>1. <<>> \in Seq(Items)
    OBVIOUS
  <2>2. result' \in [why : Reasons, msgs : Seq(Items), usage : Nat]
    <3>1. CASE b \/ msgs = <<>>
      <4>1. result' = [why |-> "error", msgs |-> <<>>, usage |-> usage]
        BY <1>4, <3>1 DEF FireMessagesBuilt, Conclude
      <4>2. "error" \in Reasons /\ usage \in Nat
        OBVIOUS
      <4> QED
        BY <2>1, <4>1, <4>2, RecordsTyped, Zenon
    <3>2. CASE ~(b \/ msgs = <<>>)
      BY <1>4, <3>2 DEF FireMessagesBuilt
    <3> QED
      BY <3>1, <3>2
  <2> QED
    BY <1>4, <2>2 DEF FireMessagesBuilt, Conclude
<1>5. ASSUME LoopTop PROVE TypeOK'
  BY SMTT(30), <1>5 DEF LoopTop, Conclude
<1>6. ASSUME NEW o \in {"passes", "fails", "stops"}, FireStepStart(o) PROVE TypeOK'
  <2>1. CASE o = "passes"
    <3>1. work' = msgs /\ open' = 1 /\ attempt' = 0 /\ at' = "modelHook"
      BY <1>6, <2>1 DEF FireStepStart
    <3>2. final' \in BOOLEAN /\ stop' \in BOOLEAN /\ failed' \in BOOLEAN
      BY <1>6, <2>1 DEF FireStepStart
    <3>3. UNCHANGED <<runVars, step, msgs, usage, outVars, cp, resumes, ends, spent>>
      BY <1>6, <2>1 DEF FireStepStart
    <3> QED
      BY <3>1, <3>2, <3>3
  <2>2. CASE o = "fails"
    BY <1>6, <2>2 DEF FireStepStart, Conclude
  <2>3. CASE o = "stops"
    BY <1>6, <2>3 DEF FireStepStart, Conclude
  <2> QED
    BY <2>1, <2>2, <2>3
<1>7. ASSUME NEW b \in BOOLEAN, NEW c \in BOOLEAN, FireModelCall(b, c) PROVE TypeOK'
  <2>1. Len(work) \in Int
    OBVIOUS
  <2>2. cp' \in [msgs : Seq(Items), step : Int, max : 0..DefaultSteps]
    BY <1>7, <2>1 DEF FireModelCall, Saved
  <2> QED
    BY <1>7, <2>2 DEF FireModelCall, BarrierBlocks
<1>8. ASSUME NEW n \in Asks, ModelAnswers(n) PROVE TypeOK'
  BY <1>8, BatchTyped DEF ModelAnswers, AddUsage, Cost
<1>9. ASSUME ModelFails PROVE TypeOK'
  BY <1>9 DEF ModelFails, BodyFails
<1>10. ASSUME ModelFailsRetryable PROVE TypeOK'
  BY <1>10 DEF ModelFailsRetryable, BodyFails, MoreAttempts
<1>11. ASSUME RetryModel PROVE TypeOK'
  BY <1>11 DEF RetryModel, NextAttempt
<1>12. ASSUME RetryCanceled PROVE TypeOK'
  BY <1>12 DEF RetryCanceled, BodyFails
<1>13. ASSUME NEW b \in BOOLEAN, ModelPanics(b) PROVE TypeOK'
  BY <1>13 DEF ModelPanics, ClosesOnPanic, PanicSave, Saved
<1>14. ASSUME NEW b \in BOOLEAN, FireToolCall(b) PROVE TypeOK'
  <2>1. work' \in Seq(Items)
    BY <1>14, AnsweredTyped DEF FireToolCall
  <2>2. cp' \in [msgs : Seq(Items), step : Int, max : 0..DefaultSteps]
    <3>1. <<>> \in Seq(Items)
      OBVIOUS
    <3>2. cp' = cp \/ cp' = Saved(<<>>, step, 0)
      BY <1>14 DEF FireToolCall
    <3>3. step \in Int /\ 0 \in 0..DefaultSteps
      OBVIOUS
    <3>4. Saved(<<>>, step, 0) \in [msgs : Seq(Items), step : Int, max : 0..DefaultSteps]
      BY <3>1, <3>3, RecordsTyped, Zenon
    <3> QED
      BY <3>2, <3>4
  <2>3. events' \in Seq(EventItems)
    <3>1. Announce(<<"ask">>) \/ Announce(<<"ask", "answer">>)
      BY <1>14 DEF FireToolCall
    <3> QED
      BY <3>1, AnnounceTyped
  <2> QED
    BY <1>14, <2>1, <2>2, <2>3 DEF FireToolCall, EventItems
<1>15. ASSUME ExecTools PROVE TypeOK'
  <2>1. work' \in Seq(Items)
    BY <1>15, AnsweredTyped DEF ExecTools
  <2>2. events' \in Seq(EventItems)
    BY <1>15, AnnounceTyped DEF ExecTools
  <2> QED
    BY <1>15, <2>1, <2>2 DEF ExecTools, EventItems
<1>16. ASSUME NEW o \in {"passes", "fails", "stops"}, NEW b \in BOOLEAN, FireStepEnd(o, b) PROVE TypeOK'
  BY <1>16 DEF FireStepEnd, Due, Saved, StepMessages
<1>17. ASSUME Judge PROVE TypeOK'
  BY SMTT(30), <1>17 DEF Judge, Conclude
<1>18. ASSUME FireAgentEnd PROVE TypeOK'
  BY <1>18 DEF FireAgentEnd
<1>19. ASSUME SendTerminal PROVE TypeOK'
  <2>1. events' \in Seq(EventItems)
    <3>1. Announce(<<"error">>) \/ Announce(<<"finish">>)
      BY <1>19 DEF SendTerminal, TerminalEvents, Announce
    <3> QED
      BY <3>1, AnnounceTyped
  <2> QED
    BY <1>19, <2>1 DEF SendTerminal, AfterTerminal, EventItems
<1>20. ASSUME NEW b \in BOOLEAN, Consume(b) PROVE TypeOK'
  BY <1>20 DEF Consume
<1>21. ASSUME Cancel PROVE TypeOK'
  BY <1>21 DEF Cancel
<1>22. ASSUME Crash PROVE TypeOK'
  BY <1>22 DEF Crash
<1>23. ASSUME UNCHANGED vars PROVE TypeOK'
  BY <1>23 DEF vars
<1> HIDE DEF RunInv, TypeOK, CountInv
<1> QED
  BY <1>1, <1>2, <1>3, <1>4, <1>5, <1>6, <1>7, <1>8, <1>9, <1>10, <1>11, <1>12, <1>13, <1>14, <1>15, <1>16, <1>17, <1>18, <1>19, <1>20, <1>21, <1>22, <1>23
     DEF Next, Runner

-----------------------------------------------------------------------------
(* Prefixes and well-formed conversations.                                 *)
LEMMA PrefixReflexive == ASSUME NEW ms \in Seq(Items) PROVE IsPrefixOf(ms, ms)
BY DEF IsPrefixOf

LEMMA PrefixTransitive ==
  ASSUME NEW a \in Seq(Items), NEW b \in Seq(Items), NEW c \in Seq(Items),
         IsPrefixOf(a, b), IsPrefixOf(b, c)
  PROVE  IsPrefixOf(a, c)
BY DEF IsPrefixOf

LEMMA WellFormedStarts == WellFormed(<<>>) /\ WellFormed(<<User>>)
BY DEF WellFormed, User

(* An answer and the messages of its batch, after a conversation that has  *)
(* all its requests answered, leave one that has.                          *)
LEMMA WellFormedBatch ==
  ASSUME NEW ms \in Seq(Items), WellFormed(ms), NEW n \in Nat
  PROVE  /\ WellFormed(Append(ms, Answer(n)) \o Answers(n))
         /\ IsPrefixOf(ms, Append(ms, Answer(n)) \o Answers(n))
<1> DEFINE L == Len(ms)
           asked == Append(ms, Answer(n))
           out == asked \o Answers(n)
<1>1. /\ L \in Nat /\ asked \in Seq(Items) /\ Len(asked) = L + 1 /\ asked[L + 1] = Answer(n)
      /\ \A i \in 1..L : asked[i] = ms[i]
  BY BatchTyped, AppendProperties
<1>2. /\ Answers(n) \in Seq(Items) /\ Len(Answers(n)) = n
      /\ \A i \in 1..n : Answers(n)[i] = ToolMsg
  BY BatchTyped DEF Answers
<1>3. /\ out \in Seq(Items) /\ Len(out) = L + 1 + n
      /\ \A i \in 1..(L + 1) : out[i] = asked[i]
      /\ \A i \in (L + 2)..(L + 1 + n) : out[i] = Answers(n)[i - (L + 1)]
  <2> HIDE DEF asked
  <2>1. /\ out \in Seq(Items) /\ Len(out) = Len(asked) + Len(Answers(n))
        /\ \A i \in 1..(Len(asked) + Len(Answers(n))) :
             out[i] = IF i <= Len(asked) THEN asked[i] ELSE Answers(n)[i - Len(asked)]
    BY <1>1, <1>2, ConcatProperties
  <2> HIDE DEF out
  <2> QED
    BY <1>1, <1>2, <2>1
<1>4. /\ \A i \in 1..L : out[i] = ms[i] /\ ms[i] \in Items
      /\ out[L + 1] = Answer(n)
      /\ \A i \in (L + 2)..(L + 1 + n) : out[i] = ToolMsg
  BY <1>1, <1>2, <1>3
<1> HIDE DEF asked, out
<1>5. ASSUME NEW i \in 1..L, ms[i].who = "model"
      PROVE  LET k == ms[i].asks
             IN  /\ i + k <= Len(out)
                 /\ \A j \in 1..k : out[i + j].who = "tool"
                 /\ i + k < Len(out) => out[i + k + 1].who # "tool"
  <2> DEFINE k == ms[i].asks
  <2>1. k \in Nat
    BY <1>4 DEF Items
  <2>2. /\ i + k <= L
        /\ \A j \in 1..k : ms[i + j].who = "tool"
        /\ i + k < L => ms[i + k + 1].who # "tool"
    BY <1>5 DEF WellFormed
  <2>3. out[L + 1].who # "tool" /\ out[i].asks = k
    BY <1>4 DEF Answer
  <2> HIDE DEF k, L
  <2>4. i + k <= Len(out)
    BY <1>1, <1>3, <2>1, <2>2
  <2>5. ASSUME NEW j \in 1..k PROVE out[i + j].who = "tool"
    <3>1. i + j \in 1..L
      BY <1>1, <2>1, <2>2
    <3> QED
      BY <1>4, <2>2, <3>1
  <2>6. CASE i + k = L
    BY <2>3, <2>4, <2>5, <2>6 DEF k
  <2>7. CASE i + k # L
    <3>1. i + k + 1 \in 1..L
      BY <1>1, <2>1, <2>2, <2>7
    <3>2. i + k < L
      BY <1>1, <2>1, <2>2, <2>7
    <3>3. out[i + k + 1].who # "tool"
      BY <1>4, <2>2, <3>1, <3>2
    <3> QED
      BY <2>4, <2>5, <3>3 DEF k
  <2> QED
    BY <2>6, <2>7
<1>6. ASSUME NEW i \in 1..L, ms[i].who = "tool"
      PROVE  \E k \in 1..(i - 1) : out[k].who = "model" /\ k + out[k].asks >= i
  <2>1. PICK k \in 1..(i - 1) : ms[k].who = "model" /\ k + ms[k].asks >= i
    BY <1>6 DEF WellFormed
  <2> QED
    BY <1>1, <1>4, <2>1
<1>7. /\ out[L + 1].who = "model" /\ out[L + 1].asks = n
      /\ \A j \in 1..n : out[L + 1 + j].who = "tool"
  BY <1>1, <1>4 DEF Answer, ToolMsg
<1>8. ASSUME NEW i \in (L + 2)..(L + 1 + n)
      PROVE  /\ out[i].who # "model"
             /\ \E k \in 1..(i - 1) : out[k].who = "model" /\ k + out[k].asks >= i
  BY <1>1, <1>4, <1>7, <1>8 DEF ToolMsg
<1>9. WellFormed(out)
  <2> SUFFICES ASSUME NEW i \in 1..Len(out)
               PROVE  /\ out[i].who = "model" =>
                           LET k == out[i].asks
                           IN  /\ i + k <= Len(out)
                               /\ \A j \in 1..k : out[i + j].who = "tool"
                               /\ i + k < Len(out) => out[i + k + 1].who # "tool"
                      /\ out[i].who = "tool" =>
                           \E k \in 1..(i - 1) : out[k].who = "model" /\ k + out[k].asks >= i
    BY DEF WellFormed
  <2>1. CASE i \in 1..L
    BY <1>4, <1>5, <1>6, <2>1
  <2>2. CASE i = L + 1
    <3>1. i + n = Len(out) /\ out[i].asks = n /\ out[i].who = "model"
      BY <1>1, <1>3, <1>7, <2>2
    <3>2. \A j \in 1..n : out[i + j].who = "tool"
      BY <1>7, <2>2
    <3> QED
      BY <3>1, <3>2
  <2>3. CASE i \in (L + 2)..(L + 1 + n)
    BY <1>8, <2>3
  <2> QED
    BY <1>1, <1>3, <2>1, <2>2, <2>3
<1>10. IsPrefixOf(ms, out)
  BY <1>1, <1>3, <1>4 DEF IsPrefixOf
<1> QED
  BY <1>9, <1>10 DEF out, asked

(* A final answer asks for nothing.                                        *)
LEMMA WellFormedFinal ==
  ASSUME NEW ms \in Seq(Items), WellFormed(ms)
  PROVE  WellFormed(Append(ms, Answer(0))) /\ IsPrefixOf(ms, Append(ms, Answer(0)))
<1>1. Append(ms, Answer(0)) \in Seq(Items)
  BY BatchTyped
<1>2. Answers(0) = <<>>
  BY DEF Answers
<1>3. Append(ms, Answer(0)) \o Answers(0) = Append(ms, Answer(0))
  BY <1>1, <1>2, ConcatEmptySeq
<1> QED
  BY <1>3, WellFormedBatch

LEMMA AnsweredWellFormed ==
  ASSUME TypeOK, WorkInv, WellFormed(msgs), at \in Acting
  PROVE  WellFormed(Answered) /\ IsPrefixOf(msgs, Answered)
<1>1. PICK n \in Asks : Answered = Append(msgs, Answer(n)) \o Answers(n)
  BY AnsweredBatch
<1> QED
  BY <1>1, WellFormedBatch, AgentAssumption DEF TypeOK

(* The transcripts.  Every step that writes one writes a conversation      *)
(* whose requests are answered.                                            *)
LEMMA TranscriptStep == RunInv /\ [Next]_vars => TranscriptInv'
<1> SUFFICES ASSUME RunInv, [Next]_vars PROVE TranscriptInv'
  OBVIOUS
<1>0. TypeOK /\ WorkInv /\ TranscriptsAreAnswered /\ WellFormed(msgs)
  BY DEF RunInv, TranscriptInv, TranscriptsAreAnswered
<1>a. msgs \in Seq(Items) /\ IsPrefixOf(msgs, msgs)
  BY <1>0, PrefixReflexive DEF TypeOK
<1> USE <1>0, <1>a
    DEF TranscriptInv, WorkInv, TranscriptsAreAnswered, Starting, Asking, Acting, Closing,
        Running, Goto, runVars, stepVars, outVars, histVars
<1>1. ASSUME NEW m \in {"run", "stream"}, NEW s \in BOOLEAN, NEW st \in BOOLEAN, Begin(m, s, st) PROVE TranscriptInv'
  BY <1>1, WellFormedStarts DEF Begin, Enter, User, NoResult
<1>2. ASSUME NEW s \in BOOLEAN, Resume(s) PROVE TranscriptInv'
  BY <1>2, WellFormedStarts DEF Resume, Enter, Restored, Remaining, NoResult
<1>3. ASSUME NEW b \in BOOLEAN, FireAgentStart(b) PROVE TranscriptInv'
  BY <1>3, WellFormedStarts DEF FireAgentStart, Conclude
<1>4. ASSUME NEW b \in BOOLEAN, FireMessagesBuilt(b) PROVE TranscriptInv'
  BY <1>4, WellFormedStarts DEF FireMessagesBuilt, Conclude
<1>5. ASSUME LoopTop PROVE TranscriptInv'
  BY <1>5 DEF LoopTop, Conclude
<1>6. ASSUME NEW o \in {"passes", "fails", "stops"}, FireStepStart(o) PROVE TranscriptInv'
  <2>1. CASE o = "passes"
    BY <1>6, <2>1 DEF FireStepStart
  <2>2. CASE o = "fails"
    BY <1>6, <2>2 DEF FireStepStart, Conclude
  <2>3. CASE o = "stops"
    BY <1>6, <2>3 DEF FireStepStart, Conclude
  <2> QED
    BY <2>1, <2>2, <2>3
<1>7. ASSUME NEW b \in BOOLEAN, NEW c \in BOOLEAN, FireModelCall(b, c) PROVE TranscriptInv'
  BY <1>7 DEF FireModelCall, BarrierBlocks, Saved
<1>8. ASSUME NEW n \in Asks, ModelAnswers(n) PROVE TranscriptInv'
  <2>1. work' = Append(msgs, Answer(n)) /\ UNCHANGED <<msgs, result, cp>>
    BY <1>8 DEF ModelAnswers
  <2>2. CASE n = 0
    <3>1. WellFormed(work') /\ IsPrefixOf(msgs, work') /\ at' = "stepEnd"
      BY <1>8, <2>1, <2>2, WellFormedFinal DEF ModelAnswers
    <3> QED
      BY <2>1, <3>1
  <2>3. CASE n # 0
    <3>1. at' = "toolHook"
      BY <1>8, <2>3 DEF ModelAnswers
    <3> QED
      BY <2>1, <3>1
  <2> QED
    BY <2>2, <2>3
<1>9. ASSUME ModelFails PROVE TranscriptInv'
  BY <1>9 DEF ModelFails, BodyFails
<1>10. ASSUME ModelFailsRetryable PROVE TranscriptInv'
  BY <1>10 DEF ModelFailsRetryable, BodyFails, MoreAttempts
<1>11. ASSUME RetryModel PROVE TranscriptInv'
  BY <1>11 DEF RetryModel, NextAttempt
<1>12. ASSUME RetryCanceled PROVE TranscriptInv'
  BY <1>12 DEF RetryCanceled, BodyFails
<1>13. ASSUME NEW b \in BOOLEAN, ModelPanics(b) PROVE TranscriptInv'
  BY <1>13, WellFormedStarts DEF ModelPanics, ClosesOnPanic, PanicSave, Saved
<1>14. ASSUME NEW b \in BOOLEAN, FireToolCall(b) PROVE TranscriptInv'
  <2>1. WellFormed(Answered) /\ IsPrefixOf(msgs, Answered)
    BY <1>14, AnsweredWellFormed DEF FireToolCall
  <2>2. cp'.msgs = cp.msgs \/ cp'.msgs = <<>>
    BY <1>14 DEF FireToolCall, Saved
  <2>3. \/ at' = "stepEnd" /\ work' = Answered
        \/ at' = "tools" /\ work' = work
    BY <1>14 DEF FireToolCall
  <2> QED
    BY <1>14, <2>1, <2>2, <2>3, WellFormedStarts DEF FireToolCall
<1>15. ASSUME ExecTools PROVE TranscriptInv'
  <2>1. WellFormed(Answered) /\ IsPrefixOf(msgs, Answered)
    BY <1>15, AnsweredWellFormed DEF ExecTools
  <2> QED
    BY <1>15, <2>1 DEF ExecTools
<1>16. ASSUME NEW o \in {"passes", "fails", "stops"}, NEW b \in BOOLEAN, FireStepEnd(o, b) PROVE TranscriptInv'
  BY <1>16 DEF FireStepEnd, Due, Saved, StepMessages
<1>17. ASSUME Judge PROVE TranscriptInv'
  BY <1>17 DEF Judge, Conclude
<1>18. ASSUME FireAgentEnd PROVE TranscriptInv'
  BY <1>18 DEF FireAgentEnd
<1>19. ASSUME SendTerminal PROVE TranscriptInv'
  BY <1>19 DEF SendTerminal, TerminalEvents, AfterTerminal
<1>20. ASSUME NEW b \in BOOLEAN, Consume(b) PROVE TranscriptInv'
  <2>1. cp'.msgs = cp.msgs \/ cp'.msgs = <<>>
    BY <1>20 DEF Consume, NoCp
  <2> QED
    BY <1>20, <2>1, WellFormedStarts DEF Consume
<1>21. ASSUME Cancel PROVE TranscriptInv'
  BY <1>21 DEF Cancel
<1>22. ASSUME Crash PROVE TranscriptInv'
  BY <1>22 DEF Crash
<1>23. ASSUME UNCHANGED vars PROVE TranscriptInv'
  BY <1>23 DEF vars
<1> HIDE DEF RunInv, TypeOK, TranscriptInv
<1> QED
  BY <1>1, <1>2, <1>3, <1>4, <1>5, <1>6, <1>7, <1>8, <1>9, <1>10, <1>11, <1>12, <1>13, <1>14, <1>15, <1>16, <1>17, <1>18, <1>19, <1>20, <1>21, <1>22, <1>23
     DEF Next, Runner

LEMMA PrefixEmpty == ASSUME NEW ms PROVE Len(ms) \in Nat => IsPrefixOf(<<>>, ms)
BY DEF IsPrefixOf

LEMMA PrefixAppend ==
  ASSUME NEW ms \in Seq(Items), NEW m \in Items
  PROVE  IsPrefixOf(ms, Append(ms, m))
BY AppendProperties DEF IsPrefixOf

LEMMA PrefixConcat ==
  ASSUME NEW a \in Seq(Items), NEW b \in Seq(Items)
  PROVE  IsPrefixOf(a, a \o b)
BY ConcatProperties DEF IsPrefixOf

LEMMA AnsweredExtends ==
  ASSUME TypeOK, WorkInv, at \in Acting
  PROVE  Answered \in Seq(Items) /\ IsPrefixOf(work, Answered)
<1>1. PICK n \in Asks : work = Append(msgs, Answer(n))
  BY DEF WorkInv
<1>2. msgs \in Seq(Items) /\ Answer(n) \in Items
  BY AgentAssumption DEF TypeOK, Answer, Items
<1>3. work[Len(work)] = Answer(n)
  BY <1>1, <1>2
<1>4. Answered = work \o Answers(n)
  BY <1>3 DEF Answered, Answer
<1>5. work \in Seq(Items) /\ Answers(n) \in Seq(Items)
  BY BatchTyped, AgentAssumption DEF TypeOK
<1> QED
  BY <1>4, <1>5, PrefixConcat, AnsweredTyped

(* The recovery point.  What is saved is the conversation of the moment or *)
(* the one before the step, and the conversation only grows at its end.    *)
LEMMA PrefixStep == RunInv /\ [Next]_vars => PrefixInv'
<1> SUFFICES ASSUME RunInv, [Next]_vars PROVE PrefixInv'
  OBVIOUS
<1>0. TypeOK /\ WorkInv /\ PrefixInv
  BY DEF RunInv, TranscriptInv
<1>a. /\ msgs \in Seq(Items) /\ work \in Seq(Items) /\ cp.msgs \in Seq(Items)
      /\ msgs' \in Seq(Items) /\ work' \in Seq(Items) /\ cp'.msgs \in Seq(Items)
  BY <1>0, RunTypingStep DEF TypeOK
<1> USE <1>0, <1>a
    DEF PrefixInv, RecoveryPointIsPrefix, Current, InStep, Goto, Starting, Asking, Acting, Closing,
        Running, WorkInv, runVars, stepVars, outVars, histVars
<1>1. ASSUME NEW m \in {"run", "stream"}, NEW s \in BOOLEAN, NEW st \in BOOLEAN, Begin(m, s, st) PROVE PrefixInv'
  <2>1. cp'.msgs = <<>>
    BY <1>1 DEF Begin, Enter, NoCp
  <2>2. at' = "agentStart" /\ IsPrefixOf(<<>>, msgs')
    BY <1>1, PrefixEmpty DEF Begin, Enter
  <2> QED
    BY <2>1, <2>2
<1>2. ASSUME NEW s \in BOOLEAN, Resume(s) PROVE PrefixInv'
  <2>1. cp'.msgs = msgs' /\ at' = "agentStart" /\ msgs' = cp.msgs
    BY <1>2 DEF Resume, Enter, Restored
  <2>2. IsPrefixOf(cp.msgs, cp.msgs)
    BY PrefixReflexive
  <2> QED
    BY <2>1, <2>2
<1>3. ASSUME NEW b \in BOOLEAN, FireAgentStart(b) PROVE PrefixInv'
  BY <1>3 DEF FireAgentStart, Conclude
<1>4. ASSUME NEW b \in BOOLEAN, FireMessagesBuilt(b) PROVE PrefixInv'
  BY <1>4 DEF FireMessagesBuilt, Conclude
<1>5. ASSUME LoopTop PROVE PrefixInv'
  BY <1>5 DEF LoopTop, Conclude
<1>6. ASSUME NEW o \in {"passes", "fails", "stops"}, FireStepStart(o) PROVE PrefixInv'
  <2>1. CASE o = "passes"
    BY <1>6, <2>1 DEF FireStepStart
  <2>2. CASE o = "fails"
    BY <1>6, <2>2 DEF FireStepStart, Conclude
  <2>3. CASE o = "stops"
    BY <1>6, <2>3 DEF FireStepStart, Conclude
  <2> QED
    BY <2>1, <2>2, <2>3
<1>7. ASSUME NEW b \in BOOLEAN, NEW c \in BOOLEAN, FireModelCall(b, c) PROVE PrefixInv'
  <2>1. cp'.msgs = cp.msgs \/ cp'.msgs = work
    BY <1>7 DEF FireModelCall, Saved
  <2>2. IsPrefixOf(work, work)
    BY PrefixReflexive
  <2> QED
    BY <1>7, <2>1, <2>2 DEF FireModelCall
<1>8. ASSUME NEW n \in Asks, ModelAnswers(n) PROVE PrefixInv'
  <2>1. /\ work' = Append(work, Answer(n)) /\ at' \in {"stepEnd", "toolHook"} /\ cp' = cp
        /\ at = "model"
    BY <1>8 DEF ModelAnswers
  <2>2. IsPrefixOf(work, Append(work, Answer(n))) /\ Append(work, Answer(n)) \in Seq(Items)
    BY PrefixAppend, BatchTyped, AgentAssumption
  <2>3. IsPrefixOf(cp.msgs, work)
    BY <2>1
  <2>4. IsPrefixOf(cp.msgs, Append(work, Answer(n)))
    BY <2>2, <2>3, PrefixTransitive
  <2> QED
    BY <2>1, <2>4
<1>9. ASSUME ModelFails PROVE PrefixInv'
  BY <1>9 DEF ModelFails, BodyFails
<1>10. ASSUME ModelFailsRetryable PROVE PrefixInv'
  BY <1>10 DEF ModelFailsRetryable, BodyFails, MoreAttempts
<1>11. ASSUME RetryModel PROVE PrefixInv'
  BY <1>11 DEF RetryModel, NextAttempt
<1>12. ASSUME RetryCanceled PROVE PrefixInv'
  BY <1>12 DEF RetryCanceled, BodyFails
<1>13. ASSUME NEW b \in BOOLEAN, ModelPanics(b) PROVE PrefixInv'
  BY <1>13 DEF ModelPanics, ClosesOnPanic, PanicSave, Saved
<1>14. ASSUME NEW b \in BOOLEAN, FireToolCall(b) PROVE PrefixInv'
  <2>1. cp'.msgs = cp.msgs \/ cp'.msgs = <<>>
    BY <1>14 DEF FireToolCall, Saved
  <2>2. IsPrefixOf(<<>>, work') /\ at = "toolHook" /\ at' \in {"stepEnd", "tools"}
    BY <1>14, PrefixEmpty DEF FireToolCall
  <2>3. IsPrefixOf(cp.msgs, work)
    BY <2>2
  <2>4. IsPrefixOf(cp.msgs, Answered)
    BY <2>2, <2>3, AnsweredExtends, PrefixTransitive
  <2>5. work' = work \/ work' = Answered
    BY <1>14 DEF FireToolCall
  <2> QED
    BY <2>1, <2>2, <2>3, <2>4, <2>5
<1>15. ASSUME ExecTools PROVE PrefixInv'
  <2>1. cp' = cp /\ at = "tools" /\ at' = "stepEnd" /\ work' = Answered
    BY <1>15 DEF ExecTools
  <2>2. IsPrefixOf(cp.msgs, work)
    BY <2>1
  <2>3. IsPrefixOf(cp.msgs, Answered)
    BY <2>1, <2>2, AnsweredExtends, PrefixTransitive
  <2> QED
    BY <2>1, <2>3
<1>16. ASSUME NEW o \in {"passes", "fails", "stops"}, NEW b \in BOOLEAN, FireStepEnd(o, b) PROVE PrefixInv'
  <2>1. cp'.msgs = cp.msgs \/ cp'.msgs = msgs \/ cp'.msgs = work
    BY <1>16 DEF FireStepEnd, Saved, StepMessages
  <2>2. at = "stepEnd" /\ at' = "judge" /\ work' = work
    BY <1>16 DEF FireStepEnd
  <2>3. IsPrefixOf(msgs, work) /\ IsPrefixOf(work, work) /\ IsPrefixOf(cp.msgs, work)
    BY <2>2, PrefixReflexive DEF WorkInv
  <2> QED
    BY <2>1, <2>2, <2>3
<1>17. ASSUME Judge PROVE PrefixInv'
  BY <1>17 DEF Judge, Conclude
<1>18. ASSUME FireAgentEnd PROVE PrefixInv'
  BY <1>18 DEF FireAgentEnd
<1>19. ASSUME SendTerminal PROVE PrefixInv'
  BY <1>19 DEF SendTerminal, TerminalEvents, AfterTerminal
<1>20. ASSUME NEW b \in BOOLEAN, Consume(b) PROVE PrefixInv'
  BY <1>20 DEF Consume
<1>21. ASSUME Cancel PROVE PrefixInv'
  BY <1>21 DEF Cancel
<1>22. ASSUME Crash PROVE PrefixInv'
  BY <1>22 DEF Crash
<1>23. ASSUME UNCHANGED vars PROVE PrefixInv'
  BY <1>23 DEF vars
<1> HIDE DEF RunInv, TypeOK, PrefixInv
<1> QED
  BY <1>1, <1>2, <1>3, <1>4, <1>5, <1>6, <1>7, <1>8, <1>9, <1>10, <1>11, <1>12, <1>13, <1>14, <1>15, <1>16, <1>17, <1>18, <1>19, <1>20, <1>21, <1>22, <1>23
     DEF Next, Runner

-----------------------------------------------------------------------------
(* The events.                                                             *)
LEMMA EventAdded ==
  ASSUME NEW es \in Seq(EventItems), NEW e \in EventItems
  PROVE  LET fs == es \o <<e>>
         IN  /\ fs # <<>> /\ Len(fs) = Len(es) + 1 /\ fs[Len(fs)] = e
             /\ \A i \in 1..Len(es) : fs[i] = es[i]
OBVIOUS

LEMMA BlockedAnnounced ==
  ASSUME NEW es \in Seq(EventItems)
  PROVE  LET fs == es \o <<"ask", "answer">>
         IN  /\ fs # <<>> /\ Len(fs) = Len(es) + 2
             /\ fs[Len(es) + 1] = "ask" /\ fs[Len(es) + 2] = "answer"
             /\ \A i \in 1..Len(es) : fs[i] = es[i]
OBVIOUS

LEMMA EventStep == RunInv /\ [Next]_vars => EventInv'
<1> SUFFICES ASSUME RunInv, [Next]_vars PROVE EventInv'
  OBVIOUS
<1>0. EventInv /\ ResultInv /\ sender \in BOOLEAN
  BY DEF RunInv, TypeOK
<1>a. events \in Seq(EventItems)
  BY DEF RunInv, TypeOK, EventItems
<1> USE <1>0, <1>a
    DEF EventInv, OneTerminalEventLast, Terminal, Failure, ResultInv, Goto, Starting, Asking, Acting,
        Closing, Running, Ended, NoResult, runVars, stepVars, outVars, histVars
<1>1. ASSUME NEW m \in {"run", "stream"}, NEW s \in BOOLEAN, NEW st \in BOOLEAN, Begin(m, s, st) PROVE EventInv'
  <2>1. events' = <<>> /\ at' = "agentStart"
    BY <1>1 DEF Begin, Enter
  <2> QED
    BY <2>1
<1>2. ASSUME NEW s \in BOOLEAN, Resume(s) PROVE EventInv'
  <2>1. events' = <<>> /\ at' = "agentStart"
    BY <1>2 DEF Resume, Enter
  <2> QED
    BY <2>1
<1>3. ASSUME NEW b \in BOOLEAN, FireAgentStart(b) PROVE EventInv'
  BY <1>3 DEF FireAgentStart, Conclude
<1>4. ASSUME NEW b \in BOOLEAN, FireMessagesBuilt(b) PROVE EventInv'
  BY <1>4 DEF FireMessagesBuilt, Conclude
<1>5. ASSUME LoopTop PROVE EventInv'
  BY <1>5 DEF LoopTop, Conclude
<1>6. ASSUME NEW o \in {"passes", "fails", "stops"}, FireStepStart(o) PROVE EventInv'
  <2>1. CASE o = "passes"
    BY <1>6, <2>1 DEF FireStepStart
  <2>2. CASE o = "fails"
    BY <1>6, <2>2 DEF FireStepStart, Conclude
  <2>3. CASE o = "stops"
    BY <1>6, <2>3 DEF FireStepStart, Conclude
  <2> QED
    BY <2>1, <2>2, <2>3
<1>7. ASSUME NEW b \in BOOLEAN, NEW c \in BOOLEAN, FireModelCall(b, c) PROVE EventInv'
  BY <1>7 DEF FireModelCall, BarrierBlocks, Saved
<1>8. ASSUME NEW n \in Asks, ModelAnswers(n) PROVE EventInv'
  BY <1>8 DEF ModelAnswers, AddUsage, Cost
<1>9. ASSUME ModelFails PROVE EventInv'
  BY <1>9 DEF ModelFails, BodyFails
<1>10. ASSUME ModelFailsRetryable PROVE EventInv'
  BY <1>10 DEF ModelFailsRetryable, BodyFails, MoreAttempts
<1>11. ASSUME RetryModel PROVE EventInv'
  BY <1>11 DEF RetryModel, NextAttempt
<1>12. ASSUME RetryCanceled PROVE EventInv'
  BY <1>12 DEF RetryCanceled, BodyFails
<1>13. ASSUME NEW b \in BOOLEAN, ModelPanics(b) PROVE EventInv'
  BY <1>13 DEF ModelPanics, ClosesOnPanic, PanicSave, Saved
<1>14. ASSUME NEW b \in BOOLEAN, FireToolCall(b) PROVE EventInv'
  <2>1. /\ \A i \in 1..Len(events) : events[i] \notin Terminal
        /\ \A i \in 1..Len(events) : events[i] = "answer" => i > 1 /\ events[i - 1] = "ask"
    BY <1>14 DEF FireToolCall
  <2>2. at' \in {"stepEnd", "tools"} /\ sender' = sender
    BY <1>14 DEF FireToolCall
  <2>3. CASE ~sender
    <3>1. events' = events
      BY <1>14, <2>3 DEF FireToolCall, Announce
    <3> QED
      BY <2>1, <2>2, <2>3, <3>1
  <2>4. CASE sender /\ events' = events \o <<"ask">>
    <3>1. /\ events' # <<>> /\ Len(events') = Len(events) + 1 /\ events'[Len(events')] = "ask"
          /\ \A i \in 1..Len(events) : events'[i] = events[i]
      BY <2>4, EventAdded DEF EventItems
    <3> QED
      BY <2>1, <2>2, <3>1
  <2>5. CASE sender /\ events' = events \o <<"ask", "answer">> /\ at' = "stepEnd"
    <3>1. /\ events' # <<>> /\ Len(events') = Len(events) + 2
          /\ events'[Len(events) + 1] = "ask" /\ events'[Len(events) + 2] = "answer"
          /\ \A i \in 1..Len(events) : events'[i] = events[i]
      BY <2>5, BlockedAnnounced
    <3> QED
      BY <2>1, <2>5, <3>1
  <2>6. sender => events' = events \o <<"ask">> \/ (events' = events \o <<"ask", "answer">> /\ at' = "stepEnd")
    BY <1>14 DEF FireToolCall, Announce
  <2> QED
    BY <2>3, <2>4, <2>5, <2>6
<1>15. ASSUME ExecTools PROVE EventInv'
  <2>1. /\ \A i \in 1..Len(events) : events[i] \notin Terminal
        /\ \A i \in 1..Len(events) : events[i] = "answer" => i > 1 /\ events[i - 1] = "ask"
        /\ sender => events # <<>> /\ events[Len(events)] = "ask"
    BY <1>15 DEF ExecTools
  <2>2. at' = "stepEnd" /\ sender' = sender
    BY <1>15 DEF ExecTools
  <2>3. CASE ~sender
    <3>1. events' = events
      BY <1>15, <2>3 DEF ExecTools, Announce
    <3> QED
      BY <2>1, <2>2, <2>3, <3>1
  <2>4. CASE sender
    <3>1. events' = events \o <<"answer">>
      BY <1>15, <2>4 DEF ExecTools, Announce
    <3>2. /\ events' # <<>> /\ Len(events') = Len(events) + 1 /\ events'[Len(events')] = "answer"
          /\ \A i \in 1..Len(events) : events'[i] = events[i]
      BY <3>1, EventAdded DEF EventItems
    <3>3. Len(events) \in Nat \ {0}
      BY <2>1, <2>4
    <3> QED
      BY <2>1, <2>2, <2>4, <3>2, <3>3
  <2> QED
    BY <2>3, <2>4
<1>16. ASSUME NEW o \in {"passes", "fails", "stops"}, NEW b \in BOOLEAN, FireStepEnd(o, b) PROVE EventInv'
  BY <1>16 DEF FireStepEnd, Due, Saved, StepMessages
<1>17. ASSUME Judge PROVE EventInv'
  BY <1>17 DEF Judge, Conclude
<1>18. ASSUME FireAgentEnd PROVE EventInv'
  BY <1>18 DEF FireAgentEnd
<1>19. ASSUME SendTerminal PROVE EventInv'
  <2>1. /\ \A i \in 1..Len(events) : events[i] \notin Terminal
        /\ \A i \in 1..Len(events) : events[i] = "answer" => i > 1 /\ events[i - 1] = "ask"
    BY <1>19 DEF SendTerminal
  <2>2. /\ at' \in {"consume", "done"} /\ sender' = sender /\ mode' = mode /\ result' = result
        /\ events' = IF sender THEN events \o TerminalEvents ELSE events
    BY <1>19 DEF SendTerminal, AfterTerminal
  <2>3. CASE ~sender
    BY <2>1, <2>2, <2>3
  <2>4. CASE sender
    <3> DEFINE e == IF Failure THEN "error" ELSE "finish"
    <3>1. events' = events \o <<e>> /\ e \in EventItems /\ e \in Terminal
      BY <2>2, <2>4 DEF TerminalEvents, EventItems
    <3>2. e' = e
      BY <2>2
    <3>3. e # "answer"
      OBVIOUS
    <3> HIDE DEF e
    <3>4. /\ events' # <<>> /\ Len(events') = Len(events) + 1 /\ events'[Len(events')] = e
          /\ \A i \in 1..Len(events) : events'[i] = events[i]
      BY <3>1, EventAdded
    <3>5. events'[Len(events')] = e'
      BY <3>2, <3>4
    <3> QED
      BY <2>1, <2>2, <3>1, <3>3, <3>4, <3>5 DEF e
  <2> QED
    BY <2>3, <2>4
<1>20. ASSUME NEW b \in BOOLEAN, Consume(b) PROVE EventInv'
  BY <1>20 DEF Consume
<1>21. ASSUME Cancel PROVE EventInv'
  BY <1>21 DEF Cancel
<1>22. ASSUME Crash PROVE EventInv'
  BY <1>22 DEF Crash
<1>23. ASSUME UNCHANGED vars PROVE EventInv'
  BY <1>23 DEF vars
<1> HIDE DEF RunInv, TypeOK, EventInv, ResultInv
<1> QED
  BY <1>1, <1>2, <1>3, <1>4, <1>5, <1>6, <1>7, <1>8, <1>9, <1>10, <1>11, <1>12, <1>13, <1>14, <1>15, <1>16, <1>17, <1>18, <1>19, <1>20, <1>21, <1>22, <1>23
     DEF Next, Runner

-----------------------------------------------------------------------------
(* The recovery point is given up in one place only: what is saved is      *)
(* never NoCp, whose step is below every step.                             *)
GivenUpAtTheEnd ==
  cp # NoCp /\ cp' = NoCp => mode = "resume" /\ ~Failure /\ result.why # "none"

LEMMA SavedIsSomething ==
  ASSUME NEW ms, NEW i \in Nat, NEW max
  PROVE  Saved(ms, i, max) # NoCp
<1>1. Saved(ms, i, max).step = i /\ NoCp.step = -1
  BY DEF Saved, NoCp
<1> QED
  BY <1>1

LEMMA RecoveryPointStep == RunInv /\ [Next]_vars => GivenUpAtTheEnd
<1> SUFFICES ASSUME RunInv, [Next]_vars PROVE GivenUpAtTheEnd
  OBVIOUS
<1>0. step \in Nat /\ Len(work) \in Nat /\ ResultInv
  BY AgentAssumption DEF RunInv, TypeOK
<1>1. ASSUME NEW b \in BOOLEAN, NEW c \in BOOLEAN, FireModelCall(b, c) PROVE GivenUpAtTheEnd
  BY <1>0, <1>1, SavedIsSomething DEF FireModelCall, GivenUpAtTheEnd
<1>2. ASSUME NEW b \in BOOLEAN, ModelPanics(b) PROVE GivenUpAtTheEnd
  BY <1>0, <1>2, SavedIsSomething DEF ModelPanics, PanicSave, GivenUpAtTheEnd
<1>3. ASSUME NEW b \in BOOLEAN, FireToolCall(b) PROVE GivenUpAtTheEnd
  BY <1>0, <1>3, SavedIsSomething DEF FireToolCall, GivenUpAtTheEnd
<1>4. ASSUME NEW o \in {"passes", "fails", "stops"}, NEW b \in BOOLEAN, FireStepEnd(o, b)
      PROVE  GivenUpAtTheEnd
  BY <1>0, <1>4, SavedIsSomething DEF FireStepEnd, GivenUpAtTheEnd
<1>5. ASSUME NEW b \in BOOLEAN, Consume(b) PROVE GivenUpAtTheEnd
  BY <1>0, <1>5 DEF Consume, ResultInv, Ended, GivenUpAtTheEnd
<1>6. ASSUME UNCHANGED cp PROVE GivenUpAtTheEnd
  BY <1>6 DEF GivenUpAtTheEnd
<1>7. ASSUME NEW m \in {"run", "stream"}, NEW s \in BOOLEAN, NEW st \in BOOLEAN,
             Begin(m, s, st) \/ Resume(s)
      PROVE  UNCHANGED cp
  BY <1>7 DEF Begin, Resume
<1>8. ASSUME NEW b \in BOOLEAN, FireAgentStart(b) \/ FireMessagesBuilt(b) PROVE UNCHANGED cp
  BY <1>8 DEF FireAgentStart, FireMessagesBuilt, Conclude
<1>9. ASSUME NEW o \in {"passes", "fails", "stops"}, FireStepStart(o) PROVE UNCHANGED cp
  BY <1>9 DEF FireStepStart, Conclude
<1>10. ASSUME NEW n \in Asks, ModelAnswers(n) PROVE UNCHANGED cp
  BY <1>10 DEF ModelAnswers
<1>11. CASE ModelFails \/ ModelFailsRetryable \/ RetryModel \/ RetryCanceled
  <2>1. UNCHANGED cp
    BY <1>11 DEF ModelFails, ModelFailsRetryable, RetryModel, RetryCanceled, BodyFails
  <2> QED
    BY <1>6, <2>1
<1>12. CASE LoopTop \/ ExecTools \/ Judge \/ FireAgentEnd \/ SendTerminal \/ Cancel \/ Crash
  <2>1. UNCHANGED cp
    BY <1>12 DEF LoopTop, ExecTools, Judge, FireAgentEnd, SendTerminal, Cancel, Crash, Conclude
  <2> QED
    BY <1>6, <2>1
<1>13. CASE UNCHANGED vars
  BY <1>6, <1>13 DEF vars
<1> QED
  BY <1>1, <1>2, <1>3, <1>4, <1>5, <1>6, <1>7, <1>8, <1>9, <1>10, <1>11, <1>12, <1>13
     DEF Next, Runner

-----------------------------------------------------------------------------
LEMMA RunInitially == Init => RunInv
<1> SUFFICES ASSUME Init PROVE RunInv
  OBVIOUS
<1> USE AgentAssumption DEF Init
<1>1. TypeOK
  <2>1. result \in [why : Reasons, msgs : Seq(Items), usage : Nat]
    BY DEF NoResult, Reasons
  <2>2. cp \in [msgs : Seq(Items), step : Int, max : 0..DefaultSteps]
    BY DEF NoCp
  <2>3. /\ sender \in BOOLEAN /\ streaming \in BOOLEAN /\ canceled \in BOOLEAN
        /\ final \in BOOLEAN /\ stop \in BOOLEAN /\ failed \in BOOLEAN
    OBVIOUS
  <2>4. at \in Places /\ mode \in {"run", "stream", "resume"}
    BY DEF Places
  <2>5. /\ msgs \in Seq(Items) /\ work \in Seq(Items)
        /\ events \in Seq({"ask", "answer", "finish", "error"})
    OBVIOUS
  <2>6. /\ budget \in 0..DefaultSteps /\ step \in 0..DefaultSteps /\ attempt \in 0..MaxRetries
        /\ resumes \in 0..MaxResumes /\ open \in 0..1 /\ ends \in 0..1
        /\ usage \in Nat /\ spent \in Nat
    OBVIOUS
  <2> QED
    BY <2>1, <2>2, <2>3, <2>4, <2>5, <2>6 DEF TypeOK
<1> USE DEF Starting, Asking, Acting, Closing, Running, Ended
<1>2. TranscriptInv
  BY WellFormedStarts DEF TranscriptInv, WorkInv, TranscriptsAreAnswered, NoResult, NoCp
<1>3. CountInv
  BY DEF CountInv, StepsAreClosed, InStep
<1>4. ResultInv
  BY DEF ResultInv, UsageIsSpent, NoResult
<1>5. EventInv
  BY DEF EventInv, OneTerminalEventLast
<1>6. PrefixInv
  BY DEF PrefixInv, RecoveryPointIsPrefix
<1> QED
  BY <1>1, <1>2, <1>3, <1>4, <1>5, <1>6 DEF RunInv

LEMMA RunStep == RunInv /\ [Next]_vars => RunInv'
BY RunTypingStep, TranscriptStep, CountStep, ResultStep, EventStep, PrefixStep DEF RunInv

LEMMA RunInvariant == Spec => []RunInv
BY RunInitially, RunStep, PTL DEF Spec

(* Every variable keeps its type: no step beyond the limit, no attempt     *)
(* beyond the policy, no agent_end twice.                                  *)
THEOREM RunTyping == Spec => []TypeOK
<1>1. RunInv => TypeOK
  BY DEF RunInv
<1> QED
  BY <1>1, RunInvariant, PTL

(* What a run returns, works on and saves is a conversation in which every *)
(* requested tool call has its answer, whatever hook, barrier, retry,      *)
(* panic, cancellation or crash cut a step short, and however many calls   *)
(* an answer asks for.                                                     *)
THEOREM TranscriptsAnswered == Spec => []TranscriptsAreAnswered
<1>1. RunInv => TranscriptsAreAnswered
  BY DEF RunInv, TranscriptInv
<1> QED
  BY <1>1, RunInvariant, PTL

(* Every way out of a run closes what the run opened: its step, its        *)
(* events, its usage.                                                      *)
THEOREM RunClosed == Spec => []RunIsClosed
<1>1. RunInv => RunIsClosed
  BY DEF RunInv, CountInv, ResultInv, EventInv, RunIsClosed
<1> QED
  BY <1>1, RunInvariant, PTL

(* The checkpoint holds a beginning of the conversation at every moment a  *)
(* crash may come.                                                         *)
THEOREM RecoveryPoint == Spec => []RecoveryPointIsPrefix
<1>1. RunInv => RecoveryPointIsPrefix
  BY DEF RunInv, PrefixInv
<1> QED
  BY <1>1, RunInvariant, PTL

(* No step loses the checkpoint but the end of a resumed run that has not  *)
(* failed.                                                                 *)
THEOREM RecoveryPointIsKept == Spec => RecoveryPointKept
<1>1. RunInv /\ [Next]_vars =>
        [cp # NoCp /\ cp' = NoCp => mode = "resume" /\ ~Failure /\ result.why # "none"]_vars
  BY RecoveryPointStep DEF GivenUpAtTheEnd
<1> QED
  BY <1>1, RunInvariant, PTL DEF Spec, RecoveryPointKept
=============================================================================
