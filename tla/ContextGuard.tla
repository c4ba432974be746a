----------------------------- MODULE ContextGuard -----------------------------
(***************************************************************************)
(* What the modules around a step do to the messages a model is sent: the  *)
(* guard that trims a conversation over its token budget (module/guard),   *)
(* the filter that cuts long tool results (module/contextfilters), the     *)
(* reminder about repeated calls (module/repeattool) and the check before  *)
(* the call (module/msgcheck), driven by the step loop of an agent.        *)
(*                                                                         *)
(* A message has a size in characters; its text is left out.  A size is    *)
(* also a number of lines, each one character wide.                        *)
(***************************************************************************)
EXTENDS Integers, Sequences, FiniteSets, SequencesExt

CONSTANTS Setups,       \* triples: compaction strategy, summarizer or not, system prompt or not
          Budget, Reserve,           \* TokenBudget and what the summary may take of it
          Truncate, MaxLines, HeadPercent, MinPreserve,  \* ToolTruncateLength, ...
          NearBudget,                \* the budget times CompactThreshold
          SummarySizes,
          PruneThreshold, PruneHead, PruneTail,
          ResultSizes,               \* of tool results
          Tools,                     \* a tool with its normalized arguments
          Ratios,                    \* prompt tokens by estimated tokens, in halves
          Thresholds,                \* of repeattool
          MaxRuns, MaxSteps

PerToken == 2
Overhead == 1
Marker == 1

VARIABLES
  strategy, summarizer, prompted,
  msgs,       \* the transcript of the run
  phase,      \* idle, step, call
  runs, steps,
  factor,     \* emaTokens, in halves; 0 before the first calibration
  chain,      \* repeattool: the last call and how often in a row
  pending,    \* a reminder waiting for the next message list, 0 if none
  sent,       \* the message list the model was called with
  how,        \* how the guard made it: as is, near, compact, window, summary
  dropped,    \* messages the guard reported as dropped
  summarized, \* messages the summary in the first message was made from
  built,      \* the messages of the run, as <<role, id, call>> (history)
  observed,   \* calls in the order repeattool saw them (history)
  reminded    \* reminders put into a message list (history)

contextVars == <<strategy, summarizer, prompted, msgs, phase, runs, steps, factor, chain, pending,
                 sent, how, dropped, summarized, built, observed, reminded>>

None == [tool |-> "none", count |-> 0]

ContextInit ==
  /\ \E s \in Setups : strategy = s[1] /\ summarizer = s[2] /\ prompted = s[3]
  /\ msgs = <<>> /\ sent = <<>>
  /\ phase = "idle" /\ how = "as is"
  /\ runs = 0 /\ steps = 0 /\ factor = 0
  /\ chain = None /\ pending = 0
  /\ dropped = {} /\ summarized = {} /\ built = {}
  /\ observed = <<>> /\ reminded = <<>>

-----------------------------------------------------------------------------
(* EstimateTokens: characters with an overhead, by characters per token,   *)
(* times the calibration factor; both divisions round down.                *)
Larger(a, b) == IF a > b THEN a ELSE b
Smaller(a, b) == IF a < b THEN a ELSE b
Estimate(ms) ==
  LET raw == FoldLeft(LAMBDA a, m : a + m.size + m.summary + Overhead, 0, ms) \div PerToken
  IN IF factor > 0 THEN (raw * factor) \div 2 ELSE raw

(* Calibrate: the first ratio is taken as it is, a later one moves the     *)
(* factor a part of the way.                                               *)
Calibrate == \/ UNCHANGED factor
             \/ \E r \in Ratios : IF factor = 0 THEN factor' = r
                                  ELSE factor' = (3 * r + 7 * factor) \div 10

-----------------------------------------------------------------------------
(* The strategies for a long tool result.  compactSimple first cuts lines, *)
(* then characters, each to a head and a tail around a marker; the other   *)
(* two work on lines only.                                                 *)
CutSimple(size, limit, preserve) ==
  LET head == Larger((limit * HeadPercent) \div 100, Smaller(preserve, limit \div 2))
      tail == Larger(limit - head, 1)
  IN IF size > limit THEN head + Marker + tail ELSE size
CompactSimple(size) == CutSimple(CutSimple(size, MaxLines, MinPreserve), Truncate, MinPreserve)
CompactSmart(size) ==
  LET head == Larger((MaxLines * HeadPercent) \div 100, MinPreserve)
      tail == Larger(MaxLines - head, MinPreserve \div 2)
  IN IF size <= MaxLines THEN CompactSimple(size)
     ELSE Smaller(head, size) + Marker + tail
CompactSummary(size) ==
  LET kept == Smaller(Larger(MinPreserve, MaxLines \div 3), size)
  IN kept + (IF kept < size THEN Marker ELSE 0)
Compacted(size) ==
  IF size <= Truncate THEN size
  ELSE CASE strategy = "smart" -> CompactSmart(size)
         [] strategy = "summary" -> CompactSummary(size)
         [] OTHER -> CompactSimple(size)

CompactMessages(ms) ==
  [i \in DOMAIN ms |-> IF ms[i].role = "tool" THEN [ms[i] EXCEPT !.size = Compacted(@)]
                       ELSE ms[i]]

-----------------------------------------------------------------------------
(* repairToolPairing: an assistant message with calls stays with the tool  *)
(* messages right after it when every call is answered there; a tool       *)
(* message elsewhere, and an incomplete group, goes.                       *)
OwnerOf(ms, i) == CHOOSE k \in 0..i : /\ k = 0 \/ ms[k].role # "tool"
                                      /\ \A q \in k + 1..i : ms[q].role = "tool"
Answered(ms, i) == \A c \in 1..ms[i].calls :
                     \E k \in i..Len(ms) : /\ ms[k].role = "tool" /\ OwnerOf(ms, k) = i
                                           /\ ms[k].id = ms[i].id /\ ms[k].call = c
Paired(ms, i) == LET o == OwnerOf(ms, i)
                 IN /\ o # 0 /\ Answered(ms, o)
                    /\ ms[i].role = "tool" => ms[o].calls > 0
AtIndices(ms, Keep(_)) ==
  LET ks == SelectSeq([i \in 1..Len(ms) |-> i], Keep)
  IN [k \in 1..Len(ks) |-> ms[ks[k]]]
RepairsNothing(ms) == ms
Repair(ms) == AtIndices(ms, LAMBDA i : Paired(ms, i))

-----------------------------------------------------------------------------
(* Trim: compaction of the tool results, and when that is not enough the   *)
(* first message with a window of the last ones, halved until it fits or   *)
(* is down to one.                                                         *)
Window(ms, n) == <<ms[1]>> \o SubSeq(ms, Len(ms) - n + 2, Len(ms))
WindowSizeOnce(ms) ==
  Smaller(Larger((Len(ms) * Budget) \div Estimate(ms), 2), Len(ms))
WindowSize(ms) ==
  LET first == Smaller(Larger((Len(ms) * Budget) \div Estimate(ms), 2), Len(ms))
      shrink[n \in 1..Len(ms)] ==
        IF Estimate(Window(ms, n)) <= Budget \/ n <= 2 THEN n ELSE shrink[(n + 1) \div 2]
  IN shrink[first]

Trim(ms) ==
  LET c == CompactMessages(ms)
  IN CASE Estimate(ms) <= Budget -> [msgs |-> ms, how |-> "as is"]
       [] Estimate(ms) > Budget /\ Estimate(c) <= Budget -> [msgs |-> c, how |-> "compact"]
       [] OTHER -> [msgs |-> Repair(Window(c, WindowSize(c))), how |-> "window"]

(* summaryTrim: the tail that fits beside the summary stays; the head is   *)
(* summarized into the first message, in the place of the summary before.  *)
TailCount(ms) ==
  LET cost(n) == FoldLeft(LAMBDA a, m : a + Estimate(<<m>>), 0,
                          SubSeq(ms, Len(ms) - n + 1, Len(ms)))
      fits == {n \in 0..Len(ms) - 1 : cost(n) <= Larger(Budget - Reserve, 1)}
  IN CHOOSE n \in fits : \A k \in fits : k <= n
HeadOf(ms, kept) == SubSeq(ms, 2, Len(ms) - kept)
Merged(ms, kept, size) ==
  Repair(<<[ms[1] EXCEPT !.summary = size]>> \o SubSeq(ms, Len(ms) - kept + 1, Len(ms)))

-----------------------------------------------------------------------------
(* The guard's onStepStart.                                                *)
OverBudget == Estimate(msgs) > Budget
Gone(after) == ToSet(msgs) \ ToSet(after)
Sends(ms, h) == /\ phase = "step" /\ phase' = "call"
                /\ msgs' = ms /\ sent' = ms /\ how' = h
                /\ UNCHANGED <<strategy, summarizer, prompted, runs, steps, factor, chain,
                               pending, built, observed, reminded>>

StepFits ==
  /\ ~OverBudget /\ UNCHANGED <<dropped, summarized>>
  /\ IF Estimate(msgs) > NearBudget THEN Sends(CompactMessages(msgs), "near")
     ELSE Sends(msgs, "as is")
StepTrims ==
  /\ OverBudget /\ ~summarizer
  /\ LET t == Trim(msgs)
     IN /\ Sends(CompactMessages(t.msgs), t.how)
        /\ dropped' = dropped \cup Gone(CompactMessages(t.msgs))
  /\ UNCHANGED summarized
StepSummarizes ==
  /\ OverBudget /\ summarizer /\ Len(msgs) >= 3
  /\ LET kept == TailCount(msgs)
     IN /\ kept < Len(msgs) - 1
        /\ \E size \in SummarySizes :
             /\ Sends(Merged(msgs, kept, size), "summary")
             /\ dropped' = dropped \cup Gone(Merged(msgs, kept, size))
        /\ summarized' = ToSet(HeadOf(msgs, kept))
StepSummaryFails ==
  /\ OverBudget /\ summarizer /\ Len(msgs) >= 3
  /\ LET t == Trim(msgs) IN Sends(t.msgs, t.how) /\ dropped' = dropped \cup Gone(t.msgs)
  /\ UNCHANGED summarized
StepTooShort ==
  /\ OverBudget /\ summarizer /\ Len(msgs) < 3
  /\ Sends(msgs, "short") /\ UNCHANGED <<dropped, summarized>>

-----------------------------------------------------------------------------
(* A run starts: the prompt, what the hooks add and the input become the   *)
(* messages, all system messages collapsed into the first.                 *)
Message(role, id, call, calls, size) ==
  [role |-> role, id |-> id, call |-> call, calls |-> calls, size |-> size, summary |-> 0]
Keys(ms) == {<<ms[i].role, ms[i].id, ms[i].call>> : i \in 1..Len(ms)}
StartRun ==
  /\ phase = "idle" /\ runs < MaxRuns
  /\ runs' = runs + 1 /\ phase' = "step"
  /\ LET sections == (IF prompted THEN 1 ELSE 0) + (IF pending > 0 THEN 1 ELSE 0)
         system == IF sections = 0 THEN <<>> ELSE <<Message("system", 0, 0, 0, sections)>>
     IN msgs' = system \o <<Message("user", steps, 0, 0, 1)>>
  /\ pending' = 0
  /\ reminded' = IF pending > 0 THEN Append(reminded, pending) ELSE reminded
  /\ dropped' = {} /\ summarized' = {}
  /\ built' = Keys(msgs')
  /\ UNCHANGED <<strategy, summarizer, prompted, steps, factor, chain, sent, how, observed>>

(* repeattool.observe: another call resets the chain, a threshold that is  *)
(* met exactly leaves a reminder.                                          *)
NextChainStale(ch, t) == [tool |-> t, count |-> ch.count + 1]
NextChain(ch, t) == IF ch.tool \in {t, "none"} THEN [tool |-> t, count |-> ch.count + 1]
                    ELSE [tool |-> t, count |-> 1]
Observe(tools) ==
  LET chains[i \in 0..Len(tools)] == IF i = 0 THEN chain ELSE NextChain(chains[i - 1], tools[i])
      met == {i \in 1..Len(tools) : chains[i].count \in Thresholds /\ chains[i].count > 1}
  IN /\ chain' = chains[Len(tools)]
     /\ pending' = IF met = {} THEN pending
                   ELSE chains[CHOOSE i \in met : \A k \in met : k <= i].count
     /\ observed' = observed \o tools

(* contextfilters: a result over the threshold keeps a head and a tail.    *)
Pruned(size) == IF size > PruneThreshold THEN PruneHead + Marker + PruneTail ELSE size

(* msgcheck: one system message at most, in the first place.               *)
SingleSystem(ms) == \A i \in 1..Len(ms) : ms[i].role = "system" => i = 1

(* The model answers, with a batch of calls or without; the results of the *)
(* batch follow the answer.                                                *)
ModelAnswers(sizes, tools) ==
  /\ SingleSystem(sent) /\ steps < MaxSteps
  /\ Calibrate /\ steps' = steps + 1
  /\ msgs' = msgs \o <<Message("assistant", steps, 0, Len(sizes), 1)>>
                  \o [c \in 1..Len(sizes) |-> Message("tool", steps, c, 0, Pruned(sizes[c]))]
  /\ Observe(tools) /\ built' = built \cup Keys(msgs')
  /\ phase' = IF sizes = <<>> THEN "idle" ELSE "step"
  /\ UNCHANGED <<strategy, summarizer, prompted, runs, sent, how, dropped, summarized, reminded>>
ModelRefused ==
  /\ phase = "call" /\ phase' = "idle"
  /\ UNCHANGED <<strategy, summarizer, prompted, msgs, runs, steps, factor, chain, pending, sent,
                 how, dropped, summarized, built, observed, reminded>>

ContextNext ==
  \/ StartRun
  \/ StepFits \/ StepTrims \/ StepSummarizes \/ StepSummaryFails \/ StepTooShort
  \/ /\ phase = "call"
     /\ \E n \in 0..2 : \E sizes \in [1..n -> ResultSizes], tools \in [1..n -> Tools] :
          ModelAnswers(sizes, tools)
  \/ ModelRefused

ContextSpec == ContextInit /\ [][ContextNext]_contextVars

-----------------------------------------------------------------------------
ContextTypeOK ==
  /\ strategy \in {"simple", "smart", "summary"} /\ {summarizer, prompted} \subseteq BOOLEAN
  /\ \A i \in 1..Len(msgs) :
       /\ msgs[i].role \in {"system", "user", "assistant", "tool"}
       /\ msgs[i].size \in Nat /\ msgs[i].summary \in {0} \cup SummarySizes
  /\ phase \in {"idle", "step", "call"} /\ runs \in 0..MaxRuns /\ steps \in 0..MaxSteps
  /\ factor \in Nat /\ chain.tool \in Tools \cup {"none"}
  /\ pending \in {0} \cup Thresholds

(* Whatever is trimmed, compacted or summarized, the model is sent a       *)
(* conversation in which every call of an assistant message is answered    *)
(* right after it, no result stands without its call, and a system message *)
(* comes first (repairToolPairing, summaryTrim, collapseSystem).           *)
RequestsAreWellFormed ==
  phase = "call" => /\ SingleSystem(sent)
                    /\ \A i \in 1..Len(sent) : Paired(sent, i)
                    /\ sent # <<>>

(* A conversation that was trimmed fits the budget, or is down to the      *)
(* first message and one more (Trim's loop), and one that was summarized   *)
(* keeps no more than fits beside the summary, up to the rounding of each  *)
(* message's estimate.                                                     *)
TrimmedFits ==
  phase = "call" =>
    /\ how \in {"compact", "window"} => Estimate(sent) <= Budget \/ Len(sent) <= 2
    /\ how = "summary" =>
         Estimate(Tail(sent)) <= Larger(Budget - Reserve, 1) + 2 * Len(sent)

(* No message leaves the conversation unnoticed: each one built or added   *)
(* in this run is still there, in full or in a shorter form, or was among  *)
(* those reported to OnTrim (droppedMessages after Trim, repairToolPairing *)
(* and compactMessages).                                                   *)
LeavesAreReported ==
  built \subseteq Keys(msgs) \cup {<<m.role, m.id, m.call>> : m \in dropped}

(* The summary carries the dropped history forward (guard.go:222, :370).   *)
(* Not kept: the next summary replaces this one without having seen it,    *)
(* and a tool result whose call went into the head is in neither.          *)
SummaryCarriesHistory ==
  how = "summary" =>
    \A k \in built : k \in Keys(msgs) \/ \E m \in summarized : k = <<m.role, m.id, m.call>>

(* A reminder is in the messages of the next step of the run it is about   *)
(* (repeattool.go:53).  Not kept: OnMessagesBuilt fires once, when a run   *)
(* starts.                                                                 *)
RemindersReachTheRun == phase = "call" => pending = 0

(* The count of the repeat chain is the number of equal calls in a row,    *)
(* across batches and runs, and every reminder that reached a message list *)
(* was earned by that many.                                                *)
InARow(n) == LET end == Len(observed)
             IN n <= end /\ \A i \in end - n + 1..end : observed[i] = observed[end]
RemindersAreEarned ==
  /\ chain.count > 0 => InARow(chain.count) /\ ~InARow(chain.count + 1)
  /\ \A i \in 1..Len(reminded) : \E e \in 1..Len(observed) :
       \A k \in e - reminded[i] + 1..e : k > 0 /\ observed[k] = observed[e]
=============================================================================
