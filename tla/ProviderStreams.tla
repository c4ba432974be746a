---------------------------- MODULE ProviderStreams ----------------------------
(***************************************************************************)
(* How a streamed answer travels from a model provider to the agent: the   *)
(* readers of llm/ turn what the server sends into messages, the runtime's *)
(* hookStreamReader watches for the end (core/runtime/runtime.go), and     *)
(* collectStream (engine/steploop.go) puts the answer together.            *)
(*                                                                         *)
(* A chunk is a line of the stream.  What it carries has no content here:  *)
(* a piece of text, of reasoning or of a tool call is the number of the    *)
(* chunk it came in, so an answer is whole when the numbers are.  One step *)
(* is one turn of the loop in a reader's Recv.                             *)
(***************************************************************************)
EXTENDS Naturals, Sequences, FiniteSets, SequencesExt, FiniteSetsExt

CONSTANTS Providers, ToolCalls, MaxChunks

OpenAIStyle == {"openai", "deepseek", "moonshot", "qwen", "hunyuan"}

VARIABLES
  provider,
  sent,        \* the chunks the server has sent, all of them read
  reader,      \* the reader's fields; mid: inside the loop of a Recv
  resp,        \* what collectStream has put together
  outcome,     \* open, clean or failed, as collectStream sees it
  broken,      \* the connection failed while reading (history)
  vetoed,      \* a ModelResult hook failed at the end (history)
  closed       \* the response body is closed
providerVars == <<provider, sent, reader, resp, outcome, broken, vetoed, closed>>

NoCalls == [i \in ToolCalls |-> <<>>]
Quiet == [text |-> <<>>, think |-> <<>>, calls |-> <<>>, usage |-> FALSE]

ProviderInit ==
  /\ provider \in Providers
  /\ sent = <<>>
  /\ reader = [text |-> <<>>, calls |-> NoCalls, usage |-> FALSE, stop |-> FALSE, mid |-> FALSE]
  /\ resp = Quiet
  /\ outcome = "open"
  /\ broken = FALSE /\ vetoed = FALSE /\ closed = FALSE

-----------------------------------------------------------------------------
(* What a server sends.  Silence is a chunk with nothing in it; junk is a  *)
(* line that does not decode; end is the mark of the answer's end the      *)
(* protocol has (finish_reason, [DONE], message_stop, is_end, done).       *)
Silence == [text |-> FALSE, think |-> FALSE, calls |-> {}, usage |-> FALSE,
            end |-> "no", junk |-> FALSE]
Text == [Silence EXCEPT !.text = TRUE]
Think == [Silence EXCEPT !.think = TRUE]
Usage == [Silence EXCEPT !.usage = TRUE]
Junk == [Silence EXCEPT !.junk = TRUE]
Finish == [Silence EXCEPT !.end = "finish"]
Done == [Silence EXCEPT !.end = "done"]
Fragments == {[Silence EXCEPT !.calls = {i}] : i \in ToolCalls}
AskedCalls == {[Silence EXCEPT !.calls = s] : s \in SUBSET ToolCalls \ {{}}}
WithText(cs) == {[c EXCEPT !.text = TRUE] : c \in cs}
WithEnd(cs) == {[c EXCEPT !.end = "done"] : c \in cs}

Says(p) ==
  CASE p \in OpenAIStyle ->
         {Text, Think, Junk, Usage, Finish, [Finish EXCEPT !.usage = TRUE], Done}
           \cup Fragments \cup WithText(Fragments)
    [] p = "anthropic" -> {Text, Junk, Usage, Done} \cup Fragments
    [] p = "baidu" -> LET cs == {Silence, Text} \cup Fragments
                      IN {Junk, Text} \cup Fragments \cup WithText(Fragments) \cup WithEnd(cs)
    [] p = "gemini" -> LET cs == {Text} \cup AskedCalls \cup WithText(AskedCalls)
                       IN {Junk, Usage} \cup cs \cup {[c EXCEPT !.usage = TRUE] : c \in cs}
                            \cup WithEnd(cs)
    [] p = "ollama" -> {Text, Junk, Done} \cup AskedCalls \cup WithText(AskedCalls)
                         \cup WithEnd(AskedCalls)
    [] OTHER -> {Text, Think} \cup AskedCalls \cup WithText(AskedCalls)

(* The order servers keep: nothing but the usage and [DONE] follows a      *)
(* finish_reason; a call that comes whole comes once; ERNIE streams a call *)
(* at a time; a call's fragments are not interrupted by plain text.        *)
OverAt(k) == sent[k].end # "no"
PlainText(k) == sent[k].text /\ sent[k].calls = {}
Continues(i) ==
  LET was == {k \in DOMAIN sent : i \in sent[k].calls} IN
  CASE provider \in {"gemini", "ollama"} -> was = {}
    [] provider = "baidu" -> \A j \in was, k \in DOMAIN sent :
                               j < k => sent[k].calls \in {{}, {i}}
    [] provider \in OpenAIStyle -> \A j \in was, k \in DOMAIN sent : j < k => ~PlainText(k)
    [] OTHER -> TRUE
Follows(c) ==
  /\ \A k \in DOMAIN sent :
       OverAt(k) => sent[k].end = "finish" /\ c \in {Usage, Done}
  /\ \A i \in c.calls : Continues(i)

-----------------------------------------------------------------------------
(* collectStream: the pieces are joined in the order Recv returns them; a  *)
(* call that carries an index joins the one with that index, any other is  *)
(* appended.  (Usage is noted here; collectStream itself ignores it.)      *)
AppendCall(calls, d) == Append(calls, d)
MergeStreamToolCall(calls, d) ==
  LET known == {p \in DOMAIN calls : d.keyed /\ calls[p].keyed /\ calls[p].id = d.id} IN
  IF known = {} THEN Append(calls, d)
  ELSE [calls EXCEPT ![CHOOSE p \in known : TRUE].args = @ \o d.args]
Collected(m) ==
  [text |-> resp.text \o m.text,
   think |-> resp.think \o m.think,
   calls |-> FoldLeft(MergeStreamToolCall, resp.calls, m.calls),
   usage |-> resp.usage \/ m.usage]

(* The four ways a turn of Recv's loop ends: it reads on, it returns a     *)
(* message, it returns io.EOF, it returns an error.  At io.EOF the runtime *)
(* runs the ModelResult hooks and then closes the body; a hook's error     *)
(* takes the place of io.EOF, and the body stays open, for Close has been  *)
(* made a no-op already.  After any other error collectStream closes it.   *)
ReadsOn(r) ==
  /\ reader' = [r EXCEPT !.mid = TRUE]
  /\ UNCHANGED <<resp, outcome, vetoed, closed>>
Returns(r, m) ==
  /\ reader' = [r EXCEPT !.mid = FALSE]
  /\ resp' = Collected(m)
  /\ UNCHANGED <<outcome, vetoed, closed>>
ReturnsEOF(r) ==
  /\ reader' = r
  /\ UNCHANGED resp
  /\ \/ outcome' = "clean" /\ closed' = TRUE /\ UNCHANGED vetoed
     \/ outcome' = "failed" /\ vetoed' = TRUE /\ UNCHANGED closed
ReturnsError ==
  /\ outcome' = "failed" /\ closed' = TRUE
  /\ UNCHANGED <<reader, resp, vetoed>>

-----------------------------------------------------------------------------
(* toolCallAccumulator: fragments are joined by index and flushed in the   *)
(* order of the indices, with the usage if there is one.                   *)
HasPending(r) == r.calls # NoCalls
Add(calls, s, k) == [i \in ToolCalls |-> IF i \in s THEN Append(calls[i], k) ELSE calls[i]]
AnyToolCalls(calls) ==
  [n \in 1..Cardinality({i \in ToolCalls : calls[i] # <<>>}) |->
     LET i == SetToSortSeq({j \in ToolCalls : calls[j] # <<>>}, LAMBDA a, b : a > b)[n]
     IN [id |-> i, args |-> calls[i], keyed |-> FALSE]]
SortedToolCalls(calls) ==
  [n \in 1..Cardinality({i \in ToolCalls : calls[i] # <<>>}) |->
     LET i == SetToSortSeq({j \in ToolCalls : calls[j] # <<>>}, LAMBDA a, b : a < b)[n]
     IN [id |-> i, args |-> calls[i], keyed |-> FALSE]]
FlushedMessage(r) == [Quiet EXCEPT !.calls = SortedToolCalls(r.calls), !.usage = r.usage]
AfterFlush(r) == [r EXCEPT !.calls = NoCalls, !.usage = FALSE]

(* finish_reason or [DONE]: pending calls first, then pending usage, and   *)
(* only then the end.                                                      *)
Finishes(r) ==
  \/ HasPending(r) /\ Returns(AfterFlush(r), FlushedMessage(r))
  \/ ~HasPending(r) /\ r.usage
       /\ Returns([r EXCEPT !.usage = FALSE], [Quiet EXCEPT !.usage = TRUE])
  \/ ~HasPending(r) /\ ~r.usage /\ ReturnsEOF(r)

(* Of the decoders handed to the reader only Moonshot's tolerates a line   *)
(* that does not decode.                                                   *)
ReadsPastJunk == provider = "moonshot"

(* openaiStyleStreamReader.Recv on a chunk.  Text beside a call waits      *)
(* until the calls are flushed; a plain text that flushes them takes its   *)
(* place.                                                                  *)
OpenAIRecv(c, k) ==
  LET r == [reader EXCEPT !.usage = @ \/ c.usage] IN
  \/ c.junk /\ IF ReadsPastJunk THEN ReadsOn(reader) ELSE ReturnsError
  \/ ~c.junk /\ c.end # "no" /\ Finishes([r EXCEPT !.stop = TRUE])
  \/ c.think /\ Returns(r, [Quiet EXCEPT !.think = <<k>>])
  \/ /\ c.end = "no" /\ c.calls # {}
     /\ ReadsOn([r EXCEPT !.calls = Add(@, c.calls, k),
                          !.text = IF c.text THEN Append(@, k) ELSE @])
  \/ /\ c.text /\ c.calls = {} /\ HasPending(r)
     /\ Returns([AfterFlush(r) EXCEPT !.text = <<k>>], FlushedMessage(r))
  \/ /\ c.text /\ c.calls = {} /\ ~HasPending(r)
     /\ Returns(r, [Quiet EXCEPT !.text = <<k>>])
  \/ c = Usage /\ ReadsOn(r)

(* A Recv that begins with buffered text returns it without reading.       *)
PendingText == provider \in OpenAIStyle /\ ~reader.mid /\ reader.text # <<>>
ReturnPendingText ==
  /\ outcome = "open" /\ PendingText
  /\ Returns([reader EXCEPT !.text = <<>>, !.usage = FALSE],
             [Quiet EXCEPT !.text = reader.text, !.usage = reader.usage])
  /\ UNCHANGED <<provider, sent, broken>>

(* anthropicStreamReader.Recv: text is returned as it comes and kept;      *)
(* message_stop returns everything kept, the text once more.               *)
AnthropicRecv(c, k) ==
  \/ c.junk /\ ReturnsError
  \/ c.calls # {} /\ ReadsOn([reader EXCEPT !.calls = Add(@, c.calls, k)])
  \/ c.text /\ Returns([reader EXCEPT !.text = Append(@, k)], [Quiet EXCEPT !.text = <<k>>])
  \/ c.usage /\ ReadsOn([reader EXCEPT !.usage = TRUE])
  \/ /\ c.end # "no"
     /\ LET m == [FlushedMessage(reader) EXCEPT !.text = reader.text]
            r == [AfterFlush(reader) EXCEPT !.text = <<>>, !.stop = TRUE]
        IN IF m = Quiet THEN ReturnsEOF(r) ELSE Returns(r, m)

(* baiduStreamReader.Recv: one call is pending at a time, and another one  *)
(* sends it off; is_end sends off the pending call and, with it, the text  *)
(* of its chunk.  Lines that are JSON without "data:" are left out.        *)
BaiduRecv(c, k) ==
  LET leaving == [i \in ToolCalls |-> IF c.calls # {} /\ i \notin c.calls
                                      THEN reader.calls[i] ELSE <<>>]
      staying == [i \in ToolCalls |-> IF c.calls # {} /\ i \notin c.calls
                                      THEN <<>> ELSE reader.calls[i]]
      pending == Add(staying, c.calls, k)
      m == [Quiet EXCEPT !.text = IF c.text THEN <<k>> ELSE <<>>,
                         !.calls = SortedToolCalls(leaving)]
      r == [reader EXCEPT !.calls = pending]
  IN
  \/ c.junk /\ ReadsOn(reader)
  \/ ~c.junk /\ c.end = "no" /\ IF m = Quiet THEN ReadsOn(r) ELSE Returns(r, m)
  \/ /\ c.end # "no" /\ HasPending(r)
     /\ Returns([r EXCEPT !.calls = NoCalls, !.stop = TRUE],
                [m EXCEPT !.calls = @ \o SortedToolCalls(pending)])
  \/ c.end # "no" /\ ~HasPending(r) /\ ReturnsEOF([r EXCEPT !.stop = TRUE])

(* Whole calls, as geminiCandidateToMessage and ollamaToolCallsToMessage   *)
(* make them.                                                              *)
WholeCalls(c, k) == SortedToolCalls([i \in ToolCalls |-> IF i \in c.calls THEN <<k>> ELSE <<>>])

(* geminiStreamReader.Recv: every chunk with a candidate is a message; one *)
(* without is passed over, its usage too.  finishReason is not looked at.  *)
GeminiRecv(c, k) ==
  IF c \in {Junk, Usage} THEN ReadsOn(reader)
  ELSE Returns(reader, [Quiet EXCEPT !.text = IF c.text THEN <<k>> ELSE <<>>,
                                     !.calls = WholeCalls(c, k), !.usage = c.usage])

(* ollamaStreamReader.Recv: calls first, whatever stands beside them.      *)
OllamaRecv(c, k) ==
  \/ c.junk /\ ReturnsError
  \/ c.calls # {} /\ Returns(reader, [Quiet EXCEPT !.calls = WholeCalls(c, k)])
  \/ ~c.junk /\ c.calls = {} /\ c.end # "no" /\ ReturnsEOF(reader)
  \/ c = Text /\ Returns(reader, [Quiet EXCEPT !.text = <<k>>])

(* A kernel.ChatModel of the application, whose deltas carry their index.  *)
CustomRecv(c, k) ==
  Returns(reader, [text |-> IF c.text THEN <<k>> ELSE <<>>,
                   think |-> IF c.think THEN <<k>> ELSE <<>>,
                   calls |-> SetToSeq({[id |-> i, args |-> <<k>>, keyed |-> TRUE] : i \in c.calls}),
                   usage |-> FALSE])

Recv(c) ==
  /\ outcome = "open" /\ ~PendingText
  /\ Len(sent) < MaxChunks
  /\ c \in Says(provider) /\ Follows(c)
  /\ sent' = Append(sent, c)
  /\ LET k == Len(sent) + 1 IN
     CASE provider \in OpenAIStyle -> OpenAIRecv(c, k)
       [] provider = "anthropic" -> AnthropicRecv(c, k)
       [] provider = "baidu" -> BaiduRecv(c, k)
       [] provider = "gemini" -> GeminiRecv(c, k)
       [] provider = "ollama" -> OllamaRecv(c, k)
       [] OTHER -> CustomRecv(c, k)
  /\ UNCHANGED <<provider, broken>>

(* The body ends: an error unless the reader has seen the answer's end or  *)
(* its protocol is read without one.                                       *)
EndsWithoutMark(p) == p \in {"gemini", "ollama", "custom"}
EndsAnywhere(r) == TRUE
EndsProperly(r) == r.stop
RecvEOF ==
  /\ outcome = "open" /\ ~PendingText
  /\ IF EndsWithoutMark(provider) \/ EndsProperly(reader) THEN ReturnsEOF(reader) ELSE ReturnsError
  /\ UNCHANGED <<provider, sent, broken>>

(* The connection fails.                                                   *)
RecvFails ==
  /\ outcome = "open" /\ ~PendingText
  /\ ReturnsError
  /\ broken' = TRUE
  /\ UNCHANGED <<provider, sent>>

ProviderNext ==
  \/ \E c \in Says(provider) : Recv(c)
  \/ ReturnPendingText
  \/ RecvEOF
  \/ RecvFails

ProviderSpec == ProviderInit /\ [][ProviderNext]_providerVars

-----------------------------------------------------------------------------
Indices(P(_)) == SetToSortSeq({k \in DOMAIN sent : P(sent[k])}, LAMBDA a, b : a < b)
SaidText == Indices(LAMBDA c : c.text)
Asked(i) == Indices(LAMBDA c : i \in c.calls)
Started == {i \in ToolCalls : Asked(i) # <<>>}
Terminated == \E k \in DOMAIN sent : OverAt(k)

TypeOK ==
  /\ provider \in Providers
  /\ sent \in Seq([text : BOOLEAN, think : BOOLEAN, calls : SUBSET ToolCalls,
                   usage : BOOLEAN, end : {"no", "finish", "done"}, junk : BOOLEAN])
  /\ reader.calls \in [ToolCalls -> Seq(1..MaxChunks)]
  /\ reader.text \in Seq(1..MaxChunks)
  /\ {reader.usage, reader.stop, reader.mid, broken, vetoed, closed} \subseteq BOOLEAN
  /\ outcome \in {"open", "clean", "failed"}

(* At a clean end the answer has every tool call the server asked for, each *)
(* once and with all its fragments in order; calls flushed together stand  *)
(* in the order of their indices, however the server mixed them            *)
(* (toolCallAccumulator, mergeStreamToolCall, the Recv of each reader).    *)
CallsArriveWhole ==
  outcome = "clean" =>
    /\ {<<resp.calls[p].id, resp.calls[p].args>> : p \in DOMAIN resp.calls}
         = {<<i, Asked(i)>> : i \in Started}
    /\ Len(resp.calls) = Cardinality(Started)
    /\ provider \in OpenAIStyle \cup {"anthropic"} /\ (\A k \in DOMAIN sent : ~PlainText(k)) =>
         \A p, q \in DOMAIN resp.calls : p < q => resp.calls[p].id < resp.calls[q].id

(* Text the readers are known to drop: beside a call when plain text       *)
(* follows before anything is returned (streamutil.go), in the is_end chunk *)
(* when no call is pending (baidu.go), beside a call (ollama.go).          *)
Dropped(k) ==
  \/ /\ provider \in OpenAIStyle /\ sent[k].calls # {}
     /\ \E n \in DOMAIN sent : n > k /\ PlainText(n) /\ \A j \in k..n : ~sent[j].think
  \/ provider = "baidu" /\ OverAt(k) /\ Started = {}
  \/ provider = "ollama" /\ sent[k].calls # {}

(* Text reaches the agent in the order it was said, never twice, and at a  *)
(* clean end without a gap beyond those of Dropped; Anthropic's reader     *)
(* returns it whole, and then once more (anthropic.go:610).                *)
TextArrivesInOrder ==
  IF provider = "anthropic"
  THEN outcome = "clean" => IsPrefix(SaidText, resp.text)
  ELSE /\ \A p, q \in DOMAIN resp.text : p < q => resp.text[p] < resp.text[q]
       /\ outcome = "clean" => resp.text = SelectSeq(SaidText, LAMBDA k : ~Dropped(k))

(* A stream cut short is not taken for an answer, and a stream that came   *)
(* to its end is not taken for a failure (sawTerminator, sawStop, sawEnd); *)
(* Gemini's and Ollama's readers cannot tell (google.go:393, ollama.go:317). *)
EndsAreTold ==
  /\ outcome = "clean" /\ ~EndsWithoutMark(provider) => Terminated
  /\ outcome = "failed" /\ Terminated =>
       broken \/ vetoed \/ \E k \in DOMAIN sent : sent[k].junk

(* Usage that comes before the end of the answer is returned before it     *)
(* (flushPending, takeUsage, message_stop).                                *)
UsageArrives ==
  outcome = "clean" /\ provider \in OpenAIStyle \cup {"anthropic"} =>
    \A k \in DOMAIN sent : sent[k].usage /\ (\A j \in 1..(k - 1) : ~OverAt(j)) => resp.usage

(* The body is closed when the agent is done with the stream, and not      *)
(* before, unless a ModelResult hook failed at its end.                    *)
BodyIsReleased == closed <=> (outcome # "open" /\ ~vetoed)

ReadersAreFaithful ==
  CallsArriveWhole /\ TextArrivesInOrder /\ EndsAreTold /\ UsageArrives /\ BodyIsReleased

-----------------------------------------------------------------------------
(* Not what the code does.  streamutil.go:305: a pure-text run's usage-only *)
(* chunk must reach the consumer instead of being dropped at finish; a     *)
(* finish_reason with nothing pending ends the stream before it is read.   *)
UsageReachesTheConsumer ==
  outcome = "clean" /\ provider \in OpenAIStyle =>
    \A k \in DOMAIN sent : sent[k].usage => resp.usage

(* Not what the code does: message_stop repeats the text.                  *)
TextIsSaidOnce == outcome = "clean" => Len(resp.text) <= Len(SaidText)

(* Not what the code does: after a failed hook nobody closes the body.     *)
BodyIsAlwaysReleased == outcome # "open" => closed
=============================================================================
