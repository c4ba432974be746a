----------------------------- MODULE ProviderCalls -----------------------------
(***************************************************************************)
(* One call of a model provider (llm/): the conversation is put into the   *)
(* provider's form and sent, and what comes back is turned into a message  *)
(* or an error, which kernel.IsRetryableError judges.  Baidu's calls first *)
(* need an access token, which the model shares between its callers.       *)
(*                                                                         *)
(* Texts and images are told apart by the number of the message they come  *)
(* from; tools, options and formats are left out.  Streams are opened here *)
(* and read in ProviderStreams.                                            *)
(***************************************************************************)
EXTENDS Integers, Sequences, FiniteSets, SequencesExt

CONSTANTS Callers, Providers,
          Histories,   \* conversations a caller may send
          Lifetimes,   \* expires_in of a granted token
          Margin,      \* the seconds getAccessToken takes off
          MaxClock, MaxTokens

VARIABLES
  provider, streams,   \* the provider of the calls, and whether they stream
  history,             \* the conversation
  phase,               \* idle, token, lock, refreshing, ready, done
  request,             \* the messages sent, by caller
  result,              \* what the caller got
  fate,                \* what became of the request (history)
  key,                 \* the token the request carries, 0 if none
  token, expires,      \* BaiduModel.accessToken and tokenExpires
  holder,              \* who holds BaiduModel.mu for writing
  clock,
  needless             \* a token was fetched while the last was good (history)
callVars == <<provider, streams, history, phase, request, result, fate, key>>
tokenVars == <<token, expires, holder, clock, needless>>
providerCallVars == <<callVars, tokenVars>>

Nobody == "nobody"
Classified == {"openai", "deepseek", "moonshot"}
OpenAIFamily == Classified \cup {"qwen", "hunyuan"}

-----------------------------------------------------------------------------
(* A message of the conversation: its role, the calls an assistant made,   *)
(* the call a tool result answers, and whether it has an image besides its *)
(* text.  A user's text and image are content parts both; a tool result    *)
(* with an image has its text in Content, too.  A message on the wire says *)
(* texts and images; link is the call it answers by id.                    *)
T(k) == <<"text", k>>
I(k) == <<"image", k>>
Parts(m, k) == IF m.media THEN <<T(k), I(k)>> ELSE <<T(k)>>
Content(m, k) == IF m.media /\ m.role # "tool" THEN <<>> ELSE <<T(k)>>
Wire(role, says, calls, link) == [role |-> role, says |-> says, calls |-> calls, link |-> link]
Same(m, k) == Wire(m.role, Parts(m, k), m.calls, m.answers)

(* OpenAI takes images from users only: a tool result with one is split.   *)
OpenAIMessages(m, k) ==
  IF m.role = "tool" /\ m.media
  THEN <<Wire("tool", <<T(k)>>, <<>>, m.answers), Wire("user", <<I(k)>>, <<>>, 0)>>
  ELSE <<Same(m, k)>>
DeepSeekMessages(m, k) == <<Same(m, k)>>
MoonshotMessages(m, k) == <<Same(m, k)>>
QwenMessages(m, k) == <<Same(m, k)>>
HunyuanMessages(m, k) == <<Same(m, k)>>
(* A tool result is a user's block linked by id; its image stays behind.   *)
AnthropicMessages(m, k) ==
  IF m.role = "tool" THEN <<Wire("user", Content(m, k), <<>>, m.answers)>>
  ELSE <<Wire(m.role, Parts(m, k), m.calls, 0)>>
(* A result names its tool, not its call, and says its text once in a part *)
(* and once in the response.                                               *)
GeminiMessages(m, k) ==
  IF m.role = "tool" THEN <<Wire("function", Append(Parts(m, k), T(k)), <<>>, 0)>>
  ELSE <<Wire(IF m.role = "assistant" THEN "model" ELSE m.role, Parts(m, k), m.calls, 0)>>
(* No calls, no parts; results come as a user's text.                      *)
BaiduMessages(m, k) ==
  <<Wire(IF m.role = "tool" THEN "user" ELSE m.role, Content(m, k), <<>>, 0)>>
OllamaMessages(m, k) == <<Wire(m.role, Parts(m, k), m.calls, 0)>>

Converted(h, Messages(_, _), OfRole(_)) ==
  FlattenSeq([k \in 1..Len(h) |-> IF OfRole(h[k].role) THEN Messages(h[k], k) ELSE <<>>])
EveryRole(role) == TRUE
Chat(role) == role # "system"

(* Three providers get the texts of the system messages as one.            *)
SystemAt(h) == SelectSeq([k \in 1..Len(h) |-> k], LAMBDA k : h[k].role = "system")
FirstSystemText(h) == LET first == SubSeq(SystemAt(h), 1, 1) IN [n \in DOMAIN first |-> T(first[n])]
SystemTexts(h) == [n \in 1..Len(SystemAt(h)) |-> T(SystemAt(h)[n])]
System(texts) == IF texts = <<>> THEN <<>> ELSE <<Wire("system", texts, <<>>, 0)>>
AnthropicRequest(h) == System(SystemTexts(h)) \o Converted(h, AnthropicMessages, Chat)
GeminiRequest(h) == System(SystemTexts(h)) \o Converted(h, GeminiMessages, Chat)
BaiduRequest(h) == System(SystemTexts(h)) \o Converted(h, BaiduMessages, Chat)

Request(h) ==
  CASE provider = "openai" -> Converted(h, OpenAIMessages, EveryRole)
    [] provider = "deepseek" -> Converted(h, DeepSeekMessages, EveryRole)
    [] provider = "moonshot" -> Converted(h, MoonshotMessages, EveryRole)
    [] provider = "qwen" -> Converted(h, QwenMessages, EveryRole)
    [] provider = "hunyuan" -> Converted(h, HunyuanMessages, EveryRole)
    [] provider = "anthropic" -> AnthropicRequest(h)
    [] provider = "gemini" -> GeminiRequest(h)
    [] provider = "baidu" -> BaiduRequest(h)
    [] provider = "ollama" -> Converted(h, OllamaMessages, EveryRole)

-----------------------------------------------------------------------------
(* An error: the class of the ModelError in its chain, if there is one,    *)
(* and whether the caller's cancellation is in it.                         *)
Error(class, cancelled) == [class |-> class, cancelled |-> cancelled]
None == Error("none", FALSE)
Plain == Error("plain", FALSE)

(* What may become of a request: the context is cancelled, the server is   *)
(* not reached, it throttles (429), fails (5xx) or refuses (4xx), the body *)
(* breaks off or does not decode, it is an error, it has no answer in it,  *)
(* or it is an answer.                                                     *)
Fates == {"cancelled", "unreachable", "throttled", "broken", "refused",
          "torn", "garbled", "error", "empty", "answer"}
Transient == {"unreachable", "throttled", "broken"}
Unsent == {"cancelled", "unreachable"}
Statuses == {"throttled", "broken", "refused"}

(* transportError, apiError and apiErrorf.                                 *)
TransportError(f) == Error("retryable", f = "cancelled")
ApiError(f) == Error(IF f \in {"throttled", "broken"} THEN "retryable" ELSE "permanent", FALSE)

(* doRequest and doRequestRaw, as long as the body is not looked into.     *)
ClassifiedFailure(f) == IF f \in Unsent THEN TransportError(f) ELSE ApiError(f)
PlainFailure(f) == Error("plain", f = "cancelled")
OpenAIFailure(f) == ClassifiedFailure(f)
DeepSeekFailure(f) == ClassifiedFailure(f)
MoonshotFailure(f) == ClassifiedFailure(f)
QwenFailure(f) == PlainFailure(f)
HunyuanFailure(f) == PlainFailure(f)
AnthropicFailure(f) == PlainFailure(f)
GeminiFailure(f) == PlainFailure(f)
BaiduFailure(f) == PlainFailure(f)
OllamaFailure(f) == PlainFailure(f)
Failure(f) ==
  CASE provider = "openai" -> OpenAIFailure(f)
    [] provider = "deepseek" -> DeepSeekFailure(f)
    [] provider = "moonshot" -> MoonshotFailure(f)
    [] provider = "qwen" -> QwenFailure(f)
    [] provider = "hunyuan" -> HunyuanFailure(f)
    [] provider = "anthropic" -> AnthropicFailure(f)
    [] provider = "gemini" -> GeminiFailure(f)
    [] provider = "baidu" -> BaiduFailure(f)
    [] provider = "ollama" -> OllamaFailure(f)

(* What Generate makes of a body that decodes: of an error, of a response  *)
(* with no answer, and of an answer with a text, a reasoning and two calls. *)
(* A message is the set of what it carries; "nil" is no message at all.    *)
Failed == [error |-> Plain, message |-> {}]
Got(m) == [error |-> None, message |-> m]
Answer == {"text", "think", "call1", "call2"}
OpenAIKeeps == Answer \ {"think"}
DeepSeekKeeps == Answer
MoonshotKeeps == Answer
QwenKeeps == Answer
HunyuanKeeps == Answer
AnthropicKeeps == Answer \ {"think"}
GeminiKeeps == Answer \ {"think"}
OllamaKeeps == Answer \ {"think"}
OpenAIReply(f) == IF f = "answer" THEN Got(OpenAIKeeps) ELSE Failed
DeepSeekReply(f) == IF f = "answer" THEN Got(DeepSeekKeeps) ELSE Failed
MoonshotReply(f) == IF f = "answer" THEN Got(MoonshotKeeps) ELSE Failed
QwenReply(f) == IF f = "answer" THEN Got(QwenKeeps) ELSE Failed
HunyuanReply(f) == IF f = "answer" THEN Got(HunyuanKeeps) ELSE Failed
GeminiReply(f) == IF f = "answer" THEN Got(GeminiKeeps) ELSE Failed
AnthropicReply(f) == Got(IF f = "answer" THEN AnthropicKeeps ELSE {})
OllamaReply(f) == Got(IF f = "answer" THEN OllamaKeeps ELSE {"nil"})
BaiduReply(f) ==
  IF f = "error" THEN Failed ELSE Got(IF f = "answer" THEN {"text", "call1"} ELSE {})
Reply(f) ==
  CASE provider = "openai" -> OpenAIReply(f)
    [] provider = "deepseek" -> DeepSeekReply(f)
    [] provider = "moonshot" -> MoonshotReply(f)
    [] provider = "qwen" -> QwenReply(f)
    [] provider = "hunyuan" -> HunyuanReply(f)
    [] provider = "anthropic" -> AnthropicReply(f)
    [] provider = "gemini" -> GeminiReply(f)
    [] provider = "baidu" -> BaiduReply(f)
    [] provider = "ollama" -> OllamaReply(f)

(* kernel.IsRetryableError on these errors.                                *)
ClassFirst(e) == e.class = "retryable" \/ (e.class # "permanent" /\ ~e.cancelled)
IsRetryable(e) == ~e.cancelled /\ e.class # "permanent"

-----------------------------------------------------------------------------
ProviderCallInit ==
  /\ provider \in Providers /\ streams \in BOOLEAN /\ history \in Histories
  /\ phase = [c \in Callers |-> "idle"]
  /\ request = [c \in Callers |-> <<>>]
  /\ result = [c \in Callers |-> Got({})]
  /\ fate = [c \in Callers |-> "none"]
  /\ key = [c \in Callers |-> 0]
  /\ token = 0 /\ expires = 0
  /\ holder = Nobody
  /\ clock = 0
  /\ needless = FALSE

Fresh == token # 0 /\ clock < expires

(* Generate and Stream build the request; Baidu's is not sent before there *)
(* is a token.  Calls of the others share nothing: one stands for all.     *)
Call(c) ==
  /\ phase[c] = "idle"
  /\ provider = "baidu" \/ c = CHOOSE d \in Callers : TRUE
  /\ request' = [request EXCEPT ![c] = Request(history)]
  /\ phase' = [phase EXCEPT ![c] = IF provider = "baidu" THEN "token" ELSE "ready"]
  /\ UNCHANGED <<provider, streams, history, result, fate, key, tokenVars>>

(* getAccessToken looks at the cache under the read lock, and again under  *)
(* the write lock, which it keeps while it fetches a token.                *)
UseToken(c) ==
  /\ key' = [key EXCEPT ![c] = token]
  /\ phase' = [phase EXCEPT ![c] = "ready"]
  /\ UNCHANGED holder
ReadToken(c) ==
  /\ phase[c] = "token" /\ holder = Nobody
  /\ \/ Fresh /\ UseToken(c)
     \/ ~Fresh /\ phase' = [phase EXCEPT ![c] = "lock"] /\ UNCHANGED <<key, holder>>
  /\ UNCHANGED <<provider, streams, history, request, result, fate,
                 token, expires, clock, needless>>
Fetch(c) ==
  /\ holder' = c
  /\ phase' = [phase EXCEPT ![c] = "refreshing"]
  /\ needless' = (needless \/ Fresh)
  /\ UNCHANGED key
LockUnchecked(c) ==
  /\ phase[c] = "lock" /\ holder = Nobody /\ Fetch(c)
  /\ UNCHANGED <<provider, streams, history, request, result, fate, token, expires, clock>>
LockToken(c) ==
  /\ phase[c] = "lock" /\ holder = Nobody
  /\ \/ Fresh /\ UseToken(c) /\ UNCHANGED needless
     \/ ~Fresh /\ Fetch(c)
  /\ UNCHANGED <<provider, streams, history, request, result, fate, token, expires, clock>>

Refreshed(c, life) ==
  /\ phase[c] = "refreshing" /\ token < MaxTokens
  /\ token' = token + 1
  /\ expires' = clock + life - Margin
  /\ key' = [key EXCEPT ![c] = token + 1]
  /\ phase' = [phase EXCEPT ![c] = "ready"]
  /\ holder' = Nobody
  /\ UNCHANGED <<provider, streams, history, request, result, fate, clock, needless>>
RefreshFails(c) ==
  /\ phase[c] = "refreshing"
  /\ \E stop \in BOOLEAN :
       result' = [result EXCEPT ![c] = [error |-> Error("plain", stop), message |-> {}]]
  /\ phase' = [phase EXCEPT ![c] = "done"]
  /\ holder' = Nobody
  /\ UNCHANGED <<provider, streams, history, request, fate, key,
                 token, expires, clock, needless>>

(* The request's fate.  A stream is handed out as soon as the status is    *)
(* good; Generate reads the body first.                                    *)
Answered(c, f) ==
  /\ phase[c] = "ready"
  /\ phase' = [phase EXCEPT ![c] = "done"]
  /\ fate' = [fate EXCEPT ![c] = f]
  /\ result' = [result EXCEPT ![c] =
       IF f \in Unsent \cup Statuses THEN [error |-> Failure(f), message |-> {}]
       ELSE IF streams THEN Got({"stream"})
       ELSE IF f \in {"torn", "garbled"} THEN Failed
       ELSE Reply(f)]
  /\ UNCHANGED <<provider, streams, history, request, key, tokenVars>>

Tick ==
  /\ clock < MaxClock /\ provider = "baidu"
  /\ clock' = clock + 1
  /\ UNCHANGED <<callVars, token, expires, holder, needless>>

ProviderCallNext ==
  \/ \E c \in Callers :
       \/ Call(c) \/ ReadToken(c) \/ LockToken(c) \/ RefreshFails(c)
       \/ \E life \in Lifetimes : Refreshed(c, life)
       \/ \E f \in Fates : Answered(c, f)
  \/ Tick

ProviderCallSpec == ProviderCallInit /\ [][ProviderCallNext]_providerCallVars

-----------------------------------------------------------------------------
TypeOK ==
  /\ provider \in Providers /\ history \in Histories
  /\ \A c \in Callers :
       /\ phase[c] \in {"idle", "token", "lock", "refreshing", "ready", "done"}
       /\ key[c] \in 0..token
       /\ fate[c] \in Fates \cup {"none"}
       /\ result[c].error.class \in {"none", "plain", "retryable", "permanent"}
  /\ token \in 0..MaxTokens /\ expires \in Int /\ clock \in 0..MaxClock
  /\ holder \in Callers \cup {Nobody}

Sent(c) == UNION {ToSet(request[c][n].says) : n \in DOMAIN request[c]}
Links(p) == p \in OpenAIFamily \cup {"anthropic"}
Results == {k \in DOMAIN history : history[k].role = "tool"}
Interrupted(c, n) ==
  request[c][n].link # 0 /\ n > 1 /\ request[c][n - 1].link = 0 /\ request[c][n - 1].calls = <<>>

(* What is sent is the conversation: every text and every image of it, in  *)
(* order, and with the providers that link results by id every result      *)
(* after the message that made its call and next to the other results      *)
(* (messagesToX).  Baidu takes no parts, Anthropic no image of a result,   *)
(* and OpenAI's images come between the results.                           *)
ConversationIsSent ==
  \A c \in Callers : phase[c] # "idle" =>
    LET sent == request[c]
        chat == {n \in DOMAIN sent : sent[n].role # "system"} IN
    /\ \A k \in DOMAIN history :
         /\ T(k) \in Sent(c) \/ (provider = "baidu" /\ history[k].media)
         /\ history[k].media =>
              \/ I(k) \in Sent(c) \/ provider = "baidu"
              \/ provider = "anthropic" /\ k \in Results
    /\ \A n, o \in chat : n < o =>
         \A x \in ToSet(sent[n].says), y \in ToSet(sent[o].says) : x[2] <= y[2]
    /\ Links(provider) => \A k \in Results : \E n \in chat :
         /\ T(k) \in ToSet(sent[n].says) /\ sent[n].link = history[k].answers
         /\ \E o \in chat : o < n /\ sent[n].link \in ToSet(sent[o].calls)
         /\ provider # "openai" => ~Interrupted(c, n)

(* What failed for the moment is tried again whatever the provider, what   *)
(* the caller cancelled never is, wrapped as it may be, and a refusal is   *)
(* final with the providers that classify their errors (errorsutil.go,     *)
(* kernel.IsRetryableError).                                               *)
ErrorsAreJudged ==
  \A c \in Callers : phase[c] = "done" =>
    LET e == result[c].error IN
    /\ fate[c] \in Transient => IsRetryable(e)
    /\ fate[c] = "cancelled" => ~IsRetryable(e)
    /\ fate[c] = "refused" /\ provider \in Classified => ~IsRetryable(e)
    /\ fate[c] = "answer" => e = None
    /\ fate[c] \in Unsent \cup Statuses => e # None

(* A token is fetched only when the cached one is not good any more,       *)
(* however many callers find it gone at once (getAccessToken's second      *)
(* look), and no request is sent without one.                              *)
TokensAreShared ==
  /\ ~needless
  /\ provider = "baidu" => \A c \in Callers :
       phase[c] = "ready" \/ fate[c] # "none" => key[c] # 0

CallsAreFaithful == ConversationIsSent /\ ErrorsAreJudged /\ TokensAreShared

-----------------------------------------------------------------------------
(* Not what the code does.  errorsutil.go:13: a status that is neither 429 *)
(* nor 5xx is permanent; six of the nine providers do not classify, and an *)
(* error nobody classified is retried.                                     *)
RefusalsAreFinal ==
  \A c \in Callers : fate[c] = "refused" => ~IsRetryable(result[c].error)

(* Not what the code does: a user message with the image of a result comes *)
(* between that result and the next of the same batch.                     *)
ResultsFollowTheirCalls ==
  \A c \in Callers : Links(provider) => \A n \in DOMAIN request[c] : ~Interrupted(c, n)
=============================================================================
