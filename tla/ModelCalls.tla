------------------------------ MODULE ModelCalls ------------------------------
(***************************************************************************)
(* The way of a model call through the retry middleware                    *)
(* (middleware/retry), the model router (modelrouter) and the rate         *)
(* limiters and timeouts of its routes (middleware/ratelimiter,            *)
(* core/kernel/resilience.go).                                             *)
(*                                                                         *)
(* Calls run concurrently and share the router's counter and the limiters. *)
(* A pass is one run of the router; the middleware repeats a pass that     *)
(* failed with a retryable error.  What the provider, or the breaker of    *)
(* the route (CircuitBreaker), answers is any of its outcomes.             *)
(*                                                                         *)
(* A call ends in a message or, for a stream, in an open stream whose      *)
(* context lives until Close.                                              *)
(***************************************************************************)
EXTENDS Integers, Sequences, FiniteSets, SequencesExt

CONSTANTS Callers,
          Routes,      \* sequence of [weight, timed, limited]: the router's routes
          Setups,      \* triples of a routing strategy, a retry mode and a kind of call
          Answers,     \* what a provider, or the breaker before it, may answer
          MaxRetries,  \* Middleware.MaxRetries
          MaxRepeats,  \* bound on the repeated passes of all the calls
          BaseDelay, MaxDelay,
          Width,       \* bits of a time.Duration
          Capacity, MaxRefills

Idx == 1..Len(Routes)

VARIABLES
  strategy, mode,
  kind,      \* generate or stream
  counter,   \* ModelRouter.counter
  tokens,    \* Limiter.tokens, whole ones, by route
  refills,   \* tokens added so far
  phase,     \* idle, routing, racing, backoff, streaming, done, failed
  attempt,   \* the middleware's attempt
  route,     \* the route the pass has come to
  errs,      \* errors of the pass, as they are joined
  flight,    \* routes of a race still running
  stopped,   \* the caller cancelled the call
  source,    \* the route the call's message or stream came from, 0 if none
  broken,    \* the stream ended by its context
  delays,    \* waits between the passes (history)
  passes,    \* the errors each pass returned (history)
  picks,     \* routes the counter picked, in order (history)
  admitted,  \* calls each limiter let through (history)
  leaked     \* streams opened by losers of a race (history)

sharedVars == <<strategy, mode, kind, counter, tokens, refills>>
callVars == <<phase, attempt, route, errs, flight, stopped, source, broken>>
logVars == <<delays, passes, picks, admitted, leaked>>
modelCallVars == <<sharedVars, callVars, logVars>>

Outcomes == Answers \cup {"limited", "deadline", "cancelled"}

ModelCallsInit ==
  /\ \E s \in Setups : strategy = s[1] /\ mode = s[2] /\ kind = s[3]
  /\ counter = 0 /\ refills = 0
  /\ tokens = [r \in Idx |-> Capacity]
  /\ phase = [c \in Callers |-> "idle"]
  /\ attempt = [c \in Callers |-> 0]
  /\ route = [c \in Callers |-> 0]
  /\ errs = [c \in Callers |-> <<>>]
  /\ flight = [c \in Callers |-> {}]
  /\ stopped = {} /\ broken = {}
  /\ source = [c \in Callers |-> 0]
  /\ delays = [c \in Callers |-> <<>>]
  /\ passes = [c \in Callers |-> <<>>]
  /\ picks = <<>>
  /\ admitted = [r \in Idx |-> 0]
  /\ leaked = {}

-----------------------------------------------------------------------------
(* IsRetryableError over the joined errors: a cancellation or a deadline   *)
(* anywhere ends it; then the first model error decides; then a rate limit *)
(* error retries and an open circuit does not; anything else retries.      *)
In(e, es) == \E k \in 1..Len(es) : es[k] = e
IsModelError(e) == e \in {"transient", "permanent"}
RetryableEagerly(es) == TRUE
Retryable(es) ==
  /\ ~In("cancelled", es) /\ ~In("deadline", es)
  /\ LET models == SelectSeq(es, IsModelError)
     IN IF models # <<>> THEN models[1] = "transient"
        ELSE In("later", es) \/ ~In("circuit", es)

(* A time.Duration is an integer of Width bits and wraps around.           *)
Wrapped(n) == LET m == n % (2 ^ Width) IN IF m >= 2 ^ (Width - 1) THEN m - 2 ^ Width ELSE m

(* delayFor: the wait the provider asks for, up to MaxDelay, or the        *)
(* exponential backoff; the jitter is left out.                            *)
BackoffUnguarded(n) == LET d == Wrapped(BaseDelay * 2 ^ (n - 1))
                       IN IF d > MaxDelay THEN MaxDelay ELSE d
Backoff(n) ==
  LET shift == IF n - 1 > Width - 2 THEN Width - 2 ELSE n - 1
      delay == Wrapped(BaseDelay * 2 ^ shift)
  IN IF delay > MaxDelay \/ delay <= 0 THEN MaxDelay ELSE delay
DelayFor(n, es) == IF In("later", es) THEN {MaxDelay} \cup 1..MaxDelay ELSE {Backoff(n)}

-----------------------------------------------------------------------------
(* The route of a pass: the first one, or the one the counter picks; every *)
(* pick advances the counter in the same atomic step.                      *)
WeightOf(r) == IF Routes[r].weight <= 0 THEN 1 ELSE Routes[r].weight
WeightUpTo(r) == FoldLeft(LAMBDA a, k : a + WeightOf(k), 0, [k \in 1..r |-> k])
Weights == WeightUpTo(Len(Routes))
PickOffByOne(n) == CHOOSE r \in Idx : n % Weights <= WeightUpTo(r)
                                      /\ \A q \in Idx : q < r => n % Weights > WeightUpTo(q)
PickWeighted(n) == CHOOSE r \in Idx : n % Weights < WeightUpTo(r)
                                      /\ \A q \in Idx : q < r => n % Weights >= WeightUpTo(q)
FirstRoute ==
  CASE strategy = "round_robin" -> ((counter + 1) % Len(Routes)) + 1
    [] strategy = "weighted_round_robin" -> PickWeighted(counter + 1)
    [] OTHER -> 1

StartPass(c) ==
  /\ errs' = [errs EXCEPT ![c] = <<>>]
  /\ IF strategy = "race_all"
     THEN /\ phase' = [phase EXCEPT ![c] = "racing"]
          /\ flight' = [flight EXCEPT ![c] = Idx]
          /\ UNCHANGED <<route, counter, picks>>
     ELSE /\ phase' = [phase EXCEPT ![c] = "routing"]
          /\ route' = [route EXCEPT ![c] = FirstRoute]
          /\ IF strategy = "priority" THEN UNCHANGED <<counter, picks>>
             ELSE counter' = counter + 1 /\ picks' = Append(picks, FirstRoute)
          /\ UNCHANGED flight

Call(c) ==
  /\ phase[c] = "idle"
  /\ StartPass(c)
  /\ UNCHANGED <<strategy, mode, kind, tokens, refills, attempt, stopped, source, broken, delays,
                 passes, admitted, leaked>>

(* The pass failed: the middleware gives up or waits for the next pass.    *)
GivesUp(c, es) == \/ ~Retryable(es)
                  \/ mode = "normal" /\ attempt[c] >= MaxRetries
PassFails(c, es) ==
  /\ passes' = [passes EXCEPT ![c] = Append(@, es)]
  /\ errs' = [errs EXCEPT ![c] = es]
  /\ phase' = [phase EXCEPT ![c] = IF GivesUp(c, es) THEN "failed" ELSE "backoff"]

Succeeds(c, r) ==
  /\ phase' = [phase EXCEPT ![c] = IF kind = "stream" THEN "streaming" ELSE "done"]
  /\ source' = [source EXCEPT ![c] = r]
  /\ UNCHANGED <<errs, passes>>

(* What a route answers: without a token the limiter refuses before the    *)
(* breaker is asked; the provider may answer anything else.                *)
TakesToken(r) ==
  IF ~Routes[r].limited THEN UNCHANGED <<tokens, admitted>>
  ELSE /\ tokens[r] >= 1
       /\ tokens' = [tokens EXCEPT ![r] = @ - 1]
       /\ admitted' = [admitted EXCEPT ![r] = @ + 1]
RouteSays(c, r, outcome) ==
  IF outcome = "limited"
  THEN /\ Routes[r].limited /\ tokens[r] < 1
       /\ UNCHANGED <<tokens, admitted>>
  ELSE /\ outcome = "deadline" => Routes[r].timed
       /\ outcome = "cancelled" => c \in stopped
       /\ TakesToken(r)

(* generate and stream by priority fall through to the next route; the     *)
(* other strategies return what their one route said.                      *)
RouteAnswers(c, outcome) ==
  /\ phase[c] = "routing"
  /\ RouteSays(c, route[c], outcome)
  /\ IF outcome = "ok"
     THEN Succeeds(c, route[c]) /\ UNCHANGED route
     ELSE LET es == Append(errs[c], outcome)
          IN IF strategy = "priority" /\ route[c] < Len(Routes)
             THEN /\ route' = [route EXCEPT ![c] = @ + 1]
                  /\ errs' = [errs EXCEPT ![c] = es]
                  /\ UNCHANGED <<phase, source, passes>>
             ELSE PassFails(c, es) /\ UNCHANGED <<route, source>>
  /\ UNCHANGED <<strategy, mode, kind, counter, refills, attempt, flight, stopped, broken,
                 delays, picks, leaked>>

(* One route of a race returns: the first success wins and the others are  *)
(* cancelled; when all have failed the first error is the answer.          *)
RaceAnswers(c, r, outcome) ==
  /\ phase[c] = "racing" /\ r \in flight[c]
  /\ RouteSays(c, r, outcome)
  /\ flight' = [flight EXCEPT ![c] = @ \ {r}]
  /\ IF outcome = "ok" THEN Succeeds(c, r)
     ELSE /\ UNCHANGED source
          /\ LET es == IF errs[c] = <<>> THEN <<outcome>> ELSE errs[c]
             IN IF flight[c] = {r} THEN PassFails(c, es)
                ELSE errs' = [errs EXCEPT ![c] = es] /\ UNCHANGED <<phase, passes>>
  /\ UNCHANGED <<strategy, mode, kind, counter, refills, attempt, route, stopped, broken,
                 delays, picks, leaked>>

(* A caller that cancels leaves the race at once.                          *)
RaceLeft(c) ==
  /\ phase[c] = "racing" /\ c \in stopped
  /\ PassFails(c, <<"cancelled">>)
  /\ UNCHANGED <<sharedVars, attempt, route, flight, stopped, source, broken, delays,
                 picks, admitted, leaked>>

(* A loser returns after the race: its context is cancelled, and a stream  *)
(* it opened all the same is dropped unclosed.                             *)
LoserReturns(c, r, opens) ==
  /\ phase[c] # "racing" /\ r \in flight[c]
  /\ flight' = [flight EXCEPT ![c] = @ \ {r}]
  /\ opens => kind = "stream"
  /\ leaked' = IF opens THEN leaked \cup {<<c, r>>} ELSE leaked
  /\ IF opens THEN TakesToken(r) ELSE UNCHANGED <<tokens, admitted>>
  /\ UNCHANGED <<strategy, mode, kind, counter, refills, phase, attempt, route, errs, stopped,
                 source, broken, delays, passes, picks>>

(* The wait is over, or the caller's context ends it.                      *)
Retry(c) ==
  /\ phase[c] = "backoff"
  /\ MapThenSumSet(LAMBDA d : attempt[d], Callers) < MaxRepeats
  /\ attempt' = [attempt EXCEPT ![c] = @ + 1]
  /\ \E d \in DelayFor(attempt[c] + 1, errs[c]) :
       delays' = [delays EXCEPT ![c] = Append(@, d)]
  /\ StartPass(c)
  /\ UNCHANGED <<strategy, mode, kind, tokens, refills, stopped, source, broken, passes,
                 admitted, leaked>>

WaitEnded(c) ==
  /\ phase[c] = "backoff" /\ c \in stopped
  /\ phase' = [phase EXCEPT ![c] = "failed"]
  /\ errs' = [errs EXCEPT ![c] = <<"cancelled">>]
  /\ UNCHANGED <<sharedVars, attempt, route, flight, stopped, source, broken, logVars>>

-----------------------------------------------------------------------------
Stop(c) ==
  /\ phase[c] \in {"routing", "racing", "backoff"} /\ c \notin stopped
  /\ stopped' = stopped \cup {c}
  /\ UNCHANGED <<sharedVars, phase, attempt, route, errs, flight, source, broken, logVars>>

(* The deadline of the route's context is still there while the stream is  *)
(* read: when it passes, the stream breaks.                                *)
StreamDies(c) ==
  /\ phase[c] = "streaming" /\ Routes[source[c]].timed /\ c \notin broken
  /\ broken' = broken \cup {c}
  /\ UNCHANGED <<sharedVars, phase, attempt, route, errs, flight, stopped, source, logVars>>

StreamClosed(c) ==
  /\ phase[c] = "streaming"
  /\ phase' = [phase EXCEPT ![c] = "done"]
  /\ UNCHANGED <<sharedVars, attempt, route, errs, flight, stopped, source, broken, logVars>>

(* A token's worth of time passes at a limiter that is not full.           *)
Refill(r) ==
  /\ refills < MaxRefills /\ tokens[r] < Capacity
  /\ tokens' = [tokens EXCEPT ![r] = @ + 1]
  /\ refills' = refills + 1
  /\ UNCHANGED <<strategy, mode, kind, counter, callVars, logVars>>

ModelCallsNext ==
  \/ \E c \in Callers : Call(c)
  \/ \E c \in Callers, o \in Outcomes :
       RouteAnswers(c, o) \/ \E r \in Idx : RaceAnswers(c, r, o)
  \/ \E c \in Callers, r \in Idx, opens \in BOOLEAN : LoserReturns(c, r, opens)
  \/ \E c \in Callers : \/ RaceLeft(c) \/ Retry(c) \/ WaitEnded(c) \/ Stop(c)
                        \/ StreamDies(c) \/ StreamClosed(c)
  \/ \E r \in Idx : Refill(r)

-----------------------------------------------------------------------------
(* Every variable keeps its type.                                          *)
ModelCallsTypeOK ==
  /\ <<strategy, mode, kind>> \in Setups
  /\ counter \in Nat /\ refills \in 0..MaxRefills
  /\ tokens \in [Idx -> 0..Capacity]
  /\ phase \in [Callers -> {"idle", "routing", "racing", "backoff", "streaming", "done", "failed"}]
  /\ attempt \in [Callers -> 0..MaxRepeats]
  /\ route \in [Callers -> 0..Len(Routes)]
  /\ flight \in [Callers -> SUBSET Idx]
  /\ stopped \subseteq Callers /\ broken \subseteq Callers
  /\ source \in [Callers -> 0..Len(Routes)]
  /\ leaked \subseteq Callers \X Idx

(* A call is repeated only after a pass that failed with nothing that says *)
(* stop, at most MaxRetries times in normal mode, and it fails with the    *)
(* error of its last pass or with its own cancellation.                    *)
Final(e) == e \in {"cancelled", "deadline"}
RetriesAreDue ==
  \A c \in Callers :
    /\ mode = "normal" => Len(passes[c]) <= MaxRetries + 1
    /\ \A k \in 1..Len(delays[c]) :
         /\ ~\E j \in 1..Len(passes[c][k]) : Final(passes[c][k][j])
         /\ passes[c][k] \notin [1..Len(passes[c][k]) -> {"permanent", "circuit"}]
    /\ phase[c] = "failed" => \/ errs[c] = passes[c][Len(passes[c])]
                              \/ c \in stopped /\ errs[c] = <<"cancelled">>

(* Every wait is positive and at most MaxDelay, and without a provider's   *)
(* wish the waits never shrink, however often the call has been repeated   *)
(* and although the doubled delay wraps around.                            *)
DelaysGrow ==
  /\ \A c \in Callers : \A k \in 1..Len(delays[c]) : delays[c][k] \in 1..MaxDelay
  /\ \A n \in 1..(2 * Width) : Backoff(n) \in 1..MaxDelay /\ Backoff(n) <= Backoff(n + 1)

(* By priority every route of a failed pass was asked, and the one that    *)
(* answered comes right after those that failed.                           *)
RoutesInOrder ==
  strategy = "priority" =>
    \A c \in Callers :
      /\ \A k \in 1..Len(passes[c]) : Len(passes[c][k]) = Len(Routes)
      /\ source[c] # 0 => source[c] = Len(errs[c]) + 1

(* Whoever calls, any run of picks as long as the weights together gives   *)
(* every route its weight.                                                 *)
PicksOf(r, from, to) == Cardinality({k \in from..to : picks[k] = r})
WeightsAreKept ==
  LET window == IF strategy = "round_robin" THEN Len(Routes) ELSE Weights
      share(r) == IF strategy = "round_robin" THEN 1 ELSE WeightOf(r)
  IN \A k \in window..Len(picks) : \A r \in Idx : PicksOf(r, k - window + 1, k) = share(r)

(* No limiter lets through more calls than its capacity and the tokens     *)
(* that time has added.                                                    *)
LimitersHold == \A r \in Idx : tokens[r] + admitted[r] <= Capacity + refills

(* What a comment says and the router does not do: the timeout of a route  *)
(* bounds the opening of a stream, the lifetime is the caller's.           *)
StreamsLiveUntilClosed == broken = {}
(* Nor are the streams of a race's losers closed.                          *)
LosersAreClosed == leaked = {}
=============================================================================
