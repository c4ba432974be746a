------------------------------ MODULE CircuitBreaker ------------------------------
(***************************************************************************)
(* The circuit breaker (middleware/circuitbreaker), the middleware that    *)
(* puts it around model calls and streams (core/kernel/resilience.go) and  *)
(* the runtime's stream reader that decides when a stream is closed        *)
(* (hookStreamReader in core/runtime/runtime.go).                          *)
(*                                                                         *)
(* Allow, RecordSuccess and RecordFailure run under the breaker's lock; a  *)
(* call is in flight between them, so results may arrive in any order and  *)
(* in a later state of the breaker than the one that admitted the call.    *)
(* A refused call changes nothing.                                         *)
(***************************************************************************)
EXTENDS Integers, FiniteSets

CONSTANTS Calls,        \* concurrent model calls
          MaxFail,      \* Config.MaxFailures
          HalfOpenMax,  \* Config.HalfOpenMaxCalls
          HookFails     \* TRUE if an OnModelResult hook may fail at end of stream

ASSUME BreakerAssumption == /\ IsFiniteSet(Calls)
                            /\ MaxFail \in Nat \ {0}
                            /\ HalfOpenMax \in Nat \ {0}
                            /\ HookFails \in BOOLEAN

VARIABLES
  state,          \* Breaker.state
  failures,       \* Breaker.failures
  halfOpenCalls,  \* Breaker.halfOpenCalls
  aged,           \* TRUE once ResetTimeout has passed since lastFailure
  call,           \* what each model call is doing
  probes,         \* calls admitted since the circuit went half-open (history)
  streak          \* failures recorded in a row while closed (history)

breakerVars == <<state, failures, halfOpenCalls, aged>>
vars == <<breakerVars, call, probes, streak>>

Phases == {"idle", "calling", "streaming", "broken", "abandoned"}
InFlight == {c \in Calls : call[c] # "idle"}

Init ==
  /\ state = "closed"
  /\ failures = 0
  /\ halfOpenCalls = 0
  /\ aged = FALSE
  /\ call = [c \in Calls |-> "idle"]
  /\ probes = {}
  /\ streak = 0

-----------------------------------------------------------------------------
(* ResetTimeout elapses.                                                   *)
Age ==
  /\ ~aged
  /\ aged' = TRUE
  /\ UNCHANGED <<state, failures, halfOpenCalls, call, probes, streak>>

(* Allow, and the call it lets through.                                    *)
SlotAlways == TRUE
Slot == halfOpenCalls < HalfOpenMax

Rested == aged

Admit(c, phase) ==
  /\ call[c] = "idle"
  /\ \/ /\ state = "closed"
        /\ UNCHANGED <<state, halfOpenCalls, probes>>
     \/ /\ state = "open" /\ Rested
        /\ state' = "half-open"
        /\ halfOpenCalls' = 0
        /\ probes' = {c}
     \/ /\ state = "half-open" /\ Slot
        /\ halfOpenCalls' = halfOpenCalls + 1
        /\ probes' = probes \cup {c}
        /\ UNCHANGED state
  /\ call' = [call EXCEPT ![c] = phase]
  /\ UNCHANGED <<failures, aged, streak>>

-----------------------------------------------------------------------------
SlotKept(n) == n
SlotReturned(n) == n - 1

RecordSuccess ==
  /\ \/ /\ state = "half-open"
        /\ halfOpenCalls' = SlotReturned(halfOpenCalls)
        /\ IF halfOpenCalls' <= 0
           THEN state' = "closed" /\ failures' = 0 /\ probes' = {} /\ streak' = 0
           ELSE UNCHANGED <<state, failures, probes, streak>>
     \/ /\ state = "closed"
        /\ failures' = 0
        /\ streak' = 0
        /\ UNCHANGED <<state, halfOpenCalls, probes>>
     \/ /\ state = "open"
        /\ UNCHANGED <<state, failures, halfOpenCalls, probes, streak>>
  /\ UNCHANGED aged

TrippedLate(n) == n > MaxFail
Tripped(n) == n >= MaxFail

RecordFailure ==
  /\ aged' = FALSE
  /\ \/ /\ state = "half-open"
        /\ state' = "open"
        /\ failures' = MaxFail
        /\ probes' = {}
        /\ UNCHANGED streak
     \/ /\ state = "closed"
        /\ failures' = failures + 1
        /\ streak' = streak + 1
        /\ state' = IF Tripped(failures + 1) THEN "open" ELSE state
        /\ UNCHANGED probes
     \/ /\ state = "open"
        /\ UNCHANGED <<state, failures, probes, streak>>
  /\ UNCHANGED halfOpenCalls

Finish(c) == call' = [call EXCEPT ![c] = "idle"]

(* A plain call, or one that failed to open its stream.                    *)
CallSucceeds(c) == call[c] = "calling" /\ RecordSuccess /\ Finish(c)
CallFails(c) == call[c] = "calling" /\ RecordFailure /\ Finish(c)

StreamOpens(c) ==
  /\ call[c] = "calling"
  /\ call' = [call EXCEPT ![c] = "streaming"]
  /\ UNCHANGED <<breakerVars, probes, streak>>

(* Recv fails with an error that is neither the end nor a cancellation.    *)
StreamBreaks(c) ==
  /\ call[c] = "streaming"
  /\ call' = [call EXCEPT ![c] = "broken"]
  /\ UNCHANGED <<breakerVars, probes, streak>>

(* The stream is closed, by its consumer or by the runtime when it sees    *)
(* the end: circuitStreamReader.Close reports how it went.                 *)
StreamCloses(c) ==
  /\ call[c] \in {"streaming", "broken"}
  /\ IF call[c] = "broken" THEN RecordFailure ELSE RecordSuccess
  /\ Finish(c)

(* At the end of the stream hookStreamReader marks itself closed and fires *)
(* the OnModelResult hooks first: if one fails it returns, and every later *)
(* Close is a no-op.                                                       *)
StreamHookFails(c) ==
  /\ HookFails
  /\ call[c] = "streaming"
  /\ call' = [call EXCEPT ![c] = "abandoned"]
  /\ UNCHANGED <<breakerVars, probes, streak>>

-----------------------------------------------------------------------------
Returns(c) == CallSucceeds(c) \/ CallFails(c) \/ StreamCloses(c)

Next ==
  \/ Age
  \/ \E c \in Calls : Admit(c, "calling")
  \/ \E c \in Calls : Returns(c)
  \/ \E c \in Calls : StreamOpens(c)
  \/ \E c \in Calls : StreamBreaks(c)
  \/ \E c \in Calls : StreamHookFails(c)

Spec == Init /\ [][Next]_vars

(* Time passes, the application keeps making calls, and every call ends:   *)
(* the provider answers and consumers close their streams.                 *)
Fairness ==
  /\ WF_vars(Age)
  /\ WF_vars(\E c \in Calls : Admit(c, "calling"))
  /\ \A c \in Calls : WF_vars(Returns(c))
FairSpec == Spec /\ Fairness

-----------------------------------------------------------------------------
(* Every variable keeps its type and the counters their bounds, though     *)
(* late results decrement a counter they never incremented.                *)
TypeOK ==
  /\ state \in {"closed", "open", "half-open"}
  /\ failures \in 0..MaxFail
  /\ halfOpenCalls \in -1..HalfOpenMax
  /\ aged \in BOOLEAN
  /\ call \in [Calls -> Phases]
  /\ probes \subseteq Calls
  /\ streak \in 0..MaxFail

(* The circuit opens from closed only after MaxFail failures in a row, and *)
(* never stays closed beyond them.                                         *)
OpensOnThreshold ==
  /\ state = "closed" => failures = streak /\ streak < MaxFail
  /\ state = "open" => failures = MaxFail

(* No half-open slot outlives its call: the counted slots, and the trial   *)
(* that opened the half-open state uncounted, belong to calls in flight,   *)
(* however late the results of earlier calls come.                         *)
SlotsAreCovered ==
  state = "half-open" => halfOpenCalls \in 0..(Cardinality(InFlight) - 1)

(* An open circuit lets a trial call through again, and no state of the    *)
(* breaker refuses calls for ever.                                         *)
Refuses == (state = "open" /\ ~Rested) \/ (state = "half-open" /\ ~Slot)
NeverRefusesForever == Refuses ~> ~Refuses

(* What a comment of the source says and the code does not do:             *)
(* RecordSuccess closes "a half-open circuit once its probe calls succeed" *)
(* - all of them, none still running - and does close it then.             *)
ClosesAfterProbes ==
  [][state = "half-open" /\ state' = "closed"
       => \A c \in probes : call'[c] = "idle"]_vars
HalfOpenDecides == state = "half-open" ~> state # "half-open"
=============================================================================
