---- MODULE GraphInterrupt ----
(* An interrupt node of a graph and its handle (graph/interrupt.go).        *)
(* The transform waits for an input through a relay goroutine; the handle   *)
(* and its channel of one element outlive the run, so several runs of the   *)
(* same compiled graph, one after the other or at once, share them.         *)
EXTENDS Integers, Sequences, FiniteSets

CONSTANTS
  Visits,       \* executions of the interrupt node
  MaxInputs     \* bound on InjectInput calls that are accepted

VARIABLES
  inputCh,      \* handle.inputCh: an accepted input, capacity 1
  handleClosed, \* handle.closed
  checkID,      \* the visits whose checkpoint id the handle has carried, in order
  visit,        \* the node's execution: "new", "waiting", "resumed", "failed"
  relayPc,      \* its relay goroutine: "none", "blocked", "sent", "closed"
  relay,        \* what is in the relay's buffer
  routed,       \* the input that ended each execution's wait, 0 if none
  accepted      \* how many inputs were accepted; the n-th one is n

interruptVars ==
  <<inputCh, handleClosed, checkID, visit, relayPc, relay, routed, accepted>>

Inputs == 1..MaxInputs
IsStop(i) == i % 2 = 0          \* every other input is "stop" or "cancel"

InterruptInit ==
  /\ inputCh = <<>> /\ handleClosed = FALSE /\ checkID = <<>>
  /\ visit = [v \in Visits |-> "new"]
  /\ relayPc = [v \in Visits |-> "none"]
  /\ relay = [v \in Visits |-> <<>>]
  /\ routed = [v \in Visits |-> 0]
  /\ accepted = 0

\* saveCheckpoint, the event, and waitForResume starting its relay. A save
\* that fails leaves the handle's id alone.
Visit(v) ==
  /\ visit[v] = "new"
  /\ visit' = [visit EXCEPT ![v] = "waiting"]
  /\ relayPc' = [relayPc EXCEPT ![v] = "blocked"]
  /\ checkID' \in {checkID, Append(checkID, v)}
  /\ UNCHANGED <<inputCh, handleClosed, relay, routed, accepted>>

\* Refused when the handle is closed or the buffer is full.
InjectInput ==
  /\ ~handleClosed /\ inputCh = <<>> /\ accepted < MaxInputs
  /\ accepted' = accepted + 1
  /\ inputCh' = <<accepted + 1>>
  /\ UNCHANGED <<handleClosed, checkID, visit, relayPc, relay, routed>>

Close ==
  /\ ~handleClosed
  /\ handleClosed' = TRUE
  /\ UNCHANGED <<inputCh, checkID, visit, relayPc, relay, routed, accepted>>

\* A relay receives; a closed channel still yields what is in it.
RelayTakes(v) ==
  /\ relayPc[v] = "blocked" /\ inputCh # <<>>
  /\ relayPc' = [relayPc EXCEPT ![v] = "sent"]
  /\ relay' = [relay EXCEPT ![v] = inputCh]
  /\ inputCh' = <<>>
  /\ UNCHANGED <<handleClosed, checkID, visit, routed, accepted>>

RelaySeesClose(v) ==
  /\ relayPc[v] = "blocked" /\ inputCh = <<>> /\ handleClosed
  /\ relayPc' = [relayPc EXCEPT ![v] = "closed"]
  /\ UNCHANGED <<inputCh, handleClosed, checkID, visit, relay, routed, accepted>>

\* The signal is the branch label the scheduler routes by; "stop" is an error.
Resume(v) ==
  /\ visit[v] = "waiting" /\ relay[v] # <<>>
  /\ routed' = [routed EXCEPT ![v] = Head(relay[v])]
  /\ visit' = [visit EXCEPT ![v] = IF IsStop(Head(relay[v])) THEN "failed" ELSE "resumed"]
  /\ relay' = [relay EXCEPT ![v] = <<>>]
  /\ UNCHANGED <<inputCh, handleClosed, checkID, relayPc, accepted>>

\* A mistake: the closed channel's zero value is taken for an input.
ResumeOnClose(v) ==
  /\ visit[v] = "waiting" /\ relayPc[v] = "closed"
  /\ visit' = [visit EXCEPT ![v] = "resumed"]
  /\ UNCHANGED <<inputCh, handleClosed, checkID, relayPc, relay, routed, accepted>>
HandleClosed(v) ==
  /\ visit[v] = "waiting" /\ relayPc[v] = "closed"
  /\ visit' = [visit EXCEPT ![v] = "failed"]
  /\ UNCHANGED <<inputCh, handleClosed, checkID, relayPc, relay, routed, accepted>>

\* The timer fires or the context ends; the relay goroutine is left behind.
GiveUp(v) ==
  /\ visit[v] = "waiting"
  /\ visit' = [visit EXCEPT ![v] = "failed"]
  /\ UNCHANGED <<inputCh, handleClosed, checkID, relayPc, relay, routed, accepted>>

InterruptNext ==
  \/ InjectInput \/ Close
  \/ \E v \in Visits : Visit(v) \/ RelayTakes(v) \/ RelaySeesClose(v) \/ Resume(v)
                         \/ HandleClosed(v) \/ GiveUp(v)

InterruptSpec == InterruptInit /\ [][InterruptNext]_interruptVars
----------------------------------------------------------------------------
InterruptTypeOK ==
  /\ inputCh = <<>> \/ \E i \in Inputs : inputCh = <<i>>
  /\ \A v \in Visits :
       /\ visit[v] \in {"new", "waiting", "resumed", "failed"}
       /\ relayPc[v] \in {"none", "blocked", "sent", "closed"}
       /\ relay[v] = <<>> \/ \E i \in Inputs : relay[v] = <<i>>
       /\ routed[v] \in Inputs \union {0}

(* A node resumes only on an input somebody injected, no input resumes two  *)
(* executions, and neither "stop" nor the closing of the handle resumes     *)
(* one; an accepted input is somewhere until an execution takes it.         *)
Held(i) == Cardinality({v \in Visits : relay[v] = <<i>> \/ routed[v] = i})
             + IF inputCh = <<i>> THEN 1 ELSE 0
OneInputOneResume ==
  /\ \A i \in Inputs : Held(i) = IF i <= accepted THEN 1 ELSE 0
  /\ \A v \in Visits : visit[v] = "resumed" => routed[v] # 0 /\ ~IsStop(routed[v])

(* waitForResume: "the relay goroutine never leaks". An execution that is   *)
(* over leaves no goroutine waiting for the next execution's input.         *)
RelayNeverLeaks ==
  \A v \in Visits : visit[v] \in {"resumed", "failed"} => relayPc[v] # "blocked"

====
