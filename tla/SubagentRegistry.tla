---------------------------- MODULE SubagentRegistry ----------------------------
(***************************************************************************)
(* The child-session registry of core/orchestrate/subagent.go.             *)
(*                                                                         *)
(* A session is one spawned child with the goroutine that runs its loop;   *)
(* pc[s] is where that loop stands:                                        *)
(*                                                                         *)
(*   absent -> top -> arming -> turn -> returned -> judging -> waiting     *)
(*              ^                                     |  |        |        *)
(*              +-------------- next message ---------|--|--------+        *)
(*                                     oneShot -> settling                 *)
(*                                                    |                    *)
(*                     any of top, judging, settling, waiting -> ending    *)
(*                                                            -> done      *)
(*                                                                         *)
(* Each step is one section under settleMu or cancelMu, one channel        *)
(* operation, or the return of the agent's Run.  Continue may block on the *)
(* follow-up channel with settleMu held, so such a call is state of its    *)
(* own (sender); every other critical section is one step.  A call looks   *)
(* its session up once and acts later, so Continue and Interrupt may act   *)
(* on a session that has left the registry meanwhile.                      *)
(***************************************************************************)
EXTENDS Integers, Sequences, FiniteSets, SequenceTheorems, TLAPS

CONSTANTS Sessions,    \* spawned children
          Disposers,   \* concurrent Dispose calls
          ChanCap,     \* capacity of runCh (8 in the code)
          MaxMessages  \* bound: Continue calls per session

ASSUME SubagentAssumption == ChanCap \in Nat \ {0} /\ MaxMessages \in Nat

VARIABLES
  items,      \* Registry.items
  pc,         \* progress of the session's loop
  oneShot,    \* sessions created by Run
  awaited,    \* one-shot sessions whose Run call still waits
  status,     \* subagentEntry.status
  disposed,   \* subagentEntry.disposed
  closes,     \* how often runCh was closed
  queue,      \* messages buffered in runCh
  inHand,     \* the message received for the next turn
  accepted,   \* messages Continue sent so far
  ran,        \* messages whose turn began, in order (history)
  sender,     \* sessions with a Continue blocked on runCh, settleMu held
  armed,      \* sessions whose cancel field is set
  canceled,   \* sessions whose current turn's context is cancelled
  interrupt,  \* subagentEntry.interrupt
  failing,    \* sessions whose turn returned an error
  verdict,    \* the settlement the loop is about to report
  meant,      \* sessions whose current turn was interrupted (history)
  call,       \* the Dispose calls in flight
  notices     \* settlement notices sent, by session

loopVars == <<pc, oneShot, status, failing, verdict, notices>>
chanVars == <<closes, queue, inHand, accepted, ran, sender>>
turnVars == <<armed, canceled, interrupt, meant>>
regVars  == <<items, awaited, disposed, call>>
vars == <<loopVars, chanVars, turnVars, regVars>>

Stages  == {"absent", "top", "arming", "turn", "returned", "judging",
            "settling", "waiting", "ending", "done"}
Settled == {"failed", "completed"}
NoCall  == [s |-> "none", at |-> "idle"]

Unlocked(s) == s \notin sender
Goto(s, stage) == pc' = [pc EXCEPT ![s] = stage]
Finish(s, kind) == /\ Goto(s, "ending")
                   /\ verdict' = [verdict EXCEPT ![s] = kind]

Init ==
  /\ items = {} /\ awaited = {} /\ disposed = {}
  /\ call = [d \in Disposers |-> NoCall]
  /\ pc = [s \in Sessions |-> "absent"]
  /\ oneShot = {} /\ failing = {}
  /\ status = [s \in Sessions |-> "running"]
  /\ verdict = [s \in Sessions |-> "none"]
  /\ notices = [s \in Sessions |-> <<>>]
  /\ closes = [s \in Sessions |-> 0]
  /\ queue = [s \in Sessions |-> <<>>]
  /\ inHand = [s \in Sessions |-> <<>>]
  /\ accepted = [s \in Sessions |-> 0]
  /\ ran = [s \in Sessions |-> <<>>]
  /\ sender = {}
  /\ armed = {} /\ canceled = {} /\ interrupt = {} /\ meant = {}

-----------------------------------------------------------------------------
(* Spawn and Run register the entry and start its loop.                    *)
Spawn(s, once) ==
  /\ pc[s] = "absent"
  /\ Goto(s, "top")
  /\ items' = items \cup {s}
  /\ oneShot' = IF once THEN oneShot \cup {s} ELSE oneShot
  /\ awaited' = IF once THEN awaited \cup {s} ELSE awaited
  /\ UNCHANGED <<status, failing, verdict, notices, chanVars, turnVars, disposed, call>>

-----------------------------------------------------------------------------
(* The loop.  A disposed session ends instead of taking another turn.      *)
EndsNever(s) == FALSE
Ends(s) == s \in disposed

Begin(s) ==
  /\ pc[s] = "top"
  /\ Unlocked(s)
  /\ status' = [status EXCEPT ![s] = "running"]
  /\ IF Ends(s)
     THEN Finish(s, "disposed") /\ UNCHANGED <<ran, inHand, canceled, meant>>
     ELSE /\ Goto(s, "arming")
          /\ UNCHANGED verdict
          /\ ran' = [ran EXCEPT ![s] = @ \o inHand[s]]
          /\ inHand' = [inHand EXCEPT ![s] = <<>>]
          /\ canceled' = canceled \ {s}
          /\ meant' = meant \ {s}
  /\ UNCHANGED <<oneShot, failing, notices, closes, queue, accepted, sender, armed, interrupt,
                 regVars>>

Arm(s) ==
  /\ pc[s] = "arming"
  /\ Goto(s, "turn")
  /\ armed' = armed \cup {s}
  /\ UNCHANGED <<oneShot, status, failing, verdict, notices, chanVars, canceled, interrupt, meant, regVars>>

TurnReturns(s, err) ==
  /\ pc[s] = "turn"
  /\ Goto(s, "returned")
  /\ failing' = IF err THEN failing \cup {s} ELSE failing \ {s}
  /\ UNCHANGED <<oneShot, status, verdict, notices, chanVars, turnVars, regVars>>

(* The interrupt flag excuses the error of the turn it is read after.      *)
ExcusedNone(s) == {}
Excused(s) == {s} \cap interrupt

Disarm(s) ==
  /\ pc[s] = "returned"
  /\ Goto(s, "judging")
  /\ armed' = armed \ {s}
  /\ interrupt' = interrupt \ {s}
  /\ failing' = failing \ Excused(s)
  /\ UNCHANGED <<oneShot, status, verdict, notices, chanVars, canceled, meant, regVars>>

AfterFailureAlways(s) == "failed"
AfterFailure(s) == IF s \in disposed THEN status[s] ELSE "failed"

Judge(s) ==
  /\ pc[s] = "judging"
  /\ Unlocked(s)
  /\ \/ /\ s \in failing
        /\ status' = [status EXCEPT ![s] = AfterFailure(s)]
        /\ Finish(s, IF s \in disposed THEN "disposed" ELSE "failed")
     \/ /\ s \notin failing
        /\ Goto(s, IF s \in oneShot THEN "settling" ELSE "waiting")
        /\ status' = [status EXCEPT ![s] = "idle"]
        /\ UNCHANGED verdict
  /\ UNCHANGED <<oneShot, failing, notices, chanVars, turnVars, regVars>>

SettleOneShot(s) ==
  /\ pc[s] = "settling"
  /\ Unlocked(s)
  /\ \/ /\ s \in disposed
        /\ Finish(s, "disposed")
        /\ UNCHANGED <<status, disposed>>
     \/ /\ s \notin disposed
        /\ disposed' = disposed \cup {s}
        /\ status' = [status EXCEPT ![s] = "completed"]
        /\ Finish(s, "completed")
  /\ UNCHANGED <<oneShot, failing, notices, chanVars, turnVars, items, awaited, call>>

OldestIsNewest(s) == queue[s][Len(queue[s])]
Oldest(s) == Head(queue[s])
Receivable(s) == queue[s] # <<>>

Receive(s) ==
  /\ pc[s] = "waiting"
  /\ Receivable(s)
  /\ inHand' = [inHand EXCEPT ![s] = <<Oldest(s)>>]
  /\ queue' = [queue EXCEPT ![s] = Tail(@)]
  /\ Goto(s, "top")
  /\ UNCHANGED <<oneShot, status, failing, verdict, notices, closes, accepted, ran, sender, turnVars,
                 regVars>>

SeeClosed(s) ==
  /\ pc[s] = "waiting"
  /\ queue[s] = <<>>
  /\ closes[s] > 0
  /\ Finish(s, "disposed")
  /\ UNCHANGED <<oneShot, status, failing, notices, chanVars, turnVars, regVars>>

(* The settlement notice, then the deferred close of done.                 *)
End(s) ==
  /\ pc[s] = "ending"
  /\ Goto(s, "done")
  /\ notices' = [notices EXCEPT ![s] = Append(@, verdict[s])]
  /\ UNCHANGED <<oneShot, status, failing, verdict, chanVars, turnVars, regVars>>

-----------------------------------------------------------------------------
(* Continue: the liveness check and the send share one settleMu section.   *)
RoomOffByOne(s) == Len(queue[s]) <= ChanCap
Room(s) == Len(queue[s]) < ChanCap
Push(s) == /\ queue' = [queue EXCEPT ![s] = Append(@, accepted[s] + 1)]
           /\ accepted' = [accepted EXCEPT ![s] = @ + 1]
Continuable(s) == s \notin disposed /\ status[s] # "failed"

Continue(s) ==
  /\ pc[s] # "absent"
  /\ Unlocked(s)
  /\ Continuable(s)
  /\ accepted[s] < MaxMessages
  /\ \/ /\ Room(s)
        /\ Push(s)
        /\ UNCHANGED sender
     \/ /\ ~Room(s)
        /\ sender' = sender \cup {s}
        /\ UNCHANGED <<queue, accepted>>
  /\ UNCHANGED <<loopVars, closes, inHand, ran, turnVars, regVars>>

(* A blocked Continue sends once there is room.  Its other way out, a      *)
(* closed done channel, never opens: see BlockedOnLiveSession.             *)
ContinueSend(s) ==
  /\ s \in sender
  /\ Room(s)
  /\ Push(s)
  /\ sender' = sender \ {s}
  /\ UNCHANGED <<loopVars, closes, inHand, ran, turnVars, regVars>>

(* Interrupt: the flag, then the cancel function read with it.  A cancel   *)
(* function called late belongs to a turn that is over, so the two are one *)
(* step.                                                                   *)
InTurn(s) == pc[s] \in {"arming", "turn", "returned"}
Interrupt(s) ==
  /\ pc[s] # "absent"
  /\ interrupt' = interrupt \cup {s}
  /\ canceled' = IF s \in armed THEN canceled \cup {s} ELSE canceled
  /\ meant' = IF InTurn(s) THEN meant \cup {s} ELSE meant
  /\ UNCHANGED <<loopVars, chanVars, armed, regVars>>

-----------------------------------------------------------------------------
(* Dispose: lookup; mark and close under settleMu; cancel under cancelMu;  *)
(* wait for done; remove.                                                  *)
At(d, stage) == call[d].at = stage
DisposeLookup(d, s) ==
  /\ At(d, "idle")
  /\ s \in items
  /\ call' = [call EXCEPT ![d] = [s |-> s, at |-> "found"]]
  /\ UNCHANGED <<loopVars, chanVars, turnVars, items, awaited, disposed>>

(* Run's context ends: the caller disposes its child and stops waiting.    *)
RunCanceled(d, s) ==
  /\ s \in awaited
  /\ At(d, "idle")
  /\ awaited' = awaited \ {s}
  /\ call' = [call EXCEPT ![d] = IF s \in items THEN [s |-> s, at |-> "found"] ELSE NoCall]
  /\ UNCHANGED <<loopVars, chanVars, turnVars, items, disposed>>

ClosedNot(n) == n
Closed(n) == n + 1

DisposeMark(d) ==
  /\ At(d, "found")
  /\ LET s == call[d].s IN
     /\ Unlocked(s)
     /\ disposed' = disposed \cup {s}
     /\ closes' = [closes EXCEPT ![s] = Closed(@)]
  /\ call' = [call EXCEPT ![d].at = "marked"]
  /\ UNCHANGED <<loopVars, queue, inHand, accepted, ran, sender, turnVars, items, awaited>>

DisposeCancel(d) ==
  /\ At(d, "marked")
  /\ canceled' = IF call[d].s \in armed THEN canceled \cup {call[d].s} ELSE canceled
  /\ call' = [call EXCEPT ![d].at = "waiting"]
  /\ UNCHANGED <<loopVars, chanVars, armed, interrupt, meant, items, awaited, disposed>>

Without(s) == items \ {s}

DisposeReturn(d) ==
  /\ At(d, "waiting")
  /\ pc[call[d].s] = "done"
  /\ items' = Without(call[d].s)
  /\ call' = [call EXCEPT ![d] = NoCall]
  /\ UNCHANGED <<loopVars, chanVars, turnVars, awaited, disposed>>

(* Run's child is done: the caller takes the result and removes the entry. *)
RunCollect(s) ==
  /\ s \in awaited
  /\ pc[s] = "done"
  /\ awaited' = awaited \ {s}
  /\ items' = Without(s)
  /\ UNCHANGED <<loopVars, chanVars, turnVars, disposed, call>>

-----------------------------------------------------------------------------
Loop(s) == \/ Begin(s) \/ Arm(s) \/ Disarm(s) \/ Judge(s) \/ SettleOneShot(s)
           \/ Receive(s) \/ SeeClosed(s) \/ End(s)
Disposal(d) == DisposeMark(d) \/ DisposeCancel(d) \/ DisposeReturn(d)

Next ==
  \/ \E s \in Sessions, once \in BOOLEAN : Spawn(s, once)
  \/ \E s \in Sessions : Loop(s)
  \/ \E s \in Sessions, err \in BOOLEAN : TurnReturns(s, err)
  \/ \E s \in Sessions : Continue(s)
  \/ \E s \in Sessions : ContinueSend(s)
  \/ \E s \in Sessions : Interrupt(s)
  \/ \E d \in Disposers, s \in Sessions : DisposeLookup(d, s)
  \/ \E d \in Disposers, s \in Sessions : RunCanceled(d, s)
  \/ \E d \in Disposers : Disposal(d)
  \/ \E s \in Sessions : RunCollect(s)

Spec == Init /\ [][Next]_vars

(* Goroutines and calls in progress keep running.  A turn need only return *)
(* once its context is cancelled ...                                       *)
Progress ==
  /\ \A s \in Sessions : WF_vars(Loop(s)) /\ WF_vars(ContinueSend(s)) /\ WF_vars(RunCollect(s))
  /\ \A d \in Disposers : WF_vars(Disposal(d))
Stops(s) == s \in canceled /\ \E err \in BOOLEAN : TurnReturns(s, err)
CancelFairSpec == Spec /\ Progress /\ \A s \in Sessions : WF_vars(Stops(s))

(* ... or, where every turn is finite, on its own.                         *)
Returns(s) == \E err \in BOOLEAN : TurnReturns(s, err)
FiniteTurns == Progress /\ \A s \in Sessions : WF_vars(Returns(s))
FiniteTurnsSpec == Spec /\ FiniteTurns

-----------------------------------------------------------------------------
(* Every variable keeps its type; the follow-up channel keeps its bound.   *)
TypeOK ==
  /\ items \subseteq Sessions /\ awaited \subseteq oneShot /\ disposed \subseteq Sessions
  /\ call \in [Disposers -> {NoCall} \cup [s: Sessions, at: {"found", "marked", "waiting"}]]
  /\ pc \in [Sessions -> Stages]
  /\ oneShot \subseteq Sessions /\ failing \subseteq Sessions
  /\ status \in [Sessions -> {"running", "idle"} \cup Settled]
  /\ verdict \in [Sessions -> {"none", "disposed"} \cup Settled]
  /\ notices \in [Sessions -> Seq({"disposed"} \cup Settled)]
  /\ closes \in [Sessions -> Nat]
  /\ queue \in [Sessions -> Seq(Nat)]
  /\ \A s \in Sessions : Len(queue[s]) <= ChanCap
  /\ inHand \in [Sessions -> Seq(Nat)]
  /\ accepted \in [Sessions -> Nat]
  /\ ran \in [Sessions -> Seq(Nat)]
  /\ sender \subseteq Sessions
  /\ armed \subseteq Sessions /\ canceled \subseteq Sessions
  /\ interrupt \subseteq Sessions /\ meant \subseteq Sessions

(* Follow-up messages get their turns in the order Continue accepted them, *)
(* none twice, none skipped: what ran, what is in hand and what is queued  *)
(* are together the messages accepted so far.                              *)
FollowUpsInOrder ==
  \A s \in Sessions :
    ran[s] \o inHand[s] \o queue[s] = [i \in 1..accepted[s] |-> i]

(* A session sends one settlement notice, when its loop ends, and the      *)
(* notice agrees with what List and Wait see: failed and completed with    *)
(* the status, disposed only if the session was disposed.                  *)
OneHonestNotice ==
  \A s \in Sessions :
    /\ Len(notices[s]) = IF pc[s] = "done" THEN 1 ELSE 0
    /\ pc[s] = "done" =>
         \/ notices[s][1] \in Settled /\ notices[s][1] = status[s]
         \/ notices[s][1] = "disposed" /\ s \in disposed /\ status[s] \notin Settled

(* Disposal is final.  Dispose and failure do not race into each other: a  *)
(* session that had been disposed before its turn was judged never shows   *)
(* as failed; and a disposed session begins no further turn, whatever is   *)
(* still queued.                                                           *)
DisposalIsFinal ==
  [][\A s \in disposed : /\ status[s] # "failed" => status'[s] # "failed"
                         /\ ran'[s] = ran[s]
                         /\ pc'[s] = "arming" => pc[s] = "arming"]_vars

(* Interrupt alone never settles a child: an interrupted turn's error      *)
(* leaves the session continuable.                                         *)
InterruptNeverSettles ==
  \A s \in Sessions : pc[s] = "judging" /\ s \in meant => s \notin failing

(* A Continue that is blocked on the full channel, holding settleMu, waits *)
(* for a loop that still runs: its escape, a closed done channel, is never *)
(* what it needs.                                                          *)
BlockedOnLiveSession == \A s \in sender : pc[s] \notin {"absent", "ending", "done"}

(* A subagent tells its parent one story, one notice that agrees with its  *)
(* status; an interrupted turn is no settlement; its follow-ups get their  *)
(* turns in the order they came, and none waits for a loop that is over.   *)
SubagentsAreFaithful ==
  OneHonestNotice /\ InterruptNeverSettles /\ FollowUpsInOrder /\ BlockedOnLiveSession

(* Where every turn is finite and no more messages arrive than the channel *)
(* buffers, Dispose always comes to its end, and an accepted message gets  *)
(* its turn unless the session settles first.                              *)
DisposeSettles == \A s \in Sessions : s \in disposed ~> pc[s] = "done"
FollowUpServed ==
  \A s \in Sessions : queue[s] # <<>> ~> queue[s] = <<>> \/ pc[s] = "done"

-----------------------------------------------------------------------------
(* What comments of the source say and the code does not do.               *)

(* "no send-on-closed-channel, no lost state": runCh is closed once.       *)
ClosedOnce == \A s \in Sessions : closes[s] <= 1

(* "StatusFailed marks a session whose turn errored": the error of a turn  *)
(* nobody interrupted settles the session.                                 *)
UninterruptedErrorSettles ==
  [][\A s \in Sessions : pc[s] = "returned" /\ pc'[s] = "judging"
        /\ s \in failing /\ s \notin meant => s \in failing']_vars

(* "Dispose ends the session: the current turn is canceled".               *)
DisposeStopsTheTurn ==
  \A d \in Disposers : At(d, "marked") ~> At(d, "idle")

(* "the message runs after the current turn finishes": Continue returns.   *)
ContinueReturns == \A s \in Sessions : s \in sender ~> s \notin sender

-----------------------------------------------------------------------------
(* Proofs, for any number of sessions and of Dispose calls, any channel     *)
(* capacity and any number of messages.                                     *)

(* What a settlement may say of a session.                                 *)
Truthful(s, v) ==
  \/ v \in Settled /\ v = status[s]
  \/ v = "disposed" /\ s \in disposed /\ status[s] \notin Settled

(* Where a session's loop stands, and what that says of the rest.          *)
SettlesOnce(s) ==
  /\ status[s] \in Settled => pc[s] \in {"ending", "done"}
  /\ pc[s] = "ending" => Truthful(s, verdict[s])
  /\ pc[s] = "done" => Len(notices[s]) = 1 /\ Truthful(s, notices[s][1])
  /\ pc[s] # "done" => notices[s] = <<>>
  /\ closes[s] > 0 \/ status[s] = "completed" => s \in disposed

InterruptIsKnown(s) ==
  /\ s \in meant /\ InTurn(s) => s \in interrupt
  /\ s \in meant /\ pc[s] = "judging" => s \notin failing

HandIsEmpty(s) == inHand[s] # <<>> => pc[s] \in {"top", "ending", "done"}

BlockedIsServed(s) ==
  s \in sender => /\ pc[s] \notin {"absent", "ending", "done"}
                  /\ Len(queue[s]) = ChanCap \/ pc[s] = "top"

SessionInv(s) == SettlesOnce(s) /\ InterruptIsKnown(s) /\ HandIsEmpty(s) /\ BlockedIsServed(s)

(* The inductive invariant.                                                *)
LoopInv == \A s \in Sessions : SessionInv(s)
RegistryInv == TypeOK /\ LoopInv /\ FollowUpsInOrder

-----------------------------------------------------------------------------
LEMMA PushKeepsTypes ==
  ASSUME TypeOK, NEW s \in Sessions, Room(s), Push(s)
  PROVE  /\ queue' \in [Sessions -> Seq(Nat)] /\ accepted' \in [Sessions -> Nat]
         /\ \A t \in Sessions : Len(queue'[t]) <= ChanCap
<1> DEFINE q == Append(queue[s], accepted[s] + 1)
<1>1. /\ queue \in [Sessions -> Seq(Nat)] /\ accepted \in [Sessions -> Nat]
      /\ \A t \in Sessions : Len(queue[t]) <= ChanCap
  BY DEF TypeOK
<1>2. q \in Seq(Nat) /\ Len(q) <= ChanCap
  BY <1>1, SubagentAssumption DEF Room
<1>3. queue' = [queue EXCEPT ![s] = q] /\ accepted' = [accepted EXCEPT ![s] = @ + 1]
  BY DEF Push
<1> HIDE DEF q
<1> QED
  BY <1>1, <1>2, <1>3

LEMMA RegistryTypingStep == TypeOK /\ LoopInv /\ [Next]_vars => TypeOK'
<1> SUFFICES ASSUME TypeOK, LoopInv, [Next]_vars PROVE TypeOK'
  OBVIOUS
<1> USE SubagentAssumption DEF TypeOK, loopVars, chanVars, turnVars, regVars, Stages, Settled, NoCall
<1>1. ASSUME NEW s \in Sessions, NEW once \in BOOLEAN, Spawn(s, once) PROVE TypeOK'
  BY <1>1 DEF Spawn, Goto
<1>2. ASSUME NEW s \in Sessions, Begin(s) PROVE TypeOK'
  <2>1. ran' \in [Sessions -> Seq(Nat)] /\ inHand' \in [Sessions -> Seq(Nat)]
    <3>1. ran[s] \o inHand[s] \in Seq(Nat)
      OBVIOUS
    <3>2. \/ ran' = ran /\ inHand' = inHand
          \/ ran' = [ran EXCEPT ![s] = @ \o inHand[s]] /\ inHand' = [inHand EXCEPT ![s] = <<>>]
      BY <1>2 DEF Begin
    <3>3. CASE ran' = ran /\ inHand' = inHand
      BY <3>3
    <3>4. CASE ran' = [ran EXCEPT ![s] = @ \o inHand[s]] /\ inHand' = [inHand EXCEPT ![s] = <<>>]
      <4>1. ran' \in [Sessions -> Seq(Nat)]
        BY <3>1, <3>4, Zenon
      <4>2. inHand' \in [Sessions -> Seq(Nat)]
        BY <3>4
      <4> QED
        BY <4>1, <4>2
    <3> QED
      BY <3>2, <3>3, <3>4
  <2>2. pc' \in [Sessions -> Stages] /\ verdict' \in [Sessions -> {"none", "disposed"} \cup Settled]
    BY <1>2 DEF Begin, Goto, Finish, Ends
  <2>3. status' \in [Sessions -> {"running", "idle"} \cup Settled]
    BY <1>2 DEF Begin, Goto, Finish, Ends
  <2> QED
    BY <1>2, <2>1, <2>2, <2>3 DEF Begin, Goto, Finish, Ends
<1>3. ASSUME NEW s \in Sessions, Arm(s) PROVE TypeOK'
  BY <1>3 DEF Arm, Goto
<1>4. ASSUME NEW s \in Sessions, Disarm(s) PROVE TypeOK'
  BY <1>4 DEF Disarm, Goto, Excused
<1>5. ASSUME NEW s \in Sessions, Judge(s) PROVE TypeOK'
  <2>1. pc' \in [Sessions -> Stages] /\ verdict' \in [Sessions -> {"none", "disposed"} \cup Settled]
    <3>1. CASE s \in failing
      <4>1. /\ pc' = [pc EXCEPT ![s] = "ending"]
            /\ \E v \in {"disposed", "failed"} : verdict' = [verdict EXCEPT ![s] = v]
        BY <1>5, <3>1 DEF Judge, Goto, Finish
      <4> QED
        BY <4>1
    <3>2. CASE s \notin failing
      BY <1>5, <3>2 DEF Judge, Goto, Finish
    <3> QED
      BY <3>1, <3>2
  <2>2. status' \in [Sessions -> {"running", "idle"} \cup Settled]
    BY <1>5 DEF Judge, Goto, Finish, AfterFailure
  <2> QED
    BY <1>5, <2>1, <2>2 DEF Judge, Goto, Finish, AfterFailure
<1>6. ASSUME NEW s \in Sessions, SettleOneShot(s) PROVE TypeOK'
  BY <1>6 DEF SettleOneShot, Goto, Finish
<1>7. ASSUME NEW s \in Sessions, Receive(s) PROVE TypeOK'
  <2>1. Head(queue[s]) \in Nat /\ Tail(queue[s]) \in Seq(Nat) /\ Len(Tail(queue[s])) <= ChanCap
    BY <1>7 DEF Receive, Goto, Receivable, Oldest
  <2>2. queue' \in [Sessions -> Seq(Nat)] /\ \A t \in Sessions : Len(queue'[t]) <= ChanCap
    BY <1>7, <2>1 DEF Receive, Goto, Receivable, Oldest
  <2>3. inHand' \in [Sessions -> Seq(Nat)]
    BY <1>7, <2>1 DEF Receive, Goto, Receivable, Oldest
  <2>4. pc' \in [Sessions -> Stages]
    BY <1>7 DEF Receive, Goto, Receivable, Oldest
  <2> QED
    BY <1>7, <2>1, <2>2, <2>3, <2>4 DEF Receive, Goto, Receivable, Oldest
<1>8. ASSUME NEW s \in Sessions, SeeClosed(s) PROVE TypeOK'
  BY <1>8 DEF SeeClosed, Goto, Finish
<1>9. ASSUME NEW s \in Sessions, End(s) PROVE TypeOK'
  <2>1. verdict[s] \in {"disposed"} \cup Settled
    BY <1>9 DEF End, Goto, LoopInv, SessionInv, SettlesOnce, Truthful
  <2>2. notices' \in [Sessions -> Seq({"disposed"} \cup Settled)]
    BY <1>9, <2>1 DEF End, Goto
  <2>3. pc' \in [Sessions -> Stages]
    BY <1>9 DEF End, Goto
  <2> QED
    BY <1>9, <2>1, <2>2, <2>3 DEF End, Goto
<1>10. ASSUME NEW s \in Sessions, NEW err \in BOOLEAN, TurnReturns(s, err) PROVE TypeOK'
  BY <1>10 DEF TurnReturns, Goto
<1>11. ASSUME NEW s \in Sessions, Continue(s) PROVE TypeOK'
  <2>1. /\ queue' \in [Sessions -> Seq(Nat)] /\ accepted' \in [Sessions -> Nat]
        /\ \A t \in Sessions : Len(queue'[t]) <= ChanCap
    <3>1. CASE Room(s)
      BY <1>11, <3>1, PushKeepsTypes DEF Continue
    <3>2. CASE ~Room(s)
      BY <1>11, <3>2 DEF Continue
    <3> QED
      BY <3>1, <3>2
  <2> QED
    BY <1>11, <2>1 DEF Continue
<1>12. ASSUME NEW s \in Sessions, ContinueSend(s) PROVE TypeOK'
  <2>1. /\ queue' \in [Sessions -> Seq(Nat)] /\ accepted' \in [Sessions -> Nat]
        /\ \A t \in Sessions : Len(queue'[t]) <= ChanCap
    BY <1>12, PushKeepsTypes DEF ContinueSend
  <2> QED
    BY <1>12, <2>1 DEF ContinueSend
<1>13. ASSUME NEW s \in Sessions, Interrupt(s) PROVE TypeOK'
  BY <1>13 DEF Interrupt, InTurn
<1>14. ASSUME NEW d \in Disposers, NEW s \in Sessions, DisposeLookup(d, s) PROVE TypeOK'
  BY <1>14 DEF DisposeLookup, At
<1>15. ASSUME NEW d \in Disposers, NEW s \in Sessions, RunCanceled(d, s) PROVE TypeOK'
  BY <1>15 DEF RunCanceled, At
<1>16. ASSUME NEW d \in Disposers, DisposeMark(d) PROVE TypeOK'
  <2>1. call[d].s \in Sessions /\ call[d] \in [s: Sessions, at: {"found", "marked", "waiting"}]
    BY <1>16 DEF DisposeMark, At, Closed
  <2>2. call' \in [Disposers -> {NoCall} \cup [s: Sessions, at: {"found", "marked", "waiting"}]]
    BY <1>16, <2>1 DEF DisposeMark, At, Closed
  <2>3. closes' \in [Sessions -> Nat] /\ disposed' \subseteq Sessions
    BY <1>16, <2>1 DEF DisposeMark, At, Closed
  <2> QED
    BY <1>16, <2>1, <2>2, <2>3 DEF DisposeMark, At, Closed
<1>17. ASSUME NEW d \in Disposers, DisposeCancel(d) PROVE TypeOK'
  <2>1. call[d].s \in Sessions /\ call[d] \in [s: Sessions, at: {"found", "marked", "waiting"}]
    BY <1>17 DEF DisposeCancel, At
  <2>2. call' \in [Disposers -> {NoCall} \cup [s: Sessions, at: {"found", "marked", "waiting"}]]
    BY <1>17, <2>1 DEF DisposeCancel, At
  <2>3. canceled' \subseteq Sessions
    BY <1>17, <2>1 DEF DisposeCancel, At
  <2> QED
    BY <1>17, <2>1, <2>2, <2>3 DEF DisposeCancel, At
<1>18. ASSUME NEW d \in Disposers, DisposeReturn(d) PROVE TypeOK'
  BY <1>18 DEF DisposeReturn, At, Without
<1>19. ASSUME NEW s \in Sessions, RunCollect(s) PROVE TypeOK'
  BY <1>19 DEF RunCollect, Without
<1>20. CASE UNCHANGED vars
  BY <1>20 DEF vars
<1> HIDE DEF TypeOK
<1> QED
  BY <1>1, <1>2, <1>3, <1>4, <1>5, <1>6, <1>7, <1>8, <1>9, <1>10, <1>11, <1>12, <1>13, <1>14, <1>15, <1>16, <1>17, <1>18, <1>19, <1>20
     DEF Next, Loop, Disposal

LEMMA LoopStep == TypeOK /\ LoopInv /\ [Next]_vars => LoopInv'
<1> SUFFICES ASSUME TypeOK, LoopInv, [Next]_vars, NEW t \in Sessions PROVE SessionInv(t)'
  BY DEF LoopInv
<1>0. SessionInv(t)
  BY DEF LoopInv
<1> USE <1>0, SubagentAssumption
    DEF TypeOK, loopVars, chanVars, turnVars, regVars, Settled, NoCall, Unlocked,
        SessionInv, SettlesOnce, Truthful, InterruptIsKnown, HandIsEmpty, BlockedIsServed, InTurn
<1>1. ASSUME NEW s \in Sessions, NEW once \in BOOLEAN, Spawn(s, once) PROVE SessionInv(t)'
  BY <1>1 DEF Spawn, Goto
<1>2. ASSUME NEW s \in Sessions, Begin(s) PROVE SessionInv(t)'
  <2>1. CASE s \in disposed
    BY SMTT(30), <1>2, <2>1 DEF Begin, Goto, Finish, Ends
  <2>2. CASE s \notin disposed
    <3>1. CASE t = s
      BY <1>2, <2>2, <3>1 DEF Begin, Goto, Ends
    <3>2. CASE t # s
      BY <1>2, <2>2, <3>2 DEF Begin, Goto, Ends
    <3> QED
      BY <3>1, <3>2
  <2> QED
    BY <2>1, <2>2
<1>3. ASSUME NEW s \in Sessions, Arm(s) PROVE SessionInv(t)'
  BY <1>3 DEF Arm, Goto
<1>4. ASSUME NEW s \in Sessions, Disarm(s) PROVE SessionInv(t)'
  BY <1>4 DEF Disarm, Goto, Excused
<1>5. ASSUME NEW s \in Sessions, Judge(s) PROVE SessionInv(t)'
  <2>1. CASE t # s
    BY <1>5, <2>1 DEF Judge, Goto, Finish
  <2>2. CASE t = s /\ s \notin failing
    BY <1>5, <2>2 DEF Judge, Goto
  <2>3. CASE t = s /\ s \in failing /\ s \in disposed
    BY <1>5, <2>3 DEF Judge, Goto, Finish, AfterFailure
  <2>4. CASE t = s /\ s \in failing /\ s \notin disposed
    BY <1>5, <2>4 DEF Judge, Goto, Finish, AfterFailure
  <2> QED
    BY <2>1, <2>2, <2>3, <2>4
<1>6. ASSUME NEW s \in Sessions, SettleOneShot(s) PROVE SessionInv(t)'
  <2>1. CASE t # s
    BY <1>6, <2>1 DEF SettleOneShot, Goto, Finish
  <2>2. CASE t = s
    BY <1>6, <2>2 DEF SettleOneShot, Goto, Finish
  <2> QED
    BY <2>1, <2>2
<1>7. ASSUME NEW s \in Sessions, Receive(s) PROVE SessionInv(t)'
  BY <1>7 DEF Receive, Goto, Receivable, Oldest
<1>8. ASSUME NEW s \in Sessions, SeeClosed(s) PROVE SessionInv(t)'
  BY SMTT(30), <1>8 DEF SeeClosed, Goto, Finish
<1>9. ASSUME NEW s \in Sessions, End(s) PROVE SessionInv(t)'
  <2>1. CASE t = s
    <3>1. notices[s] = <<>> /\ notices'[s] = <<verdict[s]>> /\ Len(notices'[s]) = 1
      BY <1>9, <2>1 DEF End
    <3>2. pc'[s] = "done" /\ notices'[s][1] = verdict[s]
      BY <1>9, <3>1 DEF End, Goto
    <3> QED
      BY <1>9, <2>1, <3>1, <3>2 DEF End
  <2>2. CASE t # s
    BY <1>9, <2>2 DEF End, Goto
  <2> QED
    BY <2>1, <2>2
<1>10. ASSUME NEW s \in Sessions, NEW err \in BOOLEAN, TurnReturns(s, err) PROVE SessionInv(t)'
  BY <1>10 DEF TurnReturns, Goto
<1>11. ASSUME NEW s \in Sessions, Continue(s) PROVE SessionInv(t)'
  <2>0. SessionInv(s)
    BY DEF LoopInv
  <2>1. pc' = pc /\ pc[s] \notin {"absent", "ending", "done"}
    BY <1>11, <2>0 DEF Continue, Continuable
  <2>2. \/ sender' = sender /\ queue' = [queue EXCEPT ![s] = Append(@, accepted[s] + 1)]
        \/ sender' = sender \cup {s} /\ queue' = queue /\ Len(queue[s]) = ChanCap
    BY SMTT(30), <1>11 DEF Continue, Push, Room
  <2> QED
    BY <1>11, <2>1, <2>2 DEF Continue
<1>12. ASSUME NEW s \in Sessions, ContinueSend(s) PROVE SessionInv(t)'
  BY <1>12 DEF ContinueSend, Push, Room
<1>13. ASSUME NEW s \in Sessions, Interrupt(s) PROVE SessionInv(t)'
  BY <1>13 DEF Interrupt, InTurn
<1>14. ASSUME NEW d \in Disposers, NEW s \in Sessions, DisposeLookup(d, s) PROVE SessionInv(t)'
  BY <1>14 DEF DisposeLookup, At
<1>15. ASSUME NEW d \in Disposers, NEW s \in Sessions, RunCanceled(d, s) PROVE SessionInv(t)'
  BY <1>15 DEF RunCanceled, At
<1>16. ASSUME NEW d \in Disposers, DisposeMark(d) PROVE SessionInv(t)'
  BY <1>16 DEF DisposeMark, At, Closed
<1>17. ASSUME NEW d \in Disposers, DisposeCancel(d) PROVE SessionInv(t)'
  BY <1>17 DEF DisposeCancel, At
<1>18. ASSUME NEW d \in Disposers, DisposeReturn(d) PROVE SessionInv(t)'
  BY <1>18 DEF DisposeReturn, At, Without
<1>19. ASSUME NEW s \in Sessions, RunCollect(s) PROVE SessionInv(t)'
  BY <1>19 DEF RunCollect, Without
<1>20. CASE UNCHANGED vars
  BY <1>20 DEF vars
<1> QED
  BY <1>1, <1>2, <1>3, <1>4, <1>5, <1>6, <1>7, <1>8, <1>9, <1>10, <1>11, <1>12, <1>13, <1>14, <1>15, <1>16, <1>17, <1>18, <1>19, <1>20
     DEF Next, Loop, Disposal

-----------------------------------------------------------------------------
(* What concatenation and Append do to sequences of messages.              *)
LEMMA ConcatMessages ==
  ASSUME NEW a \in Seq(Nat), NEW b \in Seq(Nat), NEW c \in Seq(Nat)
  PROVE  (a \o b) \o c = a \o (b \o c)
BY ConcatAssociative

LEMMA AppendMessage ==
  ASSUME NEW a \in Seq(Nat), NEW b \in Seq(Nat), NEW m \in Nat
  PROVE  a \o Append(b, m) = Append(a \o b, m)
<1>1. <<m>> \in Seq(Nat) /\ a \o b \in Seq(Nat)
  OBVIOUS
<1>2. Append(b, m) = b \o <<m>> /\ Append(a \o b, m) = (a \o b) \o <<m>>
  BY <1>1, AppendIsConcat
<1> QED
  BY <1>1, <1>2, ConcatMessages

(* Follow-ups.  In each step at most one message changes its place.        *)
LEMMA FollowUpsStep == TypeOK /\ LoopInv /\ FollowUpsInOrder /\ [Next]_vars => FollowUpsInOrder'
<1> SUFFICES ASSUME TypeOK, LoopInv, FollowUpsInOrder, [Next]_vars, NEW t \in Sessions
             PROVE  (ran[t] \o inHand[t] \o queue[t])' = [i \in 1..accepted'[t] |-> i]
  BY DEF FollowUpsInOrder
<1>0. /\ ran[t] \o inHand[t] \o queue[t] = [i \in 1..accepted[t] |-> i]
      /\ ran[t] \in Seq(Nat) /\ inHand[t] \in Seq(Nat) /\ queue[t] \in Seq(Nat)
      /\ accepted[t] \in Nat
  BY DEF FollowUpsInOrder, TypeOK
<1>1. CASE /\ ran'[t] = ran[t] /\ inHand'[t] = inHand[t]
           /\ queue'[t] = queue[t] /\ accepted'[t] = accepted[t]
  BY <1>0, <1>1
<1>2. CASE /\ ran'[t] = ran[t] \o inHand[t] /\ inHand'[t] = <<>>
           /\ queue'[t] = queue[t] /\ accepted'[t] = accepted[t]
  <2>1. ran'[t] \o inHand'[t] = ran[t] \o inHand[t]
    BY <1>0, <1>2
  <2> QED
    BY <1>0, <1>2, <2>1
<1>3. CASE /\ inHand[t] = <<>> /\ queue[t] # <<>> /\ ran'[t] = ran[t]
           /\ inHand'[t] = <<Head(queue[t])>> /\ queue'[t] = Tail(queue[t])
           /\ accepted'[t] = accepted[t]
  <2>1. (ran[t] \o <<Head(queue[t])>>) \o Tail(queue[t])
          = ran[t] \o (<<Head(queue[t])>> \o Tail(queue[t]))
    <3> DEFINE h == <<Head(queue[t])>>
               l == Tail(queue[t])
    <3>1. Head(queue[t]) \in Nat /\ l \in Seq(Nat)
      BY <1>0, <1>3, HeadTailProperties
    <3>2. h \in Seq(Nat)
      BY <3>1
    <3> HIDE DEF h, l
    <3>3. ran[t] \in Seq(Nat)
      BY <1>0
    <3>4. (ran[t] \o h) \o l = ran[t] \o (h \o l)
      BY <3>1, <3>2, <3>3, ConcatMessages
    <3> QED
      BY <3>4 DEF h, l
  <2>2. <<Head(queue[t])>> \o Tail(queue[t]) = queue[t]
    BY <1>0, <1>3, HeadTailProperties
  <2>3. ran[t] \o inHand[t] = ran[t]
    BY <1>0, <1>3, ConcatEmptySeq
  <2> QED
    BY <1>0, <1>3, <2>1, <2>2, <2>3
<1>4. CASE /\ ran'[t] = ran[t] /\ inHand'[t] = inHand[t]
           /\ queue'[t] = Append(queue[t], accepted[t] + 1) /\ accepted'[t] = accepted[t] + 1
  <2> DEFINE all == ran[t] \o inHand[t]
  <2>1. all \o Append(queue[t], accepted[t] + 1) = Append(all \o queue[t], accepted[t] + 1)
    <3>1. all \in Seq(Nat) /\ accepted[t] + 1 \in Nat
      BY <1>0
    <3> QED
      BY <1>0, <3>1, AppendMessage
  <2>2. Append([i \in 1..accepted[t] |-> i], accepted[t] + 1) = [i \in 1..(accepted[t] + 1) |-> i]
    BY <1>0
  <2> QED
    BY <1>0, <1>4, <2>1, <2>2
<1>5. ASSUME NEW s \in Sessions, Begin(s) \/ Receive(s) \/ Continue(s) \/ ContinueSend(s)
      PROVE  (ran[t] \o inHand[t] \o queue[t])' = [i \in 1..accepted'[t] |-> i]
  <2>0. SessionInv(s)
    BY DEF LoopInv
  <2>1. CASE Begin(s)
    <3>1. CASE t = s /\ s \notin disposed
      BY <1>2, <2>1, <3>1 DEF Begin, Ends, TypeOK
    <3>2. CASE t = s /\ s \in disposed
      BY <1>1, <2>1, <3>2 DEF Begin, Ends, TypeOK
    <3>3. CASE t # s
      BY <1>1, <2>1, <3>3 DEF Begin, TypeOK
    <3> QED
      BY <3>1, <3>2, <3>3
  <2>2. CASE Receive(s)
    BY <1>1, <1>3, <2>0, <2>2 DEF Receive, Receivable, Oldest, TypeOK, SessionInv, HandIsEmpty
  <2>3. CASE Continue(s)
    BY <1>1, <1>4, <2>3 DEF Continue, Push, TypeOK
  <2>4. CASE ContinueSend(s)
    BY <1>1, <1>4, <2>4 DEF ContinueSend, Push, TypeOK
  <2> QED
    BY <1>5, <2>1, <2>2, <2>3, <2>4
<1>6. ASSUME UNCHANGED <<ran, inHand, queue, accepted>>
      PROVE  (ran[t] \o inHand[t] \o queue[t])' = [i \in 1..accepted'[t] |-> i]
  BY <1>0, <1>6
<1> USE DEF loopVars, chanVars, turnVars, regVars
<1>7. ASSUME NEW s \in Sessions, NEW c \in BOOLEAN, Spawn(s, c) \/ TurnReturns(s, c)
      PROVE  UNCHANGED <<ran, inHand, queue, accepted>>
  BY <1>7 DEF Spawn, TurnReturns
<1>8. ASSUME NEW s \in Sessions,
             Arm(s) \/ Disarm(s) \/ Judge(s) \/ SettleOneShot(s) \/ SeeClosed(s) \/ End(s)
               \/ Interrupt(s) \/ RunCollect(s)
      PROVE  UNCHANGED <<ran, inHand, queue, accepted>>
  BY <1>8 DEF Arm, Disarm, Judge, SettleOneShot, SeeClosed, End, Interrupt, RunCollect
<1>9. ASSUME NEW d \in Disposers, NEW s \in Sessions, DisposeLookup(d, s) \/ RunCanceled(d, s)
      PROVE  UNCHANGED <<ran, inHand, queue, accepted>>
  BY <1>9 DEF DisposeLookup, RunCanceled
<1>10. ASSUME NEW d \in Disposers, Disposal(d)
       PROVE  UNCHANGED <<ran, inHand, queue, accepted>>
  BY <1>10 DEF Disposal, DisposeMark, DisposeCancel, DisposeReturn
<1>11. CASE UNCHANGED vars
  BY <1>6, <1>11 DEF vars
<1> QED
  BY <1>5, <1>6, <1>7, <1>8, <1>9, <1>10, <1>11 DEF Next, Loop

-----------------------------------------------------------------------------
LEMMA RegistryInitially == Init => RegistryInv
<1> SUFFICES ASSUME Init PROVE RegistryInv
  OBVIOUS
<1> USE SubagentAssumption DEF Init
<1>1. TypeOK
  BY DEF TypeOK, Stages, Settled, NoCall
<1>2. LoopInv
  BY DEF LoopInv, SessionInv, SettlesOnce, Truthful, InterruptIsKnown, HandIsEmpty,
         BlockedIsServed, InTurn, Settled
<1>3. FollowUpsInOrder
  BY DEF FollowUpsInOrder
<1> QED
  BY <1>1, <1>2, <1>3 DEF RegistryInv

LEMMA RegistryStep == RegistryInv /\ [Next]_vars => RegistryInv'
BY RegistryTypingStep, LoopStep, FollowUpsStep DEF RegistryInv

LEMMA RegistryInvariant == Spec => []RegistryInv
BY RegistryInitially, RegistryStep, PTL DEF Spec

(* Every variable keeps its type; the follow-up channel keeps its bound.   *)
THEOREM RegistryTyping == Spec => []TypeOK
<1>1. RegistryInv => TypeOK
  BY DEF RegistryInv
<1> QED
  BY <1>1, RegistryInvariant, PTL

(* One notice per child, at its end, that agrees with its status; no child *)
(* settled by an interrupt alone; no follow-up lost, repeated or           *)
(* overtaken on its way from Continue to its turn; no Continue left        *)
(* blocked on a loop that is over - whatever the order of turns,           *)
(* interrupts and disposals, and however many callers there are.           *)
THEOREM SubagentsFaithful == Spec => []SubagentsAreFaithful
<1>1. RegistryInv => SubagentsAreFaithful
  <2> SUFFICES ASSUME RegistryInv PROVE SubagentsAreFaithful
    OBVIOUS
  <2>1. FollowUpsInOrder
    BY DEF RegistryInv
  <2>2. \A s \in Sessions : SessionInv(s)
    BY DEF RegistryInv, LoopInv
  <2>3. OneHonestNotice
    <3> SUFFICES ASSUME NEW s \in Sessions
                 PROVE  /\ Len(notices[s]) = IF pc[s] = "done" THEN 1 ELSE 0
                        /\ pc[s] = "done" => Truthful(s, notices[s][1])
      BY DEF OneHonestNotice, Truthful
    <3>1. SettlesOnce(s)
      BY <2>2 DEF SessionInv
    <3> QED
      BY <3>1 DEF SettlesOnce
  <2>4. InterruptNeverSettles
    BY <2>2 DEF InterruptNeverSettles, SessionInv, InterruptIsKnown
  <2>5. BlockedOnLiveSession
    BY <2>2 DEF BlockedOnLiveSession, SessionInv, BlockedIsServed, RegistryInv, TypeOK
  <2> QED
    BY <2>1, <2>3, <2>4, <2>5 DEF SubagentsAreFaithful
<1> QED
  BY <1>1, RegistryInvariant, PTL

-----------------------------------------------------------------------------
(* Disposal: only Begin and Judge could undo it, and both look.            *)
StaysDisposed(t) ==
  /\ status[t] # "failed" => status'[t] # "failed"
  /\ ran'[t] = ran[t]
  /\ pc'[t] = "arming" => pc[t] = "arming"

LEMMA DisposalStep ==
  ASSUME TypeOK, [Next]_vars, NEW t \in disposed
  PROVE  StaysDisposed(t)
<1>0. t \in Sessions
  BY DEF TypeOK
<1> USE <1>0 DEF StaysDisposed, TypeOK, loopVars, chanVars, turnVars, regVars
<1>1. ASSUME NEW s \in Sessions, Begin(s) PROVE StaysDisposed(t)
  <2>1. CASE s \in disposed
    BY <1>1, <2>1 DEF Begin, Ends, Finish, Goto
  <2>2. CASE s \notin disposed
    BY <1>1, <2>2 DEF Begin, Ends, Goto
  <2> QED
    BY <2>1, <2>2
<1>2. ASSUME NEW s \in Sessions, Judge(s) PROVE StaysDisposed(t)
  <2>1. CASE s \in disposed
    BY <1>2, <2>1 DEF Judge, AfterFailure, Finish, Goto
  <2>2. CASE s \notin disposed
    BY <1>2, <2>2 DEF Judge, AfterFailure, Finish, Goto
  <2> QED
    BY <2>1, <2>2
<1>3. ASSUME NEW s \in Sessions,
             Arm(s) \/ Disarm(s) \/ SettleOneShot(s) \/ Receive(s) \/ SeeClosed(s) \/ End(s)
      PROVE  StaysDisposed(t)
  BY <1>3 DEF Arm, Disarm, SettleOneShot, Receive, SeeClosed, End, Finish, Goto
<1>4. ASSUME NEW s \in Sessions,
             Continue(s) \/ ContinueSend(s) \/ Interrupt(s) \/ RunCollect(s)
      PROVE  StaysDisposed(t)
  BY <1>4 DEF Continue, ContinueSend, Interrupt, RunCollect
<1>5. ASSUME NEW s \in Sessions, NEW c \in BOOLEAN, Spawn(s, c) \/ TurnReturns(s, c)
      PROVE  StaysDisposed(t)
  BY <1>5 DEF Spawn, TurnReturns, Goto
<1>6. ASSUME NEW d \in Disposers, NEW s \in Sessions, DisposeLookup(d, s) \/ RunCanceled(d, s)
      PROVE  StaysDisposed(t)
  BY <1>6 DEF DisposeLookup, RunCanceled
<1>7. ASSUME NEW d \in Disposers, Disposal(d) PROVE StaysDisposed(t)
  BY <1>7 DEF Disposal, DisposeMark, DisposeCancel, DisposeReturn
<1>8. CASE UNCHANGED vars
  BY <1>8 DEF vars
<1> HIDE DEF StaysDisposed, TypeOK, loopVars, chanVars, turnVars, regVars
<1> QED
  BY <1>1, <1>2, <1>3, <1>4, <1>5, <1>6, <1>7, <1>8 DEF Next, Loop

(* A disposed session takes no further turn, whatever is queued, and never *)
(* turns out failed afterwards.                                            *)
THEOREM DisposalFinal == Spec => DisposalIsFinal
<1>1. TypeOK /\ [Next]_vars =>
        [\A s \in disposed : /\ status[s] # "failed" => status'[s] # "failed"
                             /\ ran'[s] = ran[s]
                             /\ pc'[s] = "arming" => pc[s] = "arming"]_vars
  <2> SUFFICES ASSUME TypeOK, [Next]_vars
               PROVE  \A s \in disposed : /\ status[s] # "failed" => status'[s] # "failed"
                                          /\ ran'[s] = ran[s]
                                          /\ pc'[s] = "arming" => pc[s] = "arming"
    OBVIOUS
  <2> QED
    BY DisposalStep DEF StaysDisposed
<1> QED
  BY <1>1, RegistryTyping, PTL DEF Spec, DisposalIsFinal
=============================================================================
