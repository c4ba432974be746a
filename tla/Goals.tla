---- MODULE Goals ----
(* One durable goal (core/goal), the round driver that claims rounds of it  *)
(* for armed sessions (module/goalround) and the update_goal tool           *)
(* (tools/goal). Manager.Update is load and fn, a second load that compares *)
(* the revision, and the save, under the manager's lock; Get takes no lock. *)
(* The driver looks its armed state up in one critical section and acts on  *)
(* it in others.                                                            *)
EXTENDS Integers, Sequences, FiniteSets

CONSTANTS
  Sessions, Host,     \* sessions that run an agent, and the product itself
  Reasons,            \* blockers
  MaxRounds,          \* the goal's cap; 0 = unlimited
  BlockThreshold,
  MaxArms, MaxRevision   \* bounds on arming and on commits

(* A cap of zero or less lets the goal go on.                               *)
ASSUME GoalAssumption == MaxRounds \in Int /\ MaxRevision \in Nat

Actors == Sessions \union {Host}
Idle == [pc |-> "idle", st |-> 0, host |-> FALSE, round |-> 0, why |-> ""]
NoUpdate == [stage |-> "none"]
Missing == [phase |-> "missing", revision |-> 0, rounds |-> 0, reason |-> "", streak |-> 0]

VARIABLES
  goal,       \* the stored document
  update,     \* the Update an actor is in
  armed,      \* m.armed: the armed state of a session, 0 for none
  arms,       \* the armedState objects: [round, hostRun]
  run,        \* the run of a session: where it is in the driver's hooks
  claims,     \* history: the rounds claimed, in order of their commit
  hostRuns,   \* history: runs with host authority under each armed state
  notices     \* history: settlement notices, [arm, status]

goalVars == <<goal, update, armed, arms, run, claims, hostRuns, notices>>

GoalsInit ==
  /\ goal = Missing
  /\ update = [a \in Actors |-> NoUpdate]
  /\ armed = [s \in Sessions |-> 0] /\ arms = <<>>
  /\ run = [s \in Sessions |-> Idle]
  /\ claims = <<>> /\ hostRuns = <<>> /\ notices = {}

LockIgnored == TRUE
LockFree == \A a \in Actors : update[a] = NoUpdate

Create ==
  /\ LockFree /\ goal = Missing /\ claims = <<>>
  /\ goal' = [phase |-> "active", revision |-> 1, rounds |-> 0, reason |-> "",
              streak |-> 0]
  /\ UNCHANGED <<update, armed, arms, run, claims, hostRuns, notices>>

Clear ==
  /\ LockFree /\ goal # Missing
  /\ goal' = Missing
  /\ UNCHANGED <<update, armed, arms, run, claims, hostRuns, notices>>
----------------------------------------------------------------------------
(* The functions Update applies: the set of results, empty on an error.     *)
Complete(g) ==
  {IF g.phase = "complete" THEN g ELSE [g EXCEPT !.phase = "complete", !.reason = "", !.streak = 0]}
Pause(g) == {h \in {[g EXCEPT !.phase = "paused"]} : g.phase = "active"}
ResumeBlocked(g) ==
  {h \in {[g EXCEPT !.phase = "active"]} : g.phase \in {"paused", "blocked"}}
Resume(g) == {h \in {[g EXCEPT !.phase = "active", !.reason = "", !.streak = 0]} :
                g.phase \in {"paused", "blocked"}}
Block(g, why) ==
  IF g.phase \notin {"active", "blocked"} THEN {}
  ELSE IF g.phase = "blocked" /\ g.reason = why THEN {[g EXCEPT !.streak = @ + 1]}
  ELSE {[g EXCEPT !.phase = "blocked", !.reason = why, !.streak = 1]}
\* A round only continues a blocker that has persisted.
BlockAutonomous(g, why) ==
  {h \in {[g EXCEPT !.streak = @ + 1]} :
     g.phase = "blocked" /\ g.reason = why /\ g.streak >= BlockThreshold - 1}
CapReached(g) == MaxRounds > 0 /\ g.rounds >= MaxRounds
StartRound(g) ==
  {h \in {[g EXCEPT !.rounds = @ + 1]} : g.phase = "active" /\ ~CapReached(g)}

\* Load and fn under the lock.
Begin(a, results) ==
  /\ LockFree /\ goal # Missing /\ goal.revision < MaxRevision
  /\ \E g \in results :
       update' = [update EXCEPT ![a] = [stage |-> "reread", g |-> g, rev |-> goal.revision,
                    claim |-> a \in Sessions /\ run[a].pc = "claiming"]]

\* The second load: another revision means ErrStaleRevision.
Reread(a) ==
  /\ update[a].stage = "reread"
  /\ update' = [update EXCEPT ![a] =
                  IF goal = Missing \/ goal.revision # @.rev THEN [@ EXCEPT !.stage = "failed"]
                  ELSE [@ EXCEPT !.stage = "save"]]
  /\ UNCHANGED <<goal, armed, arms, run, claims, hostRuns, notices>>

Claims(a) == update[a].claim
Save(a) ==
  /\ update[a].stage = "save"
  /\ goal' = [update[a].g EXCEPT !.revision = @ + 1]
  /\ update' = [update EXCEPT ![a] = NoUpdate]
  /\ IF Claims(a)
     THEN /\ claims' = Append(claims, update[a].g.rounds)
          /\ run' = [run EXCEPT ![a].pc = "claimed", ![a].round = update[a].g.rounds]
     ELSE UNCHANGED <<claims, run>>
  /\ UNCHANGED <<armed, arms, hostRuns, notices>>

SaveFails(a) ==
  /\ update[a].stage \in {"save", "failed"}
  /\ update' = [update EXCEPT ![a] = NoUpdate]
  /\ run' = IF Claims(a) THEN [run EXCEPT ![a].pc = "claimFailed"] ELSE run
  /\ UNCHANGED <<goal, armed, arms, claims, hostRuns, notices>>
----------------------------------------------------------------------------
(* The round driver. *)
Arm(s) ==
  /\ armed[s] = 0 /\ Len(arms) < MaxArms
  /\ arms' = Append(arms, [round |-> 0, hostRun |-> TRUE])
  /\ armed' = [armed EXCEPT ![s] = Len(arms) + 1]
  /\ hostRuns' = Append(hostRuns, 0)
  /\ UNCHANGED <<goal, update, run, claims, notices>>

Disarm(s) ==
  /\ armed[s] # 0 /\ armed' = [armed EXCEPT ![s] = 0]
  /\ UNCHANGED <<goal, update, arms, run, claims, hostRuns, notices>>

\* OnAgentStart looks the session up: an ordinary run has host authority.
RunStarts(s) ==
  /\ run[s].pc = "idle"
  /\ run' = [run EXCEPT ![s] = IF armed[s] = 0
               THEN [Idle EXCEPT !.pc = "running", !.host = TRUE]
               ELSE [Idle EXCEPT !.pc = "claiming", !.st = armed[s]]]
  /\ UNCHANGED <<goal, update, armed, arms, claims, hostRuns, notices>>

Claim(s) ==
  /\ run[s].pc = "claiming" /\ update[s] = NoUpdate
  /\ Begin(s, StartRound(goal))
  /\ UNCHANGED <<goal, armed, arms, run, claims, hostRuns, notices>>

ClaimRefused(s) ==
  /\ run[s].pc = "claiming" /\ update[s] = NoUpdate /\ LockFree
  /\ StartRound(goal) = {}
  /\ run' = [run EXCEPT ![s].pc = "claimFailed"]
  /\ UNCHANGED <<goal, update, armed, arms, claims, hostRuns, notices>>

\* Whatever the session is armed with by now is disarmed.
Settle(s, status) ==
  /\ armed' = [armed EXCEPT ![s] = 0]
  /\ notices' = notices \union {[arm |-> run[s].st, status |-> status]}

ClaimFailed(s) ==
  /\ run[s].pc = "claimFailed"
  /\ Settle(s, "failed")
  /\ run' = [run EXCEPT ![s] = [Idle EXCEPT !.pc = "running"]]
  /\ UNCHANGED <<goal, update, arms, claims, hostRuns>>

HostEveryRound(st) == arms[st]
HostOnce(st) == [arms[st] EXCEPT !.hostRun = FALSE]
Claimed(s) ==
  /\ run[s].pc = "claimed"
  /\ LET st == run[s].st
     IN /\ arms' = [arms EXCEPT ![st] = [HostOnce(st) EXCEPT !.round = run[s].round]]
        /\ run' = [run EXCEPT ![s].pc = "running", ![s].host = arms[st].hostRun]
        /\ hostRuns' = [hostRuns EXCEPT ![st] = @ + IF arms[st].hostRun THEN 1 ELSE 0]
  /\ UNCHANGED <<goal, update, armed, claims, notices>>

\* update_goal: what an actor may ask for. Everything but block needs a host
\* turn; the product itself calls the manager.
Authority(a) == a \in Sessions => run[a].host
MayAct(a) == a \in Sessions => run[a].pc = "running"
Actions(a, g) ==
  IF Authority(a) THEN Pause(g) \union Resume(g) \union Complete(g)
                         \union UNION {Block(g, why) : why \in Reasons}
  ELSE UNION {BlockAutonomous(g, why) : why \in Reasons}

UpdateGoal(a) ==
  /\ MayAct(a) /\ update[a] = NoUpdate
  /\ Begin(a, Actions(a, goal))
  /\ UNCHANGED <<goal, armed, arms, run, claims, hostRuns, notices>>

\* OnAgentEnd: look up, read the goal, disarm.
RunEnds(s) ==
  /\ run[s].pc = "running" /\ update[s] = NoUpdate
  /\ run' = [run EXCEPT ![s] = IF armed[s] = 0 THEN Idle
               ELSE [Idle EXCEPT !.pc = "ending", !.st = armed[s]]]
  /\ UNCHANGED <<goal, update, armed, arms, claims, hostRuns, notices>>

Verdict == IF goal = Missing THEN "failed"
           ELSE IF goal.phase # "active" THEN goal.phase
           ELSE IF CapReached(goal) THEN "rounds_exhausted" ELSE "go on"

ReadGoal(s) ==
  /\ run[s].pc = "ending"
  /\ run' = [run EXCEPT ![s] = IF Verdict = "go on" THEN Idle
               ELSE [@ EXCEPT !.pc = "settling", !.why = Verdict]]
  /\ UNCHANGED <<goal, update, armed, arms, claims, hostRuns, notices>>

Settling(s) ==
  /\ run[s].pc = "settling"
  /\ Settle(s, run[s].why)
  /\ run' = [run EXCEPT ![s] = Idle]
  /\ UNCHANGED <<goal, update, arms, claims, hostRuns>>

GoalsNext ==
  \/ Create \/ Clear
  \/ \E a \in Actors : Reread(a) \/ Save(a) \/ SaveFails(a) \/ UpdateGoal(a)
  \/ \E s \in Sessions :
       \/ Arm(s) \/ Disarm(s) \/ RunStarts(s) \/ Claim(s) \/ ClaimRefused(s)
       \/ ClaimFailed(s) \/ Claimed(s) \/ RunEnds(s) \/ ReadGoal(s) \/ Settling(s)

GoalsSpec == GoalsInit /\ [][GoalsNext]_goalVars
----------------------------------------------------------------------------
GoalsTypeOK ==
  /\ goal = Missing \/ /\ goal.phase \in {"active", "paused", "blocked", "complete"}
                       /\ goal.revision \in 1..MaxRevision + 1 /\ goal.streak >= 0
  /\ \A s \in Sessions : armed[s] \in 0..Len(arms) /\ run[s].st \in 0..Len(arms)
  /\ Len(hostRuns) = Len(arms)

(* However the sessions and the product interleave, every round of a goal   *)
(* is claimed by one run, in order and up to the cap, the goal's counter is *)
(* the number of claims, and an armed state gives host authority to its     *)
(* first run only.                                                          *)
RoundsClaimedOnce ==
  /\ claims = [i \in 1..Len(claims) |-> i]
  /\ MaxRounds > 0 => Len(claims) <= MaxRounds
  /\ goal # Missing => goal.rounds = Len(claims)
  /\ \A st \in DOMAIN arms : hostRuns[st] <= 1

(* A goal is blocked only with a reason, and for a streak that has begun;   *)
(* a goal that is not blocked carries neither.                              *)
BlockedHasReason ==
  goal # Missing =>
    /\ goal.phase = "blocked" => goal.reason \in Reasons /\ goal.streak >= 1
    /\ goal.phase # "blocked" => goal.reason = "" /\ goal.streak = 0

(* A goal counts its rounds, each claimed once, and is blocked for a       *)
(* reason, whoever updates it in between.                                  *)
GoalsAreSound == RoundsClaimedOnce /\ BlockedHasReason

(* goalBlock tells the model of every round: "Report completion with        *)
(* update_goal(action="complete")". A round of an active goal may do that.  *)
RoundMayComplete ==
  \A s \in Sessions :
    run[s].pc = "running" /\ run[s].round > 0 /\ goal.phase = "active" =>
      Complete(goal) \subseteq Actions(s, goal)
====
