------------------------------- MODULE Decisions -------------------------------
(***************************************************************************)
(* Who decides whether a tool call may run: the permission module          *)
(* (module/permission), human in the loop (module/hitl) and plan mode      *)
(* (module/planmode), as OnToolCall hooks of one runtime.                  *)
(*                                                                         *)
(* ExecTools hooks the calls of a batch one after another; a hook that     *)
(* asks somebody blocks all of them.  When every call has passed, the      *)
(* tools run at once, the dialogue tool and exit_plan_mode among them.     *)
(* The answers of the human come through ONE channel per run and carry no  *)
(* id: whoever reads next takes them.                                      *)
(*                                                                         *)
(* The file policy and the policies pinned on a delegation are the         *)
(* application's.  Every tool is registered, so its effects are declared   *)
(* or filled in by EffectiveEffects.                                       *)
(***************************************************************************)
EXTENDS Integers, Sequences, FiniteSets

CONSTANTS MaxCalls,  \* calls of all the batches of the run
          Settings,  \* how the host has set up the modules
          Requests,  \* what the model may ask for
          MaxEnters  \* times the host enters plan mode

ToolCalls == 1..MaxCalls
Modules == {"planmode", "permission", "hitl"}
Paths == {"none", "inside", "outside", "garbled"}

(* The host installs each module once, in an order of its own.             *)
ASSUME DecisionsAssumption ==
  /\ MaxCalls \in Nat /\ MaxEnters \in Nat
  /\ Requests # {}
  /\ Requests \subseteq [tool : {"plain", "dialogue", "exit"}, writes : BOOLEAN,
                         executes : BOOLEAN, path : Paths, rule : BOOLEAN]
  /\ \A s \in Settings :
       /\ s.order \in Seq(Modules)
       /\ \A m \in Modules : \E k \in DOMAIN s.order : s.order[k] = m
       /\ \A j, k \in DOMAIN s.order : s.order[j] = s.order[k] => j = k

VARIABLES
  setting,  \* tier, disposition, delegated, asker, onTimeout and order of the hooks
  planned,  \* the fold of the session's plan/mode events
  enters,   \* calls of Enter so far
  stage,    \* what ExecTools is doing
  batch,    \* the calls of the current batch
  request,  \* ToolCallInfo, by call
  at,       \* the hook the call has come to
  phase,    \* how far each call is
  done,     \* the context of the batch is cancelled
  inbox,    \* the run's InterruptInput channel
  host,     \* what the host said of the call (history)
  heard,    \* the answer the call took from the channel (history)
  answered, \* requests the human has answered (history)
  cleared,  \* the path the permission module let pass (history)
  reports,  \* the decisions fired for the call (history)
  planDue,  \* plan mode was entered and no approval has ended it (history)
  held      \* calls that have only ever seen plan mode (history)

callVars == <<request, at, phase>>
historyVars == <<host, heard, answered, cleared, reports, planDue, held>>
decisionVars == <<setting, planned, enters, stage, batch, callVars, done, inbox, historyVars>>

Waiting == {"host", "human", "talks", "asks"}
Over == {"ran", "failed", "blocked", "skipped"}
Started == {"talks", "asks", "ran", "failed"}
HostAnswers == {"approve", "modify", "skip", "reject"}

DecisionsInit ==
  /\ setting \in Settings
  /\ planned \in BOOLEAN
  /\ enters = 0
  /\ stage = "over" /\ batch = {}
  /\ request = [c \in ToolCalls |-> CHOOSE r \in Requests : TRUE]
  /\ at = [c \in ToolCalls |-> 1]
  /\ phase = [c \in ToolCalls |-> "new"]
  /\ done = FALSE
  /\ inbox = <<>>
  /\ host = [c \in ToolCalls |-> "silent"]
  /\ heard = [c \in ToolCalls |-> <<>>]
  /\ answered = {} /\ held = {} /\ planDue = planned
  /\ cleared = [c \in ToolCalls |-> "none"]
  /\ reports = [c \in ToolCalls |-> <<>>]

-----------------------------------------------------------------------------
(* The step issues its next batch: one call or two.                        *)
IssueBatch(size) ==
  /\ stage = "over" /\ ~done
  /\ LET first == Cardinality({c \in ToolCalls : phase[c] # "new"}) + 1
         calls == first..(first + size - 1)
     IN /\ calls \subseteq ToolCalls
        /\ batch' = calls
        /\ phase' = [c \in ToolCalls |-> IF c \in calls THEN "hooking" ELSE phase[c]]
        /\ \E rs \in [calls -> Requests] :
             request' = [c \in ToolCalls |-> IF c \in calls THEN rs[c] ELSE request[c]]
        /\ held' = IF planDue THEN held \cup calls ELSE held
  /\ stage' = "hooking"
  /\ UNCHANGED <<setting, planned, enters, at, done, inbox, host, heard, answered, cleared,
                 reports, planDue>>

(* fireToolCall runs the hooks of one call in their order; an error ends   *)
(* them for this call, and the next call of the batch has its turn.        *)
Turn(c) == /\ stage = "hooking" /\ c \in batch
           /\ \A d \in batch : d < c => phase[d] \in {"ready", "blocked"}
HookTurn(c, module) ==
  Turn(c) /\ phase[c] = "hooking" /\ setting.order[at[c]] = module

Pass(c) ==
  /\ at' = [at EXCEPT ![c] = @ + 1]
  /\ phase' = [phase EXCEPT ![c] = IF at[c] = Len(setting.order) THEN "ready" ELSE "hooking"]
Block(c) ==
  /\ phase' = [phase EXCEPT ![c] = "blocked"]
  /\ UNCHANGED at
Suspend(c, why) ==
  /\ phase' = [phase EXCEPT ![c] = why]
  /\ UNCHANGED at

-----------------------------------------------------------------------------
(* Plan mode: a call with mutating effects is refused while it lasts.      *)
Mutates(r) == r.writes \/ r.executes
GatedReads(r) == r.writes
Gated(r) == Mutates(r)
PlanGate(c) ==
  /\ HookTurn(c, "planmode")
  /\ IF planned /\ request[c].tool # "exit" /\ Gated(request[c])
     THEN Block(c) ELSE Pass(c)
  /\ UNCHANGED <<setting, planned, enters, stage, batch, request, done, inbox, historyVars>>

-----------------------------------------------------------------------------
(* Permission: Preset.resolveApproval and DefaultApprovalFor give the      *)
(* approval policy, "nil" and "broken" (it returns errors) stand for what  *)
(* an application may have passed instead.                                 *)
DefaultApprovalFor(tier) ==
  CASE tier \in {"read-only", "workspace-write"} -> "ask"
    [] tier = "danger-full-access" -> "auto"
    [] OTHER -> "deny"
Approval ==
  CASE setting.disposition = "never" -> "auto"
    [] setting.disposition = "" -> DefaultApprovalFor(setting.tier)
    [] OTHER -> setting.disposition

(* FilePolicy.Check of the tier, for a write.                              *)
FitsTier(path) ==
  CASE path = "none" -> TRUE
    [] path = "inside" -> setting.tier # "read-only"
    [] OTHER -> setting.tier = "danger-full-access"

(* contain: what the containment of a call says, "none" if it does not     *)
(* settle the call; a denial goes to the host when the policy would ask.   *)
Stays(r) == r.path # "garbled" /\ FitsTier(r.path)
Outside(r, escalate) ==
  IF escalate /\ r.path # "garbled" /\ Approval = "ask" THEN "ask" ELSE "deny"
ContainWidened(r, escalate) ==
  IF r.writes /\ escalate /\ ~Stays(r) THEN Outside(r, escalate) ELSE "none"
Contain(r, escalate) ==
  IF r.writes /\ ~Stays(r) THEN Outside(r, escalate) ELSE "none"

(* The hook's decision: allow, deny, or ask the host.  A child never asks. *)
Disposition(r) ==
  IF setting.delegated # "no"
  THEN IF Contain(r, FALSE) = "none" /\ setting.delegated = "auto" THEN "allow" ELSE "deny"
  ELSE IF Contain(r, TRUE) # "none" THEN Contain(r, TRUE)
  ELSE CASE Approval = "auto" -> "allow"
         [] Approval \in {"ask", "nil"} -> "ask"
         [] OTHER -> "deny"

Report(c, by, decision) == reports' = [reports EXCEPT ![c] = Append(@, <<by, decision>>)]
Clear(c) == cleared' = [cleared EXCEPT ![c] = request[c].path]

PermissionAllows(c) ==
  /\ HookTurn(c, "permission")
  /\ Disposition(request[c]) = "allow"
  /\ Pass(c) /\ Clear(c)
  /\ UNCHANGED <<setting, planned, enters, stage, batch, request, done, inbox, host, heard,
                 answered, reports, planDue, held>>

PermissionDenies(c) ==
  /\ HookTurn(c, "permission")
  /\ \/ Disposition(request[c]) = "deny" /\ Report(c, "permission", "policy_deny")
     \/ /\ Disposition(request[c]) = "ask" /\ ~setting.asker
        /\ Report(c, "permission", "rejected")
  /\ Block(c)
  /\ UNCHANGED <<setting, planned, enters, stage, batch, request, done, inbox, host, heard,
                 answered, cleared, planDue, held>>

(* decide: the asker is called and blocks until the host has decided.      *)
PermissionAsks(c) ==
  /\ HookTurn(c, "permission")
  /\ Disposition(request[c]) = "ask" /\ setting.asker
  /\ Suspend(c, "host")
  /\ UNCHANGED <<setting, planned, enters, stage, batch, request, done, inbox, historyVars>>

HostDecides(c, says) ==
  /\ phase[c] = "host"
  /\ host' = [host EXCEPT ![c] = says]
  /\ IF says = "yes" /\ ~done
     THEN Pass(c) /\ Clear(c) /\ Report(c, "permission", "approved")
     ELSE Block(c) /\ Report(c, "permission", "rejected") /\ UNCHANGED cleared
  /\ UNCHANGED <<setting, planned, enters, stage, batch, request, done, inbox, heard, answered,
                 planDue, held>>

-----------------------------------------------------------------------------
(* Human in the loop: a call with a matching rule waits on the channel.    *)
HITLPasses(c) ==
  /\ HookTurn(c, "hitl")
  /\ request[c].tool = "dialogue" \/ ~request[c].rule
  /\ Pass(c)
  /\ UNCHANGED <<setting, planned, enters, stage, batch, request, done, inbox, historyVars>>

RequestApproval(c) ==
  /\ HookTurn(c, "hitl")
  /\ request[c].tool # "dialogue" /\ request[c].rule
  /\ Suspend(c, "human")
  /\ UNCHANGED <<setting, planned, enters, stage, batch, request, done, inbox, historyVars>>

(* The human answers a request that was announced, once, and maybe late.   *)
HumanAnswers(c, says) ==
  /\ phase[c] \in {"human", "talks"} \/ heard[c] \in {<<"timeout">>, <<"cancelled">>}
  /\ c \notin answered /\ inbox = <<>>
  /\ answered' = answered \cup {c}
  /\ inbox' = <<<<c, says>>>>
  /\ UNCHANGED <<setting, planned, enters, stage, batch, callVars, done, host, heard, cleared,
                 reports, planDue, held>>

(* waitForDecision takes an answer: approved with the arguments as they    *)
(* are or as the human changed them, skipped (the call goes on), rejected. *)
TakeAnswer(c) ==
  /\ phase[c] = "human" /\ inbox # <<>>
  /\ heard' = [heard EXCEPT ![c] = Head(inbox)]
  /\ inbox' = Tail(inbox)
  /\ LET says == Head(inbox)[2]
     IN /\ IF says = "reject" THEN Block(c) ELSE Pass(c)
        /\ IF says = "modify"
           THEN \E p \in Paths \ {"garbled"} : request' = [request EXCEPT ![c].path = p]
           ELSE UNCHANGED request
        /\ Report(c, "hitl", says)
  /\ UNCHANGED <<setting, planned, enters, stage, batch, done, host, answered, cleared, planDue,
                 held>>

(* onTimeout, after the module's timeout or at the context's deadline.     *)
LetsThroughAlways == TRUE
LetsThrough == setting.onTimeout \in {"skip", "approve"}
WaitTimesOut(c) ==
  /\ phase[c] = "human"
  /\ heard' = [heard EXCEPT ![c] = <<"timeout">>]
  /\ IF LetsThrough THEN Pass(c) ELSE Block(c)
  /\ Report(c, "hitl", "timeout")
  /\ UNCHANGED <<setting, planned, enters, stage, batch, request, done, inbox, host, answered,
                 cleared, planDue, held>>

WaitCancelled(c) ==
  /\ phase[c] = "human" /\ done
  /\ heard' = [heard EXCEPT ![c] = <<"cancelled">>]
  /\ Block(c)
  /\ UNCHANGED <<setting, planned, enters, stage, batch, request, done, inbox, host, answered,
                 cleared, reports, planDue, held>>

-----------------------------------------------------------------------------
(* After the hooks: one refusal gives up the whole batch, otherwise every  *)
(* tool is started.                                                        *)
HooksOver == /\ stage = "hooking"
             /\ \A c \in batch : phase[c] \in {"ready", "blocked"}
AbandonsBatch == \E c \in batch : phase[c] = "blocked"
BlockBatch ==
  /\ HooksOver /\ AbandonsBatch
  /\ phase' = [c \in ToolCalls |-> IF c \in batch /\ phase[c] = "ready" THEN "skipped" ELSE phase[c]]
  /\ stage' = "over"
  /\ UNCHANGED <<setting, planned, enters, batch, request, at, done, inbox, historyVars>>

StartBatch ==
  /\ HooksOver /\ ~AbandonsBatch
  /\ stage' = "running"
  /\ UNCHANGED <<setting, planned, enters, batch, callVars, done, inbox, historyVars>>

(* The dialogue tool and exit_plan_mode wait; any other tool just runs.    *)
StartTool(c) ==
  /\ stage = "running" /\ phase[c] = "ready"
  /\ phase' = [phase EXCEPT ![c] =
                 CASE request[c].tool = "dialogue" -> "talks"
                   [] request[c].tool = "exit" /\ planned -> "asks"
                   [] OTHER -> "ran"]
  /\ UNCHANGED <<setting, planned, enters, stage, batch, request, at, done, inbox, historyVars>>

(* The dialogue tool returns whatever comes through the channel, or what   *)
(* the timeout made of the question.                                       *)
DialogueReturns(c) ==
  /\ phase[c] = "talks"
  /\ \/ /\ inbox # <<>>
        /\ heard' = [heard EXCEPT ![c] = Head(inbox)]
        /\ inbox' = Tail(inbox)
        /\ phase' = [phase EXCEPT ![c] = "ran"]
     \/ /\ heard' = [heard EXCEPT ![c] = <<"timeout">>]
        /\ phase' = [phase EXCEPT ![c] = IF setting.onTimeout = "error" THEN "failed" ELSE "ran"]
        /\ UNCHANGED inbox
     \/ /\ done
        /\ heard' = [heard EXCEPT ![c] = <<"cancelled">>]
        /\ phase' = [phase EXCEPT ![c] = "failed"]
        /\ UNCHANGED inbox
  /\ UNCHANGED <<setting, planned, enters, stage, batch, request, at, done, host, answered,
                 cleared, reports, planDue, held>>

(* The host decides on the plan; an approval, and nothing else, logs the   *)
(* end of plan mode.                                                       *)
Approves(says) == says = "yes"
PlanDecided(c, says) ==
  /\ phase[c] = "asks"
  /\ phase' = [phase EXCEPT ![c] = IF Approves(says) THEN "ran" ELSE "failed"]
  /\ planned' = IF Approves(says) THEN FALSE ELSE planned
  /\ planDue' = (planDue /\ says # "yes")
  /\ held' = IF says = "yes" THEN {} ELSE held
  /\ UNCHANGED <<setting, enters, stage, batch, request, at, done, inbox, host, heard, answered,
                 cleared, reports>>

BatchOver ==
  /\ stage = "running" /\ \A c \in batch : phase[c] \in Over
  /\ stage' = "over"
  /\ UNCHANGED <<setting, planned, enters, batch, callVars, done, inbox, historyVars>>

-----------------------------------------------------------------------------
(* The host enters plan mode at any time; the run may be cancelled.        *)
Enter ==
  /\ enters < MaxEnters
  /\ enters' = enters + 1
  /\ planned' = TRUE /\ planDue' = TRUE
  /\ UNCHANGED <<setting, stage, batch, callVars, done, inbox, host, heard, answered, cleared,
                 reports, held>>

Cancel ==
  /\ ~done /\ stage # "over"
  /\ done' = TRUE
  /\ UNCHANGED <<setting, planned, enters, stage, batch, callVars, inbox, historyVars>>

Permission(c) == \/ PermissionAllows(c) \/ PermissionDenies(c) \/ PermissionAsks(c)
                 \/ \E says \in {"yes", "no", "error"} : HostDecides(c, says)
HITL(c) == \/ HITLPasses(c) \/ RequestApproval(c) \/ TakeAnswer(c)
           \/ WaitTimesOut(c) \/ WaitCancelled(c)
           \/ \E says \in HostAnswers : HumanAnswers(c, says)
ToolRuns(c) == \/ StartTool(c) \/ DialogueReturns(c)
            \/ \E says \in {"yes", "no", "error"} : PlanDecided(c, says)

DecisionsNext ==
  \/ \E size \in 1..2 : IssueBatch(size)
  \/ \E c \in ToolCalls : PlanGate(c) \/ Permission(c) \/ HITL(c) \/ ToolRuns(c)
  \/ BlockBatch \/ StartBatch \/ BatchOver
  \/ Enter \/ Cancel

DecisionsSpec == DecisionsInit /\ [][DecisionsNext]_decisionVars

-----------------------------------------------------------------------------
Heard == {<<>>, <<"timeout">>, <<"cancelled">>} \cup (ToolCalls \X HostAnswers)

(* Every variable keeps its type.                                          *)
DecisionsTypeOK ==
  /\ setting \in Settings /\ planned \in BOOLEAN /\ enters \in 0..MaxEnters
  /\ stage \in {"hooking", "running", "over"} /\ batch \subseteq ToolCalls
  /\ at \in [ToolCalls -> 1..Len(setting.order) + 1]
  /\ phase \in [ToolCalls -> {"new", "hooking", "ready"} \cup Waiting \cup Over]
  /\ done \in BOOLEAN /\ Len(inbox) <= 1
  /\ host \in [ToolCalls -> {"silent", "yes", "no", "error"}]
  /\ heard \in [ToolCalls -> Heard]
  /\ answered \subseteq ToolCalls /\ held \subseteq ToolCalls /\ planDue \in BOOLEAN
  /\ cleared \in [ToolCalls -> Paths]

(* A tool starts only if every module had a reason to let it: the host     *)
(* allowed it, or the policy allows without asking and the call stays in   *)
(* the tier it was checked for; a child stays in the tier always and never *)
(* waits for the host; a rule was answered, or its timeout lets calls go.  *)
AllowedByPermission(c) ==
  LET inTier == request[c].writes => cleared[c] # "garbled" /\ FitsTier(cleared[c])
  IN IF setting.delegated = "no"
     THEN \/ host[c] = "yes" /\ Approval \in {"ask", "nil"}
          \/ Approval = "auto" /\ inTier
     ELSE setting.delegated = "auto" /\ inTier /\ host[c] = "silent"
Answered(c) == heard[c] \in ToolCalls \X HostAnswers
AllowedByHuman(c) ==
  request[c].rule /\ request[c].tool # "dialogue"
    => \/ heard[c] = <<"timeout">> /\ setting.onTimeout \in {"skip", "approve"}
       \/ Answered(c) /\ heard[c][2] # "reject"
RunsOnlyWhenAllowed ==
  \A c \in ToolCalls : phase[c] \in Started /\ request[c].tool = "plain"
                     => AllowedByPermission(c) /\ AllowedByHuman(c)

(* The permission module asks the host at most once for a call and reports *)
(* every denial and every ask it settled, once: what it approved runs by   *)
(* the host's word, and what runs was not reported as refused.             *)
PermissionReports(c) == {k \in DOMAIN reports[c] : reports[c][k][1] = "permission"}
DecisionsAreReported ==
  \A c \in ToolCalls :
    /\ \A j, k \in PermissionReports(c) : j = k
    /\ host[c] # "silent" => PermissionReports(c) # {}
    /\ \A k \in PermissionReports(c) :
         /\ reports[c][k][2] = "approved" => host[c] = "yes"
         /\ phase[c] \in Started => reports[c][k][2] = "approved"

(* A call that has seen nothing but plan mode since its batch was issued   *)
(* changes nothing: plan mode ends with an approved plan only.             *)
PlanModeHolds ==
  \A c \in held : phase[c] \in Started => request[c].tool = "exit" \/ ~Mutates(request[c])

(* An answer reaches another request than the one it was given to only     *)
(* after a wait was given up, or when two questions are open at once.      *)
AnswersGoAstrayOnlyAfter ==
  \A c \in ToolCalls : Answered(c) /\ heard[c][1] # c =>
    \/ heard[heard[c][1]] \in {<<"timeout">>, <<"cancelled">>}
    \/ request[c].tool = "dialogue" /\ request[heard[c][1]].tool = "dialogue"

(* Permission, human in the loop and plan mode: a tool runs only when all  *)
(* of them had a reason to let it, plan mode lets nothing change, every    *)
(* settled question is reported once, and an answer goes astray only after *)
(* a wait was given up.                                                    *)
DecisionsAreKept == /\ RunsOnlyWhenAllowed /\ DecisionsAreReported
                    /\ PlanModeHolds /\ AnswersGoAstrayOnlyAfter

(* What a comment says (no approval means no execution) and the module     *)
(* does not do: under TimeoutReject a late answer to a request that timed  *)
(* out approves the next one.                                              *)
NoApprovalNoExecution ==
  \A c \in ToolCalls :
    phase[c] \in Started /\ request[c].rule /\ request[c].tool = "plain"
    /\ setting.onTimeout = "reject" => heard[c][1] = c
=============================================================================
