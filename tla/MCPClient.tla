------------------------------- MODULE MCPClient -------------------------------
(***************************************************************************)
(* An MCP tool source (core/tool/mcp.go): one server process at a time,    *)
(* started on demand, spoken to by one request at a time under the mutex,  *)
(* and a Close that kills without waiting for that mutex.                  *)
(*                                                                         *)
(* The wire carries no matching of answers to requests: the next line read *)
(* is taken for the answer.  A line tells its request and outcome; a server      *)
(* answers in the order of the requests and sends nothing else.  Processes *)
(* are numbered by the start that made them.                               *)
(***************************************************************************)
EXTENDS Integers, Sequences, FiniteSets

CONSTANTS Callers, MaxCalls, MaxStarts

VARIABLES
  state,    \* MCPSource.state
  cmd,      \* the process in MCPSource.cmd, or 0
  starts,   \* processes started
  alive,    \* processes running
  inbox,    \* requests the current process has not answered
  lines,    \* lines of the current process nobody has read
  cached,   \* the process whose tools are cached, or 0
  caller,   \* where each caller is, with the answer of its last call
  leaked,   \* processes given up alive (history)
  sealer    \* callers whose Close has returned (history)

wire == <<inbox, lines>>
process == <<cmd, starts, alive, leaked>>
mcpVars == <<state, cmd, starts, alive, inbox, lines, cached, caller, leaked, sealer>>

Nothing == [to |-> <<"nobody", 0>>, what |-> "none"]
Request(c) == <<c, caller[c].made>>

MCPInit ==
  /\ state = "new" /\ cmd = 0 /\ starts = 0 /\ alive = {}
  /\ inbox = <<>> /\ lines = <<>> /\ cached = 0
  /\ caller = [c \in Callers |-> [at |-> "idle", op |-> "list", made |-> 0, got |-> Nothing]]
  /\ leaked = {} /\ sealer = {}

Reading(c) == caller[c].at \in {"handshake", "pages", "answer"}
LockFree == \A c \in Callers : ~ Reading(c)
Waits(c, op) == caller[c].at = "waiting" /\ caller[c].op = op /\ LockFree
Moves(c, where) == caller' = [caller EXCEPT ![c].at = where]
Returns(c, answer) == caller' = [caller EXCEPT ![c].at = "idle", ![c].got = answer]

-----------------------------------------------------------------------------
(* A call of ListTools, of a tool or of Close.  Close kills the process it *)
(* sees before it asks for the lock.                                       *)
Ask(c, op) ==
  /\ caller[c].at = "idle" /\ caller[c].made < MaxCalls
  /\ caller' = [caller EXCEPT ![c] = [at |-> "waiting", op |-> op, made |-> @.made + 1,
                                      got |-> Nothing]]
  /\ alive' = IF op = "close" THEN alive \ {cmd} ELSE alive
  /\ UNCHANGED <<state, cmd, starts, cached, leaked, sealer, wire>>

(* cleanupProcess, on its way to the state `to`: the pipes are closed, the *)
(* process itself is left as it is.                                        *)
KeepsCache(to) ==
  /\ cmd' = 0 /\ state' = to /\ inbox' = <<>> /\ lines' = <<>> /\ UNCHANGED <<cached, starts>>
CleanupProcess(to) ==
  /\ cmd' = 0 /\ state' = to /\ inbox' = <<>> /\ lines' = <<>> /\ cached' = 0
  /\ UNCHANGED starts

(* A request that cannot be written or answered: markBroken, which the     *)
(* handshake turns into closed.                                            *)
GivesUp(running) == alive' = running /\ leaked' = leaked \cup ({cmd} \cap running)
LeavesOpen(c, running) ==
  GivesUp(running) /\ Returns(c, Nothing) /\ UNCHANGED <<cmd, starts, state, cached, wire>>
Breaks(c, running) ==
  /\ CleanupProcess(IF caller[c].at = "handshake" THEN "closed" ELSE "broken")
  /\ GivesUp(running) /\ Returns(c, Nothing)

(* The request written to a live process, for the caller to wait on.       *)
Writes(c, where) == inbox' = Append(inbox, Request(c)) /\ Moves(c, where)

-----------------------------------------------------------------------------
(* ListTools with the lock in hand. *)
ListRefused(c) ==
  /\ Waits(c, "list") /\ state = "closed" /\ Returns(c, Nothing)
  /\ UNCHANGED <<state, cached, sealer, wire, process>>

ListCached(c) ==
  /\ Waits(c, "list") /\ state # "closed" /\ cached # 0
  /\ Returns(c, [to |-> Request(c), what |-> "tools"])
  /\ UNCHANGED <<state, cached, sealer, wire, process>>

(* ensureRunning: the process starts and is asked to initialize, or it     *)
(* cannot be started.                                                      *)
ListStarts(c) ==
  /\ Waits(c, "list") /\ state # "closed" /\ cached = 0 /\ cmd = 0
  /\ starts < MaxStarts
  /\ state' = "initializing"
  /\ \/ /\ starts' = starts + 1 /\ cmd' = starts' /\ alive' = alive \cup {cmd'}
        /\ lines' = <<>> /\ Writes(c, "handshake") /\ UNCHANGED leaked
     \/ Returns(c, Nothing) /\ UNCHANGED <<wire, process>>
  /\ UNCHANGED <<cached, sealer>>

ListPages(c) ==
  /\ Waits(c, "list") /\ state = "ready" /\ cached = 0 /\ cmd # 0
  /\ \/ cmd \in alive /\ Writes(c, "pages") /\ UNCHANGED <<state, cached, lines, process>>
     \/ cmd \notin alive /\ Breaks(c, alive)
     \/ Returns(c, Nothing) /\ UNCHANGED <<state, cached, wire, process>>   \* its context has ended
  /\ UNCHANGED sealer

(* callTool with the lock in hand. *)
Calls(c) ==
  /\ Waits(c, "call")
  /\ \/ /\ state = "closed" \/ cmd = 0
        /\ Returns(c, Nothing) /\ UNCHANGED <<state, cached, wire, process>>
     \/ /\ state # "closed" /\ cmd \in alive
        /\ Writes(c, "answer") /\ UNCHANGED <<state, cached, lines, process>>
     \/ /\ state # "closed" /\ cmd # 0 /\ cmd \notin alive
        /\ Breaks(c, alive)
  /\ UNCHANGED sealer

-----------------------------------------------------------------------------
(* External: the server answers the oldest request with a result, an error *)
(* or something that is no JSON, or it dies.                               *)
ServerAnswers ==
  /\ cmd \in alive /\ inbox # <<>>
  /\ inbox' = Tail(inbox)
  /\ \E outcome \in {"result", "error", "garbled"} :
       lines' = Append(lines, [to |-> Head(inbox), what |-> outcome])
  /\ UNCHANGED <<state, cached, caller, sealer, process>>

ServerDies ==
  /\ \E p \in alive : alive' = alive \ {p}
  /\ UNCHANGED <<state, cmd, starts, cached, caller, leaked, sealer, wire>>

-----------------------------------------------------------------------------
(* readResponse takes the next line, whatever it answers. *)
Line == Head(lines)
Reads(c, at, outcomes) ==
  /\ caller[c].at = at /\ lines # <<>> /\ Line.what \in outcomes

(* The handshake's result: the notification is written and the first page  *)
(* asked for.  A server that has died fails the notification.              *)
HandshakeDone(c) ==
  /\ Reads(c, "handshake", {"result"})
  /\ \/ /\ cmd \in alive /\ state' = "ready" /\ cached' = 0
        /\ lines' = Tail(lines) /\ Writes(c, "pages") /\ UNCHANGED process
     \/ cmd \notin alive /\ Breaks(c, alive)
  /\ UNCHANGED sealer

(* A page of tools: another one is asked for, or the list is cached.       *)
PageRead(c) ==
  /\ Reads(c, "pages", {"result"})
  /\ \/ /\ caller[c].got = Nothing /\ cmd \in alive     \* at most two pages
        /\ lines' = Tail(lines) /\ inbox' = Append(inbox, Request(c))
        /\ caller' = [caller EXCEPT ![c].got = Line]
        /\ UNCHANGED <<state, cached, process>>
     \/ /\ lines' = Tail(lines) /\ cached' = cmd
        /\ Returns(c, Line) /\ UNCHANGED <<state, inbox, process>>
  /\ UNCHANGED sealer

AnswerRead(c) ==
  /\ Reads(c, "answer", {"result"})
  /\ lines' = Tail(lines) /\ Returns(c, Line)
  /\ UNCHANGED <<state, cached, inbox, sealer, process>>

(* An error answer fails the call and keeps the connection, but for the    *)
(* handshake, which gives the running process up.                          *)
ErrorRead(c) ==
  /\ Reading(c) /\ Reads(c, caller[c].at, {"error"})
  /\ IF caller[c].at = "handshake"
     THEN CleanupProcess("closed") /\ GivesUp(alive)
     ELSE lines' = Tail(lines) /\ UNCHANGED <<state, cached, inbox, process>>
  /\ Returns(c, Line) /\ UNCHANGED sealer

(* No JSON, or the end of a dead server's output. *)
ReadFails(c) ==
  /\ Reading(c)
  /\ \/ lines # <<>> /\ Line.what = "garbled"
     \/ lines = <<>> /\ cmd \notin alive
  /\ Breaks(c, alive) /\ UNCHANGED sealer

(* The caller's context ends: the process is killed and the connection     *)
(* given up.  The reader may see the context first and close its channel,  *)
(* which the call then takes for a line that does not parse: no kill.      *)
Cancelled(c) ==
  /\ Reading(c)
  /\ \E running \in {alive, alive \ {cmd}} : Breaks(c, running)
  /\ UNCHANGED sealer

(* Close with the lock in hand: the second kill is for a process started   *)
(* after the first.                                                        *)
SealsOnly == CleanupProcess("closed") /\ UNCHANGED <<alive, leaked>>
KillsAndSeals == CleanupProcess("closed") /\ alive' = alive \ {cmd} /\ UNCHANGED leaked
Seals(c) ==
  /\ Waits(c, "close")
  /\ IF state = "closed" THEN UNCHANGED <<state, cached, wire, process>> ELSE KillsAndSeals
  /\ Returns(c, Nothing) /\ sealer' = sealer \cup {c}

MCPNext ==
  \/ \E c \in Callers :
       \/ \E op \in {"list", "call", "close"} : Ask(c, op)
       \/ ListRefused(c) \/ ListCached(c) \/ ListStarts(c) \/ ListPages(c) \/ Calls(c)
       \/ HandshakeDone(c) \/ PageRead(c) \/ AnswerRead(c) \/ ErrorRead(c)
       \/ ReadFails(c) \/ Cancelled(c) \/ Seals(c)
  \/ ServerAnswers \/ ServerDies

MCPSpec == MCPInit /\ [][MCPNext]_mcpVars

-----------------------------------------------------------------------------
MCPTypeOK ==
  /\ state \in {"new", "initializing", "ready", "closed", "broken"}
  /\ starts \in 0..MaxStarts /\ cmd \in 0..starts /\ cached \in 0..starts
  /\ alive \subseteq 1..starts /\ leaked \subseteq 1..starts
  /\ sealer \subseteq Callers

(* No call is handed another call's answer, though nothing on the wire     *)
(* says whose it is: a connection on which an answer was given up is never *)
(* read again (sendRequestDirect, mcp.go:588).                             *)
AnswersAreOwn ==
  \A c \in Callers : caller[c].got.what \in {"result", "error"} => caller[c].got.to = Request(c)

(* The cached tools are those of the process that runs: a restart asks     *)
(* again (mcp.go:277-288, 423).                                            *)
CacheIsOfTheProcess == cached # 0 => state = "ready" /\ cached = cmd

(* A Close that has returned stays so, and leaves no process it could      *)
(* reach: those alive were given up alive before (mcp.go:254).             *)
ClosedForGood ==
  sealer # {} => /\ state = "closed" /\ cmd = 0 /\ alive \subseteq leaked
                 /\ LockFree

SourceIsSound == AnswersAreOwn /\ CacheIsOfTheProcess /\ ClosedForGood

(* Not what the code does: only Close seals a source (mcp.go:28 promises a *)
(* restart after a failure), and after a Close began nobody is held by a   *)
(* live server (mcp.go:248).                                               *)
OnlyCloseSeals ==
  [][state' = "closed" /\ state # "closed" => \E c \in Callers : caller[c].op = "close"]_mcpVars
CloseFreesTheLock ==
  (\E c \in Callers : caller[c].at = "waiting" /\ caller[c].op = "close") =>
     ~ \E c \in Callers : Reading(c) /\ cmd \in alive
=============================================================================
