------------------------------ MODULE MCServices ------------------------------
(***************************************************************************)
(* An agent's tools and what they stand on, each part on a small instance: *)
(* the sessions of its subagents (SubagentRegistry), a batch of tool calls *)
(* (ToolBatch), a tool source in another process (MCPClient), the files    *)
(* (FileTools), the commands it runs (ShellCommands) and its searches      *)
(* (FileSearch).                                                           *)
(* part says which of them a behaviour is about; the others stay in a      *)
(* first state.                                                            *)
(***************************************************************************)
EXTENDS SubagentRegistry, ToolBatch

CONSTANTS Callers, MaxCalls, MaxStarts
VARIABLES state, cmd, starts, alive, inbox, lines, cached, caller, leaked, sealer
mcpVars == <<state, cmd, starts, alive, inbox, lines, cached, caller, leaked, sealer>>
Source == INSTANCE MCPClient

CONSTANTS Operations, Files, MaxFileCalls, MaxSeconds
VARIABLES fs, second, manifest, fileCall, written, home, lost
fileVars == <<fs, second, manifest, fileCall, written, home, lost>>
Disk == INSTANCE FileTools WITH call <- fileCall

CONSTANTS CommandKinds, Declared, DefaultTimeout, MaxTimeout, WaitDelay, MaxClock, MaxChunks
VARIABLES kind, declared, now, shell, child, context, grace, output, pending, shown,
          waited, told, job, stopper, seen
shellVars == <<kind, declared, now, shell, child, context, grace, output, pending, shown,
               waited, told, job, stopper, seen>>
Command == INSTANCE ShellCommands

CONSTANTS Trees, Lines, SearchLimits, Contexts, Workers, FileChanCap
VARIABLES tool, content, limit, around, fileCh, walked, walker, worker, found, globalCount,
          truncated, searchCtx
searchVars == <<tool, content, limit, around, fileCh, walked, walker, worker, found,
                globalCount, truncated, searchCtx>>
Search == INSTANCE FileSearch WITH ctx <- searchCtx

VARIABLE part
allVars == <<vars, batchVars, mcpVars, fileVars, shellVars, searchVars, part>>

-----------------------------------------------------------------------------
ServicesInit ==
  /\ part \in {"subagents", "batch", "source", "files", "shell", "search"}
  /\ Init /\ BatchInit /\ Source!MCPInit /\ Disk!FilesInit
  /\ kind \in (IF part = "shell" THEN CommandKinds ELSE {"terminal"})
  /\ declared \in (IF part = "shell" THEN Declared ELSE {0})
  /\ Command!ShellInit
  /\ content \in (IF part = "search" THEN Trees ELSE {CHOOSE t \in Trees : TRUE})
  /\ Search!SearchInit
  /\ part # "search" => tool = "glob" /\ limit = 1

ServicesNext ==
  \/ /\ part = "subagents" /\ Next
     /\ UNCHANGED <<batchVars, mcpVars, fileVars, shellVars, searchVars, part>>
  \/ /\ part = "batch" /\ BatchNext
     /\ UNCHANGED <<vars, mcpVars, fileVars, shellVars, searchVars, part>>
  \/ /\ part = "source" /\ Source!MCPNext
     /\ UNCHANGED <<vars, batchVars, fileVars, shellVars, searchVars, part>>
  \/ /\ part = "files" /\ Disk!FilesNext
     /\ UNCHANGED <<vars, batchVars, mcpVars, shellVars, searchVars, part>>
  \/ /\ part = "shell" /\ Command!ShellNext
     /\ UNCHANGED <<vars, batchVars, mcpVars, fileVars, searchVars, part>>
  \/ /\ part = "search" /\ Search!SearchNext
     /\ UNCHANGED <<vars, batchVars, mcpVars, fileVars, shellVars, part>>

ServicesSpec == ServicesInit /\ [][ServicesNext]_allVars

-----------------------------------------------------------------------------
(* Every variable of the six parts keeps its type.                         *)
TypesOK == CASE part = "subagents" -> TypeOK
             [] part = "batch" -> BatchTypeOK
             [] part = "source" -> Source!MCPTypeOK
             [] part = "files" -> Disk!FilesTypeOK
             [] part = "shell" -> Command!ShellTypeOK
             [] part = "search" -> Search!SearchTypeOK

(* An MCP call is handed its own answer, the tools it lists are those of   *)
(* the process that runs, and Close leaves none it could reach.  Among the *)
(* file tools a guarded write finds what was read, a move replaces only    *)
(* what came after it had looked, and what is restored goes home.  A shell *)
(* command is answered in time, with all its output and a true end.  A     *)
(* search that nothing stops finds everything, and one that is stopped     *)
(* ends, with what it counts.                                              *)
ToolsAreSound == /\ part = "source" => Source!SourceIsSound
                 /\ part = "files" => Disk!FilesAreKept
                 /\ part = "shell" => Command!CommandsAreTold
                 /\ part = "search" => Search!SearchIsSound

-----------------------------------------------------------------------------
CONSTANTS s1, d1, d2, m1, m2
OneSession == {s1}
TwoDisposers == {d1, d2}
TwoCallers == {m1, m2}
SecondCall == {2}

Path(dir, base) == [dir |-> dir, base |-> base, second |-> 0, tag |-> 0]
ax == Path("a", "x")
ay == Path("a", "y")
az == Path("a", "z")
bx == Path("b", "x")
ThreeFiles == {ax, ay, bx}
Plain(name, plan) ==
  [tool |-> name, plan |-> plan, guarded |-> FALSE, absent |-> FALSE, backup |-> FALSE,
   force |-> FALSE]
Move(p, q) == [from |-> p, to |-> q]
SomeOperations ==
  { [Plain("write", <<Move(ax, Path("bak", "x"))>>) EXCEPT !.guarded = TRUE, !.backup = TRUE],
    [Plain("write", <<Move(az, Path("bak", "z"))>>) EXCEPT !.absent = TRUE],
    [Plain("edit", <<Move(ax, ax), Move(ay, ay)>>) EXCEPT !.guarded = TRUE],
    Plain("rename", <<Move(ax, az)>>),
    [Plain("rename", <<Move(ay, ax), Move(bx, ay), Move(az, az)>>) EXCEPT !.force = TRUE],
    Plain("trash", <<Move(ax, ax)>>), Plain("trash", <<Move(bx, bx)>>),
    Plain("restore", <<Move(ax, ax)>>) }

FewTrees ==
  {<<{1}, {2, 4}, {}>>, <<{}, {1, 2, 4}, {3}>>, <<{1, 3}, {1}, {4}>>, <<{2}, {}, {}>>,
   <<{1}, {2}, {3}, {4}>>, <<{}, {1, 2, 3}, {2, 3}, {1}>>}
NoneOrSome == {<<0, 0>>, <<1, 2>>}
=============================================================================
