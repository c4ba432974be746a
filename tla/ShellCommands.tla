----------------------------- MODULE ShellCommands -----------------------------
(***************************************************************************)
(* A shell command of an agent (tools/shell): terminal waits for it, with  *)
(* or without a sink that is shown its progress; task_run leaves it to the *)
(* job registry, and task_stop ends it.  The shell may start a child that  *)
(* inherits the output pipes and outlives it.  Output is a number of       *)
(* chunks; truncation, the log file and the registry's other owners are    *)
(* left out (JobRegistry, TailStore).                                      *)
(***************************************************************************)
EXTENDS Naturals

CONSTANTS CommandKinds,   \* of {"terminal", "streamed", "task"}
          Declared,       \* timeouts a model declares; 0 for none or a negative one
          DefaultTimeout, MaxTimeout, WaitDelay,
          MaxClock, MaxChunks

VARIABLES
  kind, declared,
  now,
  shell, child,   \* the processes
  context,        \* open, or ended by the caller, task_stop or its deadline
  grace,          \* when Wait gives up on the pipes; 0: not decided
  output,         \* chunks collected
  pending,        \* progressWriter.pending, how many of them are not shown
  shown,          \* chunks shown to the sink
  waited,         \* what cmd.Wait returned: no, nil, exit, delay
  told,           \* what terminal answered: the output and what it says of the end
  job,            \* the task's status in the registry
  stopper,        \* a task_stop: idle, looked, stopped, finished
  seen            \* what task_status said last
taskVars == <<job, stopper, seen>>
shellVars == <<kind, declared, now, shell, child, context, grace, output, pending, shown,
               waited, told, taskVars>>

Untold == [output |-> 0, end |-> "none"]
Terminal == kind # "task"

ShellInit ==
  /\ kind \in CommandKinds /\ declared \in Declared
  /\ now = 0
  /\ shell = "running" /\ child = "none"
  /\ context = "open" /\ grace = 0
  /\ output = 0 /\ pending = 0 /\ shown = 0
  /\ waited = "no" /\ told = Untold
  /\ job = "running" /\ stopper = "idle" /\ seen = "nothing"

-----------------------------------------------------------------------------
(* resolveTimeout: nothing declared is the default, too much is the cap.   *)
Uncapped == IF declared = 0 THEN DefaultTimeout ELSE declared
ResolvedTimeout ==
  IF declared = 0 THEN DefaultTimeout
  ELSE IF declared > MaxTimeout THEN MaxTimeout ELSE declared

(* The processes: they write, the shell starts a child, both end.  A       *)
(* command that cannot be started is one that ends badly at once.          *)
Pipes == {"running"} \cap {shell, child} # {} /\ waited = "no"
Writes ==
  /\ Pipes /\ output < MaxChunks
  /\ output' = output + 1
  /\ pending' = IF kind = "streamed" THEN pending + 1 ELSE 0
  /\ UNCHANGED <<kind, declared, now, shell, child, context, grace, shown, waited, told,
                 taskVars>>
Forks ==
  /\ shell = "running" /\ child = "none" /\ child' = "running"
  /\ UNCHANGED <<kind, declared, now, shell, context, grace, output, pending, shown, waited,
                 told, taskVars>>
ChildEnds ==
  /\ child = "running" /\ child' = "over"
  /\ UNCHANGED <<kind, declared, now, shell, context, grace, output, pending, shown, waited,
                 told, taskVars>>

(* WaitDelay runs from the end of the shell or of the context, whichever   *)
(* comes first.                                                            *)
NoGrace == MaxClock + 1
GraceFrom == IF grace = 0 THEN now + WaitDelay ELSE grace
ShellEnds(how) ==
  /\ shell = "running" /\ how \in {"good", "bad"}
  /\ shell' = how /\ grace' = GraceFrom
  /\ UNCHANGED <<kind, declared, now, child, context, output, pending, shown, waited, told,
                 taskVars>>

(* The context ends: at its deadline, which holds until the answer is      *)
(* written, or because the caller stops.  The shell is killed then, if it  *)
(* still runs; its child is not.                                           *)
Deadline ==
  /\ Terminal /\ context = "open" /\ told = Untold /\ now >= ResolvedTimeout
  /\ context' = "deadline" /\ grace' = GraceFrom
  /\ UNCHANGED <<kind, declared, now, shell, child, output, pending, shown, waited, told,
                 taskVars>>
CallerStops ==
  /\ Terminal /\ context = "open" /\ told = Untold
  /\ context' = "caller" /\ grace' = GraceFrom
  /\ UNCHANGED <<kind, declared, now, shell, child, output, pending, shown, waited, told,
                 taskVars>>
Killed ==
  /\ context # "open" /\ shell = "running"
  /\ shell' = "killed"
  /\ UNCHANGED <<kind, declared, now, child, context, grace, output, pending, shown, waited,
                 told, taskVars>>

(* cmd.Wait returns when the shell is over and nobody holds the pipes, or  *)
(* the delay is.                                                           *)
Drained == child # "running" \/ now >= grace
WaitReturns ==
  /\ waited = "no" /\ shell # "running" /\ Drained
  /\ waited' = CASE shell \in {"bad", "killed"} -> "exit"
                 [] child = "running" -> "delay"
                 [] OTHER -> "nil"
  /\ UNCHANGED <<kind, declared, now, shell, child, context, grace, output, pending, shown,
                 told, taskVars>>

(* The ticker shows the sink what has come since the last time.            *)
Shows ==
  /\ kind = "streamed" /\ told = Untold /\ pending > 0
  /\ shown' = shown + pending /\ pending' = 0
  /\ UNCHANGED <<kind, declared, now, shell, child, context, grace, output, waited, told,
                 taskVars>>

(* The answer: everything collected, after a last look at what was not     *)
(* shown; an error under an expired deadline is called a timeout.          *)
EndOf == IF waited = "nil" THEN "clean" ELSE IF context = "deadline" THEN "timeout" ELSE "exit"
LeavesPending == shown
ShowsTheRest == shown + pending
Answers ==
  /\ Terminal /\ waited # "no" /\ told = Untold
  /\ shown' = ShowsTheRest /\ pending' = 0
  /\ told' = [output |-> output, end |-> EndOf]
  /\ UNCHANGED <<kind, declared, now, shell, child, context, grace, output, waited, taskVars>>

-----------------------------------------------------------------------------
(* The task's goroutine in the registry, once Run has returned.            *)
ByError == CASE waited = "nil" -> "completed" [] OTHER -> "failed"
Settled == CASE waited = "nil" -> "completed"
             [] context # "open" -> "killed"
             [] OTHER -> "failed"
TaskSettles ==
  /\ ~Terminal /\ waited # "no" /\ job \in {"running", "stopping"}
  /\ job' = Settled
  /\ UNCHANGED <<kind, declared, now, shell, child, context, grace, output, pending, shown,
                 waited, told, stopper, seen>>

(* task_stop looks at the status and then kills; Kill of a job that is not *)
(* running any more does nothing and reports no error.                     *)
StopLooks ==
  /\ ~Terminal /\ stopper = "idle"
  /\ stopper' = IF job \in {"running", "stopping"} THEN "looked" ELSE "finished"
  /\ UNCHANGED <<kind, declared, now, shell, child, context, grace, output, pending, shown,
                 waited, told, job, seen>>
StopKills ==
  /\ stopper = "looked" /\ stopper' = "stopped"
  /\ \/ /\ job = "running"
        /\ job' = "stopping" /\ context' = "stop" /\ grace' = GraceFrom
     \/ job # "running" /\ UNCHANGED <<job, context, grace>>
  /\ UNCHANGED <<kind, declared, now, shell, child, output, pending, shown, waited, told, seen>>

(* task_status says stopped as soon as a stop is under way.                *)
ReportsKilledAsFailed(s) ==
  CASE s \in {"running", "stopping"} -> "running"
    [] s = "completed" -> "done"
    [] OTHER -> "failed"
stateText(s) ==
  CASE s = "running" -> "running"
    [] s \in {"stopping", "killed"} -> "stopped"
    [] s = "completed" -> "done"
    [] s = "failed" -> "failed"
TaskStatus ==
  /\ ~Terminal /\ seen' = stateText(job)
  /\ UNCHANGED <<kind, declared, now, shell, child, context, grace, output, pending, shown,
                 waited, told, job, stopper>>

(* Time passes when nothing is due.                                        *)
Due == \/ Terminal /\ context = "open" /\ told = Untold /\ now >= ResolvedTimeout
       \/ context # "open" /\ shell = "running"
       \/ waited = "no" /\ shell # "running" /\ Drained
       \/ Terminal /\ waited # "no" /\ told = Untold
       \/ ~Terminal /\ waited # "no" /\ job \in {"running", "stopping"}
Tick ==
  /\ now < MaxClock /\ ~Due
  /\ now' = now + 1
  /\ UNCHANGED <<kind, declared, shell, child, context, grace, output, pending, shown, waited,
                 told, taskVars>>

ShellNext ==
  \/ Writes \/ Forks \/ ChildEnds \/ (\E how \in {"good", "bad"} : ShellEnds(how))
  \/ Deadline \/ CallerStops \/ Killed \/ WaitReturns \/ Shows \/ Answers
  \/ TaskSettles \/ StopLooks \/ StopKills \/ TaskStatus \/ Tick

ShellSpec == ShellInit /\ [][ShellNext]_shellVars

-----------------------------------------------------------------------------
ShellTypeOK ==
  /\ kind \in CommandKinds /\ declared \in Declared /\ now \in 0..MaxClock
  /\ shell \in {"running", "good", "bad", "killed"} /\ child \in {"none", "running", "over"}
  /\ context \in {"open", "caller", "deadline", "stop"} /\ grace \in Nat
  /\ {output, pending, shown} \subseteq 0..MaxChunks
  /\ waited \in {"no", "nil", "exit", "delay"}
  /\ told.end \in {"none", "clean", "exit", "timeout"}
  /\ job \in {"running", "stopping", "killed", "completed", "failed"}
  /\ seen \in {"nothing", "running", "stopped", "done", "failed"}

(* A terminal call is over when the cap and the delay are, whatever the    *)
(* model declared and whoever holds the pipes (shell.go:42, 371), and so   *)
(* is a task that was stopped.                                             *)
AnswersInTime ==
  /\ Terminal /\ now > MaxTimeout + WaitDelay => told # Untold
  /\ ~Terminal /\ waited = "no" /\ context # "open" => now <= grace

(* What the sink was shown and what is still pending is what was           *)
(* collected, nothing twice; when the model is answered it has been shown  *)
(* everything, and the answer has it all, too.                             *)
NothingIsUnseen ==
  /\ kind = "streamed" => shown + pending = output
  /\ told # Untold => told.output = output /\ (kind = "streamed" => shown = output)

(* What is said of the end is true: clean only when the command succeeded  *)
(* and nobody writes any more, a timeout only when there was one; a task   *)
(* counts as killed only when it was stopped and as failed only when it    *)
(* ended by itself, it never settles before its command is over, and what  *)
(* task_status said of its end stays true, but for StoppedStaysStopped.    *)
EndsAreTrue ==
  /\ told.end = "clean" => shell = "good" /\ child # "running"
  /\ told.end = "timeout" => now >= ResolvedTimeout /\ (shell = "good" => child # "none")
  /\ told.end = "exit" => shell # "good" \/ child # "none"
  /\ job = "killed" => stopper = "stopped" /\ waited # "nil"
  /\ job = "failed" => shell # "killed"
  /\ job = "completed" => shell = "good" /\ child # "running"
  /\ seen = "failed" => job = "failed" /\ shell # "killed"
  /\ seen = "done" => job = "completed"
  /\ seen = "stopped" => job \in {"stopping", "killed", "completed"}

CommandsAreTold == AnswersInTime /\ NothingIsUnseen /\ EndsAreTrue

-----------------------------------------------------------------------------
(* Not what the code does.  shell.go:178: a command that exceeded its      *)
(* timeout was terminated; its child goes on, and the shell itself may     *)
(* have ended well before the deadline.                                    *)
TimeoutTerminates == told.end = "timeout" => shell = "killed" /\ child # "running"

(* Not what the code does.  task.go:245: a task that presents as stopped   *)
(* has been; a command that succeeds before it is killed is done after all. *)
StoppedStaysStopped == seen = "stopped" => stateText(job) = "stopped"
=============================================================================
