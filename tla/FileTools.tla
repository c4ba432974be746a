------------------------------- MODULE FileTools -------------------------------
(***************************************************************************)
(* The tools that change files (tools/write, tools/multiedit, tools/rename,*)
(* tools/trash) with the version guard of internal/toolutil, as calls that *)
(* run at the same time: tools of one batch, or of an agent and its        *)
(* subagents.  A check, a backup, a read, a write and a rename are each a  *)
(* step: between them the other calls get in.                              *)
(*                                                                         *)
(* A path is a record; the trash names a file by its base name and the     *)
(* second, so files of two directories may meet there.  A content is the   *)
(* number of the write that made it and stands for the version too: the    *)
(* fingerprint is taken to tell any two writes apart.  Directories, dry    *)
(* runs and the failure to append to the manifest are left out.            *)
(***************************************************************************)
EXTENDS Integers, Sequences, FiniteSets, Functions, SequencesExt, TLC

CONSTANTS Operations,   \* the calls that may be made, see Begin
          Files,        \* the paths there at the start
          MaxFileCalls, MaxSeconds

VARIABLES
  fs,        \* the paths that exist, with their content
  second,    \* the clock the trash names files by
  manifest,  \* lines of .gocode/.trash/.manifest.jsonl
  call,      \* the calls made, in order
  written,   \* contents made so far
  home,      \* the path each content was last trashed from (history)
  lost       \* contents a rename has replaced, with the call (history)

fileVars == <<fs, second, manifest, call, written, home, lost>>
record == <<second, manifest, home>>

Absent == 0
At(p) == IF p \in DOMAIN fs THEN fs[p] ELSE Absent
Put(f, p, content) == (p :> content) @@ f
Fresh == written + 1

FilesInit ==
  /\ fs = CHOOSE f \in Bijection(Files, 1..Cardinality(Files)) : TRUE
  /\ second = 1 /\ manifest = <<>> /\ call = <<>>
  /\ written = Cardinality(Files)
  /\ home = <<>> /\ lost = {}

-----------------------------------------------------------------------------
(* A call: its operation with the paths it goes from and to, the contents  *)
(* its caller has read before, and per path what it has done.              *)
Begin ==
  /\ Len(call) < MaxFileCalls
  /\ \E o \in Operations :
       call' = Append(call,
         [op |-> o, at |-> "begun", k |-> 1, plan |-> o.plan,
          seen |-> [i \in DOMAIN o.plan |-> IF o.guarded THEN At(o.plan[i].from) ELSE Absent],
          found |-> [i \in DOMAIN o.plan |-> Absent], state |-> [i \in DOMAIN o.plan |-> "todo"],
          before |-> <<>>, calm |-> TRUE])
  /\ UNCHANGED <<fs, written, lost, record>>

Is(c, tool, at) == call[c].op.tool = tool /\ call[c].at = at
Op(c) == call[c].plan[call[c].k]
Goes(c, at) == [call EXCEPT ![c].at = at]
(* The check that decides the call: what it found (history).               *)
Checked(c, at) ==
  [call EXCEPT ![c].at = at, ![c].calm = TRUE,
               ![c].found = [i \in DOMAIN call[c].plan |-> At(call[c].plan[i].to)]]
(* A step that changes a file ends the calm of the other calls (history).  *)
Stirs(c, changed) ==
  call' = [d \in DOMAIN changed |->
             IF d = c THEN changed[d] ELSE [changed[d] EXCEPT !.calm = FALSE]]

(* CheckVersion: an expectation, if there is one, is of the content read.  *)
AnyVersion(c, i) == TRUE
VersionHolds(c, i) ==
  call[c].seen[i] # Absent => At(call[c].plan[i].from) = call[c].seen[i]

-----------------------------------------------------------------------------
(* write_file: the checks, the backup, the write. *)
WriteChecks(c) ==
  /\ Is(c, "write", "begun")
  /\ call' = IF VersionHolds(c, 1) /\ (call[c].op.absent => At(Op(c).from) = Absent)
             THEN [Checked(c, "checked") EXCEPT ![c].found[1] = At(Op(c).from)]
             ELSE Goes(c, "failed")
  /\ UNCHANGED <<fs, written, lost, record>>

SkipsBackup(c) == FALSE
NeedsBackup(c) == call[c].op.backup /\ At(Op(c).from) # Absent
WriteBacksUp(c) ==
  /\ Is(c, "write", "checked")
  /\ IF NeedsBackup(c)
     THEN fs' = Put(fs, Op(c).to, At(Op(c).from)) /\ Stirs(c, Goes(c, "saved"))
     ELSE call' = Goes(c, "saved") /\ UNCHANGED fs
  /\ UNCHANGED <<written, lost, record>>

WritesFile(c) ==
  /\ Is(c, "write", "saved")
  /\ fs' = Put(fs, Op(c).from, Fresh) /\ written' = Fresh
  /\ Stirs(c, [Goes(c, "done") EXCEPT ![c].state[1] = "written"])
  /\ UNCHANGED <<lost, record>>

-----------------------------------------------------------------------------
(* multi_edit: per file a goroutine checks the version, then reads and     *)
(* computes; when all are through, the files that changed are written in   *)
(* turn, and each write may fail.  A file without a change is as good as   *)
(* failed: it is not written.                                              *)
EditStep(c, i, to, found) == [call EXCEPT ![c].state[i] = to, ![c].found[i] = found]
EditChecks(c, i) ==
  /\ Is(c, "edit", "begun") /\ call[c].state[i] = "todo"
  /\ call' = IF VersionHolds(c, i) THEN EditStep(c, i, "checked", At(call[c].plan[i].from))
             ELSE EditStep(c, i, "failed", Absent)
  /\ UNCHANGED <<fs, written, lost, record>>

EditReads(c, i) ==
  /\ Is(c, "edit", "begun") /\ call[c].state[i] = "checked"
  /\ \/ /\ At(call[c].plan[i].from) # Absent
        /\ call' = EditStep(c, i, "read", call[c].found[i])
     \/ call' = EditStep(c, i, "failed", Absent)  \* no file, no such text, or no change
  /\ UNCHANGED <<fs, written, lost, record>>

Resolved(c) ==
  \A i \in DOMAIN call[c].state : call[c].state[i] \in {"read", "failed", "written"}
EditWrites(c) ==
  /\ Is(c, "edit", "begun") /\ Resolved(c)
  /\ LET i == call[c].k
         next == IF i = Len(call[c].plan) THEN Goes(c, "done") ELSE [call EXCEPT ![c].k = i + 1]
     IN \/ /\ call[c].state[i] = "read"
           /\ fs' = Put(fs, Op(c).from, Fresh) /\ written' = Fresh
           /\ Stirs(c, [next EXCEPT ![c].state[i] = "written"])
        \/ /\ call' = [next EXCEPT ![c].state[i] = "failed", ![c].found[i] = Absent]
           /\ UNCHANGED <<fs, written>>
  /\ UNCHANGED <<lost, record>>

-----------------------------------------------------------------------------
(* os.Rename of p to q by call c, forth or to undo one, into the state     *)
(* `next` of the calls; what was at q is gone.                             *)
Renames(c, p, q, undo, next) ==
  /\ p \in DOMAIN fs
  /\ fs' = IF p = q THEN fs ELSE Put(Restrict(fs, DOMAIN fs \ {p}), q, fs[p])
  /\ lost' = IF q \in DOMAIN fs \ {p} THEN lost \cup {[call |-> c, to |-> q, undo |-> undo, calm |-> call[c].calm]}
              ELSE lost
  /\ Stirs(c, next)

(* rename, of one path or of the files a pattern matches: the plan is made *)
(* of the sources there are, and no destination may exist unless forced.   *)
RenamePlans(c) ==
  /\ Is(c, "rename", "begun")
  /\ LET present == SelectSeq(call[c].op.plan, LAMBDA o : At(o.from) # Absent)
     IN call' = IF present = <<>> THEN Goes(c, "failed")
                ELSE [call EXCEPT ![c].plan = present, ![c].at = "planned", ![c].calm = TRUE,
                                  ![c].found = [i \in DOMAIN present |-> Absent],
                                  ![c].before = fs]
  /\ UNCHANGED <<fs, written, lost, record>>

AnyDestination(c) == TRUE
DestinationFree(c) == call[c].op.force \/ At(Op(c).to) = Absent
RenameValidates(c) ==
  /\ Is(c, "rename", "planned")
  /\ LET last == call[c].k = Len(call[c].plan)
     IN call' = IF DestinationFree(c)
                THEN [call EXCEPT ![c].found[call[c].k] = At(Op(c).to),
                                  ![c].at = IF last THEN "moving" ELSE "planned",
                                  ![c].k = IF last THEN 1 ELSE @ + 1]
                ELSE Goes(c, "failed")
  /\ UNCHANGED <<fs, written, lost, record>>

RenameMoves(c) ==
  /\ Is(c, "rename", "moving")
  /\ Renames(c, Op(c).from, Op(c).to, FALSE,
             IF call[c].k = Len(call[c].plan) THEN Goes(c, "done")
             ELSE [call EXCEPT ![c].k = @ + 1])
  /\ UNCHANGED <<written, record>>

(* The rename fails, or the context has ended: what was renamed is renamed *)
(* back, the last first.                                                   *)
RenameFails(c) ==
  /\ Is(c, "rename", "moving")
  /\ call' = [call EXCEPT ![c].at = "undoing", ![c].k = @ - 1]
  /\ UNCHANGED <<fs, written, lost, record>>

UndoesFirst(c) == call[c].plan[1]
UndoesLast(c) == Op(c)
RollsBack(c) ==
  /\ Is(c, "rename", "undoing")
  /\ IF call[c].k = 0 THEN call' = Goes(c, "failed") /\ UNCHANGED <<fs, lost>>
     ELSE LET o == UndoesLast(c)
              next == [call EXCEPT ![c].k = @ - 1]
          IN IF At(o.to) # Absent THEN Renames(c, o.to, o.from, TRUE, next)
             ELSE call' = next /\ UNCHANGED <<fs, lost>>
  /\ UNCHANGED <<written, record>>

-----------------------------------------------------------------------------
(* trash: a name of the base name and the second, made unique when taken;  *)
(* the manifest line is written before the file is moved.                  *)
Slot(p, tag) == [dir |-> "trash", base |-> p.base, second |-> second, tag |-> tag]
SecondName(c, p) == Slot(p, 0)
TrashName(c, p) == IF At(Slot(p, 0)) # Absent THEN Slot(p, c) ELSE Slot(p, 0)
TrashNames(c) ==
  /\ Is(c, "trash", "begun")
  /\ IF At(Op(c).from) = Absent THEN call' = Goes(c, "failed") /\ UNCHANGED manifest
     ELSE LET to == TrashName(c, Op(c).from)
          IN /\ call' = [Checked(c, "named") EXCEPT ![c].plan[1].to = to,
                                                    ![c].found[1] = At(to)]
             /\ manifest' = Append(manifest, [original |-> Op(c).from, trashed |-> to])
  /\ UNCHANGED <<fs, written, lost, second, home>>

TrashMoves(c) ==
  /\ Is(c, "trash", "named")
  /\ \/ /\ Renames(c, Op(c).from, Op(c).to, FALSE, Goes(c, "done"))
        /\ home' = Put(home, At(Op(c).from), Op(c).from)
     \/ call' = Goes(c, "failed") /\ UNCHANGED <<fs, lost, home>>
  /\ UNCHANGED <<written, second, manifest>>

(* restore_trash of something in the trash: the first line of the manifest *)
(* with its name says where to, and nothing may be there.                  *)
LinesOf(t) == SelectSeq(manifest, LAMBDA line : line.trashed = t)
AnyLine(t) == manifest[1]
FirstLine(t) == LinesOf(t)[1]
RestoreAnyway(q) == TRUE
RestoreFree(q) == At(q) = Absent
RestoreLooksUp(c) ==
  /\ Is(c, "restore", "begun")
  /\ \E t \in DOMAIN fs :
       /\ t.dir = "trash"
       /\ LET to == FirstLine(t).original
          IN call' = IF RestoreFree(to)
                     THEN [Checked(c, "named") EXCEPT ![c].plan[1] = [from |-> t, to |-> to],
                                                      ![c].seen[1] = At(t), ![c].found[1] = At(to)]
                     ELSE Goes(c, "failed")
  /\ UNCHANGED <<fs, written, lost, record>>

RestoreMoves(c) ==
  /\ Is(c, "restore", "named")
  /\ \/ Renames(c, Op(c).from, Op(c).to, FALSE, Goes(c, "done"))
     \/ call' = Goes(c, "failed") /\ UNCHANGED <<fs, lost>>
  /\ UNCHANGED <<written, record>>

Tick ==
  /\ second < MaxSeconds /\ second' = second + 1
  /\ UNCHANGED <<fs, manifest, call, written, home, lost>>

FilesNext ==
  \/ Begin \/ Tick
  \/ \E c \in DOMAIN call :
       \/ WriteChecks(c) \/ WriteBacksUp(c) \/ WritesFile(c)
       \/ \E i \in DOMAIN call[c].plan : EditChecks(c, i) \/ EditReads(c, i)
       \/ EditWrites(c)
       \/ RenamePlans(c) \/ RenameValidates(c) \/ RenameMoves(c) \/ RenameFails(c) \/ RollsBack(c)
       \/ TrashNames(c) \/ TrashMoves(c) \/ RestoreLooksUp(c) \/ RestoreMoves(c)

FilesSpec == FilesInit /\ [][FilesNext]_fileVars

-----------------------------------------------------------------------------
FilesTypeOK ==
  /\ second \in 1..MaxSeconds /\ Len(call) <= MaxFileCalls
  /\ \A p \in DOMAIN fs : fs[p] \in 1..written
  /\ \A c \in DOMAIN call :
       /\ call[c].at \in {"begun", "checked", "saved", "planned", "moving",
                          "undoing", "named", "done", "failed"}
       /\ call[c].k \in 0..Len(call[c].plan)

(* A guarded write or edit is made only after the file was seen to be what *)
(* its caller had read; a write that must not replace found nothing        *)
(* (toolutil.go:250, write.go:97).                                         *)
GuardsAreKept ==
  \A c \in DOMAIN call : \A i \in DOMAIN call[c].state :
    call[c].state[i] = "written" =>
      /\ call[c].seen[i] # Absent => call[c].found[i] = call[c].seen[i]
      /\ call[c].op.absent => call[c].found[i] = Absent

(* A rename, a trip to the trash and one back replace a file only by force *)
(* or when it came after they had looked (trash.go:168, rename.go:121); a  *)
(* rollback replaces one only when another call has put it there.          *)
Found(c, q) ==
  \E i \in DOMAIN call[c].found : call[c].plan[i].to = q /\ call[c].found[i] # Absent
MovesLookFirst ==
  \A l \in lost : IF l.undo THEN ~ l.calm ELSE call[l.call].op.force \/ ~ Found(l.call, l.to)

(* A call that no other disturbs since its check and that fails leaves the *)
(* files as they were, however far it had come (rename.go:202); a write    *)
(* that asked for a backup has one.                                        *)
UndisturbedIsAtomic ==
  \A c \in DOMAIN call :
    call[c].calm =>
      /\ call[c].at = "failed" /\ call[c].before # <<>> /\ (\A l \in lost : l.call = c => l.undo) =>
           fs = call[c].before
      /\ call[c].at = "done" /\ call[c].op.backup /\ call[c].found[1] # Absent =>
           At(call[c].plan[1].to) = call[c].found[1]

(* What is restored goes back where it was trashed from, unless the trash  *)
(* had used its name before (trash.go:259-274).                            *)
RestoredHome ==
  \A c \in DOMAIN call :
    Is(c, "restore", "done") /\ call[c].seen[1] \in DOMAIN home =>
      \/ call[c].plan[1].to = home[call[c].seen[1]]
      \/ Len(LinesOf(call[c].plan[1].from)) > 1

FilesAreKept == GuardsAreKept /\ MovesLookFirst /\ UndisturbedIsAtomic /\ RestoredHome

(* Not what the code does: the check and the write are two steps           *)
(* (toolutil.go:246, "never applied blind"); the names of one second are   *)
(* no identity; two files of a batch may be given one name.                *)
NothingIsLost == \A l \in lost : call[l.call].op.force
AlwaysRestoredHome ==
  \A c \in DOMAIN call :
    Is(c, "restore", "done") /\ call[c].seen[1] \in DOMAIN home =>
      call[c].plan[1].to = home[call[c].seen[1]]
=============================================================================
