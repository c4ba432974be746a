------------------------------- MODULE FileSearch -------------------------------
(***************************************************************************)
(* One search of a directory tree by the grep tool (grep_session.go) or    *)
(* the glob tool (glob.go): one goroutine walks the tree into a channel,   *)
(* several workers read the files from it until the limit is reached, the  *)
(* walk is over or the caller gives up.  The files are those that pass the *)
(* filters of the walk, in its order; a file's content is the set of its   *)
(* lines that match.                                                       *)
(***************************************************************************)
EXTENDS Integers, FiniteSets, Sequences, FiniteSetsExt, SequencesExt

CONSTANTS Trees,        \* contents: from the files, 1 to n, to sets of lines
          Lines,        \* the lines of a file
          SearchLimits, \* max_results; 0, of glob only, is none
          Contexts,     \* pairs of before_context and after_context
          Workers, FileChanCap

VARIABLES
  tool, content, limit, around,  \* the call
  fileCh,                        \* files found and not taken yet
  walked, walker,                \* looks, filters, sends, done
  worker,                        \* waits, searches, merged, returned; with a file
  found,                         \* allResults, or files
  globalCount, truncated,
  ctx                            \* live, or cancelled by the limit or the caller
searchVars == <<tool, content, limit, around, fileCh, walked, walker, worker, found,
                globalCount, truncated, ctx>>

-----------------------------------------------------------------------------
(* searchFile: the first matching lines up to the limit, each within its   *)
(* context, a separator where two contexts do not meet, and what was said  *)
(* with the same mark before left out.                                     *)
Mark(line, type) == [line |-> line, type |-> type]
Marks(lines, type) ==
  [k \in 1..Cardinality(lines) |-> Mark(SetToSortSeq(lines, <)[k], type)]
AddMatch(shown, i) ==
  LET out == shown.out
      gap == IF i - shown.last > around[1] + around[2] + 1
             THEN <<Mark(0, "separator")>> ELSE <<>>
  IN [last |-> i,
      out |-> out \o gap \o Marks({j \in Lines : j < i /\ j >= i - around[1]}, "before")
                  \o <<Mark(i, "match")>>
                  \o Marks({j \in Lines : j > i /\ j <= i + around[2]}, "after")]
NoRepeats(marks) ==
  FoldLeft(LAMBDA clean, m : IF Contains(clean, m) THEN clean ELSE Append(clean, m), <<>>, marks)
MatchesOf(f) ==
  LET all == SetToSortSeq(content[f], <)
  IN IF limit > 0 /\ Len(all) > limit THEN SubSeq(all, 1, limit) ELSE all
searchFile(f) ==
  LET shown == FoldLeft(AddMatch, [last |-> 0 - around[1] - 1, out |-> <<>>], MatchesOf(f))
  IN [file |-> f, count |-> Len(MatchesOf(f)), lines |-> NoRepeats(shown.out)]

-----------------------------------------------------------------------------
SearchInit ==
  /\ content \in Trees /\ around \in Contexts
  /\ tool \in {"grep", "glob"} /\ limit \in SearchLimits
  /\ (tool = "grep") => (limit > 0)
  /\ (tool = "glob") => (around = CHOOSE c \in Contexts : TRUE)
  /\ fileCh = <<>> /\ walked = 0 /\ walker = "looks"
  /\ worker = [w \in Workers |-> [at |-> "waits", file |-> 0]]
  /\ found = <<>> /\ globalCount = 0 /\ truncated = FALSE /\ ctx = "live"

callVars == <<tool, content, limit, around>>
resultVars == <<found, globalCount, truncated>>
NumFiles == Cardinality(DOMAIN content)
LimitReached == limit > 0 /\ globalCount >= limit

(* The walk: the context is looked at before each file, the limit after    *)
(* it; the file is sent unless the context is done first.                  *)
WalkLooks ==
  /\ walker = "looks"
  /\ walker' = IF walked < NumFiles /\ ctx = "live" THEN "filters" ELSE "done"
  /\ UNCHANGED <<callVars, fileCh, walked, worker, resultVars, ctx>>
WalkFilters ==
  /\ walker = "filters" /\ walked' = walked + 1
  /\ walker' = IF tool = "grep" /\ LimitReached THEN "looks" ELSE "sends"
  /\ UNCHANGED <<callVars, fileCh, worker, resultVars, ctx>>
WalkSends ==
  /\ walker = "sends" /\ Len(fileCh) < FileChanCap
  /\ fileCh' = Append(fileCh, walked) /\ walker' = "looks"
  /\ UNCHANGED <<callVars, walked, worker, resultVars, ctx>>
NeverGivesUp == FALSE
GivesUpSending == ctx # "live"
WalkGivesUp ==
  /\ walker = "sends" /\ GivesUpSending
  /\ walker' = "done"
  /\ UNCHANGED <<callVars, fileCh, walked, worker, resultVars, ctx>>

(* A worker: it takes files until the channel is closed and empty.         *)
Set(w, at, f) == worker' = [worker EXCEPT ![w] = [at |-> at, file |-> f]]
Takes(w) ==
  /\ worker[w].at = "waits" /\ fileCh # <<>>
  /\ Set(w, "searches", Head(fileCh)) /\ fileCh' = Tail(fileCh)
  /\ UNCHANGED <<callVars, walked, walker, resultVars, ctx>>
LeavesWhenEmpty == fileCh = <<>>
ChannelIsOver == fileCh = <<>> /\ walker = "done"
Leaves(w) ==
  /\ worker[w].at = "waits" /\ ChannelIsOver
  /\ Set(w, "returned", 0)
  /\ UNCHANGED <<callVars, fileCh, walked, walker, resultVars, ctx>>

(* Under the lock: what exceeds the limit is cut, and a file that comes    *)
(* when it has been reached is dropped.                                    *)
Uncut(result, total) == result
Cut(result, total) ==
  IF total <= limit THEN result
  ELSE LET c == result.count - (total - limit)
       IN [result EXCEPT !.count = c,
                         !.lines = IF Len(@) > c THEN SubSeq(@, 1, c) ELSE @]
Merge(result) ==
  LET total == globalCount + result.count
  IN /\ globalCount' = IF total > limit THEN limit ELSE total
     /\ truncated' = (truncated \/ total > limit)
     /\ found' = Append(found, Cut(result, total))
Dropped(result) == result.count = 0 \/ LimitReached
GrepMerges(w) ==
  LET result == searchFile(worker[w].file) IN
  /\ tool = "grep" /\ worker[w].at = "searches"
  /\ IF Dropped(result)
     THEN /\ Set(w, "waits", 0) /\ UNCHANGED resultVars
     ELSE /\ Set(w, "merged", worker[w].file) /\ Merge(result)
  /\ UNCHANGED <<callVars, fileCh, walked, walker, ctx>>
(* glob decides under the lock; the names found after the limit are added. *)
GlobMerges(w) ==
  LET f == worker[w].file
      count == globalCount + 1
  IN
  /\ tool = "glob" /\ worker[w].at = "searches"
  /\ IF content[f] = {}
     THEN /\ Set(w, "waits", 0) /\ UNCHANGED resultVars
     ELSE /\ Set(w, IF limit > 0 /\ count >= limit THEN "merged" ELSE "waits", f)
          /\ found' = Append(found, [file |-> f, count |-> 1, lines |-> <<>>])
          /\ globalCount' = count /\ UNCHANGED truncated
  /\ UNCHANGED <<callVars, fileCh, walked, walker, ctx>>

(* After the lock: the worker that sees the limit reached stops the search. *)
Cancelled(by) == IF ctx = "live" THEN by ELSE ctx
Checks(w) ==
  /\ worker[w].at = "merged"
  /\ IF LimitReached
     THEN /\ Set(w, "returned", 0) /\ ctx' = Cancelled("limit")
     ELSE /\ Set(w, "waits", 0) /\ UNCHANGED ctx
  /\ UNCHANGED <<callVars, fileCh, walked, walker, resultVars>>

CallerGivesUp ==
  /\ ctx = "live" /\ walker # "done"
  /\ ctx' = "caller"
  /\ UNCHANGED <<callVars, fileCh, walked, walker, worker, resultVars>>

WorkerNext(w) == Takes(w) \/ Leaves(w) \/ GrepMerges(w) \/ GlobMerges(w) \/ Checks(w)
SearchNext ==
  \/ WalkLooks \/ WalkFilters \/ WalkSends \/ WalkGivesUp \/ CallerGivesUp
  \/ \E w \in Workers : WorkerNext(w)
SearchSpec == SearchInit /\ [][SearchNext]_searchVars

-----------------------------------------------------------------------------
(* format, and the end of glob: by path, glob's names up to the limit.     *)
Sorted == SetToSortSeq({found[k] : k \in DOMAIN found}, LAMBDA p, q : p.file < q.file)
Answer == IF tool = "glob" /\ limit > 0 /\ Len(Sorted) > limit
          THEN SubSeq(Sorted, 1, limit) ELSE Sorted
Answered == walker = "done" /\ \A w \in Workers : worker[w].at = "returned"

Total(results) == FoldLeft(LAMBDA n, r : n + r.count, 0, results)
MatchingFiles == {f \in DOMAIN content : content[f] # {}}

SearchTypeOK ==
  /\ content \in Trees /\ limit \in SearchLimits /\ around \in Contexts
  /\ Len(fileCh) <= FileChanCap
  /\ walked \in 0..NumFiles /\ walker \in {"looks", "filters", "sends", "done"}
  /\ \A w \in Workers : /\ worker[w].at \in {"waits", "searches", "merged", "returned"}
                        /\ worker[w].file \in 0..NumFiles
  /\ globalCount \in Nat /\ truncated \in BOOLEAN /\ ctx \in {"live", "limit", "caller"}

(* grep_session.go:222: the workers count what they found together, under  *)
(* one limit, and no file is found twice.                                  *)
CountIsTrue ==
  /\ globalCount = Total(found)
  /\ tool = "grep" => globalCount <= limit
  /\ Cardinality({found[k].file : k \in DOMAIN found}) = Len(found)

(* A search that nothing stopped names every file that matches, and grep   *)
(* every one of its matches (grep_session.go:286, glob.go:232).            *)
AnswerIsWhole ==
  Answered /\ ctx = "live" =>
    /\ {Answer[k].file : k \in DOMAIN Answer} = MatchingFiles
    /\ tool = "grep" => \A k \in DOMAIN Answer : Answer[k].count = Cardinality(content[Answer[k].file])

(* A search stopped by its limit has as much as the limit allows.          *)
LimitIsFilled == Answered /\ ctx = "limit" => Total(Answer) = limit

(* What is shown of a file is its own: the marks of matches are on its     *)
(* matching lines, from the top and without a repeat, and every other line *)
(* is near one of them.                                                    *)
LinesAreTrue ==
  \A k \in DOMAIN found :
    LET r == found[k]
        hits == SelectSeq(r.lines, LAMBDA m : m.type = "match")
    IN /\ hits = SubSeq(Marks(content[r.file], "match"), 1, Len(hits))
       /\ \A m \in {r.lines[j] : j \in DOMAIN r.lines} :
            m.type \in {"before", "after"} =>
              \E i \in content[r.file] : /\ m.type = "before" => m.line \in (i - around[1])..(i - 1)
                                         /\ m.type = "after" => m.line \in (i + 1)..(i + around[2])

(* The walk and the workers do not wait for each other for ever: a walk    *)
(* that has a file to send finds room, a worker or a done context.         *)
NobodyIsStuck ==
  ~Answered =>
    \/ walker \in {"looks", "filters"}
    \/ walker = "sends" /\ (Len(fileCh) < FileChanCap \/ GivesUpSending)
    \/ \E w \in Workers : \/ worker[w].at \in {"searches", "merged"}
                          \/ worker[w].at = "waits" /\ (fileCh # <<>> \/ ChannelIsOver)

SearchIsSound ==
  CountIsTrue /\ AnswerIsWhole /\ LimitIsFilled /\ LinesAreTrue /\ NobodyIsStuck

(* Not what the code does.  grep_session.go:241: a truncation is noted;    *)
(* none is when the limit is met exactly, when one file alone exceeds it,  *)
(* or when the caller gave up, and glob never notes one.                   *)
CutsAreTold ==
  Answered /\ ~truncated =>
    {Answer[k].file : k \in DOMAIN Answer} = MatchingFiles

(* Not what the code does.  grep_session.go:253: found as many matches as  *)
(* it counts; a file that is cut loses matches to its context and to the   *)
(* separator.                                                              *)
CountedAreShown ==
  tool = "grep" => \A k \in DOMAIN found :
    Len(SelectSeq(found[k].lines, LAMBDA m : m.type = "match")) = found[k].count
=============================================================================
