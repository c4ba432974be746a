-------------------------------- MODULE TailStore --------------------------------
(***************************************************************************)
(* The bounded output store of a background job (tailStore and the places  *)
(* of core/jobs/jobs.go that touch it): the running job appends, consumers *)
(* read incrementally with a cursor, and a FinalOutput job replaces what   *)
(* is buffered when it completes.                                          *)
(*                                                                         *)
(* A byte is the number it has among all bytes ever written, so the        *)
(* content of the buffer is a sequence of numbers.  Both operations run    *)
(* under the store's lock, so each is one step.                            *)
(***************************************************************************)
EXTENDS Integers, Sequences

CONSTANTS Readers,     \* consumers that poll Registry.Output
          Cap,         \* bytes retained (256 KiB in the code)
          WriteSizes,  \* sizes of single Write calls
          MaxTotal     \* bound: bytes ever written

ASSUME TailAssumption == /\ Cap \in Nat \ {0}
                         /\ WriteSizes \subseteq Nat
                         /\ MaxTotal \in Nat

VARIABLES buf,       \* tailStore.buf
          total,     \* tailStore.total
          final,     \* TRUE once a FinalOutput job has completed
          floor,     \* total at that completion (history)
          cursor,    \* the offset each reader was last given
          received   \* all bytes each reader was given (history)

storeVars == <<buf, total, final, floor>>
vars == <<storeVars, cursor, received>>

Init ==
  /\ buf = <<>>
  /\ total = 0
  /\ final = FALSE
  /\ floor = 0
  /\ cursor = [r \in Readers |-> 0]
  /\ received = [r \in Readers |-> <<>>]

-----------------------------------------------------------------------------
(* n fresh bytes behind the ones in s.                                     *)
Fresh(s, n) == [k \in 1..(Len(s) + n) |-> IF k <= Len(s) THEN s[k] ELSE total + k - Len(s)]

(* How many of the oldest bytes Write drops, and the newest Cap bytes.      *)
ExcessWhole(s) == IF Len(s) > Cap THEN Len(s) ELSE 0
Excess(s) == IF Len(s) > Cap THEN Len(s) - Cap ELSE 0

Newest(s) == SubSeq(s, Excess(s) + 1, Len(s))

Write(n) ==
  /\ ~final
  /\ buf' = Newest(Fresh(buf, n))
  /\ total' = total + n
  /\ UNCHANGED <<final, floor, cursor, received>>

(* A completed FinalOutput job: the buffer is reset, the total is not, and *)
(* the final text is written.                                              *)

FinalOutput(n) ==
  /\ ~final
  /\ buf' = Newest(Fresh(<<>>, n))
  /\ total' = total + n
  /\ floor' = total
  /\ final' = TRUE
  /\ UNCHANGED <<cursor, received>>

-----------------------------------------------------------------------------
(* Where in buf the bytes after offset since start.                        *)
Clamp(k) == IF k < 0 THEN 0 ELSE IF k > Len(buf) THEN Len(buf) ELSE k
StartUnshifted(since) == Clamp(since)
Start(since) == Clamp(since - (total - Len(buf)))

Unread(since) == SubSeq(buf, Start(since) + 1, Len(buf))

Read(r) ==
  /\ received' = [received EXCEPT ![r] = @ \o Unread(cursor[r])]
  /\ cursor' = [cursor EXCEPT ![r] = total]
  /\ UNCHANGED storeVars

-----------------------------------------------------------------------------
Next ==
  \/ \E n \in WriteSizes : total + n <= MaxTotal /\ (Write(n) \/ FinalOutput(n))
  \/ \E r \in Readers : Read(r)

Spec == Init /\ [][Next]_vars

-----------------------------------------------------------------------------
(* The store's variables keep their types and its bound.                   *)
TypeOK ==
  /\ buf \in Seq(Nat)
  /\ Len(buf) <= Cap
  /\ total \in Nat
  /\ final \in BOOLEAN
  /\ floor \in Nat
  /\ cursor \in [Readers -> Nat]
  /\ received \in [Readers -> Seq(Nat)]

(* The buffer always ends with the newest byte and has no hole, so the     *)
(* offset arithmetic of read is right: position k holds byte               *)
(* total - len + k.  Nothing is evicted while there is room: outside a     *)
(* final reset it is the last Cap bytes, or all of them.                   *)
KeepsWhatFits == Len(buf) = IF total - floor < Cap THEN total - floor ELSE Cap
BufferIsNewestTail ==
  /\ Len(buf) <= total
  /\ \A k \in 1..Len(buf) : buf[k] = total - Len(buf) + k
  /\ KeepsWhatFits

(* No consumer is given a byte twice or out of order, whatever is evicted  *)
(* or reset between its reads.                                             *)
NoByteTwice ==
  \A r \in Readers : \A j, k \in 1..Len(received[r]) :
     j < k => received[r][j] < received[r][k]

(* A read leaves nothing behind: every byte that is still retained and no  *)
(* newer than the reader's cursor is one the reader was given.             *)
NothingRetainedIsMissed ==
  \A r \in Readers : \A k \in 1..Len(buf) :
     buf[k] <= cursor[r] => \E j \in 1..Len(received[r]) : received[r][j] = buf[k]

(* Once a FinalOutput job has completed, the store shows its final text    *)
(* only: no byte written before it is ever read again.                     *)
FinalReplacesAll == final => \A k \in 1..Len(buf) : buf[k] > floor

(* Incremental reads are exact: no byte twice, none that is retained       *)
(* missed, and after a final output nothing but its text.                  *)
ReadsAreExact == NoByteTwice /\ NothingRetainedIsMissed /\ FinalReplacesAll

(* What a job writes can be read by its offset: the buffer is the newest   *)
(* tail of the output and the incremental reads of it are exact.           *)
OutputIsExact == BufferIsNewestTail /\ ReadsAreExact
=============================================================================
