------------------------------ MODULE StoresProofs ------------------------------
(***************************************************************************)
(* Proofs about the parts composed in MCStores, and about the whole.       *)
(*                                                                         *)
(* The job output store, for every capacity, every pattern of writes and   *)
(* any number of readers; the checkpoint stores, for any ids, limits and   *)
(* crashes; the event hub, the projections, the layered registries and the *)
(* catalogs, for any bounds, subscribers, units, layers, names and         *)
(* directories.  What belongs to a session is in SessionProofs.  The last  *)
(* section puts the inductive invariants of all parts together: a step of  *)
(* the whole is a step of one part and leaves the others alone.            *)
(***************************************************************************)
EXTENDS MCStores, SessionProofs, SequenceTheorems, FiniteSetTheorems, TLAPS

(* b holds the newest bytes of a stream of t bytes that began at base.     *)
Filled(b, t, base) ==
  /\ b \in Seq(Nat)
  /\ Len(b) = IF t - base < Cap THEN t - base ELSE Cap
  /\ \A k \in 1..Len(b) : b[k] = t - Len(b) + k

(* The bytes in s come in the order they were written.                     *)
Increasing(s) == \A j, k \in 1..Len(s) : j < k => s[j] < s[k]

(* b is the end of s.                                                      *)
EndOf(b, s) ==
  /\ b \in Seq(Nat)
  /\ Len(b) <= Len(s)
  /\ \A k \in 1..Len(b) : b[k] = s[Len(s) - Len(b) + k]

(* The store: it holds exactly the last bytes since the final reset, as    *)
(* many as fit, each at the place its number says.                         *)
StoreInv ==
  /\ total \in Nat /\ floor \in Nat /\ final \in BOOLEAN
  /\ floor <= total
  /\ ~final => floor = 0
  /\ Filled(buf, total, floor)

(* The readers: a reader has been given bytes up to its cursor only, in    *)
(* order, and all the retained ones.                                       *)
ReaderInv(r) ==
  /\ cursor[r] \in Nat /\ cursor[r] <= total
  /\ received[r] \in Seq(Nat)
  /\ \A k \in 1..Len(received[r]) : received[r][k] <= cursor[r]
  /\ Increasing(received[r])
  /\ \A k \in 1..Len(buf) :
       buf[k] <= cursor[r] => \E j \in 1..Len(received[r]) : received[r][j] = buf[k]

TailInv ==
  /\ StoreInv
  /\ cursor \in [Readers -> Nat]
  /\ received \in [Readers -> Seq(Nat)]
  /\ \A r \in Readers : ReaderInv(r)

-----------------------------------------------------------------------------
(* What Newest returns: the end of s, at most Cap bytes of it.             *)
LEMMA NewestSpec ==
  ASSUME NEW s \in Seq(Nat)
  PROVE  /\ EndOf(Newest(s), s)
         /\ Len(Newest(s)) = IF Len(s) < Cap THEN Len(s) ELSE Cap
<1> DEFINE x == Excess(s)
<1>0. Len(s) \in Nat /\ Cap \in Nat
  BY TailAssumption
<1>1. x \in Nat /\ x <= Len(s) /\ Len(s) - x = IF Len(s) < Cap THEN Len(s) ELSE Cap
  <2>1. CASE Len(s) > Cap
    BY <1>0, <2>1 DEF Excess
  <2>2. CASE ~(Len(s) > Cap)
    BY <1>0, <2>2 DEF Excess
  <2> QED
    BY <2>1, <2>2
<1>2. Newest(s) = SubSeq(s, x + 1, Len(s))
  BY DEF Newest
<1> HIDE DEF x
<1>3. /\ SubSeq(s, x + 1, Len(s)) \in Seq(Nat)
      /\ Len(SubSeq(s, x + 1, Len(s)))
           = IF x + 1 <= Len(s) THEN Len(s) - (x + 1) + 1 ELSE 0
      /\ \A k \in 1..(Len(s) - (x + 1) + 1) :
           SubSeq(s, x + 1, Len(s))[k] = s[(x + 1) + k - 1]
  <2>1. x + 1 \in Int /\ Len(s) \in Int
    BY <1>0, <1>1
  <2>2. \A i \in 1..Len(s) : s[i] \in Nat
    OBVIOUS
  <2>3. \A i \in (x + 1)..Len(s) : i \in 1..Len(s)
    BY <1>0, <1>1
  <2>4. \A i \in (x + 1)..Len(s) : s[i] \in Nat
    BY <2>2, <2>3
  <2> QED
    BY <2>1, <2>4, SubSeqProperties
<1>4. Newest(s) \in Seq(Nat) /\ Len(Newest(s)) = Len(s) - x
  <2>1. x + 1 <= Len(s) => Len(s) - (x + 1) + 1 = Len(s) - x
    BY <1>0, <1>1
  <2>2. ~(x + 1 <= Len(s)) => Len(s) - x = 0
    BY <1>0, <1>1
  <2> QED
    BY <1>2, <1>3, <2>1, <2>2
<1>5. ASSUME NEW k \in 1..Len(Newest(s))
      PROVE  Newest(s)[k] = s[Len(s) - Len(Newest(s)) + k]
  <2>1. Len(Newest(s)) = Len(s) - (x + 1) + 1
    BY <1>0, <1>1, <1>4
  <2>2. k \in 1..(Len(s) - (x + 1) + 1)
    BY <2>1
  <2>3. Newest(s)[k] = s[(x + 1) + k - 1]
    BY <1>2, <1>3, <2>2
  <2>4. (x + 1) + k - 1 = Len(s) - Len(Newest(s)) + k
    BY <1>0, <1>1, <1>4
  <2> QED
    BY <2>3, <2>4
<1> QED
  BY <1>0, <1>1, <1>4, <1>5 DEF EndOf

(* n fresh bytes behind s: the old ones stay, the new ones are numbered on. *)
LEMMA FreshSpec ==
  ASSUME NEW s \in Seq(Nat), NEW n \in Nat, total \in Nat
  PROVE  /\ Fresh(s, n) \in Seq(Nat)
         /\ Len(Fresh(s, n)) = Len(s) + n
         /\ \A k \in 1..(Len(s) + n) :
              Fresh(s, n)[k] = IF k <= Len(s) THEN s[k] ELSE total + k - Len(s)
<1>1. \A k \in 1..(Len(s) + n) :
        (IF k <= Len(s) THEN s[k] ELSE total + k - Len(s)) \in Nat
  OBVIOUS
<1> QED
  BY <1>1 DEF Fresh

(* Appending and trimming keeps a filled buffer filled.                    *)
LEMMA AppendStore ==
  ASSUME NEW s, NEW n \in Nat, NEW base \in Nat, total \in Nat, base <= total,
         Filled(s, total, base)
  PROVE  Filled(Newest(Fresh(s, n)), total + n, base)
<1> DEFINE f == Fresh(s, n)
           b == Newest(f)
           t == total + n
<1>0. /\ s \in Seq(Nat) /\ Len(s) \in Nat /\ t \in Nat
      /\ Len(s) = IF total - base < Cap THEN total - base ELSE Cap
      /\ \A k \in 1..Len(s) : s[k] = total - Len(s) + k
  BY DEF Filled
<1>1. f \in Seq(Nat) /\ Len(f) = Len(s) + n /\ Len(f) \in Nat
  <2>1. f \in Seq(Nat) /\ Len(f) = Len(s) + n
    BY <1>0, FreshSpec
  <2> QED
    BY <1>0, <2>1
<1>2. ASSUME NEW k \in 1..Len(f) PROVE f[k] = t - Len(f) + k
  <2>1. k \in 1..(Len(s) + n)
    BY <1>1
  <2>2. f[k] = IF k <= Len(s) THEN s[k] ELSE total + k - Len(s)
    BY <1>0, <2>1, FreshSpec
  <2> HIDE DEF f
  <2>3. CASE k <= Len(s)
    <3>1. s[k] = total - Len(s) + k
      BY <1>0, <2>1, <2>3
    <3> QED
      BY <1>0, <1>1, <2>1, <2>2, <2>3, <3>1
  <2>4. CASE ~(k <= Len(s))
    BY <1>0, <1>1, <2>1, <2>2, <2>4
  <2> QED
    BY <2>3, <2>4
<1> HIDE DEF f
<1>3. EndOf(b, f) /\ Len(b) = IF Len(f) < Cap THEN Len(f) ELSE Cap
  BY <1>1, NewestSpec
<1> HIDE DEF b
<1>4. Len(b) = IF t - base < Cap THEN t - base ELSE Cap
  BY <1>0, <1>1, <1>3, TailAssumption
<1>5. ASSUME NEW k \in 1..Len(b) PROVE b[k] = t - Len(b) + k
  <2> DEFINE i == Len(f) - Len(b) + k
  <2>1. Len(b) <= Len(f) /\ Len(b) \in Nat
    BY <1>1, <1>3, TailAssumption DEF EndOf
  <2>2. i \in 1..Len(f)
    BY <1>1, <2>1
  <2>3. b[k] = f[i]
    BY <1>3 DEF EndOf
  <2>4. f[i] = t - Len(f) + i
    BY <1>2, <2>2
  <2>5. t - Len(f) + i = t - Len(b) + k
    BY SMTT(30), <1>0, <1>1, <2>1
  <2> QED
    BY <2>3, <2>4, <2>5
<1> QED
  BY <1>3, <1>4, <1>5 DEF Filled, EndOf, b, f

(* A write or a completion leaves every reader right: the bytes that stay  *)
(* retained were retained before, and the fresh ones lie beyond any cursor. *)
LEMMA AppendReaders ==
  ASSUME TailInv, NEW s \in Seq(Nat), NEW n \in Nat, s = buf \/ s = <<>>,
         buf' = Newest(Fresh(s, n)), total' = total + n,
         UNCHANGED <<cursor, received>>
  PROVE  \A r \in Readers : ReaderInv(r)'
<1> SUFFICES ASSUME NEW r \in Readers PROVE ReaderInv(r)'
  OBVIOUS
<1>1. total \in Nat /\ cursor[r] \in Nat /\ cursor[r] <= total /\ total' \in Nat
  BY DEF TailInv, StoreInv, ReaderInv
<1> DEFINE f == Fresh(s, n)
<1>2. /\ f \in Seq(Nat) /\ Len(f) = Len(s) + n
      /\ \A k \in 1..Len(f) : f[k] = IF k <= Len(s) THEN s[k] ELSE total + k - Len(s)
  BY <1>1, FreshSpec
<1> HIDE DEF f
<1>3. EndOf(buf', f)
  BY <1>2, NewestSpec DEF f
<1>4. ASSUME NEW k \in 1..Len(buf'), buf'[k] <= cursor[r]
      PROVE  \E j \in 1..Len(received[r]) : received[r][j] = buf'[k]
  <2> DEFINE i == Len(f) - Len(buf') + k
  <2>0. Len(f) \in Nat /\ Len(s) \in Nat
    BY <1>2
  <2>1. i \in 1..Len(f)
    BY <1>3, <2>0 DEF EndOf
  <2>2. buf'[k] = f[i]
    BY <1>3 DEF EndOf
  <2> HIDE DEF i
  <2>3. CASE i <= Len(s)
    <3>1. f[i] = s[i] /\ i \in 1..Len(s)
      BY <1>2, <2>0, <2>1, <2>3
    <3>2. s = buf
      BY <2>1, <3>1
    <3> QED
      BY <1>4, <2>2, <3>1, <3>2 DEF TailInv, ReaderInv
  <2>4. CASE ~(i <= Len(s))
    <3>1. f[i] = total + i - Len(s)
      BY <1>2, <2>1, <2>4
    <3> QED
      BY <1>1, <1>4, <2>0, <2>1, <2>2, <2>4, <3>1
  <2> QED
    BY <2>3, <2>4
<1>5. ReaderInv(r)
  BY DEF TailInv
<1>6. total <= total'
  BY <1>1
<1> QED
  BY <1>1, <1>4, <1>5, <1>6 DEF ReaderInv

LEMMA WriteInv ==
  ASSUME TailInv, NEW n \in WriteSizes, Write(n) PROVE TailInv'
<1>1. /\ n \in Nat /\ total \in Nat /\ floor \in Nat /\ floor <= total
      /\ Filled(buf, total, floor) /\ buf \in Seq(Nat)
  BY TailAssumption DEF TailInv, StoreInv, Filled
<1>2. Filled(buf', total', floor')
  BY <1>1, AppendStore DEF Write
<1>3. StoreInv'
  BY <1>1, <1>2 DEF Write, TailInv, StoreInv
<1>4. \A r \in Readers : ReaderInv(r)'
  BY <1>1, AppendReaders DEF Write
<1> QED
  BY <1>3, <1>4 DEF Write, TailInv

LEMMA FinalOutputInv ==
  ASSUME TailInv, NEW n \in WriteSizes, FinalOutput(n) PROVE TailInv'
<1>1. n \in Nat /\ total \in Nat
  BY TailAssumption DEF TailInv, StoreInv
<1>2. Filled(<<>>, total, total)
  BY <1>1, TailAssumption DEF Filled
<1>3. Filled(buf', total', floor')
  BY <1>1, <1>2, AppendStore DEF FinalOutput
<1>4. StoreInv'
  BY <1>1, <1>3 DEF FinalOutput, TailInv, StoreInv
<1>5. \A r \in Readers : ReaderInv(r)'
  <2>1. <<>> \in Seq(Nat)
    OBVIOUS
  <2> QED
    BY <1>1, <2>1, AppendReaders DEF FinalOutput
<1> QED
  BY <1>4, <1>5 DEF FinalOutput, TailInv

(* What a read hands out: the retained bytes beyond the cursor, in order.  *)
LEMMA UnreadSpec ==
  ASSUME StoreInv, NEW c \in Nat, c <= total
  PROVE  LET st == Start(c) IN
         /\ st \in 0..Len(buf)
         /\ Unread(c) \in Seq(Nat)
         /\ Len(Unread(c)) = Len(buf) - st
         /\ \A k \in 1..Len(Unread(c)) : Unread(c)[k] = buf[st + k]
         /\ \A k \in 1..Len(buf) : buf[k] > c <=> k > st
<1> DEFINE st == Start(c)
<1>0. /\ buf \in Seq(Nat) /\ total \in Nat /\ Len(buf) <= total /\ Len(buf) \in Nat
      /\ \A k \in 1..Len(buf) : buf[k] = total - Len(buf) + k
  BY TailAssumption DEF StoreInv, Filled
<1>1. st \in 0..Len(buf) /\ \A k \in 1..Len(buf) : buf[k] > c <=> k > st
  BY <1>0 DEF Start, Clamp
<1>2. Unread(c) = SubSeq(buf, st + 1, Len(buf))
  BY DEF Unread
<1> HIDE DEF st
<1>3. Unread(c) \in Seq(Nat) /\ Len(Unread(c)) = Len(buf) - st
  BY <1>0, <1>1, <1>2
<1>4. \A k \in 1..Len(Unread(c)) : Unread(c)[k] = buf[st + k]
  BY <1>0, <1>1, <1>2
<1> QED
  BY <1>1, <1>3, <1>4 DEF st

(* Handing out newer bytes behind older ones keeps the order.              *)
LEMMA ConcatIncreasing ==
  ASSUME NEW a \in Seq(Nat), NEW b \in Seq(Nat), NEW c \in Nat,
         Increasing(a), Increasing(b),
         \A k \in 1..Len(a) : a[k] <= c,
         \A k \in 1..Len(b) : b[k] > c
  PROVE  Increasing(a \o b)
<1>1. /\ a \o b \in Seq(Nat) /\ Len(a \o b) = Len(a) + Len(b)
      /\ \A i \in 1..(Len(a) + Len(b)) :
           (a \o b)[i] = IF i <= Len(a) THEN a[i] ELSE b[i - Len(a)]
  BY ConcatProperties
<1> SUFFICES ASSUME NEW j \in 1..Len(a \o b), NEW k \in 1..Len(a \o b), j < k
             PROVE  (a \o b)[j] < (a \o b)[k]
  BY DEF Increasing
<1>2. /\ Len(a) \in Nat /\ Len(b) \in Nat
      /\ j \in 1..(Len(a) + Len(b)) /\ k \in 1..(Len(a) + Len(b))
  BY <1>1
<1>3. CASE k <= Len(a)
  <2>1. j \in 1..Len(a) /\ k \in 1..Len(a) /\ j <= Len(a)
    BY <1>2, <1>3
  <2> QED
    BY <1>1, <1>2, <1>3, <2>1 DEF Increasing
<1>4. CASE j <= Len(a) /\ ~(k <= Len(a))
  <2>1. j \in 1..Len(a) /\ k - Len(a) \in 1..Len(b)
    BY <1>2, <1>4
  <2>2. (a \o b)[j] = a[j] /\ (a \o b)[k] = b[k - Len(a)]
    BY <1>1, <1>2, <1>4
  <2>3. a[j] \in Nat /\ b[k - Len(a)] \in Nat /\ a[j] <= c /\ b[k - Len(a)] > c
    BY <2>1
  <2> QED
    BY <2>2, <2>3
<1>5. CASE ~(j <= Len(a)) /\ ~(k <= Len(a))
  <2>1. j - Len(a) \in 1..Len(b) /\ k - Len(a) \in 1..Len(b) /\ j - Len(a) < k - Len(a)
    BY <1>2, <1>5
  <2>2. (a \o b)[j] = b[j - Len(a)] /\ (a \o b)[k] = b[k - Len(a)]
    BY <1>1, <1>2, <1>5
  <2> QED
    BY <2>1, <2>2 DEF Increasing
<1> QED
  BY <1>2, <1>3, <1>4, <1>5

LEMMA ReadInv ==
  ASSUME TailInv, NEW r \in Readers, Read(r) PROVE TailInv'
<1> DEFINE c == cursor[r]
           u == Unread(c)
           st == Start(c)
           old == received[r]
<1>1. /\ StoreInv /\ StoreInv' /\ c \in Nat /\ c <= total /\ total \in Nat
      /\ old \in Seq(Nat) /\ buf' = buf /\ total' = total
  BY DEF TailInv, ReaderInv, StoreInv, Read, storeVars
<1>2. /\ st \in 0..Len(buf) /\ u \in Seq(Nat) /\ Len(u) = Len(buf) - st
      /\ \A k \in 1..Len(u) : u[k] = buf[st + k]
      /\ \A k \in 1..Len(buf) : buf[k] > c <=> k > st
  BY <1>1, UnreadSpec
<1>3. received'[r] = old \o u /\ cursor'[r] = total
  BY DEF Read, TailInv
<1>4. /\ Len(buf) \in Nat /\ \A k \in 1..Len(buf) : buf[k] = total - Len(buf) + k
      /\ Len(buf) <= total
  BY <1>1, TailAssumption DEF StoreInv, Filled
<1>5. /\ \A k \in 1..Len(old) : old[k] <= c
      /\ Increasing(old)
      /\ \A k \in 1..Len(buf) : buf[k] <= c => \E j \in 1..Len(old) : old[j] = buf[k]
  BY DEF TailInv, ReaderInv
<1> HIDE DEF c, u, st, old
<1>6. /\ old \o u \in Seq(Nat) /\ Len(old \o u) = Len(old) + Len(u)
      /\ \A i \in 1..(Len(old) + Len(u)) :
           (old \o u)[i] = IF i <= Len(old) THEN old[i] ELSE u[i - Len(old)]
  BY <1>1, <1>2, ConcatProperties
<1>7. ASSUME NEW k \in 1..Len(u)
      PROVE  /\ st + k \in 1..Len(buf) /\ u[k] = total - Len(buf) + (st + k)
             /\ u[k] > c /\ u[k] <= total
  <2>1. st + k \in 1..Len(buf) /\ st + k > st
    BY <1>2, <1>4
  <2>2. u[k] = buf[st + k] /\ buf[st + k] > c
    BY <1>2, <2>1
  <2>3. buf[st + k] = total - Len(buf) + (st + k)
    BY <1>4, <2>1
  <2>4. total - Len(buf) + (st + k) <= total
    BY <1>1, <1>4, <2>1
  <2> QED
    BY <2>1, <2>2, <2>3, <2>4
<1>8. Increasing(u)
  <2> SUFFICES ASSUME NEW j \in 1..Len(u), NEW k \in 1..Len(u), j < k PROVE u[j] < u[k]
    BY DEF Increasing
  <2>1. /\ u[j] = total - Len(buf) + (st + j)
        /\ u[k] = total - Len(buf) + (st + k)
    BY <1>7
  <2> QED
    BY <1>1, <1>2, <1>4, <2>1
<1>9. ASSUME NEW k \in 1..Len(old \o u) PROVE (old \o u)[k] <= total
  <2>1. Len(old) \in Nat /\ Len(u) \in Nat /\ k \in 1..(Len(old) + Len(u))
    BY <1>1, <1>2, <1>6
  <2>2. CASE k <= Len(old)
    <3>1. k \in 1..Len(old) /\ old[k] <= c /\ old[k] \in Nat
      BY <1>1, <1>5, <2>1, <2>2
    <3> QED
      BY <1>1, <1>6, <2>1, <2>2, <3>1
  <2>3. CASE ~(k <= Len(old))
    <3>1. k - Len(old) \in 1..Len(u)
      BY <2>1, <2>3
    <3> QED
      BY <1>6, <1>7, <2>1, <2>3, <3>1
  <2> QED
    BY <2>2, <2>3
<1>10. Increasing(old \o u)
  BY <1>1, <1>2, <1>5, <1>7, <1>8, ConcatIncreasing
<1>11. ASSUME NEW k \in 1..Len(buf)
       PROVE  \E j \in 1..Len(old \o u) : (old \o u)[j] = buf[k]
  <2>0. Len(old) \in Nat /\ Len(u) \in Nat /\ Len(buf) \in Nat /\ st \in Nat
    BY <1>1, <1>2, <1>4
  <2>1. CASE k > st
    <3>1. k - st \in 1..Len(u)
      BY <1>2, <2>0, <2>1
    <3>2. u[k - st] = buf[st + (k - st)] /\ st + (k - st) = k
      BY <1>2, <2>0, <3>1
    <3> DEFINE i == Len(old) + (k - st)
    <3>3. i \in 1..(Len(old) + Len(u)) /\ ~(i <= Len(old)) /\ i - Len(old) = k - st
      BY <2>0, <3>1
    <3> HIDE DEF i
    <3>4. (old \o u)[i] = u[k - st]
      BY <1>6, <3>3
    <3> QED
      BY <1>6, <3>2, <3>3, <3>4
  <2>2. CASE ~(k > st)
    <3>1. buf[k] <= c
      BY <1>1, <1>2, <1>4, <2>2
    <3>2. PICK j \in 1..Len(old) : old[j] = buf[k]
      BY <1>5, <3>1
    <3>3. j \in 1..(Len(old) + Len(u)) /\ j <= Len(old)
      BY <2>0
    <3> QED
      BY <1>6, <3>2, <3>3
  <2> QED
    BY <2>1, <2>2
<1>12. ReaderInv(r)'
  <2>1. \A k \in 1..Len(buf) :
          buf[k] <= total => \E j \in 1..Len(old \o u) : (old \o u)[j] = buf[k]
    BY <1>11
  <2> QED
    BY <1>1, <1>3, <1>6, <1>9, <1>10, <2>1 DEF ReaderInv
<1>13. ASSUME NEW q \in Readers, q # r PROVE ReaderInv(q)'
  BY <1>1, <1>13 DEF Read, TailInv, ReaderInv
<1>14. cursor' \in [Readers -> Nat] /\ received' \in [Readers -> Seq(Nat)]
  BY <1>1, <1>3, <1>6 DEF Read, TailInv
<1> QED
  BY <1>1, <1>12, <1>13, <1>14 DEF TailInv

LEMMA InitTailInv == Init => TailInv
<1> SUFFICES ASSUME Init PROVE TailInv
  OBVIOUS
<1>1. <<>> \in Seq(Nat) /\ Len(<<>>) = 0 /\ 1..0 = {}
  OBVIOUS
<1>2. Filled(<<>>, 0, 0)
  BY <1>1, TailAssumption DEF Filled
<1>3. ASSUME NEW r \in Readers PROVE ReaderInv(r)
  <2>1. cursor[r] = 0 /\ received[r] = <<>> /\ buf = <<>> /\ total = 0
    BY DEF Init
  <2> QED
    BY <1>1, <2>1 DEF ReaderInv, Increasing
<1>4. StoreInv
  <2>1. buf = <<>> /\ total = 0 /\ floor = 0 /\ final = FALSE
    BY DEF Init
  <2>2. Filled(buf, total, floor)
    BY <1>2, <2>1
  <2>3. total \in Nat /\ floor \in Nat /\ floor <= total
    BY <2>1
  <2>4. final \in BOOLEAN
    BY <2>1
  <2>5. ~final => floor = 0
    BY <2>1
  <2> QED
    BY <2>2, <2>3, <2>4, <2>5 DEF StoreInv
<1>5. cursor \in [Readers -> Nat] /\ received \in [Readers -> Seq(Nat)]
  <2>1. cursor = [r \in Readers |-> 0] /\ received = [r \in Readers |-> <<>>]
    BY DEF Init
  <2> QED
    BY <1>1, <2>1
<1> QED
  BY <1>3, <1>4, <1>5 DEF TailInv

LEMMA NextTailInv == TailInv /\ [Next]_vars => TailInv'
<1> SUFFICES ASSUME TailInv, [Next]_vars PROVE TailInv'
  OBVIOUS
<1>1. CASE UNCHANGED vars
  BY <1>1 DEF vars, storeVars, TailInv, StoreInv, ReaderInv
<1> QED
  BY <1>1, WriteInv, FinalOutputInv, ReadInv DEF Next

-----------------------------------------------------------------------------
(* Every reachable state satisfies the inductive invariant.                *)
THEOREM TailInvariant == Spec => []TailInv
  BY InitTailInv, NextTailInv, PTL DEF Spec

(* The store never holds more than its capacity.                           *)
THEOREM TypeCorrect == Spec => []TypeOK
<1>1. TailInv => TypeOK
  BY TailAssumption DEF TailInv, StoreInv, Filled, TypeOK
<1> QED
  BY <1>1, TailInvariant, PTL

(* The store is the newest tail of the output, as long as what fits, so an *)
(* offset addresses the byte it was handed out for.                        *)
THEOREM StoreIsTail == Spec => []BufferIsNewestTail
<1>1. TailInv => BufferIsNewestTail
  BY TailAssumption DEF TailInv, StoreInv, Filled, BufferIsNewestTail, KeepsWhatFits
<1> QED
  BY <1>1, TailInvariant, PTL

(* Incremental reads of any number of consumers never repeat a byte.       *)
THEOREM ReadsNeverRepeat == Spec => []NoByteTwice
<1>1. TailInv => NoByteTwice
  BY DEF TailInv, ReaderInv, Increasing, NoByteTwice
<1> QED
  BY <1>1, TailInvariant, PTL

(* Incremental reads miss only what was evicted or replaced.               *)
THEOREM ReadsMissNothingRetained == Spec => []NothingRetainedIsMissed
<1>1. TailInv => NothingRetainedIsMissed
  BY DEF TailInv, ReaderInv, NothingRetainedIsMissed
<1> QED
  BY <1>1, TailInvariant, PTL

(* After a FinalOutput completion no earlier byte can be read.             *)
THEOREM FinalTextStandsAlone == Spec => []FinalReplacesAll
<1>1. TailInv => FinalReplacesAll
  BY TailAssumption DEF TailInv, StoreInv, Filled, FinalReplacesAll
<1> QED
  BY <1>1, TailInvariant, PTL

(* Incremental reads are exact.                                            *)
THEOREM ReadsExact == Spec => []ReadsAreExact
  BY ReadsNeverRepeat, ReadsMissNothingRetained, FinalTextStandsAlone, PTL DEF ReadsAreExact

(* What a job writes is read by its offset, exactly, for every capacity,   *)
(* any write sizes and any number of readers.                              *)
THEOREM OutputExact == Spec => []OutputIsExact
  BY StoreIsTail, ReadsExact, PTL DEF OutputIsExact

-----------------------------------------------------------------------------
(* A write is in progress only in the file store, which alone holds torn   *)
(* files.                                                                  *)
CheckpointTypes ==
  /\ kind \in {"memory", "files"}
  /\ cps \in [Ids -> Nat \union {Torn}] /\ latest \in [Ids -> Nat]
  /\ order \in Seq(Ids) /\ writing \in Ids \union {NoWrite} /\ saves \in Nat
  /\ clean \in BOOLEAN
  /\ writing # NoWrite => saves > 0
  /\ kind = "memory" => writing = NoWrite /\ \A i \in Ids : cps[i] # Torn

(* While nothing was deleted and the process lives, order holds the ids    *)
(* that are there, each once, within the limit.                            *)
OrderInv ==
  clean =>
    /\ Distinct(order)
    /\ MaxKept > 0 => Len(order) <= MaxKept
    /\ \A i \in Ids : Loads(i) => Tracked(i)
    /\ \A k \in 1..Len(order) : cps[order[k]] # Absent

(* With that, what an id loads is the last save reported for it.           *)
CheckpointInv == CheckpointTypes /\ OrderInv /\ \A i \in Ids : Loads(i) => cps[i] = latest[i]

(* A save of i that gives it the number n: eviction takes at most the       *)
(* oldest, which is another one.                                            *)
LEMMA KeepsInv ==
  ASSUME CheckpointInv, NEW i \in Ids, NEW n \in Nat \ {0}, NEW ord,
         ord = order \/ ord = Append(order, i),
         clean => ord = (IF Tracked(i) THEN order ELSE Append(order, i)),
         Put(ord, [cps EXCEPT ![i] = n]), latest' = [latest EXCEPT ![i] = n],
         UNCHANGED <<kind, clean>>, saves' \in Nat, writing' = NoWrite
  PROVE  CheckpointInv'
<1> USE DEF CheckpointInv
<1> DEFINE c == [cps EXCEPT ![i] = n]
<1>1. /\ ord \in Seq(Ids) /\ Len(ord) \in Nat /\ Len(order) \in Nat
      /\ c \in [Ids -> Nat \union {Torn}] /\ c[i] = n
      /\ \A j \in Ids : j # i => c[j] = cps[j]
  <2>1. order \in Seq(Ids)
    BY DEF CheckpointTypes
  <2>2. ord \in Seq(Ids)
    BY <2>1
  <2> QED
    BY <2>1, <2>2 DEF CheckpointTypes
<1> DEFINE m == Surplus(ord)
<1>2. m \in 0..Len(ord) /\ (MaxKept > 0 => Len(ord) - m <= MaxKept)
  BY <1>1, CheckpointAssumption DEF Surplus
<1>3. /\ order' = SubSeq(ord, m + 1, Len(ord))
      /\ cps' = [j \in Ids |-> IF \E k \in 1..m : ord[k] = j THEN Absent ELSE c[j]]
  BY DEF Put, Evicted
<1> HIDE DEF m, c
<1>4. /\ order' \in Seq(Ids) /\ Len(order') = Len(ord) - m
      /\ \A k \in 1..Len(order') : order'[k] = ord[m + k]
  BY <1>1, <1>2, <1>3
<1>5. \A j \in Ids : cps'[j] \in {c[j], Absent}
  BY <1>3
<1>6. CheckpointTypes'
  <2>1. cps' \in [Ids -> Nat \union {Torn}]
    BY <1>1, <1>3 DEF Absent
  <2>2. latest' \in [Ids -> Nat]
    BY DEF CheckpointTypes
  <2>3. kind = "memory" => \A j \in Ids : cps'[j] # Torn
    <3>1. n # Torn /\ Absent # Torn
      BY DEF Torn, Absent
    <3> QED
      BY <1>1, <1>5, <3>1 DEF CheckpointTypes
  <2> QED
    BY <1>4, <2>1, <2>2, <2>3 DEF CheckpointTypes
<1>7. \A j \in Ids : Loads(j)' => cps'[j] = latest'[j]
  BY <1>1, <1>5 DEF Loads, CheckpointTypes
<1>8. OrderInv'
  <2> SUFFICES ASSUME clean PROVE /\ Distinct(order')
                                  /\ MaxKept > 0 => Len(order') <= MaxKept
                                  /\ \A j \in Ids : Loads(j)' => Tracked(j)'
                                  /\ \A k \in 1..Len(order') : cps'[order'[k]] # Absent
    BY DEF OrderInv
  <2>1. /\ Distinct(ord) /\ \A k \in 1..Len(ord) : c[ord[k]] # Absent
        /\ \A j \in Ids : c[j] \notin {Absent, Torn} => \E k \in 1..Len(ord) : ord[k] = j
    <3>1. CASE Tracked(i)
      <4>1. ord = order
        BY <3>1
      <4> QED
        BY SMTT(30), <1>1, <3>1, <4>1 DEF OrderInv, Distinct, Tracked, Loads, CheckpointTypes, Absent
    <3>2. CASE ~Tracked(i)
      <4>1. ord = Append(order, i) /\ order \in Seq(Ids)
        BY <3>2 DEF CheckpointTypes
      <4>2. /\ Len(ord) = Len(order) + 1 /\ ord[Len(order) + 1] = i
            /\ \A k \in 1..Len(order) : ord[k] = order[k] /\ order[k] # i /\ order[k] \in Ids
        BY <3>2, <4>1 DEF Tracked
      <4>3. Distinct(ord)
        BY <1>1, <4>2 DEF OrderInv, Distinct
      <4>4. \A k \in 1..Len(ord) : c[ord[k]] # Absent
        BY <1>1, <4>2 DEF OrderInv, Absent
      <4>5. ASSUME NEW j \in Ids, c[j] \notin {Absent, Torn} PROVE \E k \in 1..Len(ord) : ord[k] = j
        <5>1. CASE j = i
          BY <1>1, <4>2, <5>1
        <5>2. CASE j # i
          <6>1. PICK k \in 1..Len(order) : order[k] = j
            BY <1>1, <4>5, <5>2 DEF OrderInv, Loads, Tracked
          <6> QED
            BY <1>1, <4>2, <6>1
        <5> QED
          BY <5>1, <5>2
      <4> QED
        BY <4>3, <4>4, <4>5
    <3> QED
      BY <3>1, <3>2
  <2>2. Distinct(order')
    <3> SUFFICES ASSUME NEW j \in 1..Len(order'), NEW k \in 1..Len(order'), order'[j] = order'[k]
                 PROVE  j = k
      BY DEF Distinct
    <3>1. ord[m + j] = ord[m + k]
      BY <1>4
    <3>2. m \in 0..Len(ord) /\ j \in 1..(Len(ord) - m) /\ k \in 1..(Len(ord) - m)
      BY <1>2, <1>4
    <3>3. m + j \in 1..Len(ord) /\ m + k \in 1..Len(ord)
      BY <1>1, <3>2
    <3>4. m + j = m + k
      BY <2>1, <3>1, <3>3 DEF Distinct
    <3> QED
      BY <1>1, <3>2, <3>4
  <2>3. MaxKept > 0 => Len(order') <= MaxKept
    BY <1>2, <1>4
  <2>4. ASSUME NEW j \in Ids, Loads(j)' PROVE Tracked(j)'
    <3>1. c[j] \notin {Absent, Torn} /\ ~\E k \in 1..m : ord[k] = j
      BY <1>3, <2>4 DEF Loads
    <3>2. PICK k \in 1..Len(ord) : ord[k] = j
      BY <2>1, <3>1
    <3>3. k - m \in 1..Len(order') /\ order'[k - m] = j
      BY SMTT(30), <1>1, <1>2, <1>4, <3>1, <3>2
    <3> QED
      BY <3>3 DEF Tracked
  <2>5. ASSUME NEW k \in 1..Len(order') PROVE cps'[order'[k]] # Absent
    <3>1. m + k \in 1..Len(ord) /\ order'[k] = ord[m + k] /\ ord[m + k] \in Ids
      BY <1>1, <1>2, <1>4
    <3>2. ASSUME NEW q \in 1..m, ord[q] = ord[m + k] PROVE FALSE
      <4>1. k \in Nat \ {0} /\ m \in Nat
        BY <1>1, <1>2, <1>4
      <4>2. q \in 1..Len(ord) /\ q # m + k
        BY <1>1, <1>2, <4>1
      <4> QED
        BY <2>1, <3>1, <3>2, <4>2 DEF Distinct
    <3> QED
      BY <1>3, <2>1, <3>1, <3>2
  <2> QED
    BY <2>2, <2>3, <2>4, <2>5
<1> QED
  BY <1>6, <1>7, <1>8

(* A fresh store has nothing to load.                                      *)
LEMMA InitCheckpointInv == CheckpointInit => CheckpointInv
<1> SUFFICES ASSUME CheckpointInit PROVE CheckpointInv
  OBVIOUS
<1>1. /\ kind \in {"memory", "files"} /\ order = <<>> /\ writing = NoWrite /\ saves = 0 /\ clean
      /\ \A i \in Ids : cps[i] = 0 /\ latest[i] = 0
      /\ cps = [i \in Ids |-> 0] /\ latest = [i \in Ids |-> 0] /\ clean \in BOOLEAN
  BY CheckpointAssumption DEF CheckpointInit, Absent
<1>2. CheckpointTypes
  BY <1>1 DEF CheckpointTypes, Torn
<1>3. OrderInv
  BY <1>1, CheckpointAssumption DEF OrderInv, Distinct, Loads, Absent
<1> QED
  BY <1>1, <1>2, <1>3 DEF CheckpointInv, Loads, Absent

(* Both stores keep the invariant, over torn writes and restarts.          *)
LEMMA NextCheckpointInv ==
  ASSUME CheckpointInv, [CheckpointNext]_checkpointVars PROVE CheckpointInv'
<1> USE DEF CheckpointInv
<1>1. ASSUME NEW i \in Ids, SaveInMemory(i) PROVE CheckpointInv'
  <2> DEFINE ord == IF cps[i] = Absent THEN Append(order, i) ELSE order
  <2>1. /\ Put(ord, [cps EXCEPT ![i] = saves + 1]) /\ latest' = [latest EXCEPT ![i] = saves + 1]
        /\ UNCHANGED <<kind, clean>> /\ saves' = saves + 1 /\ writing' = writing
        /\ kind = "memory" /\ saves \in Nat
    BY <1>1 DEF SaveInMemory, NewestSave, CheckpointTypes
  <2>2. /\ saves + 1 \in Nat \ {0} /\ saves' \in Nat /\ writing' = NoWrite
    BY <2>1 DEF CheckpointTypes
  <2>3. clean => (cps[i] = Absent <=> ~Tracked(i))
    BY <2>1 DEF CheckpointTypes, OrderInv, Loads, Tracked
  <2>4. /\ ord = order \/ ord = Append(order, i)
        /\ clean => ord = (IF Tracked(i) THEN order ELSE Append(order, i))
    BY <2>1, <2>3 DEF CheckpointTypes, OrderInv
  <2> HIDE DEF ord
  <2> QED
    BY <2>1, <2>2, <2>4, KeepsInv
<1>2. ASSUME NEW i \in Ids, EndWrite(i) PROVE CheckpointInv'
  <2>1. /\ Put(NewInOrder(i), [cps EXCEPT ![i] = saves]) /\ latest' = [latest EXCEPT ![i] = saves]
        /\ UNCHANGED <<kind, clean>> /\ saves' = saves /\ writing' = NoWrite
        /\ saves \in Nat \ {0}
    BY <1>2, CheckpointAssumption DEF EndWrite, CheckpointTypes
  <2>2. NewInOrder(i) = IF Tracked(i) THEN order ELSE Append(order, i)
    BY DEF NewInOrder
  <2> QED
    BY <2>1, <2>2, KeepsInv
<1>3. ASSUME NEW i \in Ids, BeginWrite(i) PROVE CheckpointInv'
  <2>1. /\ kind = "files" /\ saves' = saves + 1 /\ writing' = i
        /\ cps' = [cps EXCEPT ![i] = Torn] /\ UNCHANGED <<kind, order, latest, clean>>
    BY <1>3 DEF BeginWrite
  <2>2. CheckpointTypes'
    BY <2>1 DEF CheckpointTypes, Torn
  <2>3. \A j \in Ids : Loads(j)' => Loads(j) /\ cps'[j] = cps[j]
    BY <2>1 DEF CheckpointTypes, Loads
  <2>4. OrderInv'
    BY <2>1, <2>3 DEF OrderInv, CheckpointTypes, Tracked, Torn, Absent
  <2> QED
    BY <2>1, <2>2, <2>3, <2>4
<1>4. CASE WriteFails
  BY <1>4 DEF WriteFails, CheckpointTypes, OrderInv, Tracked, Loads
<1>5. ASSUME NEW i \in Ids, Delete(i) PROVE CheckpointInv'
  <2>1. /\ cps' = [cps EXCEPT ![i] = 0] /\ latest' = [latest EXCEPT ![i] = 0] /\ clean' = FALSE
        /\ UNCHANGED <<kind, order, writing, saves>>
    BY <1>5 DEF Delete, Absent
  <2>2. CheckpointTypes'
    <3>1. 0 # Torn
      BY DEF Torn
    <3>2. /\ cps' \in [Ids -> Nat \union {Torn}] /\ latest' \in [Ids -> Nat]
          /\ \A j \in Ids : cps'[j] \in {cps[j], 0}
      BY <2>1 DEF CheckpointTypes
    <3> QED
      BY <2>1, <3>1, <3>2 DEF CheckpointTypes
  <2>3. \A j \in Ids : Loads(j)' => Loads(j) /\ cps'[j] = cps[j] /\ latest'[j] = latest[j]
    BY <2>1 DEF CheckpointTypes, Loads, Absent
  <2> QED
    BY <2>1, <2>2, <2>3 DEF OrderInv
<1>6. CASE Restart
  <2>1. /\ kind = "files" /\ order' = <<>> /\ writing' = NoWrite /\ clean' = FALSE
        /\ UNCHANGED <<kind, cps, saves, latest>>
    BY <1>6 DEF Restart
  <2>2. order' \in Seq(Ids)
    BY <2>1
  <2> QED
    BY <2>1, <2>2 DEF CheckpointTypes, OrderInv, Loads
<1>7. CASE UNCHANGED checkpointVars
  BY <1>7 DEF checkpointVars, CheckpointTypes, OrderInv, Tracked, Loads
<1> QED
  BY <1>1, <1>2, <1>3, <1>4, <1>5, <1>6, <1>7 DEF CheckpointNext

(* As many ids can be loaded as order tracks, and those are within the     *)
(* limit.                                                                  *)
LEMMA KeptIsBounded ==
  ASSUME CheckpointInv PROVE CapacityKept
<1> SUFFICES ASSUME clean, MaxKept > 0
             PROVE  /\ Cardinality({i \in Ids : Loads(i)}) <= MaxKept
                    /\ \A k \in 1..Len(order) : cps[order[k]] # Absent
  BY DEF CapacityKept
<1> DEFINE there == {order[k] : k \in 1..Len(order)}
           loaded == {i \in Ids : Loads(i)}
<1>1. /\ order \in Seq(Ids) /\ Len(order) \in Nat /\ Len(order) <= MaxKept
      /\ \A i \in Ids : Loads(i) => Tracked(i)
      /\ \A k \in 1..Len(order) : cps[order[k]] # Absent
  BY DEF CheckpointInv, CheckpointTypes, OrderInv
<1>2. IsFiniteSet(there) /\ Cardinality(there) <= Len(order)
  <2>1. order \in Surjection(1..Len(order), there)
    BY <1>1 DEF Surjection
  <2>2. IsFiniteSet(1..Len(order))
    BY <1>1, FS_Interval
  <2>3. IsFiniteSet(there)
    BY <2>1, <2>2, FS_Surjection
  <2>4. ExistsSurjection(1..Len(order), there)
    BY <2>1 DEF ExistsSurjection
  <2>5. Cardinality(there) <= Len(order)
    BY <1>1, <2>4, FS_SurjCardinalityBound
  <2> QED
    BY <2>3, <2>5
<1>5. loaded \subseteq there
  BY <1>1 DEF Tracked
<1>6. Cardinality(loaded) <= Cardinality(there) /\ IsFiniteSet(loaded)
  BY <1>2, <1>5, FS_Subset
<1>7. Cardinality(loaded) \in Nat /\ Cardinality(there) \in Nat
  BY <1>2, <1>6, FS_CardinalityType
<1> HIDE DEF there, loaded
<1>8. Cardinality(loaded) <= MaxKept
  BY <1>1, <1>2, <1>6, <1>7, CheckpointAssumption
<1> QED
  BY <1>1, <1>8 DEF loaded

(* What a checkpoint store loads is the latest save of the id that was     *)
(* reported done, and it keeps no more ids than its limit.                 *)
THEOREM CheckpointsLoad == CheckpointSpec => []LoadsTheLatest
<1>1. CheckpointInv => LoadsTheLatest
  BY KeptIsBounded DEF CheckpointInv, LoadsTheLatest
<1> QED
  BY <1>1, InitCheckpointInv, NextCheckpointInv, PTL DEF CheckpointSpec

(* What the stores hold are numbers of saves.                              *)
LEMMA InitCheckpointTypes == CheckpointInit => CheckpointTypeOK
BY CheckpointAssumption DEF CheckpointInit, CheckpointTypeOK, Absent

LEMMA NextCheckpointTypes ==
  ASSUME CheckpointInv, CheckpointTypeOK, [CheckpointNext]_checkpointVars
  PROVE  CheckpointTypeOK'
<1>0. CheckpointInv' /\ MaxSaves \in Nat
  BY NextCheckpointInv, CheckpointAssumption
<1>1. order' \in Seq(Ids) /\ writing' \in Ids \cup {NoWrite} /\ clean' \in BOOLEAN
  BY <1>0 DEF CheckpointInv, CheckpointTypes
<1>2. ASSUME NEW ord, NEW c \in [Ids -> -1..MaxSaves], Put(ord, c)
      PROVE  cps' \in [Ids -> -1..MaxSaves]
  BY <1>0, <1>2 DEF Put, Evicted, Absent
<1>3. ASSUME NEW i \in Ids, SaveInMemory(i) PROVE CheckpointTypeOK'
  <2>1. saves + 1 \in 0..MaxSaves
    BY <1>0, <1>3 DEF SaveInMemory, CheckpointTypeOK
  <2>2. [cps EXCEPT ![i] = NewestSave(i)] \in [Ids -> -1..MaxSaves]
    BY <1>0, <2>1 DEF CheckpointTypeOK, NewestSave
  <2>3. cps' \in [Ids -> -1..MaxSaves]
    BY <1>2, <1>3, <2>2 DEF SaveInMemory
  <2> QED
    BY <1>0, <1>1, <1>3, <2>1, <2>3 DEF SaveInMemory, CheckpointTypeOK
<1>4. ASSUME NEW i \in Ids, BeginWrite(i) PROVE CheckpointTypeOK'
  BY <1>0, <1>1, <1>4 DEF BeginWrite, CheckpointTypeOK, Torn
<1>5. ASSUME NEW i \in Ids, EndWrite(i) PROVE CheckpointTypeOK'
  <2>1. [cps EXCEPT ![i] = saves] \in [Ids -> -1..MaxSaves]
    BY <1>0 DEF CheckpointTypeOK
  <2>2. cps' \in [Ids -> -1..MaxSaves]
    BY <1>2, <1>5, <2>1 DEF EndWrite
  <2> QED
    BY <1>0, <1>1, <1>5, <2>2 DEF EndWrite, CheckpointTypeOK
<1>6. ASSUME NEW i \in Ids, Delete(i) PROVE CheckpointTypeOK'
  BY <1>0, <1>1, <1>6 DEF Delete, CheckpointTypeOK, Absent
<1>7. CASE WriteFails \/ Restart
  BY <1>0, <1>1, <1>7 DEF WriteFails, Restart, CheckpointTypeOK
<1>8. CASE UNCHANGED checkpointVars
  BY <1>8 DEF checkpointVars, CheckpointTypeOK
<1> QED
  BY <1>3, <1>4, <1>5, <1>6, <1>7, <1>8 DEF CheckpointNext

-----------------------------------------------------------------------------
(* The event hub.                                                          *)

In(q, e) == \E i \in 1..Len(q) : q[i] = e
Rising(q, top) == /\ q \in Seq(Nat)
                  /\ \A i \in 1..Len(q) : q[i] \in 1..top
                  /\ \A i, j \in 1..Len(q) : i < j => q[i] < q[j]

(* What a client has when the hub has told it of t events: q in its        *)
(* channel, v taken, with w the last of them, and m missed.                *)
Hands(q, v, w, m, t) ==
  /\ t \in Nat /\ w \in 0..t /\ m \subseteq 1..t
  /\ Rising(q, t) /\ Rising(v, w)
  /\ w = 0 \/ In(v, w)
  /\ \A e \in 1..w : e \in m \/ In(v, e)
NoGap(q, v, m, t) == \A e \in 1..t : In(v, e) \/ In(q, e) \/ e \in m

LEMMA HandsEmpty ==
  ASSUME NEW q, NEW v, NEW w, NEW m, NEW t, Hands(q, v, w, m, t), NEW u \in Nat, u >= t
  PROVE  Hands(<<>>, v, w, m, u) /\ Hands(q, v, w, m, u)
<1>1. /\ <<>> \in Seq(Nat) /\ Len(<<>>) = 0
  OBVIOUS
<1>2. Rising(<<>>, u) /\ Rising(q, u)
  BY <1>1 DEF Hands, Rising
<1> QED
  BY <1>2 DEF Hands

LEMMA HandsSend ==
  ASSUME NEW q, NEW v, NEW w, NEW m, NEW t, Hands(q, v, w, m, t)
  PROVE  /\ Hands(Append(q, t + 1), v, w, m, t + 1)
         /\ In(Append(q, t + 1), t + 1) /\ Len(Append(q, t + 1)) = Len(q) + 1
         /\ NoGap(q, v, m, t) => NoGap(Append(q, t + 1), v, m, t + 1)
<1>1. q \in Seq(Nat) /\ t + 1 \in Nat /\ Len(q) \in Nat
  BY DEF Hands, Rising
<1>2. PICK p : p = Append(q, t + 1)
  OBVIOUS
<1>3. /\ p \in Seq(Nat) /\ Len(p) = Len(q) + 1 /\ p[Len(q) + 1] = t + 1
      /\ \A i \in 1..Len(q) : p[i] = q[i]
  BY <1>1, <1>2
<1>4. Rising(p, t + 1)
  <2>0. Rising(q, t) /\ t \in Nat
    BY DEF Hands
  <2>1. \A i \in 1..Len(p) : (i \in 1..Len(q) /\ p[i] = q[i]) \/ (i = Len(q) + 1 /\ p[i] = t + 1)
    BY <1>1, <1>3
  <2>2. \A i \in 1..Len(q) : q[i] \in 1..t /\ q[i] \in Nat
    BY <2>0 DEF Rising
  <2>3. \A i \in 1..Len(p) : p[i] \in 1..(t + 1)
    BY <2>0, <2>1, <2>2
  <2>4. \A i, j \in 1..Len(p) : i < j => p[i] < p[j]
    <3> SUFFICES ASSUME NEW i \in 1..Len(p), NEW j \in 1..Len(p), i < j PROVE p[i] < p[j]
      OBVIOUS
    <3>1. i \in 1..Len(q) /\ p[i] = q[i]
      BY <1>1, <1>3
    <3>2. CASE j \in 1..Len(q)
      BY <1>3, <2>0, <3>1, <3>2 DEF Rising
    <3>3. CASE j = Len(q) + 1
      BY <1>3, <2>0, <2>2, <3>1, <3>3
    <3> QED
      BY <2>1, <3>2, <3>3
  <2> QED
    BY <1>3, <2>3, <2>4 DEF Rising
<1>5. In(p, t + 1) /\ \A e : In(q, e) => In(p, e)
  BY <1>1, <1>3 DEF In
<1>6. NoGap(q, v, m, t) => NoGap(p, v, m, t + 1)
  <2>1. \A e \in 1..(t + 1) : e \in 1..t \/ e = t + 1
    BY DEF Hands
  <2> QED
    BY <1>5, <2>1 DEF NoGap
<1>7. Hands(p, v, w, m, t + 1)
  BY <1>1, <1>4 DEF Hands
<1> QED
  BY <1>2, <1>3, <1>5, <1>6, <1>7

(* A channel without its first event.                                      *)
LEMMA RisingTail ==
  ASSUME NEW t \in Nat, NEW q, Rising(q, t), q # <<>>
  PROVE  /\ Rising(Tail(q), t) /\ Head(q) \in 1..t /\ Len(Tail(q)) = Len(q) - 1
         /\ Len(q) \in Nat \ {0}
         /\ \A e : In(q, e) <=> (e = Head(q) \/ In(Tail(q), e))
         /\ \A e : In(Tail(q), e) => e > Head(q)
<1>1. q \in Seq(Nat) /\ Len(q) \in Nat \ {0}
  BY DEF Rising
<1>2. PICK p : p = Tail(q)
  OBVIOUS
<1>3. /\ p \in Seq(Nat) /\ Len(p) = Len(q) - 1 /\ Head(q) = q[1]
      /\ \A i \in 1..Len(p) : p[i] = q[i + 1]
  BY <1>1, <1>2
<1>a. \A i \in 1..Len(p) : i + 1 \in 1..Len(q) /\ p[i] = q[i + 1] /\ i \in Nat
  BY <1>1, <1>3
<1>b. \A i, j \in 1..Len(p) : i < j => i + 1 < j + 1
  BY <1>1, <1>3
<1>4. Rising(p, t)
  <2>1. \A i \in 1..Len(p) : p[i] \in 1..t
    BY <1>a DEF Rising
  <2>2. \A i, j \in 1..Len(p) : i < j => p[i] < p[j]
    BY <1>a, <1>b DEF Rising
  <2> QED
    BY <1>3, <2>1, <2>2 DEF Rising
<1>5. \A e : In(q, e) <=> (e = q[1] \/ In(p, e))
  <2> SUFFICES ASSUME NEW e PROVE In(q, e) <=> (e = q[1] \/ In(p, e))
    OBVIOUS
  <2>1. ASSUME NEW i \in 1..Len(q), q[i] = e, i # 1 PROVE In(p, e)
    <3>1. i - 1 \in 1..Len(p) /\ p[i - 1] = e
      BY <1>1, <1>3, <2>1
    <3> QED
      BY <3>1 DEF In
  <2> QED
    BY <1>1, <1>3, <2>1 DEF In
<1>6. \A e : In(p, e) => e > q[1]
  <2> SUFFICES ASSUME NEW i \in 1..Len(p) PROVE q[1] < p[i]
    BY <1>a DEF In, Rising
  <2>1. 1 < i + 1 /\ 1 \in 1..Len(q) /\ i + 1 \in 1..Len(q)
    BY <1>1, <1>a
  <2> QED
    BY <1>a, <2>1 DEF Rising
<1> QED
  BY <1>1, <1>2, <1>3, <1>4, <1>5, <1>6 DEF Rising

LEMMA HandsDrop ==
  ASSUME NEW q, NEW v, NEW w, NEW m, NEW t, Hands(q, v, w, m, t), q # <<>>
  PROVE  /\ Hands(Tail(q), v, w, m \cup {Head(q)}, t)
         /\ NoGap(q, v, m, t) => NoGap(Tail(q), v, m \cup {Head(q)}, t)
<1>1. /\ Rising(Tail(q), t) /\ Head(q) \in 1..t
      /\ \A e : In(q, e) <=> (e = Head(q) \/ In(Tail(q), e))
  BY RisingTail DEF Hands
<1> QED
  BY <1>1 DEF Hands, NoGap

(* A client takes the first event of its channel, or skips it.             *)
LEMMA HandsRead ==
  ASSUME NEW q, NEW v, NEW w, NEW m, NEW t, Hands(q, v, w, m, t), q # <<>>, NoGap(q, v, m, t)
  PROVE  IF Head(q) > w
         THEN /\ Hands(Tail(q), Append(v, Head(q)), Head(q), m, t)
              /\ NoGap(Tail(q), Append(v, Head(q)), m, t)
              /\ \A e : In(v, e) \/ In(q, e) => In(Append(v, Head(q)), e) \/ In(Tail(q), e)
         ELSE /\ Hands(Tail(q), v, w, m, t) /\ NoGap(Tail(q), v, m, t)
              /\ In(q, t) => In(v, t) \/ In(Tail(q), t)
<1>1. /\ Rising(Tail(q), t) /\ Head(q) \in 1..t
      /\ \A e : In(q, e) <=> (e = Head(q) \/ In(Tail(q), e))
      /\ \A e : In(Tail(q), e) => e > Head(q)
  BY RisingTail DEF Hands
<1>2. PICK h : h = Head(q)
  OBVIOUS
<1>3. CASE h > w
  <2>1. PICK u : u = Append(v, h)
    OBVIOUS
  <2>2. v \in Seq(Nat) /\ Len(v) \in Nat /\ h \in Nat
    BY <1>1, <1>2 DEF Hands, Rising
  <2>3. /\ u \in Seq(Nat) /\ Len(u) = Len(v) + 1 /\ u[Len(v) + 1] = h
        /\ \A i \in 1..Len(v) : u[i] = v[i]
    BY <2>1, <2>2
  <2>0. Rising(v, w) /\ w \in Nat /\ \A i \in 1..Len(v) : v[i] \in 1..w /\ v[i] < h
    <3>1. Rising(v, w) /\ w \in Nat
      BY DEF Hands
    <3> QED
      BY <1>3, <2>2, <3>1 DEF Rising
  <2>a. \A i \in 1..Len(u) : (i \in 1..Len(v) /\ u[i] = v[i]) \/ (i = Len(v) + 1 /\ u[i] = h)
    BY <2>2, <2>3
  <2>4. Rising(u, h)
    <3>1. \A i \in 1..Len(u) : u[i] \in 1..h
      <4>1. h \in 1..h
        BY <1>1, <1>2
      <4> QED
        BY <1>3, <2>2, <2>0, <2>a, <4>1
    <3>2. \A i, j \in 1..Len(u) : i < j => u[i] < u[j]
      <4> SUFFICES ASSUME NEW i \in 1..Len(u), NEW j \in 1..Len(u), i < j PROVE u[i] < u[j]
        OBVIOUS
      <4>1. i \in 1..Len(v) /\ u[i] = v[i]
        BY <2>2, <2>3
      <4>2. CASE j \in 1..Len(v)
        BY <2>3, <2>0, <4>1, <4>2 DEF Rising
      <4>3. CASE j = Len(v) + 1
        BY <2>3, <2>0, <4>1, <4>3
      <4> QED
        BY <2>a, <4>2, <4>3
    <3> QED
      BY <2>3, <3>1, <3>2 DEF Rising
  <2>5. ASSUME NEW e PROVE In(u, e) <=> (e = h \/ In(v, e))
    <3>1. In(u, e) => e = h \/ In(v, e)
      BY <2>a DEF In
    <3>2. e = h => In(u, e)
      BY <2>2, <2>3 DEF In
    <3>3. In(v, e) => In(u, e)
      BY <2>2, <2>3 DEF In
    <3> QED
      BY <3>1, <3>2, <3>3
  <2>6. ASSUME NEW e \in 1..h PROVE e \in m \/ In(u, e)
    <3>1. CASE e \in 1..w
      BY <2>5, <3>1 DEF Hands
    <3>2. CASE e = h
      BY <2>5, <3>2
    <3>3. CASE e > w /\ e < h
      <4>1. e \in 1..t /\ ~In(q, e)
        BY <1>1, <1>2, <3>3 DEF Hands
      <4>2. ~In(v, e)
        BY <3>3 DEF Hands, Rising, In
      <4> QED
        BY <4>1, <4>2 DEF NoGap
    <3> QED
      <4>1. w \in Nat
        BY DEF Hands
      <4> QED
        BY <2>2, <3>1, <3>2, <3>3, <4>1
  <2>7. Hands(Tail(q), u, h, m, t)
    BY <1>1, <1>2, <2>4, <2>5, <2>6 DEF Hands
  <2>8. NoGap(Tail(q), u, m, t)
    BY <1>1, <1>2, <2>5 DEF NoGap
  <2> QED
    BY <1>1, <1>2, <1>3, <2>1, <2>5, <2>7, <2>8
<1>4. CASE ~(h > w)
  <2>1. Hands(Tail(q), v, w, m, t)
    BY <1>1 DEF Hands
  <2>2. h \in m \/ In(v, h)
    BY <1>1, <1>2, <1>4 DEF Hands
  <2>3. NoGap(Tail(q), v, m, t)
    BY <1>1, <1>2, <2>2 DEF NoGap
  <2>4. In(q, t) => In(v, t) \/ In(Tail(q), t)
    <3>1. h = t => In(v, t)
      BY <1>1, <1>2, <1>4 DEF Hands
    <3> QED
      BY <1>1, <1>2, <3>1
  <2> QED
    BY <1>2, <1>4, <2>1, <2>3, <2>4
<1> QED
  BY <1>3, <1>4

(* The replay buffer holds the last events published, up to p.             *)
LastOnes(r, p) == /\ r \in Seq(Nat) /\ Len(r) <= p
                /\ \A i \in 1..Len(r) : r[i] = p - Len(r) + i

LEMMA HubCardinality == \A S : Stream!Cardinality(S) = Cardinality(S)
BY DEF Stream!Cardinality, Cardinality

LEMMA NewerEvents ==
  ASSUME NEW p \in Nat, NEW w \in 0..p, NEW r, LastOnes(r, p)
  PROVE  LET got == Stream!NewerThan(r, w)
         IN /\ got \in Seq(Nat) /\ (got # <<>> => got[Len(got)] = p)
            /\ \A i \in 1..Len(got) : got[i] \in w + 1..p
            /\ \A i, j \in 1..Len(got) : i < j => got[i] < got[j]
            /\ \A e : In(got, e) <=> In(r, e) /\ e \in w + 1..p
<1>1. PICK n \in Nat : n = Len(r)
  BY DEF LastOnes
<1>2. /\ r \in Seq(Nat) /\ DOMAIN r = 1..n /\ n <= p /\ w \in Nat /\ w <= p
      /\ \A i \in 1..n : r[i] = p - n + i
  BY <1>1 DEF LastOnes
<1>3. PICK k \in 0..n : k = IF w < p - n THEN 0 ELSE w - (p - n)
  <2>1. (IF w < p - n THEN 0 ELSE w - (p - n)) \in 0..n
    BY <1>2
  <2> QED
    BY <2>1
<1>4. {i \in DOMAIN r : r[i] <= w} = 1..k
  BY <1>2, <1>3
<1>5. Cardinality(1..k) = k
  <2>1. 1 \in Int /\ k \in Int
    OBVIOUS
  <2>2. Cardinality(1..k) = IF 1 > k THEN 0 ELSE k - 1 + 1
    BY ONLY <2>1, FS_Interval
  <2> QED
    BY <2>2
<1>6. PICK got : got = SubSeq(r, k + 1, n)
  OBVIOUS
<1>7. Stream!NewerThan(r, w) = got
  <2>1. Stream!NewerThan(r, w) = SubSeq(r, Cardinality({i \in DOMAIN r : r[i] <= w}) + 1, Len(r))
    BY HubCardinality DEF Stream!NewerThan
  <2>2. Cardinality({i \in DOMAIN r : r[i] <= w}) = k
    BY <1>4, <1>5
  <2> QED
    BY <1>1, <1>6, <2>1, <2>2
<1>8. /\ got \in Seq(Nat) /\ Len(got) = n - k
      /\ \A i \in 1..(n - k) : got[i] = r[k + i] /\ k + i \in 1..n
  <2>1. k + 1 \in 1..n + 1 /\ \A i \in k + 1..n : r[i] \in Nat
    BY <1>2
  <2>2. got \in Seq(Nat) /\ Len(got) = IF k + 1 <= n THEN n - (k + 1) + 1 ELSE 0
    BY <1>1, <1>2, <1>6, <2>1
  <2>3. Len(got) = n - k
    BY <2>2
  <2>4. \A i \in 1..(n - k) : got[i] = r[(k + 1) + i - 1]
    BY <1>1, <1>2, <1>6, <2>1, <2>3
  <2> QED
    BY <2>2, <2>3, <2>4
<1>9. \A i \in 1..(n - k) : got[i] = p - n + k + i /\ p - n + k + i \in w + 1..p
  BY <1>2, <1>3, <1>8
<1>10. \A e : In(got, e) <=> In(r, e) /\ e \in w + 1..p
  <2> SUFFICES ASSUME NEW e PROVE In(got, e) <=> In(r, e) /\ e \in w + 1..p
    OBVIOUS
  <2>1. ASSUME In(got, e) PROVE In(r, e) /\ e \in w + 1..p
    BY <1>1, <1>8, <1>9, <2>1 DEF In
  <2>2. ASSUME NEW i \in 1..n, r[i] = e, e \in w + 1..p PROVE In(got, e)
    <3>1. i - k \in 1..(n - k) /\ k + (i - k) = i
      BY <1>2, <1>3, <2>2
    <3> QED
      BY <1>8, <2>2, <3>1 DEF In
  <2> QED
    BY <1>1, <2>1, <2>2 DEF In
<1>11. got # <<>> => got[Len(got)] = p
  <2>1. got # <<>> => n - k \in 1..(n - k)
    BY <1>8
  <2> QED
    BY <1>2, <1>8, <1>9, <2>1
<1>12. \A i, j \in 1..Len(got) : i < j => got[i] < got[j]
  BY <1>2, <1>8, <1>9
<1> QED
  BY <1>7, <1>8, <1>9, <1>10, <1>11, <1>12

(* A client takes what the buffer has above its mark and counts the rest   *)
(* as missed: nothing is left between that and its channel.                *)
LEMMA HandsReplay ==
  ASSUME NEW q, NEW v, NEW w, NEW m, NEW t, Hands(q, v, w, m, t), NEW r, LastOnes(r, t),
         NEW got, got = Stream!NewerThan(r, w)
  PROVE  LET u == v \o got
             x == IF got = <<>> THEN w ELSE Last(got)
             n == m \cup {e \in w + 1..t : ~Contains(r, e)}
         IN Hands(q, u, x, n, t) /\ NoGap(q, u, n, t)
<1>1. /\ t \in Nat /\ w \in 0..t /\ w \in Nat /\ w <= t /\ v \in Seq(Nat) /\ Len(v) \in Nat
      /\ Rising(v, w) /\ Rising(q, t)
  BY DEF Hands, Rising
<1>2. /\ got \in Seq(Nat) /\ (got # <<>> => got[Len(got)] = t)
      /\ \A i \in 1..Len(got) : got[i] \in w + 1..t
      /\ \A i, j \in 1..Len(got) : i < j => got[i] < got[j]
      /\ \A e : In(got, e) <=> In(r, e) /\ e \in w + 1..t
  BY <1>1, NewerEvents
<1>3. PICK u, x, n : /\ u = v \o got
                     /\ x = IF got = <<>> THEN w ELSE t
                     /\ n = m \cup {e \in w + 1..t : ~In(r, e)}
  OBVIOUS
<1>4. /\ u \in Seq(Nat) /\ Len(u) = Len(v) + Len(got) /\ Len(got) \in Nat
      /\ \A i \in 1..Len(v) : u[i] = v[i]
      /\ \A i \in 1..Len(got) : u[Len(v) + i] = got[i]
  BY <1>1, <1>2, <1>3
<1>5. \A i \in 1..Len(u) : \/ i \in 1..Len(v) /\ u[i] = v[i]
                           \/ /\ i - Len(v) \in 1..Len(got) /\ u[i] = got[i - Len(v)]
                              /\ i > Len(v)
  <2> SUFFICES ASSUME NEW i \in 1..Len(u), ~(i \in 1..Len(v))
               PROVE  /\ i - Len(v) \in 1..Len(got) /\ u[i] = got[i - Len(v)]
                      /\ i > Len(v)
    BY <1>4
  <2>1. i - Len(v) \in 1..Len(got) /\ Len(v) + (i - Len(v)) = i /\ i > Len(v)
    BY <1>1, <1>4
  <2> QED
    BY <1>4, <2>1
<1>6. \A e : In(u, e) <=> In(v, e) \/ In(got, e)
  <2>1. \A e : In(u, e) => In(v, e) \/ In(got, e)
    BY <1>5 DEF In
  <2>2. \A e : In(v, e) => In(u, e)
    BY <1>1, <1>4 DEF In
  <2>3. ASSUME NEW i \in 1..Len(got) PROVE In(u, got[i])
    <3>1. Len(v) + i \in 1..Len(u)
      BY <1>1, <1>4
    <3> QED
      BY <1>4, <3>1 DEF In
  <2>4. \A e : In(got, e) => In(u, e)
    BY <2>3 DEF In
  <2> QED
    BY <2>1, <2>2, <2>4
<1>7. \A i \in 1..Len(v) : v[i] \in 1..w
  BY <1>1 DEF Rising
<1>8. x \in 0..t /\ w <= x /\ (got # <<>> => x = t)
  BY <1>1, <1>3
<1>9. Rising(u, x)
  <2>1. \A i \in 1..Len(u) : u[i] \in 1..x
    <3> SUFFICES ASSUME NEW i \in 1..Len(u) PROVE u[i] \in 1..x
      OBVIOUS
    <3>1. CASE i \in 1..Len(v) /\ u[i] = v[i]
      BY <1>1, <1>7, <1>8, <3>1
    <3>2. CASE i - Len(v) \in 1..Len(got) /\ u[i] = got[i - Len(v)]
      <4>1. got # <<>>
        BY <3>2
      <4> QED
        BY <1>1, <1>2, <1>8, <3>2, <4>1
    <3> QED
      BY <1>5, <3>1, <3>2
  <2>2. ASSUME NEW i \in 1..Len(u), NEW j \in 1..Len(u), i < j PROVE u[i] < u[j]
    <3>1. CASE i \in 1..Len(v) /\ j \in 1..Len(v)
      BY <1>1, <1>4, <2>2, <3>1 DEF Rising
    <3>2. CASE i \in 1..Len(v) /\ ~(j \in 1..Len(v))
      <4>1. u[i] \in 1..w
        BY <1>4, <1>7, <3>2
      <4>2. u[j] \in w + 1..t
        BY <1>2, <1>5, <3>2
      <4> QED
        BY <1>1, <4>1, <4>2
    <3>3. CASE ~(i \in 1..Len(v))
      <4>1. /\ i - Len(v) \in 1..Len(got) /\ u[i] = got[i - Len(v)] /\ i > Len(v)
        BY <1>5, <3>3
      <4>2. ~(j \in 1..Len(v))
        BY <1>1, <2>2, <4>1
      <4>3. j - Len(v) \in 1..Len(got) /\ u[j] = got[j - Len(v)]
        BY <1>5, <4>2
      <4>4. i - Len(v) < j - Len(v)
        BY <1>1, <1>4, <2>2
      <4> QED
        BY <1>2, <4>1, <4>3, <4>4
    <3> QED
      BY <3>1, <3>2, <3>3
  <2> QED
    BY <1>4, <2>1, <2>2 DEF Rising
<1>10. \A e \in 1..t : e \in n \/ In(u, e)
  <2> SUFFICES ASSUME NEW e \in 1..t PROVE e \in n \/ In(u, e)
    OBVIOUS
  <2>1. CASE e \in 1..w
    BY <1>3, <1>6, <2>1 DEF Hands
  <2>2. CASE e \in w + 1..t
    BY <1>2, <1>3, <1>6, <2>2
  <2> QED
    BY <1>1, <2>1, <2>2
<1>11. x = 0 \/ In(u, x)
  <2>1. CASE got = <<>>
    BY <1>3, <1>6, <2>1 DEF Hands
  <2>2. CASE got # <<>>
    <3>1. Len(got) \in 1..Len(got)
      BY <1>2, <2>2
    <3> QED
      BY <1>2, <1>6, <1>8, <2>2, <3>1 DEF In
  <2> QED
    BY <2>1, <2>2
<1>12. n \subseteq 1..t /\ \A e \in 1..x : e \in 1..t
  <2>1. m \subseteq 1..t
    BY DEF Hands
  <2>2. w + 1..t \subseteq 1..t
    BY <1>1
  <2>3. n \subseteq 1..t
    BY <1>3, <2>1, <2>2
  <2>4. \A e \in 1..x : e \in 1..t
    BY <1>1, <1>8
  <2> QED
    BY <2>3, <2>4
<1>13. Hands(q, u, x, n, t)
  BY <1>1, <1>8, <1>9, <1>10, <1>11, <1>12 DEF Hands
<1>14. NoGap(q, u, n, t)
  BY <1>10 DEF NoGap
<1>15. x = IF got = <<>> THEN w ELSE Last(got)
  BY <1>2, <1>3 DEF Last
<1>16. \A e : Contains(r, e) <=> In(r, e)
  <2>1. DOMAIN r = 1..Len(r)
    BY DEF LastOnes
  <2> QED
    BY <2>1 DEF Contains, In
<1>17. n = m \cup {e \in w + 1..t : ~Contains(r, e)}
  BY <1>3, <1>16
<1> QED
  BY <1>3, <1>13, <1>14, <1>15, <1>17

(* What subscriber t has been told of: not yet of the event being sent.    *)
Told(t) == IF t \in todo THEN published - 1 ELSE published
Attached(t) == client[t] \in {"subscribed", "live"}

(* Between the selects of a Publish: a queue that was full has room for    *)
(* the event once one was dropped.  An attached client has the newest      *)
(* event in its channel, or in hand when it reads.                         *)
ClientInv(t) ==
  /\ Hands(queue[t], view[t], watermark[t], missed[t], Told(t))
  /\ client[t] = "live" => NoGap(queue[t], view[t], missed[t], Told(t))
  /\ t \in subs <=> Attached(t)
  /\ t \notin subs => queue[t] = <<>>
  /\ Len(queue[t]) <= SubBuffer
  /\ t \in todo /\ step[t] = "retry" => Len(queue[t]) < SubBuffer
  /\ t \notin todo /\ Attached(t) /\ published > since[t] =>
       In(queue[t], published) \/ (client[t] = "live" /\ In(view[t], published))

HubFrame ==
  /\ subs \subseteq Subscribers /\ todo \subseteq subs /\ published \in 0..MaxSeq
  /\ sending = IF todo = {} THEN 0 ELSE published
  /\ todo # {} => published > 0
  /\ LastOnes(recent, published) /\ Len(recent) <= ReplayCap
  /\ queue \in [Subscribers -> Seq(Nat)] /\ view \in [Subscribers -> Seq(Nat)]
  /\ step \in [Subscribers -> {"try", "drop", "retry"}]
  /\ client \in [Subscribers -> {"off", "subscribed", "live", "gone"}]
  /\ since \in [Subscribers -> Nat] /\ watermark \in [Subscribers -> Nat]
  /\ missed \in [Subscribers -> SUBSET Nat]

HubInv == HubFrame /\ \A t \in Subscribers : ClientInv(t)

LEMMA InitHubInv == Stream!HubInit => HubInv
<1> SUFFICES ASSUME Stream!HubInit PROVE HubInv
  OBVIOUS
<1>0. <<>> \in Seq(Nat) /\ Len(<<>>) = 0 /\ MaxSeq \in Nat /\ SubBuffer \in Nat \ {0}
      /\ ReplayCap \in Nat \ {0}
  BY ReadersAssumption
<1>1. HubFrame
  <2>1. LastOnes(recent, published) /\ Len(recent) <= ReplayCap
    BY <1>0 DEF Stream!HubInit, LastOnes
  <2> QED
    BY <1>0, <2>1 DEF Stream!HubInit, HubFrame
<1>2. ASSUME NEW t \in Subscribers PROVE ClientInv(t)
  <2>1. /\ queue[t] = <<>> /\ view[t] = <<>> /\ watermark[t] = 0 /\ missed[t] = {}
        /\ client[t] = "off" /\ Told(t) = 0 /\ subs = {} /\ todo = {}
    BY DEF Stream!HubInit, Told
  <2>2. Hands(<<>>, <<>>, 0, {}, 0)
    BY <1>0 DEF Hands, Rising
  <2> QED
    BY <1>0, <2>1, <2>2 DEF ClientInv, Attached
<1> QED
  BY <1>1, <1>2 DEF HubInv

(* A step that is not about subscriber t.                                  *)
LEMMA OtherClient ==
  ASSUME NEW t, ClientInv(t), published' = published,
         t \in subs' <=> t \in subs, t \in todo' <=> t \in todo,
         queue'[t] = queue[t], view'[t] = view[t], watermark'[t] = watermark[t],
         missed'[t] = missed[t], client'[t] = client[t], since'[t] = since[t],
         step'[t] = step[t]
  PROVE  ClientInv(t)'
BY DEF ClientInv, Told, Attached

LEMMA Buffers ==
  ASSUME NEW p \in Nat, NEW r, LastOnes(r, p)
  PROVE  /\ LastOnes(Stream!Newest(Append(r, p + 1)), p + 1)
         /\ Len(r) <= ReplayCap => Len(Stream!Newest(Append(r, p + 1))) <= ReplayCap
<1>0. ReplayCap \in Nat \ {0}
  BY ReadersAssumption
<1>1. PICK n \in Nat : n = Len(r)
  BY DEF LastOnes
<1>2. r \in Seq(Nat) /\ n <= p /\ \A i \in 1..n : r[i] = p - n + i
  BY <1>1 DEF LastOnes
<1>3. PICK b : b = Append(r, p + 1)
  OBVIOUS
<1>4. /\ b \in Seq(Nat) /\ Len(b) = n + 1 /\ \A i \in 1..n + 1 : b[i] = p - n + i
  BY <1>1, <1>2, <1>3
<1>5. CASE n + 1 <= ReplayCap
  <2>1. Stream!Newest(b) = b
    BY <1>0, <1>4, <1>5 DEF Stream!Newest
  <2>2. LastOnes(b, p + 1)
    BY <1>2, <1>4 DEF LastOnes
  <2> QED
    BY <1>3, <1>4, <1>5, <2>1, <2>2
<1>6. CASE n + 1 > ReplayCap
  <2>1. PICK c : c = SubSeq(b, n + 1 - ReplayCap + 1, n + 1)
    OBVIOUS
  <2>2. Stream!Newest(b) = c
    BY <1>0, <1>4, <1>6, <2>1 DEF Stream!Newest
  <2>3. PICK k \in 1..n : k = n + 1 - ReplayCap
    <3>1. CASE n + 1 - ReplayCap \in 1..n
      BY <3>1
    <3> QED
      BY <1>0, <1>6, <3>1
  <2>4. /\ c \in Seq(Nat) /\ Len(c) = ReplayCap
        /\ \A i \in 1..ReplayCap : c[i] = b[k + i] /\ k + i \in 1..n + 1
    <3>1. k + 1 \in 1..n + 2 /\ \A i \in k + 1..n + 1 : b[i] \in Nat
      BY <1>2, <1>4
    <3>2. c \in Seq(Nat) /\ Len(c) = IF k + 1 <= n + 1 THEN n + 1 - (k + 1) + 1 ELSE 0
      <4>1. c = SubSeq(b, k + 1, n + 1)
        BY <2>1, <2>3
      <4> QED
        BY <1>4, <3>1, <4>1
    <3>3. Len(c) = ReplayCap
      BY <1>0, <2>3, <3>2
    <3>4. \A i \in 1..ReplayCap : c[i] = b[(k + 1) + i - 1]
      BY <1>0, <1>4, <2>1, <2>3, <3>1, <3>3
    <3> QED
      BY <1>0, <2>3, <3>2, <3>3, <3>4
  <2>5. LastOnes(c, p + 1)
    BY <1>0, <1>2, <1>4, <1>6, <2>3, <2>4 DEF LastOnes
  <2> QED
    BY <1>3, <2>2, <2>4, <2>5
<1> QED
  BY <1>0, <1>5, <1>6

LEMMA PublishStep ==
  ASSUME HubInv, Stream!Publish
  PROVE  HubInv'
<1>0. HubFrame
  BY DEF HubInv
<1>1. /\ todo = {} /\ published \in Nat /\ published' = published + 1 /\ published < MaxSeq
      /\ todo' = subs /\ sending' = IF subs = {} THEN 0 ELSE published + 1
      /\ recent' = Stream!Newest(Append(recent, published + 1))
      /\ step' = [t \in Subscribers |-> "try"]
      /\ UNCHANGED <<subs, queue, client, since, view, watermark, missed>>
  BY <1>0, ReadersAssumption DEF HubFrame, Stream!Publish, Stream!Unlocked
<1>2. LastOnes(recent', published') /\ Len(recent') <= ReplayCap
  BY <1>0, <1>1, Buffers DEF HubFrame
<1>3. HubFrame'
  BY <1>0, <1>1, <1>2, ReadersAssumption DEF HubFrame
<1>4. ASSUME NEW t \in Subscribers PROVE ClientInv(t)'
  <2>0. ClientInv(t) /\ Told(t) = published
    BY <1>1 DEF HubInv, Told
  <2>1. CASE t \in subs
    <3>1. Told(t)' = published
      BY <1>1, <2>1 DEF Told
    <3> QED
      BY <1>1, <2>0, <2>1, <3>1 DEF ClientInv, Attached
  <2>2. CASE t \notin subs
    <3>1. Told(t)' = published + 1
      BY <1>1, <2>2 DEF Told
    <3>2. Hands(queue[t], view[t], watermark[t], missed[t], published + 1)
      BY <1>1, <2>0, HandsEmpty DEF ClientInv
    <3> QED
      BY <1>1, <2>0, <2>2, <3>1, <3>2 DEF ClientInv, Attached
  <2> QED
    BY <2>1, <2>2
<1> QED
  BY <1>3, <1>4 DEF HubInv

(* Publish is done with a subscriber: its channel has the event.           *)
LEMMA SentStep ==
  ASSUME HubInv, NEW s \in Subscribers, s \in todo, Len(queue[s]) < SubBuffer,
         queue' = [queue EXCEPT ![s] = Append(@, sending)], Stream!Served(s),
         UNCHANGED <<subs, recent, published, step, client, since, view, watermark, missed>>
  PROVE  HubInv'
<1>0. HubFrame /\ ClientInv(s)
  BY DEF HubInv
<1>1. /\ published \in Nat /\ published > 0 /\ sending = published /\ Told(s) + 1 = published
      /\ todo' = todo \ {s} /\ sending' = IF todo = {s} THEN 0 ELSE sending
  BY <1>0 DEF HubFrame, Told, Stream!Served
<1>2. PICK q : q = Append(queue[s], published)
  OBVIOUS
<1>3. queue'[s] = q /\ q \in Seq(Nat) /\ Len(q) = Len(queue[s]) + 1
  <2>1. s \in DOMAIN queue /\ queue[s] \in Seq(Nat)
    BY <1>0 DEF HubFrame
  <2>2. queue'[s] = Append(queue[s], sending)
    BY <2>1
  <2> QED
    BY <1>1, <1>2, <2>1, <2>2
<1>4. HubFrame'
  <2>1. queue' \in [Subscribers -> Seq(Nat)]
    BY <1>0, <1>3 DEF HubFrame
  <2> QED
    BY <1>0, <1>1, <2>1 DEF HubFrame
<1>5. ClientInv(s)'
  <2>1. Told(s)' = published
    BY <1>1 DEF Told
  <2>2. /\ Hands(q, view[s], watermark[s], missed[s], published) /\ In(q, published)
        /\ client[s] = "live" => NoGap(q, view[s], missed[s], published)
    <3>1. Hands(queue[s], view[s], watermark[s], missed[s], Told(s))
      BY <1>0 DEF ClientInv
    <3>2. q = Append(queue[s], Told(s) + 1)
      BY <1>1, <1>2
    <3> QED
      BY <1>0, <1>1, <3>1, <3>2, HandsSend DEF ClientInv
  <2>3. Len(q) <= SubBuffer
    BY <1>0, <1>3, ReadersAssumption DEF HubFrame
  <2> QED
    BY <1>0, <1>1, <1>3, <2>1, <2>2, <2>3 DEF ClientInv, Attached, HubFrame
<1>6. ASSUME NEW t \in Subscribers, t # s PROVE ClientInv(t)'
  BY <1>0, <1>1, <1>6, OtherClient DEF HubInv, HubFrame
<1> QED
  BY <1>4, <1>5, <1>6 DEF HubInv

(* The full channel of a subscriber loses its oldest event, if it still    *)
(* has one.                                                                *)
LEMMA DropStep ==
  ASSUME HubInv, NEW s \in Subscribers, Stream!Drop(s)
  PROVE  HubInv'
<1>0. HubFrame /\ ClientInv(s)
  BY DEF HubInv
<1>1. /\ s \in todo /\ step' = [step EXCEPT ![s] = "retry"]
      /\ queue' = [queue EXCEPT ![s] = IF queue[s] = <<>> THEN queue[s] ELSE Tail(queue[s])]
      /\ missed' = [missed EXCEPT ![s] =
                      missed[s] \union IF queue[s] = <<>> THEN {} ELSE {Head(queue[s])}]
      /\ UNCHANGED <<subs, recent, published, sending, todo, client, since, view, watermark>>
  BY DEF Stream!Drop, Stream!DropOldest
<1>2. PICK q, m : /\ q = IF queue[s] = <<>> THEN queue[s] ELSE Tail(queue[s])
                  /\ m = missed[s] \union IF queue[s] = <<>> THEN {} ELSE {Head(queue[s])}
  OBVIOUS
<1>3. /\ q \in Seq(Nat) /\ m \subseteq Nat /\ Len(q) < SubBuffer
      /\ Hands(q, view[s], watermark[s], m, Told(s))
      /\ client[s] = "live" => NoGap(q, view[s], m, Told(s))
  <2>0. /\ queue[s] \in Seq(Nat) /\ missed[s] \subseteq Nat /\ Len(queue[s]) <= SubBuffer
        /\ Hands(queue[s], view[s], watermark[s], missed[s], Told(s))
        /\ client[s] = "live" => NoGap(queue[s], view[s], missed[s], Told(s))
    BY <1>0 DEF HubFrame, ClientInv
  <2>1. CASE queue[s] = <<>>
    <3>1. q = queue[s] /\ m = missed[s] /\ Len(queue[s]) = 0
      BY <1>2, <2>1
    <3> QED
      BY <2>0, <3>1, ReadersAssumption
  <2>2. CASE queue[s] # <<>>
    <3>1. q = Tail(queue[s]) /\ m = missed[s] \cup {Head(queue[s])}
      BY <1>2, <2>2
    <3>2. Len(q) = Len(queue[s]) - 1 /\ Len(queue[s]) \in Nat /\ q \in Seq(Nat)
          /\ Head(queue[s]) \in Nat
      BY <2>0, <2>2, <3>1
    <3>3. Len(q) < SubBuffer
      BY <2>0, <3>2, ReadersAssumption
    <3>4. Hands(q, view[s], watermark[s], m, Told(s))
      BY <2>0, <2>2, <3>1, HandsDrop
    <3>5. client[s] = "live" => NoGap(q, view[s], m, Told(s))
      BY <2>0, <2>2, <3>1, HandsDrop
    <3> QED
      BY <2>0, <3>1, <3>2, <3>3, <3>4, <3>5
  <2> QED
    BY <2>1, <2>2
<1>4. queue'[s] = q /\ missed'[s] = m
  BY <1>0, <1>1, <1>2 DEF HubFrame
<1>5. HubFrame'
  <2>1. queue' \in [Subscribers -> Seq(Nat)] /\ missed' \in [Subscribers -> SUBSET Nat]
    BY <1>0, <1>1, <1>2, <1>3 DEF HubFrame
  <2>2. step' \in [Subscribers -> {"try", "drop", "retry"}]
    BY <1>0, <1>1 DEF HubFrame
  <2> QED
    BY <1>0, <1>1, <2>1, <2>2 DEF HubFrame
<1>6. ClientInv(s)'
  <2>1. Told(s)' = Told(s) /\ SubBuffer \in Nat /\ Len(q) \in Nat
    BY <1>1, <1>3, ReadersAssumption DEF Told
  <2>2. s \in todo' /\ s \in subs /\ Len(q) <= SubBuffer
    BY <1>0, <1>1, <1>3, <2>1 DEF HubFrame
  <2>3. Hands(queue'[s], view'[s], watermark'[s], missed'[s], Told(s)')
    BY <1>1, <1>3, <1>4, <2>1
  <2>4. client'[s] = "live" => NoGap(queue'[s], view'[s], missed'[s], Told(s)')
    BY <1>1, <1>3, <1>4, <2>1
  <2>5. /\ s \in subs' <=> Attached(s)'
        /\ s \in subs'
    BY <1>0, <1>1, <2>2 DEF ClientInv, Attached
  <2> QED
    BY <1>3, <1>4, <2>2, <2>3, <2>4, <2>5 DEF ClientInv
<1>7. ASSUME NEW t \in Subscribers, t # s PROVE ClientInv(t)'
  <2>1. queue'[t] = queue[t] /\ missed'[t] = missed[t] /\ step'[t] = step[t]
    BY <1>0, <1>1, <1>7 DEF HubFrame
  <2> QED
    BY <1>1, <2>1, OtherClient DEF HubInv
<1> QED
  BY <1>5, <1>6, <1>7 DEF HubInv

LEMMA SendSteps ==
  ASSUME HubInv, NEW s \in Subscribers, Stream!FirstSend(s) \/ Stream!SecondSend(s)
  PROVE  HubInv'
<1>0. HubFrame /\ ClientInv(s) /\ SubBuffer \in Nat \ {0}
  BY ReadersAssumption DEF HubInv
<1>1. CASE /\ Stream!FirstSend(s) /\ Len(queue[s]) < SubBuffer
  BY <1>1, SentStep DEF Stream!FirstSend
<1>2. CASE /\ Stream!FirstSend(s) /\ ~(Len(queue[s]) < SubBuffer)
  <2>1. /\ step' = [step EXCEPT ![s] = "drop"]
        /\ UNCHANGED <<queue, todo, sending, subs, recent, published, client, since, view,
                       watermark, missed>>
    BY <1>2 DEF Stream!FirstSend
  <2>2. HubFrame'
    BY <1>0, <2>1 DEF HubFrame
  <2>3. ClientInv(s)'
    BY <1>0, <2>1 DEF ClientInv, Told, Attached, HubFrame
  <2>4. ASSUME NEW t \in Subscribers, t # s PROVE ClientInv(t)'
    <3>1. step'[t] = step[t]
      BY <1>0, <2>1, <2>4 DEF HubFrame
    <3> QED
      BY <2>1, <3>1, OtherClient DEF HubInv
  <2> QED
    BY <2>2, <2>3, <2>4 DEF HubInv
<1>3. CASE Stream!SecondSend(s)
  <2>1. s \in todo /\ step[s] = "retry" /\ Len(queue[s]) < SubBuffer
    BY <1>0, <1>3 DEF Stream!SecondSend, ClientInv
  <2> QED
    BY <1>3, <2>1, SentStep DEF Stream!SecondSend
<1> QED
  BY <1>1, <1>2, <1>3

(* The client's own steps, with the hub's lock where the code takes it.    *)
LEMMA SubscribeStep ==
  ASSUME HubInv, NEW s \in Subscribers, Stream!Subscribe(s)
  PROVE  HubInv'
<1>0. HubFrame /\ ClientInv(s)
  BY DEF HubInv
<1>1. /\ todo = {} /\ client[s] = "off" /\ subs' = subs \union {s} /\ published \in Nat
      /\ client' = [client EXCEPT ![s] = "subscribed"]
      /\ since' = [since EXCEPT ![s] = published]
      /\ UNCHANGED <<queue, recent, published, sending, todo, step, view, watermark, missed>>
  BY <1>0, ReadersAssumption DEF Stream!Subscribe, Stream!Unlocked, HubFrame
<1>2. client'[s] = "subscribed" /\ since'[s] = published
  BY <1>0, <1>1 DEF HubFrame
<1>3. HubFrame'
  BY <1>0, <1>1 DEF HubFrame
<1>4. ClientInv(s)'
  <2>1. Told(s)' = Told(s) /\ s \in subs' /\ Attached(s)' /\ ~(published' > since'[s])
    BY <1>1, <1>2 DEF Told, Attached
  <2> QED
    BY <1>0, <1>1, <1>2, <2>1 DEF ClientInv
<1>5. ASSUME NEW t \in Subscribers, t # s PROVE ClientInv(t)'
  <2>1. client'[t] = client[t] /\ since'[t] = since[t]
    BY <1>0, <1>1, <1>5 DEF HubFrame
  <2> QED
    BY <1>1, <1>5, <2>1, OtherClient DEF HubInv
<1> QED
  BY <1>3, <1>4, <1>5 DEF HubInv

LEMMA ReplayStep ==
  ASSUME HubInv, NEW s \in Subscribers, Stream!Replay(s)
  PROVE  HubInv'
<1>0. HubFrame /\ ClientInv(s)
  BY DEF HubInv
<1>1. PICK got : got = Stream!NewerThan(recent, watermark[s])
  OBVIOUS
<1>2. PICK x : x = IF got = <<>> THEN watermark[s] ELSE Last(got)
  OBVIOUS
<1>3. PICK v, m : /\ v = view[s] \o got
                  /\ m = missed[s] \cup {e \in watermark[s] + 1..published : ~Contains(recent, e)}
  OBVIOUS
<1>4. /\ todo = {} /\ client[s] = "subscribed" /\ published \in Nat
      /\ view' = [view EXCEPT ![s] = v]
      /\ watermark' = [watermark EXCEPT ![s] = x]
      /\ missed' = [missed EXCEPT ![s] = m]
      /\ client' = [client EXCEPT ![s] = "live"]
      /\ UNCHANGED <<subs, queue, recent, published, sending, todo, step, since>>
  BY <1>0, <1>1, <1>2, <1>3, ReadersAssumption
     DEF Stream!Replay, Stream!Unlocked, HubFrame, Stream!Last, Last, Stream!Contains, Contains
<1>5. Told(s) = published /\ Told(s)' = published
  BY <1>4 DEF Told
<1>6. Hands(queue[s], v, x, m, published) /\ NoGap(queue[s], v, m, published)
  <2>1. Hands(queue[s], view[s], watermark[s], missed[s], published)
    BY <1>0, <1>5 DEF ClientInv
  <2>2. LastOnes(recent, published)
    BY <1>0 DEF HubFrame
  <2> QED
    BY <1>1, <1>2, <1>3, <2>1, <2>2, HandsReplay
<1>7. v \in Seq(Nat) /\ x \in Nat /\ m \subseteq Nat
  BY <1>4, <1>6 DEF Hands, Rising
<1>8. view'[s] = v /\ watermark'[s] = x /\ missed'[s] = m /\ client'[s] = "live"
  BY <1>0, <1>4 DEF HubFrame
<1>9. HubFrame'
  BY <1>0, <1>4, <1>7 DEF HubFrame
<1>10. ClientInv(s)'
  <2>1. In(queue[s], published) \/ ~(published > since[s])
    BY <1>0, <1>4 DEF ClientInv, Attached
  <2>2. s \in subs /\ Attached(s)'
    BY <1>0, <1>4, <1>8 DEF ClientInv, Attached
  <2> QED
    BY <1>0, <1>4, <1>5, <1>6, <1>8, <2>1, <2>2 DEF ClientInv
<1>11. ASSUME NEW t \in Subscribers, t # s PROVE ClientInv(t)'
  <2>1. /\ view'[t] = view[t] /\ watermark'[t] = watermark[t] /\ missed'[t] = missed[t]
        /\ client'[t] = client[t]
    BY <1>0, <1>4, <1>11 DEF HubFrame
  <2> QED
    BY <1>4, <2>1, OtherClient DEF HubInv
<1> QED
  BY <1>9, <1>10, <1>11 DEF HubInv

LEMMA ReadStep ==
  ASSUME HubInv, NEW s \in Subscribers, Stream!Read(s)
  PROVE  HubInv'
<1>0. HubFrame /\ ClientInv(s)
  BY DEF HubInv
<1>1. PICK q, v, x : /\ q = Tail(queue[s])
                     /\ v = IF Head(queue[s]) > watermark[s] THEN Append(view[s], Head(queue[s]))
                            ELSE view[s]
                     /\ x = IF Head(queue[s]) > watermark[s] THEN Head(queue[s])
                            ELSE watermark[s]
  OBVIOUS
<1>2. /\ client[s] = "live" /\ queue[s] # <<>>
      /\ queue' = [queue EXCEPT ![s] = q]
      /\ view' = [view EXCEPT ![s] = v] /\ watermark' = [watermark EXCEPT ![s] = x]
      /\ UNCHANGED <<subs, recent, published, sending, todo, step, client, since, missed>>
  BY <1>0, <1>1 DEF Stream!Read, HubFrame
<1>3. /\ Hands(queue[s], view[s], watermark[s], missed[s], Told(s))
      /\ NoGap(queue[s], view[s], missed[s], Told(s))
  BY <1>0, <1>2 DEF ClientInv
<1>4. /\ Hands(q, v, x, missed[s], Told(s)) /\ NoGap(q, v, missed[s], Told(s))
      /\ In(queue[s], Told(s)) \/ In(view[s], Told(s)) => In(q, Told(s)) \/ In(v, Told(s))
  BY <1>1, <1>2, <1>3, HandsRead
<1>5. /\ q \in Seq(Nat) /\ v \in Seq(Nat) /\ x \in Nat /\ Len(q) < Len(queue[s])
      /\ Len(q) \in Nat /\ Len(queue[s]) \in Nat
  <2>1. queue[s] \in Seq(Nat)
    BY <1>0 DEF HubFrame
  <2>2. Len(q) = Len(queue[s]) - 1 /\ Len(queue[s]) \in Nat /\ Len(q) \in Nat
    BY <1>1, <1>2, <2>1
  <2> QED
    BY <1>4, <2>2 DEF Hands, Rising
<1>6. queue'[s] = q /\ view'[s] = v /\ watermark'[s] = x
  BY <1>0, <1>2 DEF HubFrame
<1>7. HubFrame'
  BY <1>0, <1>2, <1>5 DEF HubFrame
<1>8. ClientInv(s)'
  <2>1. Told(s)' = Told(s) /\ Attached(s) /\ Attached(s)' /\ s \in subs
    BY <1>0, <1>2 DEF Told, Attached, ClientInv
  <2>2. s \notin todo => Told(s) = published
    BY DEF Told
  <2>3. Len(q) <= SubBuffer /\ (s \in todo /\ step[s] = "retry" => Len(q) < SubBuffer)
    BY <1>0, <1>5, ReadersAssumption DEF ClientInv
  <2>4. s \notin todo /\ published > since[s] => In(q, published) \/ In(v, published)
    BY <1>0, <1>4, <2>1, <2>2 DEF ClientInv
  <2> QED
    BY <1>2, <1>4, <1>6, <2>1, <2>3, <2>4 DEF ClientInv
<1>9. ASSUME NEW t \in Subscribers, t # s PROVE ClientInv(t)'
  <2>1. queue'[t] = queue[t] /\ view'[t] = view[t] /\ watermark'[t] = watermark[t]
    BY <1>0, <1>2, <1>9 DEF HubFrame
  <2> QED
    BY <1>2, <2>1, OtherClient DEF HubInv
<1> QED
  BY <1>7, <1>8, <1>9 DEF HubInv

LEMMA LeaveSteps ==
  ASSUME HubInv, NEW s \in Subscribers, Stream!Unsubscribe(s) \/ Stream!Reattach(s)
  PROVE  HubInv'
<1>0. HubFrame /\ ClientInv(s) /\ published \in Nat /\ <<>> \in Seq(Nat) /\ Len(<<>>) = 0
      /\ SubBuffer \in Nat \ {0}
  BY ReadersAssumption DEF HubInv, HubFrame
<1>1. CASE Stream!Unsubscribe(s)
  <2>1. /\ todo = {} /\ subs' = subs \ {s}
        /\ client' = [client EXCEPT ![s] = "gone"]
        /\ queue' = [queue EXCEPT ![s] = <<>>]
        /\ UNCHANGED <<recent, published, sending, todo, step, since, view, watermark, missed>>
    BY <1>0, <1>1, ReadersAssumption DEF Stream!Unsubscribe, Stream!Unlocked, HubFrame
  <2>2. client'[s] = "gone" /\ queue'[s] = <<>>
    BY <1>0, <2>1 DEF HubFrame
  <2>3. HubFrame'
    BY <1>0, <2>1 DEF HubFrame
  <2>4. ClientInv(s)'
    <3>1. Told(s)' = published /\ Told(s) = published /\ ~Attached(s)' /\ s \notin subs'
          /\ s \notin todo'
      BY <2>1, <2>2 DEF Told, Attached
    <3>2. Hands(<<>>, view[s], watermark[s], missed[s], published)
      BY <1>0, <3>1, HandsEmpty DEF ClientInv
    <3> QED
      BY <1>0, <2>1, <2>2, <3>1, <3>2 DEF ClientInv, Attached
  <2>5. ASSUME NEW t \in Subscribers, t # s PROVE ClientInv(t)'
    <3>1. client'[t] = client[t] /\ queue'[t] = queue[t]
      BY <1>0, <2>1, <2>5 DEF HubFrame
    <3> QED
      BY <2>1, <2>5, <3>1, OtherClient DEF HubInv
  <2> QED
    BY <2>3, <2>4, <2>5 DEF HubInv
<1>2. CASE Stream!Reattach(s)
  <2>1. /\ client[s] = "gone" /\ client' = [client EXCEPT ![s] = "off"]
        /\ UNCHANGED <<subs, queue, recent, published, sending, todo, step, since, view,
                       watermark, missed>>
    BY <1>2 DEF Stream!Reattach
  <2>2. client'[s] = "off"
    BY <1>0, <2>1 DEF HubFrame
  <2>3. HubFrame'
    BY <1>0, <2>1 DEF HubFrame
  <2>4. ClientInv(s)'
    BY <1>0, <2>1, <2>2 DEF ClientInv, Told, Attached
  <2>5. ASSUME NEW t \in Subscribers, t # s PROVE ClientInv(t)'
    <3>1. client'[t] = client[t]
      BY <1>0, <2>1, <2>5 DEF HubFrame
    <3> QED
      BY <2>1, <3>1, OtherClient DEF HubInv
  <2> QED
    BY <2>3, <2>4, <2>5 DEF HubInv
<1> QED
  BY <1>1, <1>2

LEMMA NextHubInv == HubInv /\ [Stream!HubNext]_hubVars => HubInv'
<1> SUFFICES ASSUME HubInv, [Stream!HubNext]_hubVars PROVE HubInv'
  OBVIOUS
<1>1. CASE Stream!Publish
  BY <1>1, PublishStep
<1>2. CASE Stream!Forget
  <2>1. /\ recent' = <<>> /\ <<>> \in Seq(Nat) /\ Len(<<>>) = 0
        /\ UNCHANGED <<subs, queue, published, sending, todo, step, client, since, view,
                       watermark, missed>>
    BY <1>2 DEF Stream!Forget
  <2>2. HubFrame'
    BY <2>1, ReadersAssumption DEF HubInv, HubFrame, LastOnes
  <2>3. \A t \in Subscribers : ClientInv(t)'
    BY <2>1, OtherClient DEF HubInv
  <2> QED
    BY <2>2, <2>3 DEF HubInv
<1>3. ASSUME NEW s \in Subscribers, Stream!Drop(s) PROVE HubInv'
  BY <1>3, DropStep
<1>4. ASSUME NEW s \in Subscribers, Stream!FirstSend(s) \/ Stream!SecondSend(s) PROVE HubInv'
  BY <1>4, SendSteps
<1>5. ASSUME NEW s \in Subscribers, Stream!Subscribe(s) PROVE HubInv'
  BY <1>5, SubscribeStep
<1>6. ASSUME NEW s \in Subscribers, Stream!Replay(s) PROVE HubInv'
  BY <1>6, ReplayStep
<1>7. ASSUME NEW s \in Subscribers, Stream!Read(s) PROVE HubInv'
  BY <1>7, ReadStep
<1>8. ASSUME NEW s \in Subscribers, Stream!Unsubscribe(s) \/ Stream!Reattach(s) PROVE HubInv'
  BY <1>8, LeaveSteps
<1>9. CASE UNCHANGED hubVars
  BY <1>9, OtherClient DEF HubInv, HubFrame, hubVars
<1> QED
  BY <1>1, <1>2, <1>3, <1>4, <1>5, <1>6, <1>7, <1>8, <1>9 DEF Stream!HubNext

(* What the invariant says of a client that reads.                         *)
LEMMA HubGuarantees ==
  ASSUME HubInv PROVE Stream!NewestIsKept /\ Stream!CatchesUp /\ Stream!HubTypeOK
<1>0. HubFrame
  BY DEF HubInv
<1>1. ASSUME NEW t \in Subscribers
      PROVE  /\ ClientInv(t) /\ Rising(view[t], watermark[t]) /\ Rising(queue[t], Told(t))
             /\ DOMAIN view[t] = 1..Len(view[t]) /\ DOMAIN queue[t] = 1..Len(queue[t])
             /\ \A e : e \in Stream!ToSet(view[t]) <=> In(view[t], e)
             /\ \A e : e \in Stream!ToSet(queue[t]) <=> In(queue[t], e)
  <2>1. ClientInv(t) /\ Rising(view[t], watermark[t]) /\ Rising(queue[t], Told(t))
    BY DEF HubInv, ClientInv, Hands
  <2>2. DOMAIN view[t] = 1..Len(view[t]) /\ DOMAIN queue[t] = 1..Len(queue[t])
    BY <2>1 DEF Rising
  <2> QED
    BY <2>1, <2>2 DEF Stream!ToSet, In
<1>2. Stream!NewestIsKept
  <2> SUFFICES ASSUME NEW t \in Subscribers
               PROVE  /\ Stream!Increasing(view[t]) /\ Stream!Increasing(queue[t])
                      /\ client[t] = "live" /\ t \notin todo /\ published > since[t] =>
                           published \in Stream!ToSet(view[t]) \union Stream!ToSet(queue[t])
    BY DEF Stream!NewestIsKept
  <2>1. Stream!Increasing(view[t]) /\ Stream!Increasing(queue[t])
    BY <1>1 DEF Stream!Increasing, Rising
  <2> QED
    BY <1>1, <2>1 DEF ClientInv, Attached
<1>3. Stream!CatchesUp
  <2> SUFFICES ASSUME NEW t \in Subscribers, client[t] = "live", t \notin todo
               PROVE  1..published =
                        Stream!ToSet(view[t]) \union Stream!ToSet(queue[t]) \union missed[t]
    BY DEF Stream!CatchesUp
  <2>1. Told(t) = published /\ published \in Nat
    BY <1>0, ReadersAssumption DEF Told, HubFrame
  <2>2. /\ Hands(queue[t], view[t], watermark[t], missed[t], published)
        /\ NoGap(queue[t], view[t], missed[t], published)
    BY <1>1, <2>1 DEF ClientInv
  <2>3. \A e : In(view[t], e) \/ In(queue[t], e) => e \in 1..published
    BY <2>1, <2>2 DEF Hands, Rising, In
  <2> QED
    BY <1>1, <2>2, <2>3 DEF NoGap, Hands
<1>4. Stream!HubTypeOK
  <2>1. ASSUME NEW t \in Subscribers PROVE Len(queue[t]) <= SubBuffer /\ watermark[t] \in 0..published
    <3>1. published \in Nat /\ Told(t) \in Nat /\ Told(t) <= published
      BY <1>0, <1>1, ReadersAssumption DEF HubFrame, Told, ClientInv, Hands
    <3> QED
      BY <1>1, <3>1 DEF ClientInv, Hands
  <2> QED
    BY <1>0, <2>1 DEF HubFrame, Stream!HubTypeOK
<1> QED
  BY <1>2, <1>3, <1>4

-----------------------------------------------------------------------------
(* The projections of a log.                                               *)

UpTo(k) == [i \in 1..k |-> i]

(* A registration replays what the log had; a unit that was registered     *)
(* while one log was bound, subscribed to and not being closed has it once *)
(* in its view.                                                            *)
UnitInv(u) ==
  /\ unit[u] = "reset" => folded[u] = <<>>
  /\ unit[u] = "replaying" =>
       \E k \in 0..log : folded[u] = UpTo(k) /\ replay[u] = [i \in 1..log - k |-> k + i]
  /\ unit[u] = "in" => folded[u] = UpTo(log)

ProjectionFrame ==
  /\ log \in 0..MaxLog
  /\ unit \in [Units -> {"out", "listed", "reset", "replaying", "in"}]
  /\ folded \in [Units -> Seq(1..log)] /\ replay \in [Units -> Seq(1..log)]
  /\ attaches \in Nat /\ bound \in 0..attaches
  /\ fed \subseteq 1..attaches /\ closing \subseteq 1..attaches
  /\ tracked \subseteq Units /\ overlapped \subseteq Units

(* A log is fed from until its detach is through; while units are tracked  *)
(* there is one, so each event reaches a unit once.                        *)
BoundInv == /\ fed \subseteq closing \cup {bound}
            /\ tracked # {} => closing = {} /\ bound \in fed

ProjectionInv ==
  /\ ProjectionFrame /\ BoundInv
  /\ \A u \in tracked \ overlapped : UnitInv(u)

LEMMA InitProjectionInv == Views!ProjectionInit => ProjectionInv
<1> SUFFICES ASSUME Views!ProjectionInit PROVE ProjectionInv
  OBVIOUS
<1>1. <<>> \in Seq(1..0) /\ MaxLog \in Nat
  BY ReadersAssumption
<1>2. ProjectionFrame
  BY <1>1 DEF Views!ProjectionInit, ProjectionFrame
<1> QED
  BY <1>2 DEF Views!ProjectionInit, ProjectionInv, BoundInv

LEMMA ViewsCardinality == \A S : Views!Cardinality(S) = Cardinality(S)
BY DEF Views!Cardinality, Cardinality

LEMMA Repeated ==
  ASSUME NEW n \in Nat, NEW x, NEW T, x \in T
  PROVE  [k \in 1..n |-> x] \in Seq(T) /\ Len([k \in 1..n |-> x]) = n
OBVIOUS

(* Parts and joins of lists over any set.                                  *)
LEMMA Joined ==
  ASSUME NEW T, NEW v \in Seq(T), NEW e \in Seq(T)
  PROVE  /\ v \o e \in Seq(T) /\ Len(v \o e) = Len(v) + Len(e)
         /\ \A i \in 1..Len(v) : (v \o e)[i] = v[i]
         /\ \A i \in 1..Len(e) : (v \o e)[Len(v) + i] = e[i]
OBVIOUS

LEMMA WiderSeq ==
  ASSUME NEW S, NEW T, S \subseteq T, NEW q \in Seq(S)
  PROVE  q \in Seq(T)
OBVIOUS

LEMMA Moved ==
  ASSUME NEW T, NEW v \in Seq(T), NEW r \in Seq(T), r # <<>>
  PROVE  /\ Append(v, Head(r)) \in Seq(T) /\ Tail(r) \in Seq(T)
         /\ Len(Tail(r)) = Len(r) - 1 /\ Len(r) \in Nat
         /\ \A i \in 1..Len(r) - 1 : Tail(r)[i] = r[i + 1]
OBVIOUS

LEMMA CommitStep ==
  ASSUME ProjectionInv, Views!Commit
  PROVE  ProjectionInv'
<1>0. ProjectionFrame /\ BoundInv /\ MaxLog \in Nat
  BY ReadersAssumption DEF ProjectionInv
<1>1. /\ log \in Nat /\ log < MaxLog /\ log' = log + 1
      /\ folded' = [u \in Units |-> Views!Fed(u)]
      /\ overlapped' = overlapped \cup Views!Registering
      /\ UNCHANGED <<unit, replay, bound, fed, attaches, closing, tracked>>
  BY <1>0 DEF Views!Commit, ProjectionFrame
<1>2. PICK n \in Nat : n = Cardinality(fed)
  <2>1. attaches \in Nat /\ fed \subseteq 1..attaches
    BY <1>0 DEF ProjectionFrame
  <2>2. IsFiniteSet(1..attaches)
    BY <2>1, FS_Interval
  <2> QED
    BY <2>1, <2>2, FS_Subset, FS_CardinalityType
<1>3. PICK e : e = [k \in 1..n |-> log + 1]
  OBVIOUS
<1>4. e \in Seq(1..(log + 1)) /\ Len(e) = n
  BY <1>1, <1>3, Repeated
<1>5. \A u \in Units : folded'[u] = IF unit[u] # "out" THEN folded[u] \o e ELSE folded[u]
  <2>1. Views!Cardinality(fed) = n
    BY <1>2, ViewsCardinality
  <2> QED
    BY <1>1, <1>3, <2>1 DEF Views!Fed, Views!Listed
<1>6. 1..log \subseteq 1..(log + 1)
  BY <1>1
<1>7. folded' \in [Units -> Seq(1..(log + 1))]
  <2>1. \A u \in Units : folded[u] \in Seq(1..(log + 1))
    BY <1>0, <1>6 DEF ProjectionFrame
  <2>2. \A u \in Units : folded'[u] \in Seq(1..(log + 1))
    BY <1>4, <1>5, <2>1, Joined
  <2> QED
    BY <1>1, <2>2
<1>8. replay' \in [Units -> Seq(1..(log + 1))]
  BY <1>0, <1>1, <1>6 DEF ProjectionFrame
<1>9. ProjectionFrame'
  BY <1>0, <1>1, <1>7, <1>8 DEF ProjectionFrame, Views!Registering
<1>10. ASSUME NEW u \in tracked' \ overlapped' PROVE UnitInv(u)'
  <2>1. u \in tracked \ overlapped /\ u \in Units /\ unit[u] \in {"out", "in"}
    BY <1>0, <1>1, <1>10 DEF ProjectionFrame, Views!Registering
  <2>2. CASE unit[u] = "in"
    <3>1. fed = {bound}
      BY <1>0, <2>1 DEF BoundInv
    <3>2. n = 1
      BY <1>2, <3>1, FS_Singleton
    <3>3. folded[u] = UpTo(log)
      BY <2>1, <2>2 DEF ProjectionInv, UnitInv
    <3>4. folded'[u] = UpTo(log + 1)
      <4>1. folded'[u] = folded[u] \o e /\ folded[u] \in Seq(1..log)
        BY <1>0, <1>5, <2>1, <2>2 DEF ProjectionFrame
      <4>2. Len(folded[u]) = log /\ \A i \in 1..log : folded[u][i] = i
        BY <1>1, <3>3 DEF UpTo
      <4>3. PICK s : s = folded[u] \o e
        OBVIOUS
      <4>4. s \in Seq(1..(log + 1)) /\ Len(s) = log + 1
        <5>1. folded[u] \in Seq(1..(log + 1))
          BY <1>6, <4>1, WiderSeq
        <5>2. s \in Seq(1..(log + 1)) /\ Len(s) = Len(folded[u]) + Len(e)
          BY <1>4, <4>3, <5>1, Joined
        <5> QED
          BY <1>4, <3>2, <4>2, <5>2
      <4>5. \A i \in 1..(log + 1) : s[i] = i
        <5>1. \A i \in 1..log : s[i] = i
          BY <1>4, <4>1, <4>2, <4>3
        <5>2. s[log + 1] = log + 1
          <6>1. e[1] = log + 1
            BY <1>3, <3>2
          <6>2. s[Len(folded[u]) + 1] = e[1]
            <7>1. folded[u] \in Seq(1..(log + 1))
              BY <1>6, <4>1, WiderSeq
            <7>2. 1 \in 1..Len(e)
              BY <1>4, <3>2
            <7> QED
              BY <1>4, <4>3, <7>1, <7>2, Joined
          <6> QED
            BY <4>2, <6>1, <6>2
        <5> QED
          BY <1>1, <5>1, <5>2
      <4>6. DOMAIN s = 1..(log + 1)
        BY <4>4
      <4>7. s = [i \in 1..(log + 1) |-> s[i]]
        BY <4>4, <4>6
      <4> QED
        BY <4>1, <4>3, <4>5, <4>7 DEF UpTo
    <3> QED
      BY <1>1, <2>2, <3>4 DEF UnitInv
  <2>3. CASE unit[u] = "out"
    BY <1>1, <2>3 DEF UnitInv
  <2> QED
    BY <2>1, <2>2, <2>3
<1> QED
  BY <1>0, <1>1, <1>9, <1>10 DEF ProjectionInv, BoundInv

LEMMA RegisterStep ==
  ASSUME ProjectionInv, NEW u \in Units, Views!Register(u)
  PROVE  ProjectionInv'
<1>0. ProjectionFrame /\ BoundInv
  BY DEF ProjectionInv
<1>1. /\ unit[u] = "out"
      /\ unit' = [unit EXCEPT ![u] = IF bound # 0 THEN "listed" ELSE "in"]
      /\ tracked' = IF bound \in fed /\ closing = {} THEN tracked \cup {u} ELSE tracked \ {u}
      /\ overlapped' = overlapped \ {u}
      /\ UNCHANGED <<log, folded, replay, bound, fed, attaches, closing>>
  BY DEF Views!Register
<1>2. ProjectionFrame'
  BY <1>0, <1>1 DEF ProjectionFrame
<1>3. BoundInv'
  BY <1>0, <1>1 DEF BoundInv
<1>4. ASSUME NEW t \in tracked' \ overlapped' PROVE UnitInv(t)'
  <2>1. CASE t = u
    <3>1. bound \in fed /\ bound # 0
      BY <1>0, <1>1, <1>4, <2>1 DEF ProjectionFrame
    <3>2. unit'[u] = "listed"
      BY <1>0, <1>1, <3>1 DEF ProjectionFrame
    <3> QED
      BY <2>1, <3>2 DEF UnitInv
  <2>2. CASE t # u
    <3>1. t \in tracked \ overlapped /\ t \in Units
      BY <1>0, <1>1, <1>4, <2>2 DEF ProjectionFrame
    <3>2. unit'[t] = unit[t]
      BY <1>0, <1>1, <2>2, <3>1 DEF ProjectionFrame
    <3> QED
      BY <1>1, <3>1, <3>2 DEF UnitInv, ProjectionInv
  <2> QED
    BY <2>1, <2>2
<1> QED
  BY <1>2, <1>3, <1>4 DEF ProjectionInv

LEMMA ReplaySteps ==
  ASSUME ProjectionInv, NEW u \in Units,
         \/ Views!RegisterResets(u) \/ Views!RegisterReads(u)
         \/ Views!RegisterReplays(u) \/ Views!Unregister(u)
  PROVE  ProjectionInv'
<1>0. ProjectionFrame /\ BoundInv /\ log \in Nat
  BY ReadersAssumption DEF ProjectionInv, ProjectionFrame
<1>1. UNCHANGED <<log, bound, fed, attaches, closing, tracked, overlapped>>
  BY DEF Views!RegisterResets, Views!RegisterReads, Views!RegisterReplays, Views!Unregister
<1>2. ASSUME NEW t \in Units, t # u
      PROVE  unit'[t] = unit[t] /\ folded'[t] = folded[t] /\ replay'[t] = replay[t]
  BY <1>0, <1>2 DEF Views!RegisterResets, Views!RegisterReads, Views!RegisterReplays,
     Views!Unregister, ProjectionFrame
<1>3. ASSUME ProjectionFrame', u \in tracked \ overlapped => UnitInv(u)'
      PROVE  ProjectionInv'
  <2>1. ASSUME NEW t \in tracked \ overlapped, t # u PROVE UnitInv(t)'
    <3>1. t \in Units /\ UnitInv(t)
      BY <1>0, <2>1 DEF ProjectionInv, ProjectionFrame
    <3> QED
      BY <1>1, <1>2, <2>1, <3>1 DEF UnitInv
  <2> QED
    BY <1>0, <1>1, <1>3, <2>1 DEF ProjectionInv, BoundInv
<1>4. u \in tracked \ overlapped => UnitInv(u)
  BY DEF ProjectionInv
<1>5. CASE Views!RegisterResets(u)
  <2>1. /\ unit' = [unit EXCEPT ![u] = "reset"] /\ folded' = [folded EXCEPT ![u] = <<>>]
        /\ replay' = replay /\ <<>> \in Seq(1..log)
    BY <1>5 DEF Views!RegisterResets, Views!ResetView
  <2>2. ProjectionFrame'
    BY <1>0, <1>1, <2>1 DEF ProjectionFrame
  <2>3. unit'[u] = "reset" /\ folded'[u] = <<>>
    BY <1>0, <2>1 DEF ProjectionFrame
  <2> QED
    BY <1>3, <2>2, <2>3 DEF UnitInv
<1>6. CASE Views!RegisterReads(u)
  <2>1. /\ unit[u] = "reset" /\ unit' = [unit EXCEPT ![u] = "replaying"] /\ folded' = folded
        /\ replay' = [replay EXCEPT ![u] = UpTo(log)]
    BY <1>6 DEF Views!RegisterReads, UpTo
  <2>2. UpTo(log) \in Seq(1..log)
    BY <1>0 DEF UpTo
  <2>3. ProjectionFrame'
    BY <1>0, <1>1, <2>1, <2>2 DEF ProjectionFrame
  <2>4. unit'[u] = "replaying" /\ replay'[u] = UpTo(log)
    BY <1>0, <2>1 DEF ProjectionFrame
  <2>5. ASSUME UnitInv(u) PROVE UnitInv(u)'
    <3>1. folded'[u] = UpTo(0)
      BY <2>1, <2>5 DEF UnitInv, UpTo
    <3>2. 0 \in 0..log /\ UpTo(log) = [i \in 1..log - 0 |-> 0 + i]
      BY <1>0 DEF UpTo
    <3> QED
      BY <1>1, <2>4, <3>1, <3>2 DEF UnitInv
  <2> QED
    BY <1>3, <1>4, <2>3, <2>5
<1>7. CASE Views!RegisterReplays(u) /\ replay[u] = <<>>
  <2>1. unit[u] = "replaying" /\ unit' = [unit EXCEPT ![u] = "in"] /\ UNCHANGED <<folded, replay>>
    BY <1>7 DEF Views!RegisterReplays
  <2>2. ProjectionFrame'
    BY <1>0, <1>1, <2>1 DEF ProjectionFrame
  <2>3. unit'[u] = "in"
    BY <1>0, <2>1 DEF ProjectionFrame
  <2>4. ASSUME UnitInv(u) PROVE UnitInv(u)'
    <3>1. PICK k \in 0..log : folded[u] = UpTo(k) /\ replay[u] = [i \in 1..log - k |-> k + i]
      BY <2>1, <2>4 DEF UnitInv
    <3>2. k = log
      <4> SUFFICES ASSUME k < log PROVE FALSE
        BY <1>0
      <4>1. 1 \in DOMAIN replay[u]
        BY <1>0, <3>1
      <4> QED
        BY <1>7, <4>1
    <3> QED
      BY <1>1, <2>1, <2>3, <3>1, <3>2 DEF UnitInv
  <2> QED
    BY <1>3, <1>4, <2>2, <2>4
<1>8. CASE Views!RegisterReplays(u) /\ replay[u] # <<>>
  <2>0. replay[u] \in Seq(1..log) /\ folded[u] \in Seq(1..log)
    BY <1>0 DEF ProjectionFrame
  <2>1. PICK v, r : v = Append(folded[u], Head(replay[u])) /\ r = Tail(replay[u])
    OBVIOUS
  <2>2. /\ unit[u] = "replaying" /\ unit' = unit
        /\ folded' = [folded EXCEPT ![u] = v] /\ replay' = [replay EXCEPT ![u] = r]
    BY <1>0, <1>8, <2>1 DEF Views!RegisterReplays, ProjectionFrame
  <2>3. v \in Seq(1..log) /\ r \in Seq(1..log)
    BY <1>8, <2>0, <2>1, Moved
  <2>4. ProjectionFrame'
    BY <1>0, <1>1, <2>2, <2>3 DEF ProjectionFrame
  <2>5. folded'[u] = v /\ replay'[u] = r
    BY <1>0, <2>2 DEF ProjectionFrame
  <2>6. ASSUME UnitInv(u) PROVE UnitInv(u)'
    <3>1. PICK k \in 0..log : folded[u] = UpTo(k) /\ replay[u] = [i \in 1..log - k |-> k + i]
      BY <2>2, <2>6 DEF UnitInv
    <3>2. k < log
      <4> SUFFICES ASSUME k = log PROVE FALSE
        BY <1>0
      <4>1. replay[u] = <<>>
        BY <1>0, <3>1
      <4> QED
        BY <1>8, <4>1
    <3>3. Len(folded[u]) = k /\ Len(replay[u]) = log - k /\ Head(replay[u]) = k + 1
      BY <1>0, <2>0, <3>1, <3>2 DEF UpTo
    <3>4. v = UpTo(k + 1)
      <4>1. Len(v) = k + 1 /\ v[k + 1] = k + 1 /\ \A i \in 1..k : v[i] = i
        BY <2>0, <2>1, <3>1, <3>3 DEF UpTo
      <4>2. \A i \in 1..(k + 1) : v[i] = i
        BY <4>1
      <4>3. v = [i \in 1..(k + 1) |-> v[i]]
        BY <2>3, <4>1
      <4> QED
        BY <4>2, <4>3 DEF UpTo
    <3>5. r = [i \in 1..log - (k + 1) |-> (k + 1) + i]
      <4>1. Len(r) = log - (k + 1) /\ \A i \in 1..Len(r) : r[i] = replay[u][i + 1]
        <5>1. /\ Len(r) = Len(replay[u]) - 1
              /\ \A i \in 1..Len(replay[u]) - 1 : r[i] = replay[u][i + 1]
          BY <1>8, <2>0, <2>1, Moved
        <5> QED
          BY <1>0, <3>3, <5>1
      <4>2. ASSUME NEW i \in 1..log - (k + 1) PROVE r[i] = (k + 1) + i
        <5>1. i \in 1..Len(r) /\ i + 1 \in 1..log - k
          BY <1>0, <3>1, <4>1
        <5>2. replay[u][i + 1] = k + (i + 1)
          BY <3>1, <5>1
        <5> QED
          BY <3>1, <4>1, <5>1, <5>2
      <4>3. r = [i \in 1..log - (k + 1) |-> r[i]]
        BY <2>3, <4>1
      <4> QED
        BY <4>2, <4>3
    <3>6. k + 1 \in 0..log
      BY <1>0, <3>2
    <3> QED
      BY <1>1, <2>2, <2>5, <3>4, <3>5, <3>6 DEF UnitInv
  <2> QED
    BY <1>3, <1>4, <2>4, <2>6
<1>9. CASE Views!Unregister(u)
  <2>1. unit' = [unit EXCEPT ![u] = "out"] /\ UNCHANGED <<folded, replay>>
    BY <1>9 DEF Views!Unregister
  <2>2. ProjectionFrame' /\ unit'[u] = "out"
    BY <1>0, <1>1, <2>1 DEF ProjectionFrame
  <2> QED
    BY <1>3, <2>2 DEF UnitInv
<1> QED
  BY <1>5, <1>6, <1>7, <1>8, <1>9

LEMMA BindingSteps ==
  ASSUME ProjectionInv,
         \/ Views!Attach \/ Views!Subscribe \/ Views!Detach \/ Views!Unsubscribe
         \/ UNCHANGED projectionVars
  PROVE  ProjectionInv'
<1>0. ProjectionFrame /\ BoundInv /\ attaches \in Nat
  BY DEF ProjectionInv, ProjectionFrame
<1>1. UNCHANGED <<log, unit, folded, replay, overlapped>> /\ tracked' \in {tracked, {}}
  BY DEF Views!Attach, Views!Subscribe, Views!Detach, Views!Unsubscribe, projectionVars
<1>2. \A u \in tracked' \ overlapped' : UnitInv(u)'
  <2>1. \A u \in tracked \ overlapped : UnitInv(u)'
    BY <1>1 DEF ProjectionInv, UnitInv
  <2> QED
    BY <1>1, <2>1
<1>3. CASE Views!Attach
  <2>1. ProjectionFrame'
    BY <1>0, <1>1, <1>3 DEF ProjectionFrame, Views!Attach
  <2>2. tracked = {}
    BY <1>0, <1>3 DEF ProjectionFrame, Views!Attach, BoundInv
  <2>3. fed \subseteq closing
    BY <1>0, <1>3 DEF ProjectionFrame, Views!Attach, BoundInv
  <2>4. BoundInv'
    BY <1>3, <2>2, <2>3 DEF Views!Attach, BoundInv
  <2> QED
    BY <1>2, <2>1, <2>4 DEF ProjectionInv
<1>4. CASE Views!Subscribe
  <2>1. ProjectionFrame'
    BY <1>0, <1>1, <1>4 DEF ProjectionFrame, Views!Subscribe
  <2> QED
    BY <1>0, <1>2, <1>4, <2>1 DEF ProjectionInv, Views!Subscribe, BoundInv
<1>5. CASE Views!Detach
  <2>1. ProjectionFrame'
    BY <1>0, <1>1, <1>5 DEF ProjectionFrame, Views!Detach
  <2> QED
    BY <1>0, <1>2, <1>5, <2>1 DEF ProjectionInv, Views!Detach, BoundInv
<1>6. CASE Views!Unsubscribe
  <2>1. PICK d \in closing : fed' = fed \ {d} /\ closing' = closing \ {d}
    BY <1>6 DEF Views!Unsubscribe
  <2>2. UNCHANGED <<bound, attaches, tracked>>
    BY <1>6 DEF Views!Unsubscribe
  <2>3. ProjectionFrame'
    BY <1>0, <1>1, <2>1, <2>2 DEF ProjectionFrame
  <2> QED
    BY <1>0, <1>2, <2>1, <2>2, <2>3 DEF ProjectionInv, BoundInv
<1>7. CASE UNCHANGED projectionVars
  BY <1>0, <1>2, <1>7 DEF ProjectionInv, ProjectionFrame, BoundInv, projectionVars
<1> QED
  BY <1>3, <1>4, <1>5, <1>6, <1>7

LEMMA NextProjectionInv ==
  ProjectionInv /\ [Views!ProjectionNext]_projectionVars => ProjectionInv'
BY CommitStep, RegisterStep, ReplaySteps, BindingSteps DEF Views!ProjectionNext

LEMMA ProjectionGuarantees ==
  ASSUME ProjectionInv PROVE Views!ViewsFollowTheLog /\ Views!ProjectionTypeOK
<1>1. Views!ViewsFollowTheLog
  BY DEF ProjectionInv, UnitInv, UpTo, Views!ViewsFollowTheLog, Views!WholeView
<1>2. \A u \in Units : \A i \in 1..Len(folded[u]) : folded[u][i] \in 1..log
  BY DEF ProjectionInv, ProjectionFrame
<1> QED
  BY <1>1, <1>2 DEF ProjectionInv, ProjectionFrame, Views!ProjectionTypeOK

-----------------------------------------------------------------------------
(* The layered registries.                                                 *)

NoLinks == \A l \in Layered!Layers : parent[l] = 0
Winner(n) == Layered!Nearest(Layered!Holders(n))

(* A call on a name the consumer follows: before its callback the feed     *)
(* shows the view without the call, after it the view with it; the         *)
(* consumer is behind by the change that is to be emitted.                 *)
Before(c, n) == IF call[c].kind = "add" THEN Layered!Holders(n) \ {call[c].at}
                ELSE Layered!Holders(n) \cup {call[c].at}
CallInv(c, n) ==
  IF call[c].hears
  THEN /\ call[c].kind = "add" => call[c].at \in Layered!Holders(n)
       /\ call[c].kind = "remove" => call[c].at \notin Layered!Holders(n)
       /\ visible[n] = Layered!Nearest(Before(c, n))
       /\ n \in seen <=> visible[n] # 0
  ELSE /\ visible[n] = Winner(n)
       /\ IF call[c].emit THEN call[c].kind = "add" <=> visible[n] # 0
          ELSE n \in seen <=> visible[n] # 0

(* A name that is not mixed has one call at most, none while the feed is   *)
(* being set up, and what the consumer holds is as far as that call is.    *)
NameInv(n) ==
  /\ \A c, d \in Callers : call[c].name = n /\ call[d].name = n => c = d
  /\ stage = "seeded" => ~Layered!Active(n) /\ Layered!Agrees(n)
  /\ stage = "on" /\ NoLinks =>
       /\ ~Layered!Active(n) => Layered!Agrees(n)
       /\ \A c \in Callers : call[c].name = n => CallInv(c, n)

Calls == [kind : {"none", "add", "remove"}, name : Names \cup {"none"}, at : 0..Depth,
          hears : BOOLEAN, emit : BOOLEAN]
RegistryFrame ==
  /\ items \in [Layered!Layers -> SUBSET Names]
  /\ parent \in [Layered!Layers -> 0..Depth]
  /\ \A l \in Layered!Layers : parent[l] = 0 \/ parent[l] > l
  /\ call \in [Callers -> Calls]
  /\ visible \in [Names -> 0..Depth] /\ seen \subseteq Names /\ mixed \subseteq Names
CallsSound ==
  \A c \in Callers :
    /\ call[c] # Layered!NoCall =>
         call[c].name \in Names /\ call[c].at \in Layered!Layers /\ call[c].kind \in {"add", "remove"}
    /\ call[c].hears => ~call[c].emit
    /\ stage = "off" => ~call[c].hears /\ ~call[c].emit
FeedSound == /\ stage \in {"off", "seeded", "on"} /\ heard \subseteq Layered!Layers
             /\ stage = "off" => heard = {}
             /\ stage = "seeded" => heard # Layered!Layers
             /\ stage = "on" => heard = Layered!Layers

LayeredInv == /\ RegistryFrame /\ CallsSound /\ FeedSound
              /\ \A n \in Names \ mixed : NameInv(n)

(* The nearest of some layers.                                             *)
LEMMA NearestOf ==
  ASSUME NEW ls, ls \subseteq Layered!Layers
  PROVE  /\ ls = {} => Layered!Nearest(ls) = 0
         /\ ls # {} => Layered!Nearest(ls) \in ls /\ \A k \in ls : Layered!Nearest(ls) <= k
         /\ Layered!Nearest(ls) \in 0..Depth
<1>1. CASE ls = {}
  BY <1>1, ReadersAssumption DEF Layered!Nearest
<1>2. CASE ls # {}
  <2>1. ls \subseteq Nat /\ ls \subseteq 1..Depth
    BY DEF Layered!Layers
  <2>2. PICK l \in ls : \A k \in ls : ~(k < l)
    BY <1>2, <2>1, Least
  <2>3. \A k \in ls : l <= k
    BY <2>1, <2>2
  <2>4. Layered!Nearest(ls) = CHOOSE m \in ls : \A k \in ls : m <= k
    BY <1>2 DEF Layered!Nearest
  <2>5. Layered!Nearest(ls) \in ls /\ \A k \in ls : Layered!Nearest(ls) <= k
    BY <2>2, <2>3, <2>4
  <2>6. PICK m \in ls : m = Layered!Nearest(ls)
    BY <2>5
  <2>7. m \in 1..Depth /\ Depth \in Nat
    BY <2>1, ReadersAssumption
  <2>8. Layered!Nearest(ls) \in 0..Depth
    BY <2>6, <2>7
  <2> QED
    BY <1>2, <2>5, <2>8
<1> QED
  BY <1>1, <1>2

LEMMA NearestIs ==
  ASSUME NEW ls, ls \subseteq Layered!Layers, NEW l \in ls, \A k \in ls : l <= k
  PROVE  Layered!Nearest(ls) = l
<1>1. PICK m \in ls : m = Layered!Nearest(ls) /\ m <= l
  BY NearestOf
<1>2. l <= m /\ l \in Nat /\ m \in Nat
  BY DEF Layered!Layers
<1>3. m = l
  BY <1>1, <1>2
<1> QED
  BY <1>1, <1>3

(* An addition counts when it is nearer than the winner so far.            *)
LEMMA FeedsAddition ==
  ASSUME NEW ls, ls \subseteq Layered!Layers, NEW l \in ls,
         NEW w, w = Layered!Nearest(ls \ {l})
  PROVE  Layered!Nearest(ls) = IF w = 0 \/ l < w THEN l ELSE w
<1>1. /\ ls \ {l} = {} => w = 0
      /\ ls \ {l} # {} => w \in ls \ {l} /\ \A k \in ls \ {l} : w <= k
  BY NearestOf
<1>2. ls \subseteq Nat \ {0}
  BY DEF Layered!Layers
<1>3. CASE w = 0 \/ l < w
  <2>1. ASSUME NEW k \in ls PROVE l <= k
    <3>1. CASE k = l
      BY <1>2, <3>1
    <3>2. CASE k # l
      <4>1. w \in ls /\ w <= k /\ w # 0
        BY <1>1, <1>2, <3>2
      <4>2. k \in Nat /\ l \in Nat /\ w \in Nat /\ l < w
        BY <1>2, <1>3, <4>1
      <4> QED
        BY <4>1, <4>2
    <3> QED
      BY <3>1, <3>2
  <2> QED
    BY <1>3, <2>1, NearestIs
<1>4. CASE ~(w = 0 \/ l < w)
  <2>0. w # 0 /\ ls \ {l} # {} /\ w \in ls \ {l} /\ ~(l < w)
    BY <1>1, <1>4
  <2>a. w \in Nat /\ l \in Nat /\ w <= l
    BY <1>2, <2>0
  <2>1. w \in ls /\ \A k \in ls : w <= k
    BY <1>1, <2>0, <2>a
  <2> QED
    BY <1>4, <2>1, NearestIs
<1> QED
  BY <1>3, <1>4

(* A removal counts when the winner went: the next one is farther out.     *)
LEMMA FeedsRemoval ==
  ASSUME NEW ls, ls \subseteq Layered!Layers, NEW l \in Layered!Layers, l \notin ls,
         NEW w, w = Layered!Nearest(ls \cup {l})
  PROVE  /\ w = l => Layered!Nearest(ls) = Layered!Nearest({k \in ls : k > l})
         /\ w # l => Layered!Nearest(ls) = w
         /\ w # 0
<1>1. w \in ls \cup {l} /\ \A k \in ls \cup {l} : w <= k
  BY NearestOf
<1>2. ls \subseteq Nat \ {0} /\ l \in Nat \ {0}
  BY DEF Layered!Layers
<1>3. CASE w = l
  <2>1. {k \in ls : k > l} = ls
    <3>1. ASSUME NEW k \in ls PROVE k > l
      <4>1. l <= k /\ k # l /\ k \in Nat /\ l \in Nat
        BY <1>1, <1>2, <1>3
      <4> QED
        BY <4>1
    <3> QED
      BY <3>1
  <2> QED
    BY <1>2, <1>3, <2>1
<1>4. CASE w # l
  <2>1. w \in ls /\ \A k \in ls : w <= k
    BY <1>1, <1>4
  <2> QED
    BY <1>2, <1>4, <2>1, NearestIs
<1> QED
  BY <1>3, <1>4

LEMMA HoldersOf ==
  ASSUME RegistryFrame, NEW n
  PROVE  /\ Layered!Holders(n) \subseteq Layered!Layers
         /\ n \in Names => (n \in Layered!Visible <=> Winner(n) # 0)
         /\ Layered!Agrees(n) /\ n \in Names <=> (/\ n \in Names
                                                  /\ n \in seen <=> visible[n] # 0
                                                  /\ visible[n] = Winner(n))
  BY DEF Layered!Holders, Layered!Visible, Winner, Layered!Agrees

LEMMA InitLayeredInv == Layered!RegistryInit => LayeredInv
<1> SUFFICES ASSUME Layered!RegistryInit PROVE LayeredInv
  OBVIOUS
<1>1. Depth \in Nat \ {0} /\ "none" \notin Names
  BY ReadersAssumption
<1>2. \A c \in Callers : call[c] = Layered!NoCall /\ call[c].name = "none"
                         /\ ~call[c].hears /\ ~call[c].emit
  BY DEF Layered!RegistryInit, Layered!NoCall
<1>3. RegistryFrame
  <2>1. Layered!NoCall \in Calls
    BY <1>1 DEF Layered!NoCall, Calls
  <2> QED
    BY <1>1, <2>1 DEF Layered!RegistryInit, RegistryFrame
<1>4. CallsSound /\ FeedSound
  BY <1>2 DEF Layered!RegistryInit, CallsSound, FeedSound
<1>5. \A n \in Names : NameInv(n)
  BY <1>1, <1>2 DEF Layered!RegistryInit, NameInv
<1> QED
  BY <1>3, <1>4, <1>5 DEF LayeredInv

(* A step that leaves name n alone, with its calls and what is seen of it. *)
LEMMA OtherName ==
  ASSUME NEW n, NameInv(n), stage' = stage, parent' = parent,
         Layered!Holders(n)' = Layered!Holders(n), visible'[n] = visible[n],
         n \in seen' <=> n \in seen, n \in Layered!Visible' <=> n \in Layered!Visible,
         \A d \in Callers : call'[d].name = n <=> call[d].name = n,
         \A d \in Callers : call[d].name = n => call'[d] = call[d]
  PROVE  NameInv(n)'
<1>1. Layered!Active(n)' = Layered!Active(n)
  BY DEF Layered!Active
<1>2. (Layered!Agrees(n))' = Layered!Agrees(n) /\ Winner(n)' = Winner(n)
  BY DEF Layered!Agrees, Winner, Layered!Nearest
<1>3. \A d \in Callers : call[d].name = n => (CallInv(d, n)' <=> CallInv(d, n))
  BY <1>2 DEF CallInv, Before, Layered!Nearest
<1> QED
  BY <1>1, <1>2, <1>3 DEF NameInv, NoLinks

LEMMA BeginStep ==
  ASSUME LayeredInv, NEW c \in Callers, NEW l \in Layered!Layers, NEW n0 \in Names,
         Layered!Register(c, l, n0) \/ Layered!Unregister(c, l, n0)
  PROVE  LayeredInv'
<1>0. RegistryFrame /\ CallsSound /\ FeedSound /\ Depth \in Nat \ {0} /\ "none" \notin Names
  BY ReadersAssumption DEF LayeredInv
<1>1. PICK op \in {"add", "remove"} :
        /\ op = "add" => n0 \notin items[l] /\ items' = [items EXCEPT ![l] = @ \cup {n0}]
        /\ op = "remove" => n0 \in items[l] /\ items' = [items EXCEPT ![l] = @ \ {n0}]
        /\ Layered!Begin(c, l, n0, op)
  BY DEF Layered!Register, Layered!Unregister
<1>2. PICK new : new = [kind |-> op, name |-> n0, at |-> l, hears |-> l \in heard,
                        emit |-> FALSE]
  OBVIOUS
<1>3. /\ call[c] = Layered!NoCall /\ call' = [call EXCEPT ![c] = new]
      /\ mixed' = IF Layered!Active(n0) \/ stage = "seeded" THEN mixed \cup {n0} ELSE mixed
      /\ UNCHANGED <<parent, stage, heard, visible, seen>>
  BY <1>1, <1>2 DEF Layered!Begin
<1>4. new \in Calls /\ new.name = n0 /\ new.at = l /\ new.kind = op /\ ~new.emit
      /\ new.hears = (l \in heard)
  BY <1>2 DEF Calls, Layered!Layers
<1>5. /\ call'[c] = new /\ \A d \in Callers : d # c => call'[d] = call[d]
      /\ call[c].name = "none"
  BY <1>0, <1>3 DEF RegistryFrame, Layered!NoCall
<1>6. items' \in [Layered!Layers -> SUBSET Names]
  BY <1>0, <1>1 DEF RegistryFrame
<1>7. RegistryFrame'
  <2>1. call' \in [Callers -> Calls]
    BY <1>0, <1>3, <1>4 DEF RegistryFrame
  <2> QED
    BY <1>0, <1>3, <1>6, <2>1 DEF RegistryFrame
<1>8. CallsSound'
  <2>1. stage = "off" => ~new.hears
    BY <1>0, <1>4 DEF FeedSound
  <2> QED
    BY <1>0, <1>3, <1>4, <1>5, <2>1 DEF CallsSound
<1>9. FeedSound'
  BY <1>0, <1>3 DEF FeedSound
<1>10. ASSUME NEW n \in Names \ mixed', n # n0 PROVE NameInv(n)'
  <2>1. Layered!Holders(n)' = Layered!Holders(n)
    <3>1. \A k \in Layered!Layers : n \in items'[k] <=> n \in items[k]
      BY <1>0, <1>1, <1>10 DEF RegistryFrame
    <3> QED
      BY <3>1 DEF Layered!Holders
  <2>2. n \in Layered!Visible' <=> n \in Layered!Visible
    BY <2>1 DEF Layered!Visible, Layered!Nearest
  <2>3. \A d \in Callers : /\ call'[d].name = n <=> call[d].name = n
                           /\ call[d].name = n => call'[d] = call[d]
    BY <1>0, <1>4, <1>5, <1>10
  <2>4. NameInv(n)
    BY <1>3, <1>10 DEF LayeredInv
  <2> QED
    BY <1>3, <2>1, <2>2, <2>3, <2>4, OtherName
<1>11. ASSUME n0 \notin mixed' PROVE NameInv(n0)'
  <2>1. ~Layered!Active(n0) /\ stage # "seeded" /\ n0 \notin mixed
    BY <1>3, <1>11
  <2>2. \A d \in Callers : call'[d].name = n0 <=> d = c
    BY <1>4, <1>5, <2>1 DEF Layered!Active
  <2>3. ASSUME stage = "on", NoLinks PROVE CallInv(c, n0)'
    <3>1. /\ Layered!Agrees(n0) /\ l \in heard
      BY <1>0, <2>1, <2>3 DEF LayeredInv, NameInv, FeedSound
    <3>2. visible[n0] = Winner(n0) /\ (n0 \in seen <=> visible[n0] # 0)
      BY <1>0, <3>1, HoldersOf
    <3>3. /\ op = "add" => /\ Layered!Holders(n0)' = Layered!Holders(n0) \cup {l}
                             /\ l \notin Layered!Holders(n0)
          /\ op = "remove" => /\ Layered!Holders(n0)' = Layered!Holders(n0) \ {l}
                                /\ l \in Layered!Holders(n0)
      BY <1>0, <1>1 DEF RegistryFrame, Layered!Holders
    <3>4. Before(c, n0)' = Layered!Holders(n0)
      BY <1>4, <1>5, <3>3 DEF Before
    <3>5. Layered!Nearest(Before(c, n0)') = visible'[n0]
      BY <1>3, <3>2, <3>4 DEF Winner
    <3> QED
      BY <1>3, <1>4, <1>5, <3>1, <3>2, <3>3, <3>5 DEF CallInv, Layered!Nearest
  <2> QED
    BY <1>3, <2>1, <2>2, <2>3 DEF NameInv, Layered!Active, NoLinks
<1> QED
  BY <1>7, <1>8, <1>9, <1>10, <1>11 DEF LayeredInv

LEMMA LinkStep ==
  ASSUME LayeredInv, NEW l \in Layered!Layers, NEW p \in Layered!Layers, Layered!LinkParent(l, p)
  PROVE  LayeredInv'
<1>0. RegistryFrame /\ CallsSound /\ FeedSound
  BY DEF LayeredInv
<1>1. parent' = [parent EXCEPT ![l] = p] /\ p > l /\ p # 0 /\ p \in 0..Depth
      /\ UNCHANGED <<items, call, calls, stage, heard, visible, seen, mixed>>
  BY DEF Layered!LinkParent, Layered!Layers
<1>2. RegistryFrame'
  BY <1>0, <1>1 DEF RegistryFrame
<1>3. CallsSound' /\ FeedSound'
  BY <1>0, <1>1 DEF CallsSound, FeedSound
<1>4. ~NoLinks'
  BY <1>0, <1>1 DEF NoLinks, RegistryFrame
<1>5. ASSUME NEW n \in Names \ mixed' PROVE NameInv(n)'
  <2>1. NameInv(n)
    BY <1>1 DEF LayeredInv
  <2>2. Layered!Active(n)' = Layered!Active(n) /\ (Layered!Agrees(n))' = Layered!Agrees(n)
    BY <1>1 DEF Layered!Active, Layered!Agrees, Layered!Visible, Layered!Holders, Layered!Nearest
  <2> QED
    BY <1>1, <1>4, <2>1, <2>2 DEF NameInv
<1> QED
  BY <1>2, <1>3, <1>5 DEF LayeredInv

(* A callback, an event and a bubble change one call.                      *)
LEMMA CallMoves ==
  ASSUME LayeredInv, NEW c \in Callers, call[c] # Layered!NoCall,
         NEW n, n = call[c].name,
         NEW new \in Calls, call' = [call EXCEPT ![c] = new],
         new.name \in {n, "none"},
         visible' \in [Names -> 0..Depth], seen' \subseteq Names,
         \A m \in Names : m # n =>
           visible'[m] = visible[m] /\ (m \in seen' <=> m \in seen),
         UNCHANGED <<items, parent, stage, heard, mixed>>,
         new # Layered!NoCall =>
           new.name \in Names /\ new.at \in Layered!Layers /\ new.kind \in {"add", "remove"},
         new.hears => ~new.emit,
         stage = "off" => ~new.hears /\ ~new.emit,
         n \notin mixed /\ stage = "on" /\ NoLinks /\ new.name = n
           => CallInv(c, n)',
         n \notin mixed /\ stage = "on" /\ NoLinks /\ new.name = "none"
           => Layered!Agrees(n)'
  PROVE  LayeredInv'
<1>0. RegistryFrame /\ CallsSound /\ FeedSound /\ "none" \notin Names
  BY ReadersAssumption DEF LayeredInv
<1>1. call'[c] = new /\ \A d \in Callers : d # c => call'[d] = call[d]
  BY <1>0 DEF RegistryFrame
<1>2. RegistryFrame'
  BY <1>0 DEF RegistryFrame
<1>3. CallsSound'
  BY <1>0, <1>1 DEF CallsSound
<1>4. FeedSound'
  BY <1>0 DEF FeedSound
<1>5. \A m \in Names : /\ Layered!Holders(m)' = Layered!Holders(m)
                       /\ m \in Layered!Visible' <=> m \in Layered!Visible
  BY DEF Layered!Holders, Layered!Visible, Layered!Nearest
<1>6. ASSUME NEW m \in Names \ mixed', m # n PROVE NameInv(m)'
  <2>1. NameInv(m)
    BY DEF LayeredInv
  <2>2. \A d \in Callers : /\ call'[d].name = m <=> call[d].name = m
                           /\ call[d].name = m => call'[d] = call[d]
    BY <1>0, <1>1, <1>6
  <2> QED
    BY <1>5, <1>6, <2>1, <2>2, OtherName
<1>7. ASSUME n \notin mixed PROVE NameInv(n)'
  <2>1. n \in Names /\ NameInv(n)
    BY <1>0, <1>7 DEF LayeredInv, CallsSound
  <2>2. \A d \in Callers : call[d].name = n => d = c
    BY <2>1 DEF NameInv
  <2>3. stage # "seeded"
    BY <2>1 DEF NameInv, Layered!Active
  <2>4. \A d \in Callers : call'[d].name = n => d = c /\ new.name = n
    BY <1>1, <2>2
  <2>5. NoLinks' = NoLinks
    BY DEF NoLinks
  <2>6. ASSUME stage = "on", NoLinks
        PROVE  /\ ~Layered!Active(n)' => Layered!Agrees(n)'
               /\ \A d \in Callers : call'[d].name = n => CallInv(d, n)'
    <3>1. new.name = n => Layered!Active(n)'
      BY <1>1 DEF Layered!Active
    <3>2. ~Layered!Active(n)' => new.name = "none"
      BY <3>1
    <3>3. ~Layered!Active(n)' => Layered!Agrees(n)'
      BY <1>7, <2>6, <3>2
    <3>4. \A d \in Callers : call'[d].name = n => CallInv(d, n)'
      BY <1>7, <2>4, <2>6
    <3> QED
      BY <3>3, <3>4
  <2> QED
    BY <2>3, <2>4, <2>5, <2>6 DEF NameInv
<1>8. \A m \in Names \ mixed' : NameInv(m)'
  BY <1>6, <1>7
<1> QED
  BY <1>2, <1>3, <1>4, <1>8 DEF LayeredInv

LEMMA HearsStep ==
  ASSUME LayeredInv, NEW c \in Callers, Layered!Hears(c)
  PROVE  LayeredInv'
<1>n. PICK n : n = call[c].name
  OBVIOUS
<1> DEFINE l == call[c].at
           add == call[c].kind = "add" /\ (visible[n] = 0 \/ l < visible[n])
           removed == call[c].kind = "remove" /\ visible[n] = l
           won == IF add THEN l ELSE IF removed THEN Layered!Outer(l, n) ELSE visible[n]
           new == [call[c] EXCEPT !.hears = FALSE,
                                  !.emit = add \/ (removed /\ Layered!Outer(l, n) = 0)]
<1>0. RegistryFrame /\ CallsSound /\ FeedSound /\ Depth \in Nat \ {0}
  BY ReadersAssumption DEF LayeredInv
<1>1. call[c] # Layered!NoCall /\ call[c].hears /\ Layered!Feed(c)
      /\ UNCHANGED <<items, parent, calls, stage, heard, seen, mixed>>
  BY DEF Layered!Hears
<1>2. n \in Names /\ l \in Layered!Layers /\ call[c].kind \in {"add", "remove"}
      /\ ~call[c].emit /\ stage # "off" /\ call[c] \in Calls
  BY <1>n, <1>0, <1>1 DEF CallsSound, RegistryFrame
<1>3. Layered!Outer(l, n) \in 0..Depth
  BY NearestOf DEF Layered!Outer, Layered!Holders
<1>4. new \in Calls /\ new.name = n /\ new.at = l /\ new.kind = call[c].kind /\ ~new.hears
      /\ new.emit = (add \/ (removed /\ Layered!Outer(l, n) = 0))
  BY <1>n, <1>2 DEF Calls
<1>5. visible' = [visible EXCEPT ![n] = won]
  <2>1. CASE add
    BY <1>n, <1>1, <2>1 DEF Layered!Feed
  <2>2. CASE ~add /\ removed
    BY <1>n, <1>1, <2>2 DEF Layered!Feed, Layered!HiddenBehind
  <2>3. CASE ~add /\ ~removed
    BY <1>n, <1>0, <1>1, <1>2, <2>3 DEF Layered!Feed, Layered!HiddenBehind, RegistryFrame
  <2> QED
    BY <2>1, <2>2, <2>3
<1>6. call' = [call EXCEPT ![c] = new]
  <2>1. CASE add
    BY <1>n, <1>0, <1>1, <1>2, <2>1 DEF Layered!Feed, RegistryFrame, Calls
  <2>2. CASE ~add /\ removed
    BY <1>n, <1>0, <1>1, <1>2, <2>2 DEF Layered!Feed, Layered!HiddenBehind, RegistryFrame, Calls
  <2>3. CASE ~add /\ ~removed
    <3>1. call' = [call EXCEPT ![c].hears = FALSE]
      BY <1>n, <1>1, <2>3 DEF Layered!Feed, Layered!HiddenBehind
    <3>2. PICK r \in Calls : r = call[c] /\ r.emit = FALSE
      BY <1>2 DEF Calls
    <3>3. [r EXCEPT !.hears = FALSE, !.emit = FALSE] = [r EXCEPT !.hears = FALSE]
      BY <3>2 DEF Calls
    <3>4. new = [r EXCEPT !.hears = FALSE]
      BY <1>n, <2>3, <3>2, <3>3
    <3> QED
      BY <1>0, <3>1, <3>2, <3>4 DEF RegistryFrame
  <2> QED
    BY <2>1, <2>2, <2>3
<1>7. visible' \in [Names -> 0..Depth]
  <2>1. won \in 0..Depth
    BY <1>n, <1>0, <1>2, <1>3 DEF RegistryFrame, Layered!Layers
  <2> QED
    BY <1>n, <1>0, <1>5, <2>1 DEF RegistryFrame
<1>8. visible'[n] = won /\ \A m \in Names : m # n => visible'[m] = visible[m]
  BY <1>n, <1>0, <1>2, <1>5 DEF RegistryFrame
<1>9. ASSUME n \notin mixed, stage = "on", NoLinks PROVE CallInv(c, n)'
  <2>1. CallInv(c, n)
    BY <1>n, <1>2, <1>9 DEF LayeredInv, NameInv
  <2>2. Layered!Holders(n) \subseteq Layered!Layers /\ Layered!Holders(n)' = Layered!Holders(n)
    BY <1>n, <1>1 DEF Layered!Holders
  <2>3. won = Winner(n) /\ (IF new.emit THEN new.kind = "add" <=> won # 0
                            ELSE n \in seen <=> won # 0)
    <3>1. CASE call[c].kind = "add"
      <4>1. l \in Layered!Holders(n) /\ visible[n] = Layered!Nearest(Layered!Holders(n) \ {l})
            /\ (n \in seen <=> visible[n] # 0)
        BY <1>n, <1>1, <2>1, <3>1 DEF CallInv, Before
      <4>2. Winner(n) = IF visible[n] = 0 \/ l < visible[n] THEN l ELSE visible[n]
        BY <2>2, <4>1, FeedsAddition DEF Winner
      <4>3. l # 0 /\ ~removed
        BY <1>n, <1>2, <3>1 DEF Layered!Layers
      <4> QED
        BY <1>n, <1>4, <3>1, <4>1, <4>2, <4>3
    <3>2. CASE call[c].kind = "remove"
      <4>1. l \notin Layered!Holders(n) /\ visible[n] = Layered!Nearest(Layered!Holders(n) \cup {l})
            /\ (n \in seen <=> visible[n] # 0)
        BY <1>n, <1>1, <2>1, <3>2 DEF CallInv, Before
      <4>2. /\ visible[n] = l => Winner(n) = Layered!Outer(l, n)
            /\ visible[n] # l => Winner(n) = visible[n]
            /\ visible[n] # 0
        BY <1>n, <1>2, <2>2, <4>1, FeedsRemoval DEF Winner, Layered!Outer
      <4> QED
        BY <1>n, <1>4, <3>2, <4>1, <4>2
    <3> QED
      BY <1>n, <1>2, <3>1, <3>2
  <2>4. call'[c] = new
    BY <1>n, <1>0, <1>6 DEF RegistryFrame
  <2>5. Winner(n)' = Winner(n)
    BY <2>2 DEF Winner, Layered!Nearest
  <2> QED
    BY <1>n, <1>1, <1>4, <1>8, <2>3, <2>4, <2>5 DEF CallInv
<1>10. new.name # "none"
  BY <1>n, <1>2, <1>4, ReadersAssumption
<1> HIDE DEF new, won, add, removed
<1>11. seen' \subseteq Names
  BY <1>n, <1>0, <1>1 DEF RegistryFrame
<1> QED
  BY <1>n, <1>1, <1>2, <1>4, <1>6, <1>7, <1>8, <1>9, <1>10, <1>11, CallMoves

LEMMA EmitsStep ==
  ASSUME LayeredInv, NEW c \in Callers, Layered!Emits(c)
  PROVE  LayeredInv'
<1>n. PICK n : n = call[c].name
  OBVIOUS
<1> DEFINE new == [call[c] EXCEPT !.emit = FALSE]
<1>0. RegistryFrame /\ CallsSound /\ FeedSound
  BY DEF LayeredInv
<1>1. call[c].emit /\ call' = [call EXCEPT ![c] = new]
      /\ seen' = (IF call[c].kind = "add" THEN seen \cup {n} ELSE seen \ {n})
      /\ UNCHANGED <<items, parent, calls, stage, heard, visible, mixed>>
  BY <1>n, <1>0 DEF Layered!Emits, RegistryFrame
<1>2. call[c] # Layered!NoCall /\ ~call[c].hears
  BY <1>n, <1>0, <1>1 DEF CallsSound, Layered!NoCall
<1>3. n \in Names /\ call[c].at \in Layered!Layers /\ call[c].kind \in {"add", "remove"}
      /\ call[c] \in Calls /\ n # "none"
  BY <1>n, <1>0, <1>2, ReadersAssumption DEF CallsSound, RegistryFrame
<1>4. new \in Calls /\ new.name = n /\ new.at = call[c].at /\ new.kind = call[c].kind
      /\ ~new.hears /\ ~new.emit
  BY <1>n, <1>2, <1>3 DEF Calls
<1>5. ASSUME n \notin mixed, stage = "on", NoLinks PROVE CallInv(c, n)'
  <2>1. CallInv(c, n)
    BY <1>n, <1>3, <1>5 DEF LayeredInv, NameInv
  <2>2. visible[n] = Winner(n) /\ (call[c].kind = "add" <=> visible[n] # 0)
    BY <1>n, <1>1, <1>2, <2>1 DEF CallInv
  <2>3. Winner(n)' = Winner(n)
    BY <1>n, <1>1 DEF Winner, Layered!Nearest, Layered!Holders
  <2>4. call'[c] = new
    BY <1>n, <1>0, <1>1 DEF RegistryFrame
  <2>5. n \in seen' <=> visible[n] # 0
    BY <1>n, <1>1, <1>3, <2>2
  <2> QED
    BY <1>n, <1>1, <1>4, <2>2, <2>3, <2>4, <2>5 DEF CallInv
<1> HIDE DEF new
<1>6. seen' \subseteq Names /\ visible' \in [Names -> 0..Depth]
      /\ \A m \in Names : m # n => m \in seen' <=> m \in seen
  BY <1>n, <1>0, <1>1, <1>3 DEF RegistryFrame
<1> QED
  BY <1>n, <1>1, <1>2, <1>3, <1>4, <1>5, <1>6, CallMoves

LEMMA BubblesStep ==
  ASSUME LayeredInv, NEW c \in Callers, Layered!Bubbles(c)
  PROVE  LayeredInv'
<1>n. PICK n : n = call[c].name
  OBVIOUS
<1> DEFINE p == parent[call[c].at]
           new == IF p = 0 THEN Layered!NoCall
                  ELSE [call[c] EXCEPT !.at = p, !.hears = p \in heard]
<1>0. RegistryFrame /\ CallsSound /\ FeedSound /\ Depth \in Nat \ {0}
  BY ReadersAssumption DEF LayeredInv
<1>1. call[c] # Layered!NoCall /\ ~call[c].hears /\ ~call[c].emit
      /\ call' = [call EXCEPT ![c] = new]
      /\ UNCHANGED <<items, parent, calls, stage, heard, visible, seen, mixed>>
  BY <1>n, <1>0 DEF Layered!Bubbles, RegistryFrame
<1>2. n \in Names /\ call[c].at \in Layered!Layers /\ call[c].kind \in {"add", "remove"}
      /\ call[c] \in Calls /\ n # "none"
  BY <1>n, <1>0, <1>1, ReadersAssumption DEF CallsSound, RegistryFrame
<1>3. p \in 0..Depth
  BY <1>n, <1>0, <1>2 DEF RegistryFrame
<1>4. /\ p = 0 => new = Layered!NoCall
      /\ p # 0 => /\ new \in Calls /\ new.name = n /\ new.at = p /\ new.kind = call[c].kind
                  /\ new.hears = (p \in heard) /\ ~new.emit
  <2>1. PICK r \in Calls : r = call[c]
    BY <1>2
  <2>2. PICK q \in 0..Depth : q = p
    BY <1>3
  <2>a. (q \in heard) = TRUE \/ (q \in heard) = FALSE
    OBVIOUS
  <2>3. PICK h \in BOOLEAN : h = (q \in heard)
    BY <2>a
  <2>4. ASSUME p # 0 PROVE new = [r EXCEPT !.at = q, !.hears = h]
    BY <2>1, <2>2, <2>3, <2>4
  <2>5. [r EXCEPT !.at = q, !.hears = h] \in Calls
    BY DEF Calls
  <2>6. /\ [r EXCEPT !.at = q, !.hears = h].name = r.name
        /\ [r EXCEPT !.at = q, !.hears = h].at = q
        /\ [r EXCEPT !.at = q, !.hears = h].kind = r.kind
        /\ [r EXCEPT !.at = q, !.hears = h].hears = h
        /\ [r EXCEPT !.at = q, !.hears = h].emit = r.emit
    BY DEF Calls
  <2>7. p = 0 => new = Layered!NoCall
    OBVIOUS
  <2> QED
    BY <1>n, <1>1, <2>1, <2>2, <2>3, <2>4, <2>5, <2>6, <2>7
<1>c. Layered!NoCall \in Calls /\ Layered!NoCall.name = "none" /\ ~Layered!NoCall.hears
      /\ ~Layered!NoCall.emit
  BY <1>0 DEF Layered!NoCall, Calls
<1>5. new \in Calls /\ ~new.emit /\ new.name \in {n, "none"}
      /\ (p = 0 => new.name = "none" /\ ~new.hears)
  <2>1. CASE p = 0
    BY <1>4, <1>c, <2>1
  <2>2. CASE p # 0
    BY <1>4, <2>2
  <2> QED
    BY <2>1, <2>2
<1>6. new # Layered!NoCall =>
        new.name \in Names /\ new.at \in Layered!Layers /\ new.kind \in {"add", "remove"}
  BY <1>n, <1>0, <1>2, <1>3, <1>4 DEF Layered!Layers
<1>7. stage = "off" => ~new.hears
  BY <1>n, <1>0, <1>4, <1>5 DEF FeedSound
<1>8. ASSUME n \notin mixed, stage = "on", NoLinks
      PROVE  new.name = "none" /\ Layered!Agrees(n)'
  <2>1. p = 0
    BY <1>n, <1>2, <1>8 DEF NoLinks
  <2>2. CallInv(c, n)
    BY <1>n, <1>2, <1>8 DEF LayeredInv, NameInv
  <2>3. visible[n] = Winner(n) /\ (n \in seen <=> visible[n] # 0)
    BY <1>n, <1>1, <2>2 DEF CallInv
  <2>4. Layered!Agrees(n)
    BY <1>n, <1>0, <1>2, <2>3, HoldersOf
  <2>5. Layered!Agrees(n)'
    BY <1>n, <1>1, <2>4 DEF Layered!Agrees, Layered!Visible, Layered!Holders, Layered!Nearest
  <2> QED
    BY <1>n, <1>5, <2>1, <2>5
<1> HIDE DEF new
<1>9. seen' \subseteq Names /\ visible' \in [Names -> 0..Depth]
  BY <1>n, <1>0, <1>1 DEF RegistryFrame
<1> QED
  BY <1>n, <1>1, <1>2, <1>5, <1>6, <1>7, <1>8, <1>9, CallMoves

LEMMA FeedStarts ==
  ASSUME LayeredInv, Layered!Seeds \/ Layered!Subscribes
  PROVE  LayeredInv'
<1>0. RegistryFrame /\ CallsSound /\ FeedSound /\ Depth \in Nat \ {0}
  BY ReadersAssumption DEF LayeredInv
<1>1. CASE Layered!Seeds
  <2>1. /\ stage = "off" /\ stage' = "seeded" /\ seen' = Layered!Visible
        /\ visible' = [n \in Names |-> Winner(n)]
        /\ mixed' = mixed \cup {n \in Names : Layered!Active(n)}
        /\ UNCHANGED <<items, parent, call, calls, heard>>
    BY <1>1 DEF Layered!Seeds, Layered!Seed, Winner
  <2>2. \A n \in Names : Winner(n) \in 0..Depth
    BY NearestOf DEF Winner, Layered!Holders
  <2>3. RegistryFrame'
    BY <1>0, <2>1, <2>2 DEF RegistryFrame, Layered!Visible
  <2>4. CallsSound'
    BY <1>0, <2>1 DEF CallsSound
  <2>5. FeedSound'
    <3>1. 1 \in Layered!Layers
      BY <1>0 DEF Layered!Layers
    <3> QED
      BY <1>0, <2>1, <3>1 DEF FeedSound
  <2>6. ASSUME NEW n \in Names \ mixed' PROVE NameInv(n)'
    <3>1. NameInv(n) /\ ~Layered!Active(n) /\ ~Layered!Active(n)'
      BY <2>1 DEF LayeredInv, Layered!Active
    <3>2. Layered!Agrees(n)'
      BY <2>1 DEF Layered!Agrees, Layered!Visible, Winner, Layered!Holders, Layered!Nearest
    <3> QED
      BY <2>1, <3>1, <3>2 DEF NameInv
  <2> QED
    BY <2>3, <2>4, <2>5, <2>6 DEF LayeredInv
<1>2. CASE Layered!Subscribes
  <2> DEFINE l == Layered!Nearest(Layered!Layers \ heard)
  <2>1. /\ stage = "seeded" /\ heard' = heard \cup {l}
        /\ stage' = (IF heard' = Layered!Layers THEN "on" ELSE "seeded")
        /\ UNCHANGED <<items, parent, call, calls, visible, seen, mixed>>
    BY <1>2 DEF Layered!Subscribes
  <2>2. l \in Layered!Layers
    <3>1. Layered!Layers \ heard # {}
      BY <1>0, <2>1 DEF FeedSound
    <3> QED
      BY <3>1, NearestOf
  <2>3. RegistryFrame' /\ CallsSound' /\ FeedSound'
    BY <1>0, <2>1, <2>2 DEF RegistryFrame, CallsSound, FeedSound
  <2>4. ASSUME NEW n \in Names \ mixed' PROVE NameInv(n)'
    <3>1. NameInv(n) /\ ~Layered!Active(n) /\ ~Layered!Active(n)' /\ Layered!Agrees(n)
      BY <2>1 DEF LayeredInv, NameInv, Layered!Active
    <3>2. Layered!Agrees(n)'
      BY <2>1, <3>1 DEF Layered!Agrees, Layered!Visible, Layered!Holders, Layered!Nearest
    <3> QED
      BY <2>1, <3>1, <3>2 DEF NameInv, Layered!Active
  <2> QED
    BY <2>3, <2>4 DEF LayeredInv
<1> QED
  BY <1>1, <1>2

LEMMA NextLayeredInv == LayeredInv /\ [Layered!RegistryNext]_registryVars => LayeredInv'
<1> SUFFICES ASSUME LayeredInv, [Layered!RegistryNext]_registryVars PROVE LayeredInv'
  OBVIOUS
<1>1. CASE Layered!Seeds \/ Layered!Subscribes
  BY <1>1, FeedStarts
<1>2. ASSUME NEW l \in Layered!Layers, NEW p \in Layered!Layers, Layered!LinkParent(l, p)
      PROVE  LayeredInv'
  BY <1>2, LinkStep
<1>3. ASSUME NEW c \in Callers, NEW l \in Layered!Layers, NEW n \in Names,
             Layered!Register(c, l, n) \/ Layered!Unregister(c, l, n)
      PROVE  LayeredInv'
  BY <1>3, BeginStep
<1>4. ASSUME NEW c \in Callers, Layered!Hears(c) \/ Layered!Emits(c) \/ Layered!Bubbles(c)
      PROVE  LayeredInv'
  BY <1>4, HearsStep, EmitsStep, BubblesStep
<1>5. CASE UNCHANGED registryVars
  <2>1. UNCHANGED <<items, parent, call, calls, stage, heard, visible, seen, mixed>>
    BY <1>5 DEF registryVars
  <2>2. RegistryFrame' /\ CallsSound' /\ FeedSound'
    BY <2>1 DEF LayeredInv, RegistryFrame, CallsSound, FeedSound
  <2>3. ASSUME NEW n \in Names \ mixed' PROVE NameInv(n)'
    <3>1. NameInv(n)
      BY <2>1 DEF LayeredInv
    <3>2. Layered!Holders(n)' = Layered!Holders(n)
          /\ (n \in Layered!Visible' <=> n \in Layered!Visible)
      BY <2>1 DEF Layered!Holders, Layered!Visible, Layered!Nearest
    <3> QED
      BY <2>1, <3>1, <3>2, OtherName
  <2> QED
    BY <2>2, <2>3 DEF LayeredInv
<1> QED
  BY <1>1, <1>2, <1>3, <1>4, <1>5 DEF Layered!RegistryNext

LEMMA LayeredGuarantees == LayeredInv => Layered!FeedFollowsView /\ Layered!RegistryTypeOK
<1> SUFFICES ASSUME LayeredInv PROVE Layered!FeedFollowsView /\ Layered!RegistryTypeOK
  OBVIOUS
<1>1. RegistryFrame /\ CallsSound /\ FeedSound /\ Depth \in Nat \ {0}
  BY ReadersAssumption DEF LayeredInv
<1>2. Layered!FeedFollowsView
  BY DEF LayeredInv, NameInv, NoLinks, Layered!FeedFollowsView
<1>3. \A l \in Layered!Layers : parent[l] = 0 \/ parent[l] \in l + 1..Depth
  <2>1. ASSUME NEW l \in Layered!Layers PROVE parent[l] = 0 \/ parent[l] \in l + 1..Depth
    <3>1. parent[l] \in 0..Depth /\ (parent[l] = 0 \/ parent[l] > l) /\ l \in Nat
      BY <1>1 DEF RegistryFrame, Layered!Layers
    <3> QED
      BY <1>1, <3>1
  <2> QED
    BY <2>1
<1>4. \A c \in Callers : call[c].name \in Names \cup {"none"} /\ call[c].at \in 0..Depth
  BY <1>1 DEF RegistryFrame, Calls
<1>5. Layered!RegistryTypeOK
  BY <1>1, <1>3, <1>4 DEF Layered!RegistryTypeOK, RegistryFrame, FeedSound
<1> QED
  BY <1>2, <1>5

-----------------------------------------------------------------------------
(* The catalogs.                                                           *)

Scans == [DOMAIN Dirs -> {Catalog!Never} \cup SUBSET Skills]
Winners == [Skills -> DOMAIN Dirs \cup {Catalog!NoRoot}]
Refreshes == [on : BOOLEAN, todo : Seq(DOMAIN Dirs), entries : Winners, scanned : Scans,
              late : BOOLEAN]

(* The root of a catalog's entry is stronger than another that has the     *)
(* skill, in the order rs.                                                 *)
At(rs, d) == CHOOSE i \in 1..Len(rs) : rs[i] = d
RootSet(rs) == {rs[i] : i \in 1..Len(rs)}
Stronger(rs, d, e) ==
  \/ Dirs[d].layer > Dirs[e].layer
  \/ /\ Dirs[d].layer = Dirs[e].layer
     /\ Dirs[d].rank < Dirs[e].rank \/ (Dirs[d].rank = Dirs[e].rank /\ At(rs, d) < At(rs, e))
DecidesFor(rs, es, sc, s) ==
  IF es[s] = Catalog!NoRoot THEN \A d \in RootSet(rs) : s \notin sc[d]
  ELSE /\ es[s] \in RootSet(rs) /\ s \in sc[es[s]]
       /\ \A e \in RootSet(rs) \ {es[s]} : s \in sc[e] => Stronger(rs, es[s], e)
Decides(rs, es, sc) == \A s \in Skills : DecidesFor(rs, es, sc, s)

CatalogFrame ==
  /\ disk \in [DOMAIN Dirs -> {Catalog!Broken} \cup SUBSET Skills]
  /\ roots \in Seq(DOMAIN Dirs) /\ entries \in Winners /\ scanned \in Scans /\ adding \in Scans
  /\ fresh \in Refreshes
  /\ tools \subseteq Tools /\ list \subseteq Tools /\ cached \in BOOLEAN
Unrepeated(rs) == \A i, j \in 1..Len(rs) : rs[i] = rs[j] => i = j
OnlyRoots(rs, sc) == \A d \in DOMAIN Dirs : sc[d] # Catalog!Never => d \in RootSet(rs)

(* A Refresh has scanned the first j of the k roots it copied.             *)
RefreshInv ==
  \E j, k \in 0..Len(roots) :
    /\ j <= k /\ fresh.todo = SubSeq(roots, j + 1, k)
    /\ \A d \in DOMAIN Dirs : fresh.scanned[d] # Catalog!Never <=> \E i \in 1..j : roots[i] = d
    /\ ~fresh.late => k = Len(roots)

CatalogInv ==
  /\ CatalogFrame /\ Unrepeated(roots)
  /\ \A d \in DOMAIN Dirs : adding[d] # Catalog!Never => d \notin RootSet(roots)
  /\ OnlyRoots(roots, scanned) /\ Decides(roots, entries, scanned)
  /\ raced \/ \A d \in RootSet(roots) : scanned[d] # Catalog!Never
  /\ fresh.on => RefreshInv /\ Decides(roots, fresh.entries, fresh.scanned)
  /\ cached => list = tools

LEMMA NamesApart == /\ Catalog!NoRoot \notin DOMAIN Dirs
                    /\ "never" \notin Skills /\ "broken" \notin Skills
                    /\ \A s \in Skills : s \notin Catalog!Never
                    /\ Catalog!Never \notin SUBSET Skills /\ Catalog!Broken \notin SUBSET Skills
BY ReadersAssumption DEF Catalog!NoRoot, Catalog!Never, Catalog!Broken

LEMMA AtIs ==
  ASSUME NEW rs \in Seq(DOMAIN Dirs), Unrepeated(rs), NEW i \in 1..Len(rs)
  PROVE  At(rs, rs[i]) = i /\ rs[i] \in RootSet(rs)
BY DEF At, Unrepeated, RootSet

(* A root that found nothing yet changes nothing.                          *)
LEMMA RootAppended ==
  ASSUME NEW rs \in Seq(DOMAIN Dirs), Unrepeated(rs), NEW d \in DOMAIN Dirs, d \notin RootSet(rs)
  PROVE  /\ Append(rs, d) \in Seq(DOMAIN Dirs) /\ Unrepeated(Append(rs, d))
         /\ RootSet(Append(rs, d)) = RootSet(rs) \cup {d}
         /\ \A e \in RootSet(rs) : At(Append(rs, d), e) = At(rs, e) /\ At(rs, e) \in 1..Len(rs)
         /\ At(Append(rs, d), d) = Len(rs) + 1
<1> DEFINE r2 == Append(rs, d)
<1>1. /\ r2 \in Seq(DOMAIN Dirs) /\ Len(r2) = Len(rs) + 1 /\ Len(rs) \in Nat
      /\ \A i \in 1..Len(rs) : r2[i] = rs[i]
      /\ r2[Len(rs) + 1] = d
  OBVIOUS
<1> HIDE DEF r2
<1>2. \A i \in 1..Len(rs) : rs[i] # d
  BY DEF RootSet
<1>3. Unrepeated(r2)
  <2>1. ASSUME NEW i \in 1..Len(r2), NEW j \in 1..Len(r2), r2[i] = r2[j] PROVE i = j
    <3>1. CASE i <= Len(rs) /\ j <= Len(rs)
      <4>1. i \in 1..Len(rs) /\ j \in 1..Len(rs) /\ rs[i] = rs[j]
        BY <1>1, <2>1, <3>1
      <4> QED
        BY <4>1 DEF Unrepeated
    <3>2. CASE ~(i <= Len(rs)) \/ ~(j <= Len(rs))
      BY <1>1, <1>2, <2>1, <3>2
    <3> QED
      BY <3>1, <3>2
  <2> QED
    BY <2>1 DEF Unrepeated
<1>4. RootSet(r2) = RootSet(rs) \cup {d}
  <2>1. \A i \in 1..Len(r2) : r2[i] \in RootSet(rs) \cup {d}
    <3>1. ASSUME NEW i \in 1..Len(r2) PROVE r2[i] \in RootSet(rs) \cup {d}
      <4>1. i \in 1..Len(rs) \/ i = Len(rs) + 1
        BY <1>1
      <4> QED
        BY <1>1, <4>1 DEF RootSet
    <3> QED
      BY <3>1
  <2>2. \A i \in 1..Len(rs) : i \in 1..Len(r2) /\ rs[i] = r2[i]
    BY <1>1
  <2>3. Len(rs) + 1 \in 1..Len(r2)
    BY <1>1
  <2> QED
    BY <1>1, <2>1, <2>2, <2>3 DEF RootSet
<1>5. ASSUME NEW e \in RootSet(rs)
      PROVE  At(r2, e) = At(rs, e) /\ At(rs, e) \in 1..Len(rs)
  <2>1. PICK i \in 1..Len(rs) : rs[i] = e
    BY DEF RootSet
  <2>2. At(rs, e) = i
    BY <2>1, AtIs
  <2>3. i \in 1..Len(r2) /\ r2[i] = e
    BY <1>1, <2>1
  <2>4. At(r2, e) = i
    BY <1>1, <1>3, <2>3, AtIs
  <2> QED
    BY <2>2, <2>4
<1>6. At(r2, d) = Len(rs) + 1
  <2>1. Len(rs) + 1 \in 1..Len(r2)
    BY <1>1
  <2> QED
    BY <1>1, <1>3, <2>1, AtIs
<1> QED
  BY <1>1, <1>3, <1>4, <1>5, <1>6 DEF r2

LEMMA DecidesExtended ==
  ASSUME NEW rs \in Seq(DOMAIN Dirs), Unrepeated(rs), NEW d \in DOMAIN Dirs, d \notin RootSet(rs),
         NEW es \in Winners, NEW sc \in Scans, sc[d] = Catalog!Never, Decides(rs, es, sc)
  PROVE  Decides(Append(rs, d), es, sc)
<1> DEFINE r2 == Append(rs, d)
<1>1. /\ RootSet(r2) = RootSet(rs) \cup {d}
      /\ \A e \in RootSet(rs) : At(r2, e) = At(rs, e)
  BY RootAppended
<1> HIDE DEF r2
<1>2. ASSUME NEW s \in Skills PROVE DecidesFor(r2, es, sc, s)
  <2>1. DecidesFor(rs, es, sc, s) /\ s \notin sc[d]
    BY NamesApart DEF Decides
  <2>2. CASE es[s] = Catalog!NoRoot
    BY <1>1, <2>1, <2>2 DEF DecidesFor
  <2>3. CASE es[s] # Catalog!NoRoot
    <3>1. es[s] \in RootSet(rs) /\ s \in sc[es[s]]
          /\ \A e \in RootSet(rs) \ {es[s]} : s \in sc[e] => Stronger(rs, es[s], e)
      BY <2>1, <2>3 DEF DecidesFor
    <3>2. ASSUME NEW e \in RootSet(r2) \ {es[s]}, s \in sc[e] PROVE Stronger(r2, es[s], e)
      <4>1. e \in RootSet(rs)
        BY <1>1, <2>1, <3>2
      <4> QED
        BY <1>1, <3>1, <3>2, <4>1 DEF Stronger
    <3> QED
      BY <1>1, <2>3, <3>1, <3>2 DEF DecidesFor
  <2> QED
    BY <2>2, <2>3
<1> QED
  BY <1>2 DEF Decides, r2

(* The scan of a root after every root that was scanned before it.         *)
LEMMA ScanInserted ==
  ASSUME NEW rs \in Seq(DOMAIN Dirs), Unrepeated(rs), NEW d \in RootSet(rs),
         NEW es \in Winners, NEW sc \in Scans, Decides(rs, es, sc), sc[d] = Catalog!Never,
         \A e \in RootSet(rs) : sc[e] # Catalog!Never => At(rs, e) < At(rs, d),
         NEW names \in SUBSET Skills
  PROVE  /\ Decides(rs, Catalog!Inserted(es, d, names), [sc EXCEPT ![d] = names])
         /\ Catalog!Inserted(es, d, names) \in Winners /\ [sc EXCEPT ![d] = names] \in Scans
<1> DEFINE es2 == Catalog!Inserted(es, d, names)  sc2 == [sc EXCEPT ![d] = names]
<1>0. d \in DOMAIN Dirs /\ RootSet(rs) \subseteq DOMAIN Dirs
  BY DEF RootSet
<1>1. \A s \in Skills :
        es2[s] = IF s \in names /\ (es[s] = Catalog!NoRoot \/ Catalog!Beats(d, es[s])) THEN d
                 ELSE es[s]
  BY DEF Catalog!Inserted
<1>2. sc2[d] = names /\ \A e \in DOMAIN Dirs : e # d => sc2[e] = sc[e]
  BY <1>0 DEF Scans
<1>3. es2 \in Winners
  BY <1>0 DEF Catalog!Inserted, Winners
<1>4. sc2 \in Scans
  BY <1>0 DEF Scans
<1> HIDE DEF es2, sc2
<1>5. ASSUME NEW s \in Skills PROVE DecidesFor(rs, es2, sc2, s)
  <2>1. DecidesFor(rs, es, sc, s) /\ s \notin sc[d] /\ d # Catalog!NoRoot
    BY <1>0, NamesApart DEF Decides
  <2>2. CASE s \notin names
    <3>1. es2[s] = es[s] /\ \A e \in RootSet(rs) : s \in sc2[e] <=> s \in sc[e]
      BY <1>0, <1>1, <1>2, <2>1, <2>2
    <3> QED
      BY <2>1, <3>1 DEF DecidesFor
  <2>3. CASE s \in names /\ es[s] = Catalog!NoRoot
    <3>1. es2[s] = d /\ \A e \in RootSet(rs) : s \notin sc[e]
      BY <1>1, <2>1, <2>3 DEF DecidesFor
    <3>2. \A e \in RootSet(rs) \ {d} : s \notin sc2[e]
      BY <1>0, <1>2, <3>1
    <3> QED
      BY <1>2, <2>1, <2>3, <3>1, <3>2 DEF DecidesFor
  <2>4. CASE s \in names /\ es[s] # Catalog!NoRoot
    <3>1. PICK w : w = es[s]
      OBVIOUS
    <3>2. w \in RootSet(rs) /\ s \in sc[w] /\ w # d /\ w # Catalog!NoRoot /\ sc[w] # Catalog!Never
      BY <2>1, <2>4, <3>1, NamesApart DEF DecidesFor
    <3>3. ASSUME NEW e \in RootSet(rs) \ {w}, s \in sc[e] PROVE Stronger(rs, w, e)
      BY <2>1, <2>4, <3>1, <3>3 DEF DecidesFor
    <3>4. At(rs, w) < At(rs, d)
      BY <3>2
    <3>5. CASE Catalog!Beats(d, w)
      <4>1. es2[s] = d
        BY <1>1, <2>4, <3>1, <3>5
      <4>2. ASSUME NEW e \in RootSet(rs) \ {d}, s \in sc2[e] PROVE Stronger(rs, d, e)
        <5>1. s \in sc[e] /\ e \in DOMAIN Dirs /\ w \in DOMAIN Dirs
          BY <1>0, <1>2, <3>2, <4>2
        <5>2. /\ Dirs[d].rank \in Int /\ Dirs[d].layer \in Int
              /\ Dirs[e].rank \in Int /\ Dirs[e].layer \in Int
              /\ Dirs[w].rank \in Int /\ Dirs[w].layer \in Int
          BY <1>0, <5>1, ReadersAssumption
        <5>3. e = w \/ Stronger(rs, w, e)
          BY <3>3, <5>1
        <5> QED
          BY <3>5, <5>2, <5>3 DEF Stronger, Catalog!Beats
      <4> QED
        BY <1>2, <2>1, <2>4, <4>1, <4>2 DEF DecidesFor
    <3>6. CASE ~Catalog!Beats(d, w)
      <4>1. es2[s] = w /\ s \in sc2[w]
        BY <1>0, <1>1, <1>2, <2>4, <3>1, <3>2, <3>6
      <4>2. ASSUME NEW e \in RootSet(rs) \ {w}, s \in sc2[e] PROVE Stronger(rs, w, e)
        <5>1. CASE e = d
          <6>1. /\ Dirs[d].rank \in Int /\ Dirs[d].layer \in Int
                /\ Dirs[w].rank \in Int /\ Dirs[w].layer \in Int
            BY <1>0, <3>2, ReadersAssumption
          <6> QED
            BY <3>4, <3>6, <5>1, <6>1 DEF Stronger, Catalog!Beats
        <5>2. CASE e # d
          BY <1>0, <1>2, <3>3, <4>2, <5>2
        <5> QED
          BY <5>1, <5>2
      <4> QED
        BY <3>2, <4>1, <4>2 DEF DecidesFor
    <3> QED
      BY <3>5, <3>6
  <2> QED
    BY <2>2, <2>3, <2>4
<1> QED
  BY <1>3, <1>4, <1>5 DEF Decides, es2, sc2

LEMMA InitCatalogInv == Catalog!CatalogsInit => CatalogInv
<1> SUFFICES ASSUME Catalog!CatalogsInit PROVE CatalogInv
  OBVIOUS
<1> DEFINE none == [s \in Skills |-> Catalog!NoRoot]
           unread == [d \in DOMAIN Dirs |-> Catalog!Never]
<1>1. /\ disk = [d \in DOMAIN Dirs |-> {}] /\ roots = <<>> /\ entries = none /\ adding = unread
      /\ fresh = Catalog!NoRefresh /\ scanned = unread
      /\ tools = {} /\ list = {} /\ cached = FALSE
  BY DEF Catalog!CatalogsInit, Catalog!Nothing, Catalog!Unscanned
<1>2. none \in Winners /\ unread \in Scans
  BY DEF Winners, Scans
<1>3. Catalog!NoRefresh = [on |-> FALSE, todo |-> <<>>, entries |-> none, scanned |-> unread,
                           late |-> FALSE]
  BY DEF Catalog!NoRefresh, Catalog!Nothing, Catalog!Unscanned
<1>4. CatalogFrame
  <2>1. <<>> \in Seq(DOMAIN Dirs)
    OBVIOUS
  <2>2. Catalog!NoRefresh \in Refreshes
    BY <1>2, <1>3, <2>1 DEF Refreshes
  <2>3. disk \in [DOMAIN Dirs -> {Catalog!Broken} \cup SUBSET Skills]
    BY <1>1
  <2> QED
    BY <1>1, <1>2, <2>1, <2>2, <2>3 DEF CatalogFrame
<1>5. RootSet(roots) = {} /\ Unrepeated(roots)
  BY <1>1 DEF RootSet, Unrepeated
<1>6. Decides(roots, entries, scanned)
  BY <1>1, <1>5 DEF Decides, DecidesFor
<1> QED
  BY <1>1, <1>3, <1>4, <1>5, <1>6 DEF CatalogInv, OnlyRoots

LEMMA RootsHeld ==
  ASSUME CatalogFrame
  PROVE  /\ Catalog!ToSet(roots) = RootSet(roots) /\ RootSet(roots) \subseteq DOMAIN Dirs
         /\ \A d : Catalog!Contains(roots, d) <=> d \in RootSet(roots)
         /\ \A d \in RootSet(roots) : Catalog!Order(d) = At(roots, d)
BY DEF Catalog!ToSet, RootSet, CatalogFrame, Catalog!Contains, Catalog!Order, At

LEMMA AddRootStep ==
  ASSUME CatalogInv, NEW d \in DOMAIN Dirs, Catalog!AddRootInserts(d),
         UNCHANGED <<tools, list, cached>>
  PROVE  CatalogInv'
<1> DEFINE names == adding[d]
<1>0. CatalogFrame /\ Unrepeated(roots)
  BY DEF CatalogInv
<1>1. /\ names # Catalog!Never /\ roots' = Append(roots, d)
      /\ entries' = Catalog!Inserted(entries, d, names)
      /\ scanned' = [scanned EXCEPT ![d] = names]
      /\ adding' = [adding EXCEPT ![d] = Catalog!Never]
      /\ fresh' = [fresh EXCEPT !.late = @ \/ fresh.on]
      /\ UNCHANGED <<disk, edits, refreshes, raced>>
  BY DEF Catalog!AddRootInserts
<1>2. names \in SUBSET Skills /\ d \notin RootSet(roots)
  BY <1>0, <1>1 DEF CatalogInv, CatalogFrame, Scans
<1> HIDE DEF names
<1>3. /\ roots' \in Seq(DOMAIN Dirs) /\ Unrepeated(roots') /\ RootSet(roots') = RootSet(roots) \cup {d}
      /\ Len(roots') = Len(roots) + 1
      /\ \A e \in RootSet(roots) : At(roots', e) < At(roots', d)
  <2>1. roots \in Seq(DOMAIN Dirs)
    BY <1>0 DEF CatalogFrame
  <2>2. /\ roots' \in Seq(DOMAIN Dirs) /\ Unrepeated(roots')
        /\ RootSet(roots') = RootSet(roots) \cup {d}
        /\ \A e \in RootSet(roots) : At(roots', e) = At(roots, e) /\ At(roots, e) \in 1..Len(roots)
        /\ At(roots', d) = Len(roots) + 1
    BY <1>0, <1>1, <1>2, <2>1, RootAppended
  <2>3. Len(roots') = Len(roots) + 1 /\ Len(roots) \in Nat
    BY <1>1, <2>1
  <2> QED
    BY <2>2, <2>3
<1>4. Decides(roots', entries', scanned') /\ entries' \in Winners /\ scanned' \in Scans
  <2>1. roots \in Seq(DOMAIN Dirs) /\ entries \in Winners /\ scanned \in Scans
    BY <1>0 DEF CatalogFrame
  <2>2. scanned[d] = Catalog!Never
    BY <1>2 DEF CatalogInv, OnlyRoots
  <2>3. Decides(roots', entries, scanned)
    BY <1>0, <1>1, <1>2, <2>1, <2>2, DecidesExtended DEF CatalogInv
  <2>4. \A e \in RootSet(roots') : scanned[e] # Catalog!Never => At(roots', e) < At(roots', d)
    BY <1>3, <2>2
  <2>5. d \in RootSet(roots')
    BY <1>3
  <2> QED
    BY <1>1, <1>2, <1>3, <2>1, <2>2, <2>3, <2>4, <2>5, ScanInserted
<1>5. /\ fresh' \in Refreshes /\ fresh'.on = fresh.on /\ fresh'.todo = fresh.todo
      /\ fresh'.entries = fresh.entries /\ fresh'.scanned = fresh.scanned
      /\ fresh'.late = (fresh.late \/ fresh.on)
  BY <1>0, <1>1 DEF CatalogFrame, Refreshes
<1>6. CatalogFrame'
  <2>1. Catalog!Never \in {Catalog!Never} \cup SUBSET Skills
    OBVIOUS
  <2>2. adding' \in Scans
    BY <1>0, <1>1, <2>1 DEF CatalogFrame, Scans
  <2> QED
    BY <1>0, <1>1, <1>3, <1>4, <1>5, <2>2 DEF CatalogFrame
<1>7. \A e \in DOMAIN Dirs : adding'[e] # Catalog!Never => e \notin RootSet(roots')
  BY <1>0, <1>1, <1>3 DEF CatalogInv, CatalogFrame, Scans
<1>8. /\ scanned'[d] # Catalog!Never
      /\ \A e \in DOMAIN Dirs : e # d => scanned'[e] = scanned[e]
  BY <1>0, <1>1 DEF CatalogFrame, Scans, names
<1>9. OnlyRoots(roots', scanned')
  BY <1>3, <1>8 DEF CatalogInv, OnlyRoots
<1>10. raced' \/ \A e \in RootSet(roots') : scanned'[e] # Catalog!Never
  <2>1. RootSet(roots) \subseteq DOMAIN Dirs
    BY <1>0, RootsHeld
  <2> QED
    BY <1>1, <1>2, <1>3, <1>8, <2>1 DEF CatalogInv
<1>11. ASSUME fresh'.on PROVE RefreshInv' /\ Decides(roots', fresh'.entries, fresh'.scanned)
  <2>1. RefreshInv /\ Decides(roots, fresh.entries, fresh.scanned) /\ fresh'.late
    BY <1>5, <1>11 DEF CatalogInv
  <2>2. PICK j, k \in 0..Len(roots) :
          /\ j <= k /\ fresh.todo = SubSeq(roots, j + 1, k)
          /\ \A e \in DOMAIN Dirs : fresh.scanned[e] # Catalog!Never
                                    <=> \E i \in 1..j : roots[i] = e
    BY <2>1 DEF RefreshInv
  <2>3. roots \in Seq(DOMAIN Dirs) /\ Len(roots) \in Nat
        /\ \A i \in 1..Len(roots) : roots'[i] = roots[i]
    BY <1>0, <1>1 DEF CatalogFrame
  <2>4. SubSeq(roots', j + 1, k) = SubSeq(roots, j + 1, k)
    BY <1>3, <2>2, <2>3
  <2>5. j \in 0..Len(roots') /\ k \in 0..Len(roots')
    BY <1>3, <2>3
  <2>6. ASSUME NEW e \in DOMAIN Dirs
        PROVE  (\E i \in 1..j : roots[i] = e) <=> (\E i \in 1..j : roots'[i] = e)
    <3>1. \A i \in 1..j : roots'[i] = roots[i]
      BY <2>2, <2>3
    <3> QED
      BY <3>1
  <2>7. RefreshInv'
    <3>1. /\ j <= k /\ fresh'.todo = SubSeq(roots', j + 1, k)
          /\ \A e \in DOMAIN Dirs : fresh'.scanned[e] # Catalog!Never
                                    <=> \E i \in 1..j : roots'[i] = e
          /\ ~fresh'.late => k = Len(roots')
      BY <1>5, <2>1, <2>2, <2>4, <2>6
    <3> QED
      BY <2>5, <3>1 DEF RefreshInv
  <2>8. fresh.scanned[d] = Catalog!Never
    BY <1>2, <2>2, <2>3 DEF RootSet
  <2>9. fresh.entries \in Winners /\ fresh.scanned \in Scans
    BY <1>0 DEF CatalogFrame, Refreshes
  <2>10. Decides(roots', fresh.entries, fresh.scanned)
    BY <1>0, <1>1, <1>2, <2>1, <2>3, <2>8, <2>9, DecidesExtended
  <2> QED
    BY <1>5, <2>7, <2>10
<1> QED
  BY <1>1, <1>3, <1>4, <1>6, <1>7, <1>9, <1>10, <1>11 DEF CatalogInv

LEMMA RefreshScansStep ==
  ASSUME CatalogInv, Catalog!RefreshScans, UNCHANGED <<tools, list, cached>>
  PROVE  CatalogInv'
<1> DEFINE d == Head(fresh.todo)
<1>0. CatalogFrame /\ Unrepeated(roots) /\ roots \in Seq(DOMAIN Dirs) /\ Len(roots) \in Nat
  BY DEF CatalogInv, CatalogFrame
<1>1. /\ fresh.on /\ fresh.todo # <<>>
      /\ fresh' = IF disk[d] = Catalog!Broken THEN Catalog!NoRefresh
                  ELSE [fresh EXCEPT !.todo = Tail(@), !.entries = Catalog!Inserted(@, d, disk[d]),
                                     !.scanned[d] = disk[d]]
      /\ UNCHANGED <<disk, edits, roots, entries, adding, refreshes, scanned, raced>>
  BY DEF Catalog!RefreshScans
<1>2. SUFFICES fresh' \in Refreshes
               /\ (fresh'.on => RefreshInv' /\ Decides(roots, fresh'.entries, fresh'.scanned))
  BY <1>0, <1>1 DEF CatalogInv, CatalogFrame
<1>3. CASE disk[d] = Catalog!Broken
  <2>1. fresh' = [on |-> FALSE, todo |-> <<>>, entries |-> [s \in Skills |-> Catalog!NoRoot],
                  scanned |-> [e \in DOMAIN Dirs |-> Catalog!Never], late |-> FALSE]
    BY <1>1, <1>3 DEF Catalog!NoRefresh, Catalog!Nothing, Catalog!Unscanned
  <2> QED
    BY <2>1 DEF Refreshes, Winners, Scans
<1>4. CASE disk[d] # Catalog!Broken
  <2>1. PICK j, k \in 0..Len(roots) :
          /\ j <= k /\ fresh.todo = SubSeq(roots, j + 1, k)
          /\ \A e \in DOMAIN Dirs : fresh.scanned[e] # Catalog!Never
                                    <=> \E i \in 1..j : roots[i] = e
          /\ ~fresh.late => k = Len(roots)
    BY <1>1 DEF CatalogInv, RefreshInv
  <2>2. j < k
    BY <1>0, <1>1, <2>1
  <2>3. PICK e : e = roots[j + 1]
    OBVIOUS
  <2>4. d = e /\ e \in DOMAIN Dirs /\ j + 1 \in 1..Len(roots)
        /\ Tail(fresh.todo) = SubSeq(roots, j + 1 + 1, k)
    BY <1>0, <2>1, <2>2, <2>3
  <2>5. PICK names \in SUBSET Skills : names = disk[e]
    BY <1>0, <1>4, <2>4 DEF CatalogFrame
  <2>6. fresh \in Refreshes /\ fresh.entries \in Winners /\ fresh.scanned \in Scans
        /\ fresh.todo \in Seq(DOMAIN Dirs)
    BY <1>0 DEF CatalogFrame, Refreshes
  <2>7. At(roots, e) = j + 1 /\ e \in RootSet(roots)
    BY <1>0, <2>3, <2>4, AtIs
  <2>8. \A i \in 1..j : roots[i] # e
    BY <1>0, <2>1, <2>3, <2>4 DEF Unrepeated
  <2>9. fresh.scanned[e] = Catalog!Never
    BY <2>1, <2>4, <2>8
  <2>10. ASSUME NEW x \in RootSet(roots), fresh.scanned[x] # Catalog!Never
         PROVE  At(roots, x) < At(roots, e)
    <3>1. x \in DOMAIN Dirs
      BY <1>0, RootsHeld
    <3>2. PICK i \in 1..j : roots[i] = x
      BY <2>1, <2>10, <3>1
    <3>3. At(roots, x) = i
      BY <1>0, <2>1, <3>2, AtIs
    <3> QED
      BY <2>7, <3>2, <3>3
  <2>11. PICK es \in Winners, sc \in Scans :
           /\ es = Catalog!Inserted(fresh.entries, e, names)
           /\ sc = [fresh.scanned EXCEPT ![e] = names]
           /\ Decides(roots, es, sc)
    BY <1>0, <1>1, <2>6, <2>7, <2>9, <2>10, ScanInserted DEF CatalogInv
  <2>12. fresh' = [fresh EXCEPT !.todo = Tail(fresh.todo), !.entries = es, !.scanned = sc]
    BY <1>1, <1>4, <2>4, <2>5, <2>11
  <2>13. PICK rest \in Seq(DOMAIN Dirs) : rest = Tail(fresh.todo)
    BY <1>1, <2>6, HeadTailProperties
  <2>14. /\ fresh' \in Refreshes /\ fresh'.todo = rest /\ fresh'.entries = es
         /\ fresh'.scanned = sc /\ fresh'.late = fresh.late
    BY <2>6, <2>11, <2>12, <2>13 DEF Refreshes
  <2>15. RefreshInv'
    <3>1. j + 1 \in 0..Len(roots) /\ j + 1 <= k
      BY <1>0, <2>1, <2>2
    <3>2. ASSUME NEW x \in DOMAIN Dirs
          PROVE  sc[x] # Catalog!Never <=> \E i \in 1..j + 1 : roots[i] = x
      <4>1. CASE x = e
        <5>1. sc[x] # Catalog!Never
          BY <2>4, <2>6, <2>11, <4>1, NamesApart DEF Scans
        <5>2. j + 1 \in 1..j + 1
          BY <2>1
        <5> QED
          BY <2>3, <4>1, <5>1, <5>2
      <4>2. CASE x # e
        <5>1. sc[x] = fresh.scanned[x]
          BY <2>4, <2>6, <2>11, <4>2 DEF Scans
        <5>2. \A i \in 1..j + 1 : roots[i] = x => i \in 1..j
          BY <2>1, <2>3, <4>2
        <5>3. \A i \in 1..j : i \in 1..j + 1
          BY <2>1
        <5> QED
          BY <2>1, <5>1, <5>2, <5>3
      <4> QED
        BY <4>1, <4>2
    <3>3. /\ fresh'.todo = SubSeq(roots', j + 1 + 1, k)
          /\ \A x \in DOMAIN Dirs : fresh'.scanned[x] # Catalog!Never
                                    <=> \E i \in 1..j + 1 : roots'[i] = x
          /\ ~fresh'.late => k = Len(roots')
      BY <1>1, <2>1, <2>4, <2>13, <2>14, <3>2
    <3>4. j + 1 \in 0..Len(roots') /\ k \in 0..Len(roots')
      BY <1>1, <3>1
    <3> QED
      BY <3>1, <3>3, <3>4 DEF RefreshInv
  <2> QED
    BY <2>11, <2>14, <2>15
<1> QED
  BY <1>3, <1>4

LEMMA RefreshEnds ==
  ASSUME CatalogInv, Catalog!RefreshStarts \/ Catalog!RefreshReplaces,
         UNCHANGED <<tools, list, cached>>
  PROVE  CatalogInv'
<1> DEFINE none == [s \in Skills |-> Catalog!NoRoot]
           unread == [d \in DOMAIN Dirs |-> Catalog!Never]
<1>0. CatalogFrame /\ Unrepeated(roots) /\ roots \in Seq(DOMAIN Dirs) /\ Len(roots) \in Nat
  BY DEF CatalogInv, CatalogFrame
<1>1. Catalog!NoRefresh = [on |-> FALSE, todo |-> <<>>, entries |-> none, scanned |-> unread,
                           late |-> FALSE]
  BY DEF Catalog!NoRefresh, Catalog!Nothing, Catalog!Unscanned
<1>2. none \in Winners /\ unread \in Scans /\ Catalog!NoRefresh \in Refreshes
  BY <1>1 DEF Winners, Scans, Refreshes
<1>3. CASE Catalog!RefreshStarts
  <2>1. /\ fresh' = [Catalog!NoRefresh EXCEPT !.on = TRUE, !.todo = roots]
        /\ UNCHANGED <<disk, edits, roots, entries, adding, scanned, raced>>
    BY <1>3 DEF Catalog!RefreshStarts
  <2>2. /\ fresh' \in Refreshes /\ fresh'.todo = roots /\ fresh'.entries = none
        /\ fresh'.scanned = unread
    BY <1>0, <1>1, <1>2, <2>1 DEF Refreshes
  <2>3. RefreshInv'
    <3>1. 0 \in 0..Len(roots) /\ Len(roots) \in 0..Len(roots) /\ 0 <= Len(roots)
      BY <1>0
    <3>2. roots = SubSeq(roots, 0 + 1, Len(roots))
      BY <1>0
    <3>3. \A e \in DOMAIN Dirs : ~(\E i \in 1..0 : roots[i] = e) /\ unread[e] = Catalog!Never
      OBVIOUS
    <3> QED
      BY <2>1, <2>2, <3>1, <3>2, <3>3 DEF RefreshInv
  <2>4. Decides(roots, none, unread)
    BY NamesApart, RootsHeld, <1>0 DEF Decides, DecidesFor
  <2> QED
    BY <1>0, <2>1, <2>2, <2>3, <2>4 DEF CatalogInv, CatalogFrame
<1>4. CASE Catalog!RefreshReplaces
  <2>1. /\ fresh.on /\ fresh.todo = <<>> /\ entries' = fresh.entries
        /\ scanned' = fresh.scanned /\ fresh' = Catalog!NoRefresh /\ raced' = fresh.late
        /\ UNCHANGED <<disk, edits, roots, adding, refreshes>>
    BY <1>4 DEF Catalog!RefreshReplaces
  <2>2. PICK j, k \in 0..Len(roots) :
          /\ j <= k /\ fresh.todo = SubSeq(roots, j + 1, k)
          /\ \A e \in DOMAIN Dirs : fresh.scanned[e] # Catalog!Never
                                    <=> \E i \in 1..j : roots[i] = e
          /\ ~fresh.late => k = Len(roots)
    BY <2>1 DEF CatalogInv, RefreshInv
  <2>3. j = k
    BY <1>0, <2>1, <2>2
  <2>4. fresh.entries \in Winners /\ fresh.scanned \in Scans
    BY <1>0 DEF CatalogFrame, Refreshes
  <2>5. OnlyRoots(roots, fresh.scanned)
    BY <1>0, <2>2 DEF OnlyRoots, RootSet
  <2>6. raced' \/ \A d \in RootSet(roots) : fresh.scanned[d] # Catalog!Never
    <3>1. RootSet(roots) \subseteq DOMAIN Dirs
      BY <1>0, RootsHeld
    <3> QED
      BY <2>1, <2>2, <2>3, <3>1 DEF RootSet
  <2> QED
    BY <1>0, <1>1, <1>2, <2>1, <2>4, <2>5, <2>6 DEF CatalogInv, CatalogFrame
<1> QED
  BY <1>3, <1>4

LEMMA NextCatalogInv == CatalogInv /\ [Catalog!CatalogsNext]_catalogVars => CatalogInv'
<1> SUFFICES ASSUME CatalogInv, [Catalog!CatalogsNext]_catalogVars PROVE CatalogInv'
  OBVIOUS
<1>0. CatalogFrame
  BY DEF CatalogInv
<1>1. CASE Catalog!SkillsNext /\ UNCHANGED <<tools, list, cached>>
  <2>1. ASSUME NEW d \in DOMAIN Dirs, NEW names \in {Catalog!Broken} \cup SUBSET Skills,
               Catalog!Edit(d, names)
        PROVE  CatalogInv'
    <3>1. disk' \in [DOMAIN Dirs -> {Catalog!Broken} \cup SUBSET Skills]
          /\ UNCHANGED <<roots, entries, adding, fresh, refreshes, scanned, raced>>
      BY <1>0, <2>1 DEF Catalog!Edit, CatalogFrame
    <3> QED
      BY <1>1, <3>1 DEF CatalogInv, CatalogFrame, RefreshInv
  <2>2. ASSUME NEW d \in DOMAIN Dirs, Catalog!AddRootScans(d) PROVE CatalogInv'
    <3>1. /\ d \notin RootSet(roots) /\ disk[d] # Catalog!Broken
          /\ adding' = [adding EXCEPT ![d] = disk[d]]
          /\ UNCHANGED <<disk, edits, roots, entries, fresh, refreshes, scanned, raced>>
      BY <1>0, <2>2, RootsHeld DEF Catalog!AddRootScans
    <3>2. disk[d] \in SUBSET Skills
      BY <1>0, <3>1 DEF CatalogFrame
    <3>3. adding' \in Scans
          /\ \A e \in DOMAIN Dirs : adding'[e] # Catalog!Never => e \notin RootSet(roots)
      BY <1>0, <3>1, <3>2 DEF CatalogInv, CatalogFrame, Scans
    <3> QED
      BY <1>1, <3>1, <3>3 DEF CatalogInv, CatalogFrame, RefreshInv
  <2> QED
    BY <1>1, <2>1, <2>2, AddRootStep, RefreshScansStep, RefreshEnds DEF Catalog!SkillsNext
<1>2. CASE Catalog!ToolsNext /\ UNCHANGED skillVars
  <2>1. UNCHANGED <<disk, roots, entries, adding, fresh, scanned, raced>>
    BY <1>2 DEF skillVars
  <2>2. tools' \subseteq Tools /\ list' \subseteq Tools /\ cached' \in BOOLEAN
        /\ (cached' => list' = tools')
    BY <1>0, <1>2 DEF Catalog!ToolsNext, Catalog!AddTool, Catalog!RemoveTool,
                      Catalog!ListTools, Catalog!DropsCache, CatalogInv, CatalogFrame
  <2> QED
    BY <2>1, <2>2 DEF CatalogInv, CatalogFrame, RefreshInv
<1>3. CASE UNCHANGED catalogVars
  BY <1>3 DEF catalogVars, skillVars, toolVars, CatalogInv, CatalogFrame, RefreshInv
<1> QED
  BY <1>1, <1>2, <1>3 DEF Catalog!CatalogsNext, Catalog!toolVars, Catalog!skillVars, toolVars,
                          skillVars

LEMMA CatalogGuarantees ==
  CatalogInv => /\ Catalog!PrecedenceDecides /\ Catalog!RootsAreRead /\ Catalog!ListIsCurrent
                /\ Catalog!CatalogsTypeOK
<1> SUFFICES ASSUME CatalogInv
             PROVE  /\ Catalog!PrecedenceDecides /\ Catalog!RootsAreRead
                    /\ Catalog!ListIsCurrent /\ Catalog!CatalogsTypeOK
  OBVIOUS
<1>0. CatalogFrame
  BY DEF CatalogInv
<1>1. /\ Catalog!ToSet(roots) = RootSet(roots) /\ RootSet(roots) \subseteq DOMAIN Dirs
      /\ \A d \in RootSet(roots) : Catalog!Order(d) = At(roots, d)
  BY <1>0, RootsHeld
<1>2. Catalog!PrecedenceDecides
  <2>1. \A s \in Skills : DecidesFor(roots, entries, scanned, s)
    BY DEF CatalogInv, Decides
  <2> QED
    BY <1>1, <2>1 DEF Catalog!PrecedenceDecides, Catalog!Wins, DecidesFor, Stronger
<1>3. Catalog!RootsAreRead
  BY <1>1 DEF CatalogInv, Catalog!RootsAreRead
<1>4. Catalog!ListIsCurrent
  BY DEF CatalogInv, Catalog!ListIsCurrent
<1>5. Catalog!CatalogsTypeOK
  BY <1>0, <1>1 DEF CatalogFrame, Catalog!CatalogsTypeOK, Winners
<1> QED
  BY <1>2, <1>3, <1>4, <1>5

-----------------------------------------------------------------------------
(* The whole.                                                              *)

(* Every part keeps its inductive invariant, whichever part moves.         *)
StoresInv ==
  /\ TailInv /\ SessionInv /\ CheckpointInv /\ PlainInv
  /\ ScheduleInv /\ GoalInv /\ HubInv
  /\ ProjectionInv /\ LayeredInv /\ CatalogInv
  /\ CheckpointTypeOK /\ IndexInv /\ SchedulerInv
  /\ part \in {"tail", "session", "checkpoint", "schedule", "goal", "hub", "plain",
              "projection", "registry", "skills", "tools"}

LEMMA InitStoresInv == StoresInit => StoresInv
<1> SUFFICES ASSUME StoresInit PROVE StoresInv
  OBVIOUS
<1>1. /\ Init /\ SessionInit /\ CheckpointInit /\ ScheduleInit /\ GoalsInit /\ Stream!HubInit
      /\ PlainInit /\ Views!ProjectionInit /\ Layered!RegistryInit /\ Catalog!CatalogsInit
  BY DEF StoresInit
<1>2. TailInv /\ CheckpointInv
  BY <1>1, InitTailInv, InitCheckpointInv
<1>3. SessionInv /\ PlainInv /\ ScheduleInv /\ GoalInv
  BY <1>1, SessionStart, InitPlainInv, InitScheduleInv, InitGoalInv
<1>4. HubInv /\ ProjectionInv /\ LayeredInv /\ CatalogInv
  BY <1>1, InitHubInv, InitProjectionInv, InitLayeredInv, InitCatalogInv
<1>5. CheckpointTypeOK /\ IndexInv /\ SchedulerInv
  BY <1>1, InitCheckpointTypes, InitIndexInv, InitSchedulerInv
<1> QED
  BY <1>2, <1>3, <1>4, <1>5 DEF StoresInv, StoresInit

(* A step of the whole is a step or a stutter of each part.                *)
LEMMA PartsStep ==
  ASSUME [StoresNext]_allVars
  PROVE  /\ [Next]_vars /\ [SessionNext]_sessionVars /\ [CheckpointNext]_checkpointVars
         /\ [PlainNext]_plainVars
         /\ [ScheduleNext]_scheduleVars /\ [GoalsNext]_goalVars /\ [Stream!HubNext]_hubVars
         /\ [Views!ProjectionNext]_projectionVars /\ [Layered!RegistryNext]_registryVars
         /\ [Catalog!CatalogsNext]_catalogVars
         /\ part' = part
<1>1. CASE UNCHANGED allVars
  BY <1>1 DEF allVars, keptVars, serviceVars, readVars
<1>2. CASE /\ UNCHANGED part /\ KeptNext /\ UNCHANGED <<serviceVars, readVars>>
  <2>1. UNCHANGED <<scheduleVars, goalVars, hubVars>>
        /\ UNCHANGED <<projectionVars, registryVars, catalogVars>>
    BY <1>2 DEF serviceVars, readVars
  <2> QED
    BY <1>2, <2>1 DEF KeptNext
<1>3. CASE /\ UNCHANGED part /\ ServiceNext /\ UNCHANGED <<keptVars, readVars>>
  <2>1. UNCHANGED <<vars, sessionVars, checkpointVars, plainVars>>
        /\ UNCHANGED <<projectionVars, registryVars, catalogVars>>
    BY <1>3 DEF keptVars, readVars
  <2> QED
    BY <1>3, <2>1 DEF ServiceNext
<1>4. CASE /\ UNCHANGED part /\ ReadNext /\ UNCHANGED <<keptVars, serviceVars>>
  <2>1. UNCHANGED <<vars, sessionVars, checkpointVars, plainVars>>
        /\ UNCHANGED <<scheduleVars, goalVars, hubVars>>
    BY <1>4 DEF keptVars, serviceVars
  <2>2. [Views!ProjectionNext]_projectionVars /\ [Layered!RegistryNext]_registryVars
        /\ [Catalog!CatalogsNext]_catalogVars
    BY <1>4 DEF ReadNext, Catalog!CatalogsNext, Catalog!skillVars, Catalog!toolVars, skillVars,
                toolVars, catalogVars
  <2> QED
    BY <1>4, <2>1, <2>2
<1> QED
  BY <1>1, <1>2, <1>3, <1>4 DEF StoresNext

LEMMA NextStoresInv == StoresInv /\ [StoresNext]_allVars => StoresInv'
<1> SUFFICES ASSUME StoresInv, [StoresNext]_allVars PROVE StoresInv'
  OBVIOUS
<1>1. TailInv' /\ CheckpointInv'
  BY PartsStep, NextTailInv, NextCheckpointInv DEF StoresInv
<1>2. SessionInv' /\ PlainInv' /\ ScheduleInv' /\ GoalInv'
  BY PartsStep, SessionStep, NextPlainInv, ScheduleStep, NextGoalInv DEF StoresInv
<1>3. HubInv' /\ ProjectionInv' /\ LayeredInv' /\ CatalogInv'
  BY PartsStep, NextHubInv, NextProjectionInv, NextLayeredInv, NextCatalogInv DEF StoresInv
<1>4. CheckpointTypeOK' /\ IndexInv' /\ SchedulerInv'
  BY PartsStep, NextCheckpointTypes, NextIndexInv, NextSchedulerInv DEF StoresInv
<1> QED
  BY <1>1, <1>2, <1>3, <1>4, PartsStep DEF StoresInv

(* The inductive invariant of the whole: the parts share no variable, and  *)
(* what each keeps survives the steps of the others.                       *)
THEOREM StoresInvariant == StoresSpec => []StoresInv
BY InitStoresInv, NextStoresInv, PTL DEF StoresSpec

(* A subscriber of the hub has the events in order, without gaps but for   *)
(* the ones the hub dropped, and the newest; a projection has folded every *)
(* event of its log; a consumer of a layered registry holds its view; the  *)
(* catalogs are current and obey precedence: for any buffer sizes, units,  *)
(* layers, directories and interleaving of calls.                          *)
THEOREM ReadersFollow == StoresSpec => []ReadersKeepUp
<1>1. StoresInv => ReadersKeepUp
  BY HubGuarantees, ProjectionGuarantees, LayeredGuarantees, CatalogGuarantees
     DEF StoresInv, ReadersKeepUp
<1> QED
  BY <1>1, StoresInvariant, PTL

(* Every part keeps its types, whichever moves.                            *)
THEOREM StoresTyping == StoresSpec => []TypesOK
<1>1. ASSUME StoresInv PROVE TypesOK
  <2>1. TypeOK /\ SessionTypeOK /\ CheckpointTypeOK
    BY <1>1, TailAssumption
       DEF StoresInv, TailInv, StoreInv, Filled, TypeOK, SessionInv
  <2>2. ScheduleTypeOK /\ GoalsTypeOK /\ PlainTypeOK
    BY <1>1, ScheduleTypes, GoalTypes, PlainTypes DEF StoresInv
  <2>3. Stream!HubTypeOK /\ Views!ProjectionTypeOK /\ Layered!RegistryTypeOK
        /\ Catalog!CatalogsTypeOK
    BY <1>1, HubGuarantees, ProjectionGuarantees, LayeredGuarantees, CatalogGuarantees
       DEF StoresInv
  <2> QED
    BY <1>1, <2>1, <2>2, <2>3 DEF StoresInv, TypesOK
<1> QED
  BY <1>1, StoresInvariant, PTL
================================================================================
