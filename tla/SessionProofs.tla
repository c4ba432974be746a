----------------------------- MODULE SessionProofs -----------------------------
(***************************************************************************)
(* Proofs about what belongs to a session: its log, for logs of any        *)
(* length, any replacements and any number of concurrent trims, saves and  *)
(* listeners; the plain services with their observers, for any runs,       *)
(* sessions, copies, deletes and crashes; the goal with its round driver,  *)
(* for any sessions, cap and interleaving of their updates; and the        *)
(* reminders, for any ids, cadence and restarts.                           *)
(*                                                                         *)
(* The argument about the log is about event lists first: what replaying   *)
(* one more event does (ReplayAppend), that an accepted replacement loses  *)
(* nothing (FaithfulReplace), that the usage total is a sum (SummedMore).  *)
(* The steps of the log, of TrimMessages and of the store then carry sound *)
(* event lists around (SessionStep).                                       *)
(***************************************************************************)
EXTENDS SessionLog, PlainSessions, Goals, Schedule, SequenceTheorems, FiniteSetTheorems,
        WellFoundedInduction, TLAPS

(* No value stands twice in s.                                             *)
Distinct(s) == \A j, k \in 1..Len(s) : s[j] = s[k] => j = k

(* An event that carries a message: NothingLost's Carries, of any list.    *)
CarriedBy(e) == e.op \in {"append", "replace"}

(* The replacements that put event i out of sight, in any event list.      *)
ShadowsIn(evs, i) == {r \in (i + 1)..Len(evs) :
                        evs[r].op = "replace" /\ i \in evs[r].from..evs[r].to}

(* The sum UsageIsSum compares with, of any event list.                    *)
Sum(evs) == LET sum[n \in 0..Len(evs)] == IF n = 0 THEN 0 ELSE sum[n - 1] + evs[n].add
            IN sum[Len(evs)]

(* The usage records of an event list.                                     *)
UsagesOf(evs) == {i \in 1..Len(evs) : evs[i].op = "usage"}

(* srf shows every message of evs that no later replacement shadows, once, *)
(* and nothing else; a shadowed message is shadowed by exactly one         *)
(* replacement. This is why a replacement may only name a contiguous run   *)
(* of the surface: what it shadows was on the surface, so nothing is       *)
(* shadowed twice.                                                         *)
Faithful(evs, srf) ==
  /\ srf \in Seq(1..Len(evs)) /\ Distinct(srf)
  /\ \A i \in 1..Len(evs) :
       IF ~CarriedBy(evs[i]) THEN ~OnSurface(srf, i) /\ ShadowsIn(evs, i) = {}
       ELSE \/ OnSurface(srf, i) /\ ShadowsIn(evs, i) = {}
            \/ ~OnSurface(srf, i) /\ \E r \in 1..Len(evs) : ShadowsIn(evs, i) = {r}

(* The latest usage record carries the sum of all that was added.          *)
Sums(evs) ==
  \A k \in UsagesOf(evs) : (\A j \in UsagesOf(evs) : j <= k) => evs[k].total = Sum(evs)

(* What AddTokenUsage needs to read the running total off the log.         *)
Summed(evs) == (UsagesOf(evs) = {} => Sum(evs) = 0) /\ Sums(evs)

(* An event list as the log produces them: in memory, in a snapshot held   *)
(* by a Save, or in the stored document.                                   *)
SoundDoc(evs) ==
  /\ evs \in Seq(Events)
  /\ Faithful(evs, Replay(evs))
  /\ Summed(evs) /\ Sum(evs) \in Nat

(* The log in memory: the surface kept beside the events is their replay.  *)
LogGood == surface = Replay(events) /\ SoundDoc(events)

(* The seqs a listener has got that subscribed after event since, when the *)
(* log holds m events.                                                     *)
SeqsAfter(since, m) == [i \in 1..(m - since) |-> since + i]

(* Every listener has got the events since it subscribed.                  *)
WatchGood ==
  \A w \in Watchers : Subscribed(w) =>
    /\ watch[w].since <= Len(events)
    /\ watch[w].got = SeqsAfter(watch[w].since, Len(events))

(* The durable side: every snapshot, held or stored, is a sound log and,   *)
(* while the process lives, one the log in memory has been. A crash leaves *)
(* neither a snapshot in flight nor a listener.                            *)
SavesGood ==
  /\ stored # NoDoc => SoundDoc(stored.doc) /\ (up => IsPrefixOf(stored.doc, events))
  /\ \A c \in Saves : save[c] # NoSave =>
       up /\ SoundDoc(save[c].doc) /\ IsPrefixOf(save[c].doc, events)
  /\ ~up => \A w \in Watchers : ~Subscribed(w)

(* The inductive invariant. LogIsFaithful alone is not inductive: that the *)
(* usage sum and the shadows come out right after a restore needs them of  *)
(* the stored document, and that needs them of every snapshot.             *)
SessionInv == SessionTypeOK /\ LogGood /\ WatchGood /\ SavesGood

-----------------------------------------------------------------------------
(* Every nonempty set of naturals has a least element.                     *)
LEMMA Least ==
  ASSUME NEW T, T \subseteq Nat, T # {}
  PROVE  \E x \in T : \A y \in T : ~(y < x)
<1> DEFINE R == {ss \in Nat \X Nat : ss[1] < ss[2]}
<1>1. IsWellFoundedOn(R, Nat)
  BY NatLessThanWellFounded, Zenon DEF OpToRel
<1>2. \A x, y \in Nat : y < x => <<y, x>> \in R
  OBVIOUS
<1> HIDE DEF R
<1>3. \E x \in T : \A y \in T : ~(<<y, x>> \in R)
  BY <1>1, WFMin
<1> QED
  BY <1>2, <1>3

(* Induction over the naturals, with the property given as a set.          *)
LEMMA SetInduction ==
  ASSUME NEW T, 0 \in T, \A n \in Nat : n \in T => n + 1 \in T
  PROVE  \A n \in Nat : n \in T
<1> DEFINE U == {n \in Nat : n \notin T}
<1> SUFFICES ASSUME U # {} PROVE FALSE
  OBVIOUS
<1>1. PICK x \in U : \A y \in U : ~(y < x)
  BY Least
<1>2. x # 0 /\ x - 1 \in Nat /\ x - 1 < x
  OBVIOUS
<1>3. x - 1 \in T
  BY <1>1, <1>2
<1>4. (x - 1) + 1 \in T
  BY <1>2, <1>3
<1> QED
  BY <1>4

(* g is Replay's table of surfaces for the first m events of evs.          *)
Builds(g, evs, m) == g = [n \in 0..m |-> IF n = 0 THEN <<>> ELSE Show(g[n - 1], evs[n], n)]

(* That table exists, so Replay's recursive definition means something.    *)
LEMMA BuildsExists ==
  ASSUME NEW evs, NEW m \in Nat
  PROVE  \E g : Builds(g, evs, m)
<1> DEFINE T == {k \in Nat : \E g : Builds(g, evs, k)}
<1>1. 0 \in T
  <2> DEFINE g == [n \in 0..0 |-> <<>>]
  <2>1. g = [n \in 0..0 |-> IF n = 0 THEN <<>> ELSE Show(g[n - 1], evs[n], n)]
    OBVIOUS
  <2> HIDE DEF g
  <2> QED
    BY <2>1 DEF Builds
<1>2. ASSUME NEW k \in Nat, k \in T PROVE k + 1 \in T
  <2>1. PICK g : Builds(g, evs, k)
    BY <1>2
  <2> DEFINE h == [n \in 0..(k + 1) |-> IF n <= k THEN g[n] ELSE Show(g[k], evs[k + 1], k + 1)]
             step(f, n) == IF n = 0 THEN <<>> ELSE Show(f[n - 1], evs[n], n)
  <2>2. ASSUME NEW n \in 0..(k + 1) PROVE h[n] = step(h, n)
    <3>1. CASE n <= k
      <4>1. h[n] = g[n] /\ n \in 0..k
        BY <3>1
      <4>2. g[n] = step(g, n)
        BY <2>1, <4>1 DEF Builds
      <4>3. n # 0 => h[n - 1] = g[n - 1]
        BY <3>1
      <4> QED
        BY <4>1, <4>2, <4>3
    <3>2. CASE n = k + 1
      <4>1. h[n] = Show(g[k], evs[n], n) /\ n # 0 /\ n - 1 = k
        BY <3>2
      <4>2. h[k] = g[k]
        OBVIOUS
      <4> QED
        BY <4>1, <4>2
    <3> QED
      BY <3>1, <3>2
  <2>3. h = [n \in 0..(k + 1) |-> h[n]]
    OBVIOUS
  <2> HIDE DEF h
  <2>4. Builds(h, evs, k + 1)
    BY <2>2, <2>3 DEF Builds
  <2> QED
    BY <2>4
<1>3. m \in T
  BY <1>1, <1>2, SetInduction
<1> QED
  BY <1>3

(* Replay is the last entry of the table.                                  *)
LEMMA ReplayBuilds ==
  ASSUME NEW evs, Len(evs) \in Nat
  PROVE  \E g : Builds(g, evs, Len(evs)) /\ Replay(evs) = g[Len(evs)]
<1> DEFINE upTo == CHOOSE g : g = [n \in 0..Len(evs) |-> IF n = 0 THEN <<>> ELSE Show(g[n - 1], evs[n], n)]
<1>1. Replay(evs) = upTo[Len(evs)]
  BY Zenon DEF Replay
<1>2. Builds(upTo, evs, Len(evs))
  <2>1. \E g : Builds(g, evs, Len(evs))
    BY BuildsExists
  <2> QED
    BY <2>1, Zenon DEF Builds
<1> QED
  BY <1>1, <1>2

(* The table of a list extends that of its prefixes.                       *)
LEMMA BuildsAgree ==
  ASSUME NEW a, NEW b, NEW m \in Nat, NEW l \in Nat, m <= l,
         NEW g, NEW h, Builds(g, a, m), Builds(h, b, l), \A k \in 1..m : a[k] = b[k]
  PROVE  \A n \in 0..m : g[n] = h[n]
<1> DEFINE T == {n \in Nat : n <= m => g[n] = h[n]}
<1>1. \A n \in 0..m : /\ g[n] = IF n = 0 THEN <<>> ELSE Show(g[n - 1], a[n], n)
                     /\ h[n] = IF n = 0 THEN <<>> ELSE Show(h[n - 1], b[n], n)
  BY DEF Builds
<1>2. 0 \in T
  BY <1>1
<1>3. ASSUME NEW n \in Nat, n \in T PROVE n + 1 \in T
  <2> SUFFICES ASSUME n + 1 <= m PROVE g[n + 1] = h[n + 1]
    OBVIOUS
  <2>1. n + 1 \in 1..m /\ n + 1 \in 0..m /\ n + 1 # 0 /\ (n + 1) - 1 = n /\ n <= m
    OBVIOUS
  <2>2. g[n] = h[n] /\ a[n + 1] = b[n + 1]
    BY <1>3, <2>1
  <2>3. /\ g[n + 1] = Show(g[n], a[n + 1], n + 1)
        /\ h[n + 1] = Show(h[n], b[n + 1], n + 1)
    BY <1>1, <2>1
  <2> QED
    BY <2>2, <2>3
<1>4. \A n \in Nat : n \in T
  BY <1>2, <1>3, SetInduction
<1> QED
  BY <1>4

(* Replaying one more event shows it on the surface replayed so far: what  *)
(* Append does to the surface incrementally is what Restore computes.      *)
LEMMA ReplayAppend ==
  ASSUME NEW evs \in Seq(Events), NEW e \in Events
  PROVE  Replay(Append(evs, e)) = Show(Replay(evs), e, Len(evs) + 1)
<1> DEFINE more == Append(evs, e)
           m == Len(evs)
<1>1. /\ m \in Nat /\ Len(more) = m + 1 /\ more[m + 1] = e
      /\ \A k \in 1..m : evs[k] = more[k]
  OBVIOUS
<1>2. PICK g : Builds(g, evs, m) /\ Replay(evs) = g[m]
  BY <1>1, ReplayBuilds
<1> HIDE DEF more
<1>3. PICK h : Builds(h, more, m + 1) /\ Replay(more) = h[m + 1]
  BY <1>1, ReplayBuilds
<1> HIDE DEF m
<1>4. g[m] = h[m]
  <2>1. m + 1 \in Nat /\ m <= m + 1 /\ m \in 0..m
    BY <1>1
  <2> QED
    BY <1>1, <1>2, <1>3, <2>1, BuildsAgree
<1>5. h[m + 1] = Show(h[m], more[m + 1], m + 1)
  <2>1. m + 1 \in 0..(m + 1) /\ m + 1 # 0 /\ (m + 1) - 1 = m
    BY <1>1
  <2> QED
    BY <1>3, <2>1 DEF Builds
<1> QED
  BY <1>1, <1>2, <1>3, <1>4, <1>5 DEF m, more

(* An empty log shows nothing.                                             *)
LEMMA ReplayNothing == Replay(<<>>) = <<>>
<1>1. Len(<<>>) = 0
  OBVIOUS
<1>2. PICK g : Builds(g, <<>>, 0) /\ Replay(<<>>) = g[0]
  BY <1>1, ReplayBuilds
<1> QED
  BY <1>2 DEF Builds

-----------------------------------------------------------------------------
(* The nodes applyReplaceScratch counts are all in the range.              *)
LEMMA ShadowedSpec ==
  ASSUME NEW srf, Len(srf) \in Nat, NEW i \in 1..Len(srf), NEW f, NEW t
  PROVE  LET n == Shadowed(srf, i, f, t)
         IN  n \in 0..(Len(srf) - i + 1) /\ \A k \in i..(i + n - 1) : srf[k] \in f..t
<1> DEFINE N == 0..(Len(srf) - i + 1)
           Ends(n) == i + n <= Len(srf) => srf[i + n] \notin f..t
           All(n) == \A k \in i..(i + n - 1) : srf[k] \in f..t
           T == {n \in N : Ends(n)}
<1>1. T \subseteq Nat /\ Len(srf) - i + 1 \in T
  OBVIOUS
<1>2. PICK n \in T : \A y \in T : ~(y < n)
  <2>1. T # {}
    BY <1>1
  <2> HIDE DEF T
  <2> QED
    BY <1>1, <2>1, Least
<1>3. All(n)
  <2> SUFFICES ASSUME NEW k \in i..(i + n - 1) PROVE srf[k] \in f..t
    OBVIOUS
  <2>1. k - i \in N /\ k - i < n /\ i + (k - i) = k /\ k <= Len(srf)
    BY <1>2
  <2> QED
    BY <1>2, <2>1
<1>4. \E m \in N : All(m) /\ Ends(m)
  BY <1>2, <1>3
<1> DEFINE m == CHOOSE m \in N : All(m) /\ Ends(m)
<1>5. Shadowed(srf, i, f, t) = m
  BY Zenon DEF Shadowed
<1>6. m \in N /\ All(m)
  <2> HIDE DEF N, All, Ends
  <2> QED
    BY <1>4
<1> QED
  BY <1>5, <1>6

(* The run of s from i on that is as long as f..t lies in f..t ...         *)
Inside(s, f, t, i) == \A k \in i..(i + (t - f)) : s[k] \in f..t

(* ... and contains all of it.                                             *)
Covers(s, f, t, i) == \A q \in f..t : \E k \in i..(i + (t - f)) : s[k] = q

(* A run of as many distinct nodes of a range as the range has members is  *)
(* the whole range: checking its length is checking that nothing of it is  *)
(* missing from the surface.                                               *)
LEMMA FullRange ==
  ASSUME NEW s, NEW f \in Nat, NEW t \in Nat, f <= t, NEW i \in Nat, Distinct(s), Len(s) \in Nat,
         i >= 1, i + (t - f) <= Len(s), Inside(s, f, t, i)
  PROVE  Covers(s, f, t, i)
<1> DEFINE K == i..(i + (t - f))
           h == [k \in K |-> s[k]]
           Q == f..t
<1>1. h \in Injection(K, Q)
  BY SMTT(30) DEF Injection, IsInjective, Distinct, Inside
<1> DEFINE l == i + (t - f)
<1>2. f \in Int /\ t \in Int /\ i \in Int /\ l \in Int /\ ~(f > t) /\ ~(i > l) /\ t - f + 1 = l - i + 1
  OBVIOUS
<1> HIDE DEF l
<1>3. IsFiniteSet(f..t) /\ Cardinality(f..t) = IF f > t THEN 0 ELSE t - f + 1
  BY <1>2, FS_Interval
<1>4. Cardinality(i..l) = IF i > l THEN 0 ELSE l - i + 1
  BY <1>2, FS_Interval
<1>6. Cardinality(K) = Cardinality(Q) /\ IsFiniteSet(Q)
  BY <1>2, <1>3, <1>4 DEF l
<1> HIDE DEF K, Q
<1>5. h \in Surjection(K, Q)
  BY <1>1, <1>6, FS_Injection
<1> QED
  BY <1>5 DEF Surjection, K, Q, Covers

(* new is srf with its n nodes from i on, all of them in f..t, replaced by q. *)
Spliced(srf, f, t, q, i, n, new) ==
  /\ i = IndexOf(srf, f) /\ n = Shadowed(srf, i, f, t)
  /\ i \in 1..Len(srf) /\ srf[i] = f
  /\ n <= Len(srf) - i + 1 /\ \A k \in i..(i + n - 1) : srf[k] \in f..t
  /\ new \in Seq(Nat) /\ Len(new) = Len(srf) - n + 1
  /\ \A k \in 1..Len(new) : new[k] = IF k < i THEN srf[k] ELSE IF k = i THEN q
                                     ELSE srf[k - 1 + n]

(* A node outside the replaced run has a place on the new surface.         *)
LEMMA SplicePlaces ==
  ASSUME NEW i \in Nat, NEW n \in Nat, NEW L \in Nat, i >= 1, n >= 1, n <= L - i + 1,
         NEW k \in 1..L, k \notin i..(i + n - 1)
  PROVE  \E l \in 1..(L - n + 1) : l # i /\ (IF l < i THEN l ELSE l - 1 + n) = k
<1>1. CASE k < i
  <2>1. k \in 1..(L - n + 1) /\ k # i
    BY <1>1
  <2> QED
    BY <1>1, <2>1
<1>2. CASE k > i + n - 1
  <2>1. k + 1 - n \in 1..(L - n + 1) /\ k + 1 - n # i /\ ~(k + 1 - n < i)
        /\ (k + 1 - n) - 1 + n = k
    BY <1>2
  <2> QED
    BY <2>1
<1> QED
  BY <1>1, <1>2

(* The new surface, place by place.                                        *)
LEMMA ReplacedSpec ==
  ASSUME NEW srf \in Seq(Nat), NEW f, NEW t, NEW q \in Nat, OnSurface(srf, f)
  PROVE  \E i, n \in Nat : Spliced(srf, f, t, q, i, n, Replaced(srf, f, t, q))
<1> DEFINE i == IndexOf(srf, f)
           n == Shadowed(srf, i, f, t)
           new == Replaced(srf, f, t, q)
           L == Len(srf)
           head == SubSeq(srf, 1, i - 1)
           tail == SubSeq(srf, i + n, L)
           one == <<q>>
<1>1. i \in 1..L /\ srf[i] = f /\ L \in Nat
  BY DEF IndexOf, OnSurface
<1>2. n \in 0..(L - i + 1) /\ \A k \in i..(i + n - 1) : srf[k] \in f..t
  <2> HIDE DEF i
  <2> QED
    BY <1>1, ShadowedSpec
<1>3. new = head \o one \o tail
  BY DEF Replaced
<1> HIDE DEF i, n, new
<1>4. head \in Seq(Nat) /\ Len(head) = i - 1 /\ \A k \in 1..(i - 1) : head[k] = srf[k]
  BY <1>1
<1>5. tail \in Seq(Nat) /\ Len(tail) = L - (i + n) + 1
      /\ \A k \in 1..(L - (i + n) + 1) : tail[k] = srf[i + n + k - 1]
  BY <1>1, <1>2
<1>6. one \in Seq(Nat) /\ Len(one) = 1 /\ one[1] = q
  OBVIOUS
<1> HIDE DEF head, tail, one, L
<1> DEFINE front == head \o one
<1>7. /\ front \in Seq(Nat) /\ Len(front) = i
      /\ \A k \in 1..i : front[k] = IF k < i THEN srf[k] ELSE q
  <2>1. Len(head) + Len(one) = i
    BY <1>1, <1>4, <1>6
  <2>2. \A k \in 1..(Len(head) + Len(one)) :
          front[k] = IF k <= Len(head) THEN head[k] ELSE one[k - Len(head)]
    BY <1>4, <1>6, ConcatProperties
  <2>3. front \in Seq(Nat) /\ Len(front) = i
    BY <1>4, <1>6, <2>1, ConcatProperties
  <2>4. ASSUME NEW k \in 1..i PROVE front[k] = IF k < i THEN srf[k] ELSE q
    <3>1. front[k] = IF k <= i - 1 THEN head[k] ELSE one[k - (i - 1)]
      BY <1>4, <2>1, <2>2
    <3>2. k < i => k \in 1..(i - 1)
      BY <1>1
    <3>3. ~(k < i) => k - (i - 1) = 1 /\ ~(k <= i - 1)
      BY <1>1
    <3> QED
      BY <1>4, <1>6, <3>1, <3>2, <3>3
  <2> QED
    BY <2>3, <2>4
<1> HIDE DEF front
<1>8. /\ front \o tail \in Seq(Nat) /\ Len(front \o tail) = i + (L - (i + n) + 1)
      /\ \A k \in 1..(i + (L - (i + n) + 1)) :
           (front \o tail)[k] = IF k <= i THEN front[k] ELSE tail[k - i]
  <2>1. /\ Len(front \o tail) = Len(front) + Len(tail) /\ front \o tail \in Seq(Nat)
        /\ \A k \in 1..(Len(front) + Len(tail)) :
             (front \o tail)[k] = IF k <= Len(front) THEN front[k] ELSE tail[k - Len(front)]
    BY <1>5, <1>7, ConcatProperties
  <2> QED
    BY <1>5, <1>7, <2>1
<1>9. Len(front \o tail) = L - n + 1 /\ n \in Nat /\ i \in Nat
  BY <1>1, <1>2, <1>8
<1>10. ASSUME NEW k \in 1..(L - n + 1)
       PROVE  (front \o tail)[k] = IF k < i THEN srf[k] ELSE IF k = i THEN q ELSE srf[k - 1 + n]
  <2>1. (front \o tail)[k] = IF k <= i THEN front[k] ELSE tail[k - i]
    BY <1>1, <1>8, <1>9
  <2>2. CASE k <= i
    BY <1>1, <1>7, <2>1, <2>2
  <2>3. CASE ~(k <= i)
    <3>1. k - i \in 1..(L - (i + n) + 1) /\ i + n + (k - i) - 1 = k - 1 + n /\ ~(k < i) /\ k # i
      BY <1>1, <1>9, <2>3
    <3> QED
      BY <1>5, <2>1, <2>3, <3>1
  <2> QED
    BY <2>2, <2>3
<1>11. /\ i \in Nat /\ n \in Nat /\ new \in Seq(Nat)
       /\ i = IndexOf(srf, f) /\ n = Shadowed(srf, i, f, t) /\ new = Replaced(srf, f, t, q)
  <2>1. i = IndexOf(srf, f) /\ n = Shadowed(srf, i, f, t) /\ new = Replaced(srf, f, t, q)
    BY DEF i, n, new
  <2> QED
    BY <1>3, <1>8, <1>9, <2>1 DEF front
<1>12. /\ Len(new) = L - n + 1 /\ n <= L - i + 1
       /\ \A k \in 1..Len(new) : new[k] = IF k < i THEN srf[k] ELSE IF k = i THEN q
                                          ELSE srf[k - 1 + n]
  BY <1>1, <1>2, <1>3, <1>9, <1>10 DEF front
<1>13. /\ i \in 1..Len(srf) /\ srf[i] = f
       /\ n <= Len(srf) - i + 1 /\ Len(new) = Len(srf) - n + 1
  BY <1>1, <1>12 DEF L
<1>14. Spliced(srf, f, t, q, i, n, Replaced(srf, f, t, q))
  BY <1>2, <1>11, <1>12, <1>13 DEF Spliced
<1> QED
  BY <1>11, <1>14, Zenon

-----------------------------------------------------------------------------
(* One more event shadows the range it names if it is a replacement, and   *)
(* nothing otherwise; nothing shadows it yet.                              *)
LEMMA ShadowsOfMore ==
  ASSUME NEW evs \in Seq(Events), NEW e \in Events
  PROVE  LET more == Append(evs, e)  q == Len(evs) + 1
         IN  /\ \A i \in 1..Len(evs) :
                   ShadowsIn(more, i) = IF e.op = "replace" /\ i \in e.from..e.to
                                        THEN ShadowsIn(evs, i) \union {q} ELSE ShadowsIn(evs, i)
             /\ ShadowsIn(more, q) = {}
<1> DEFINE more == Append(evs, e)
           q == Len(evs) + 1
<1>1. /\ Len(evs) \in Nat /\ Len(more) = q /\ more[q] = e
      /\ \A k \in 1..Len(evs) : more[k] = evs[k]
  OBVIOUS
<1> HIDE DEF more
<1>2. ShadowsIn(more, q) = {}
  BY <1>1 DEF ShadowsIn
<1>3. ASSUME NEW i \in 1..Len(evs)
      PROVE  ShadowsIn(more, i) = IF e.op = "replace" /\ i \in e.from..e.to
                                  THEN ShadowsIn(evs, i) \union {q} ELSE ShadowsIn(evs, i)
  <2>1. (i + 1)..q = ((i + 1)..Len(evs)) \union {q} /\ q \notin (i + 1)..Len(evs)
    BY <1>1
  <2>2. \A r \in (i + 1)..Len(evs) : more[r] = evs[r]
    BY <1>1
  <2> HIDE DEF q
  <2> QED
    BY <1>1, <2>1, <2>2 DEF ShadowsIn
<1> QED
  BY <1>2, <1>3 DEF more

(* A record that carries no message leaves the conversation alone.         *)
LEMMA FaithfulNote ==
  ASSUME NEW evs \in Seq(Events), NEW e \in Events, NEW srf, Faithful(evs, srf),
         e.op \notin {"append", "replace"}
  PROVE  Faithful(Append(evs, e), srf)
<1> DEFINE more == Append(evs, e)
           q == Len(evs) + 1
<1>1. /\ Len(evs) \in Nat /\ Len(more) = q /\ more[q] = e
      /\ \A k \in 1..Len(evs) : more[k] = evs[k]
  OBVIOUS
<1>2. ShadowsIn(more, q) = {} /\ \A i \in 1..Len(evs) : ShadowsIn(more, i) = ShadowsIn(evs, i)
  BY ShadowsOfMore
<1> HIDE DEF more
<1>3. srf \in Seq(1..Len(evs)) /\ Distinct(srf) /\ srf \in Seq(1..q) /\ ~OnSurface(srf, q)
  BY <1>1 DEF Faithful, OnSurface
<1>4. \A i \in 1..q : i = q \/ i \in 1..Len(evs)
  BY <1>1
<1> HIDE DEF q
<1>5. ASSUME NEW i \in 1..q
      PROVE  IF ~CarriedBy(more[i]) THEN ~OnSurface(srf, i) /\ ShadowsIn(more, i) = {}
             ELSE \/ OnSurface(srf, i) /\ ShadowsIn(more, i) = {}
                  \/ ~OnSurface(srf, i) /\ \E r \in 1..q : ShadowsIn(more, i) = {r}
  <2>1. CASE i = q
    BY <1>1, <1>2, <1>3, <2>1 DEF CarriedBy
  <2>2. CASE i \in 1..Len(evs)
    <3>1. 1..Len(evs) \subseteq 1..q
      BY <1>1 DEF q
    <3> QED
      BY <1>1, <1>2, <2>2, <3>1 DEF Faithful
  <2> QED
    BY <1>4, <2>1, <2>2
<1> QED
  BY <1>1, <1>3, <1>5 DEF Faithful, more

(* A message added at the end is shown.                                    *)
LEMMA FaithfulAppend ==
  ASSUME NEW evs \in Seq(Events), NEW e \in Events, NEW srf, Faithful(evs, srf), e.op = "append"
  PROVE  Faithful(Append(evs, e), Append(srf, Len(evs) + 1))
<1> DEFINE more == Append(evs, e)
           q == Len(evs) + 1
           new == Append(srf, q)
<1>1. /\ Len(evs) \in Nat /\ Len(more) = q /\ more[q] = e
      /\ \A k \in 1..Len(evs) : more[k] = evs[k]
  OBVIOUS
<1>2. ShadowsIn(more, q) = {} /\ \A i \in 1..Len(evs) : ShadowsIn(more, i) = ShadowsIn(evs, i)
  BY ShadowsOfMore
<1> HIDE DEF more
<1>3. /\ srf \in Seq(1..Len(evs)) /\ Distinct(srf) /\ Len(srf) \in Nat
      /\ Len(new) = Len(srf) + 1 /\ new[Len(srf) + 1] = q
      /\ \A k \in 1..Len(srf) : new[k] = srf[k] /\ srf[k] \in 1..Len(evs)
  BY DEF Faithful
<1>4. new \in Seq(1..q)
  <2>1. srf \in Seq(1..q) /\ q \in 1..q
    BY <1>1, <1>3
  <2> QED
    BY <2>1
<1>5. Distinct(new)
  <2> SUFFICES ASSUME NEW j \in 1..Len(new), NEW k \in 1..Len(new), new[j] = new[k] PROVE j = k
    BY DEF Distinct
  <2>1. \A l \in 1..Len(new) : l = Len(srf) + 1 \/ l \in 1..Len(srf)
    BY <1>3
  <2>2. \A l \in 1..Len(srf) : new[l] # q
    BY <1>1, <1>3
  <2> HIDE DEF new, q
  <2> QED
    BY <1>3, <2>1, <2>2 DEF Distinct
<1>6. OnSurface(new, q) /\ \A i \in 1..Len(evs) : OnSurface(new, i) <=> OnSurface(srf, i)
  <2>1. q \notin 1..Len(evs)
    BY <1>1
  <2> HIDE DEF new, q
  <2>2. OnSurface(new, q)
    BY <1>3 DEF OnSurface
  <2>3. ASSUME NEW i \in 1..Len(evs), NEW k \in 1..Len(new), new[k] = i PROVE OnSurface(srf, i)
    <3>1. k \in 1..Len(srf)
      BY <1>3, <2>1, <2>3
    <3> QED
      BY <1>3, <2>3, <3>1 DEF OnSurface
  <2>4. ASSUME NEW i \in 1..Len(evs), NEW k \in 1..Len(srf), srf[k] = i PROVE OnSurface(new, i)
    <3>1. k \in 1..Len(new) /\ new[k] = i
      BY <1>3, <2>4
    <3> QED
      BY <3>1 DEF OnSurface
  <2> QED
    BY <2>2, <2>3, <2>4 DEF OnSurface
<1>7. \A i \in 1..q : i = q \/ i \in 1..Len(evs)
  BY <1>1
<1> HIDE DEF q, new
<1>8. ASSUME NEW i \in 1..q
      PROVE  IF ~CarriedBy(more[i]) THEN ~OnSurface(new, i) /\ ShadowsIn(more, i) = {}
             ELSE \/ OnSurface(new, i) /\ ShadowsIn(more, i) = {}
                  \/ ~OnSurface(new, i) /\ \E r \in 1..q : ShadowsIn(more, i) = {r}
  <2>1. CASE i = q
    BY <1>1, <1>2, <1>6, <2>1 DEF CarriedBy
  <2>2. CASE i \in 1..Len(evs)
    <3>1. 1..Len(evs) \subseteq 1..q
      BY <1>1 DEF q
    <3> QED
      BY <1>1, <1>2, <1>6, <2>2, <3>1 DEF Faithful
  <2> QED
    BY <1>7, <2>1, <2>2
<1> QED
  BY <1>1, <1>4, <1>5, <1>8 DEF Faithful, more, q, new

(* An accepted replacement shadows messages that were on the surface, each *)
(* for the first time, and is shown itself.                                *)
LEMMA FaithfulReplace ==
  ASSUME NEW evs \in Seq(Events), NEW e \in Events, NEW srf, Faithful(evs, srf), e.op = "replace",
         Replaceable(srf, e.from, e.to)
  PROVE  Faithful(Append(evs, e), Replaced(srf, e.from, e.to, Len(evs) + 1))
<1> DEFINE more == Append(evs, e)
           q == Len(evs) + 1
           f == e.from
           t == e.to
           new == Replaced(srf, f, t, q)
<1>1. /\ Len(evs) \in Nat /\ Len(more) = q /\ more[q] = e /\ q \in Nat
      /\ \A k \in 1..Len(evs) : more[k] = evs[k]
  OBVIOUS
<1>2. /\ ShadowsIn(more, q) = {}
      /\ \A j \in 1..Len(evs) :
           ShadowsIn(more, j) = IF j \in f..t THEN ShadowsIn(evs, j) \union {q} ELSE ShadowsIn(evs, j)
  BY ShadowsOfMore
<1>3. /\ srf \in Seq(1..Len(evs)) /\ Distinct(srf) /\ Len(srf) \in Nat /\ srf \in Seq(Nat)
      /\ \A k \in 1..Len(srf) : srf[k] \in 1..Len(evs)
  <2>1. srf \in Seq(1..Len(evs)) /\ Distinct(srf)
    BY DEF Faithful
  <2> QED
    BY <1>1, <2>1
<1>4. /\ f \in Nat /\ t \in Nat /\ f <= t /\ OnSurface(srf, f)
      /\ Shadowed(srf, IndexOf(srf, f), f, t) = t - f + 1
  BY DEF Replaceable, Events
<1> HIDE DEF more, q, f, t
<1>5. PICK i \in Nat, n \in Nat : Spliced(srf, f, t, q, i, n, new)
  <2>1. srf \in Seq(Nat) /\ q \in Nat /\ OnSurface(srf, f)
    BY <1>1, <1>3, <1>4
  <2> QED
    BY <2>1, ReplacedSpec, Zenon
<1>6. /\ i = IndexOf(srf, f) /\ n = Shadowed(srf, i, f, t) /\ new \in Seq(Nat)
      /\ i \in 1..Len(srf) /\ srf[i] = f
      /\ n <= Len(srf) - i + 1 /\ \A k \in i..(i + n - 1) : srf[k] \in f..t
      /\ Len(new) = Len(srf) - n + 1
      /\ \A k \in 1..Len(new) : new[k] = IF k < i THEN srf[k] ELSE IF k = i THEN q
                                         ELSE srf[k - 1 + n]
  BY <1>5 DEF Spliced
<1> HIDE DEF new
<1>20. n = t - f + 1 /\ n >= 1
  BY <1>4, <1>6
\* The range is f..t in full, and the rest lies outside it.
<1>7. \A j \in f..t : \E k \in i..(i + n - 1) : srf[k] = j
  <2>1. i + (t - f) = i + n - 1 /\ i + (t - f) <= Len(srf) /\ i >= 1
    BY <1>3, <1>4, <1>6, <1>20
  <2>2. Inside(srf, f, t, i)
    BY <1>6, <2>1 DEF Inside
  <2>3. Distinct(srf) /\ Len(srf) \in Nat /\ f \in Nat /\ t \in Nat /\ f <= t
    BY <1>3, <1>4
  <2>4. Covers(srf, f, t, i)
    BY <2>1, <2>2, <2>3, FullRange
  <2> QED
    BY <2>1, <2>4 DEF Covers
<1>8. \A k \in 1..Len(srf) : srf[k] \in f..t <=> k \in i..(i + n - 1)
  <2> SUFFICES ASSUME NEW k \in 1..Len(srf), srf[k] \in f..t PROVE k \in i..(i + n - 1)
    BY <1>6
  <2>1. PICK l \in i..(i + n - 1) : srf[l] = srf[k]
    BY <1>7
  <2>2. l \in 1..Len(srf)
    BY <1>3, <1>6
  <2> QED
    BY <1>3, <2>1, <2>2 DEF Distinct
<1> DEFINE old(k) == IF k < i THEN k ELSE k - 1 + n
<1>9. ASSUME NEW k \in 1..Len(new), k # i
      PROVE  old(k) \in 1..Len(srf) /\ new[k] = srf[old(k)] /\ srf[old(k)] \notin f..t
  <2>1. old(k) \in 1..Len(srf) /\ old(k) \notin i..(i + n - 1)
    <3>1. k \in Nat /\ k >= 1 /\ k <= Len(srf) - n + 1 /\ Len(srf) \in Nat /\ i <= Len(srf)
      BY <1>3, <1>6
    <3>2. CASE k < i
      BY <3>1, <3>2
    <3>3. CASE k > i
      BY <1>20, <3>1, <3>3
    <3> QED
      BY <1>9, <3>1, <3>2, <3>3
  <2>2. new[k] = srf[old(k)]
    BY <1>6, <1>9
  <2> HIDE DEF old
  <2> QED
    BY <1>8, <2>1, <2>2
<1>10. new[i] = q /\ i \in 1..Len(new) /\ Len(new) \in Nat
  <2>1. i \in 1..Len(new) /\ Len(new) \in Nat
    BY <1>3, <1>6
  <2> QED
    BY <1>6, <2>1
<1>11. new \in Seq(1..q) /\ Distinct(new)
  <2>1. \A k \in 1..Len(srf) : srf[k] \in 1..q /\ srf[k] # q
    BY <1>1, <1>3 DEF q
  <2>2. q \in 1..q
    BY <1>1 DEF q
  <2>3. ASSUME NEW k \in 1..Len(new) PROVE new[k] \in 1..q /\ (k # i => new[k] # q)
    <3>1. CASE k = i
      BY <1>10, <2>2, <3>1
    <3>2. CASE k # i
      <4> HIDE DEF old
      <4> QED
        BY <1>9, <2>1, <3>2
    <3> QED
      BY <3>1, <3>2
  <2>4. new \in Seq(1..q)
    <3>1. new = [k \in 1..Len(new) |-> new[k]]
      BY <1>6
    <3> QED
      BY <1>10, <2>3, <3>1
  <2>5. ASSUME NEW j \in 1..Len(new), NEW k \in 1..Len(new), new[j] = new[k], j # i, k # i
        PROVE  j = k
    <3>1. old(j) = old(k)
      <4> HIDE DEF old
      <4> QED
        BY <1>3, <1>9, <2>5 DEF Distinct
    <3>2. j \in Int /\ k \in Int /\ i \in Int /\ n \in Int
      BY <1>6
    <3> QED
      BY <1>20, <2>5, <3>1, <3>2
  <2> QED
    BY <1>10, <2>3, <2>4, <2>5, Zenon DEF Distinct
<1>12. \A j \in 1..Len(evs) : OnSurface(new, j) <=> OnSurface(srf, j) /\ j \notin f..t
  <2> SUFFICES ASSUME NEW j \in 1..Len(evs)
               PROVE  OnSurface(new, j) <=> OnSurface(srf, j) /\ j \notin f..t
    OBVIOUS
  <2>1. ASSUME NEW k \in 1..Len(new), new[k] = j PROVE OnSurface(srf, j) /\ j \notin f..t
    <3>1. k # i
      BY <1>1, <1>10, <2>1 DEF q
    <3> QED
      BY <1>9, <2>1, <3>1 DEF OnSurface
  <2>2. ASSUME NEW k \in 1..Len(srf), srf[k] = j, j \notin f..t PROVE OnSurface(new, j)
    <3>1. k \notin i..(i + n - 1)
      BY <1>8, <2>2
    <3>2. i >= 1 /\ n <= Len(srf) - i + 1 /\ Len(new) = Len(srf) - n + 1
      BY <1>3, <1>6
    <3>3. PICK l \in 1..Len(new) : l # i /\ old(l) = k
      <4>1. \E l \in 1..(Len(srf) - n + 1) : l # i /\ (IF l < i THEN l ELSE l - 1 + n) = k
        <5>1. Len(srf) \in Nat /\ n >= 1
          BY <1>3, <1>20
        <5> QED
          BY SMTT(30), <3>1, <3>2, <5>1, SplicePlaces
      <4>2. \A l \in 1..Len(new) : old(l) = IF l < i THEN l ELSE l - 1 + n
        OBVIOUS
      <4> HIDE DEF old
      <4> QED
        BY <3>2, <4>1, <4>2
    <3> HIDE DEF old
    <3>4. new[l] = srf[old(l)]
      BY <1>9, <3>3
    <3> QED
      BY <2>2, <3>3, <3>4 DEF OnSurface
  <2> QED
    BY <2>1, <2>2 DEF OnSurface
<1>13. OnSurface(new, q)
  BY <1>10 DEF OnSurface
<1>14. \A j \in f..t : OnSurface(srf, j) /\ j \in 1..Len(evs)
  <2> SUFFICES ASSUME NEW j \in f..t PROVE OnSurface(srf, j) /\ j \in 1..Len(evs)
    OBVIOUS
  <2>1. PICK k \in i..(i + n - 1) : srf[k] = j
    BY <1>7
  <2>2. k \in 1..Len(srf)
    BY SMTT(30), <1>3, <1>6
  <2> QED
    BY <1>3, <2>1, <2>2 DEF OnSurface
<1>15. \A j \in 1..q : j = q \/ j \in 1..Len(evs)
  BY <1>1 DEF q
<1>16. 1..Len(evs) \subseteq 1..q /\ q \in 1..q
  BY <1>1 DEF q
<1>17. ASSUME NEW j \in 1..q
      PROVE  IF ~CarriedBy(more[j]) THEN ~OnSurface(new, j) /\ ShadowsIn(more, j) = {}
             ELSE \/ OnSurface(new, j) /\ ShadowsIn(more, j) = {}
                  \/ ~OnSurface(new, j) /\ \E r \in 1..q : ShadowsIn(more, j) = {r}
  <2>1. CASE j = q
    BY <1>1, <1>2, <1>13, <2>1 DEF CarriedBy
  <2>2. CASE j \in 1..Len(evs) /\ j \in f..t
    <3>1. CarriedBy(evs[j]) /\ ShadowsIn(evs, j) = {}
      BY <1>14, <2>2 DEF Faithful
    <3>2. ShadowsIn(more, j) = {q}
      BY <1>2, <2>2, <3>1
    <3> QED
      BY <1>1, <1>12, <1>16, <2>2, <3>1, <3>2
  <2>3. CASE j \in 1..Len(evs) /\ j \notin f..t
    <3>1. /\ OnSurface(new, j) <=> OnSurface(srf, j)
          /\ ShadowsIn(more, j) = ShadowsIn(evs, j) /\ more[j] = evs[j]
      BY <1>1, <1>2, <1>12, <2>3
    <3> QED
      BY <1>16, <2>3, <3>1 DEF Faithful
  <2> QED
    BY <1>15, <2>1, <2>2, <2>3
<1>18. Faithful(more, new)
  BY <1>1, <1>11, <1>11, <1>17 DEF Faithful
<1> QED
  BY <1>18 DEF more, new, q, f, t

-----------------------------------------------------------------------------
(* g is the table of running sums of the first m events.                   *)
Adds(g, evs, m) == g = [n \in 0..m |-> IF n = 0 THEN 0 ELSE g[n - 1] + evs[n].add]

(* That table exists.                                                      *)
LEMMA AddsExists ==
  ASSUME NEW evs, NEW m \in Nat
  PROVE  \E g : Adds(g, evs, m)
<1> DEFINE T == {k \in Nat : \E g : Adds(g, evs, k)}
<1>1. 0 \in T
  <2> DEFINE g == [n \in 0..0 |-> 0]
  <2>1. g = [n \in 0..0 |-> IF n = 0 THEN 0 ELSE g[n - 1] + evs[n].add]
    OBVIOUS
  <2> HIDE DEF g
  <2> QED
    BY <2>1 DEF Adds
<1>2. ASSUME NEW k \in Nat, k \in T PROVE k + 1 \in T
  <2>1. PICK g : Adds(g, evs, k)
    BY <1>2
  <2> DEFINE h == [n \in 0..(k + 1) |-> IF n <= k THEN g[n] ELSE g[k] + evs[k + 1].add]
             step(f, n) == IF n = 0 THEN 0 ELSE f[n - 1] + evs[n].add
  <2>2. ASSUME NEW n \in 0..(k + 1) PROVE h[n] = step(h, n)
    <3>1. CASE n <= k
      <4>1. h[n] = g[n] /\ n \in 0..k
        BY <3>1
      <4>2. g[n] = step(g, n)
        BY <2>1, <4>1 DEF Adds
      <4>3. n # 0 => h[n - 1] = g[n - 1]
        BY <3>1
      <4> QED
        BY <4>1, <4>2, <4>3
    <3>2. CASE n = k + 1
      <4>1. h[n] = g[k] + evs[n].add /\ n # 0 /\ n - 1 = k
        BY <3>2
      <4>2. h[k] = g[k]
        OBVIOUS
      <4> QED
        BY <4>1, <4>2
    <3> QED
      BY <3>1, <3>2
  <2>3. h = [n \in 0..(k + 1) |-> h[n]]
    OBVIOUS
  <2> HIDE DEF h
  <2>4. Adds(h, evs, k + 1)
    BY <2>2, <2>3 DEF Adds
  <2> QED
    BY <2>4
<1>3. m \in T
  BY <1>1, <1>2, SetInduction
<1> QED
  BY <1>3

(* Sum is its last entry.                                                  *)
LEMMA SumAdds ==
  ASSUME NEW evs, Len(evs) \in Nat
  PROVE  \E g : Adds(g, evs, Len(evs)) /\ Sum(evs) = g[Len(evs)]
<1> DEFINE sum == CHOOSE g : g = [n \in 0..Len(evs) |-> IF n = 0 THEN 0 ELSE g[n - 1] + evs[n].add]
<1>1. Sum(evs) = sum[Len(evs)]
  BY Zenon DEF Sum
<1>2. Adds(sum, evs, Len(evs))
  <2>1. \E g : Adds(g, evs, Len(evs))
    BY AddsExists
  <2> QED
    BY <2>1, Zenon DEF Adds
<1> QED
  BY <1>1, <1>2

(* The table of a list extends that of its prefixes.                       *)
LEMMA AddsAgree ==
  ASSUME NEW a, NEW b, NEW m \in Nat, NEW l \in Nat, m <= l,
         NEW g, NEW h, Adds(g, a, m), Adds(h, b, l), \A k \in 1..m : a[k] = b[k]
  PROVE  \A n \in 0..m : g[n] = h[n]
<1> DEFINE T == {n \in Nat : n <= m => g[n] = h[n]}
<1>1. \A n \in 0..m : /\ g[n] = IF n = 0 THEN 0 ELSE g[n - 1] + a[n].add
                     /\ h[n] = IF n = 0 THEN 0 ELSE h[n - 1] + b[n].add
  BY DEF Adds
<1>2. 0 \in T
  BY <1>1
<1>3. ASSUME NEW n \in Nat, n \in T PROVE n + 1 \in T
  <2> SUFFICES ASSUME n + 1 <= m PROVE g[n + 1] = h[n + 1]
    OBVIOUS
  <2>1. n + 1 \in 1..m /\ n + 1 \in 0..m /\ n + 1 # 0 /\ (n + 1) - 1 = n /\ n <= m
    OBVIOUS
  <2>2. g[n] = h[n] /\ a[n + 1] = b[n + 1]
    BY <1>3, <2>1
  <2>3. /\ g[n + 1] = g[n] + a[n + 1].add
        /\ h[n + 1] = h[n] + b[n + 1].add
    BY <1>1, <2>1
  <2> QED
    BY <2>2, <2>3
<1>4. \A n \in Nat : n \in T
  BY <1>2, <1>3, SetInduction
<1> QED
  BY <1>4

(* One more event adds what it adds.                                       *)
LEMMA SumAppend ==
  ASSUME NEW evs \in Seq(Events), NEW e \in Events
  PROVE  Sum(Append(evs, e)) = Sum(evs) + e.add
<1> DEFINE more == Append(evs, e)
           m == Len(evs)
<1>1. /\ m \in Nat /\ Len(more) = m + 1 /\ more[m + 1] = e
      /\ \A k \in 1..m : evs[k] = more[k]
  OBVIOUS
<1>2. PICK g : Adds(g, evs, m) /\ Sum(evs) = g[m]
  BY <1>1, SumAdds
<1> HIDE DEF more
<1>3. PICK h : Adds(h, more, m + 1) /\ Sum(more) = h[m + 1]
  BY <1>1, SumAdds
<1> HIDE DEF m
<1>4. g[m] = h[m]
  <2>1. m + 1 \in Nat /\ m <= m + 1 /\ m \in 0..m
    BY <1>1
  <2> QED
    BY <1>1, <1>2, <1>3, <2>1, AddsAgree
<1>5. h[m + 1] = h[m] + more[m + 1].add
  <2>1. m + 1 \in 0..(m + 1) /\ m + 1 # 0 /\ (m + 1) - 1 = m
    BY <1>1
  <2> QED
    BY <1>3, <2>1 DEF Adds
<1> QED
  BY <1>1, <1>2, <1>3, <1>4, <1>5 DEF m, more

(* The sum of an empty log.                                                *)
LEMMA SumNothing == Sum(<<>>) = 0
<1>1. Len(<<>>) = 0
  OBVIOUS
<1>2. PICK g : Adds(g, <<>>, 0) /\ Sum(<<>>) = g[0]
  BY <1>1, SumAdds
<1> QED
  BY <1>2 DEF Adds

-----------------------------------------------------------------------------
(* A nonempty set of seqs has a latest one.                                *)
LEMMA Latest ==
  ASSUME NEW T, NEW m \in Nat, T \subseteq 1..m, T # {}
  PROVE  \E k \in T : \A j \in T : j <= k
<1> DEFINE D == {n \in Nat : \E k \in T : n = m - k}
<1>1. D \subseteq Nat /\ D # {}
  <2>1. PICK k \in T : TRUE
    OBVIOUS
  <2>2. m - k \in Nat
    BY <2>1
  <2> QED
    BY <2>1, <2>2
<1>2. PICK n \in D : \A y \in D : ~(y < n)
  <2> HIDE DEF D
  <2> QED
    BY <1>1, Least
<1>3. PICK k \in T : n = m - k
  BY <1>2
<1>4. ASSUME NEW j \in T PROVE j <= k
  <2>1. m - j \in D /\ j \in 1..m /\ k \in 1..m
    OBVIOUS
  <2>2. ~(m - j < n)
    <3> HIDE DEF D
    <3> QED
      BY <1>2, <2>1
  <2> QED
    BY <1>3, <2>1, <2>2
<1> QED
  BY <1>4

(* UsedTokens, of any event list.                                          *)
Used(evs) == LET U == UsagesOf(evs) IN
  IF U = {} THEN 0 ELSE evs[CHOOSE i \in U : \A j \in U : j <= i].total

(* The total read off the latest usage record is the sum.                  *)
LEMMA UsedIsSum ==
  ASSUME NEW evs, Len(evs) \in Nat, Summed(evs)
  PROVE  Used(evs) = Sum(evs)
<1> DEFINE U == UsagesOf(evs)
<1>1. CASE U = {}
  BY <1>1 DEF Summed, Used
<1>2. CASE U # {}
  <2>1. U \subseteq 1..Len(evs)
    BY DEF UsagesOf
  <2>2. Used(evs) = evs[CHOOSE i \in U : \A j \in U : j <= i].total
    BY <1>2, Zenon DEF Used
  <2> HIDE DEF U
  <2>3. \E k \in U : \A j \in U : j <= k
    BY <1>2, <2>1, Latest
  <2> DEFINE last == CHOOSE i \in U : \A j \in U : j <= i
  <2>4. last \in U /\ \A j \in U : j <= last
    BY <2>3, Zenon
  <2> HIDE DEF last
  <2>5. evs[last].total = Sum(evs)
    BY <2>4 DEF Summed, Sums, U
  <2> QED
    BY <2>2, <2>5 DEF last
<1> QED
  BY <1>1, <1>2

(* Nothing but usage changes the sum, and a usage record carries it. *)
(* A usage record that carries the next total keeps it so; any other       *)
(* record changes neither.                                                 *)
LEMMA SummedMore ==
  ASSUME NEW evs \in Seq(Events), NEW e \in Events, Summed(evs), Sum(evs) \in Nat,
         IF e.op = "usage" THEN e.total = Sum(evs) + e.add ELSE e.add = 0
  PROVE  Summed(Append(evs, e)) /\ Sum(Append(evs, e)) \in Nat
<1> DEFINE more == Append(evs, e)
           q == Len(evs) + 1
<1>1. /\ Len(evs) \in Nat /\ Len(more) = q /\ more[q] = e
      /\ \A k \in 1..Len(evs) : more[k] = evs[k]
      /\ 1..q = (1..Len(evs)) \union {q} /\ q \notin 1..Len(evs)
      /\ \A j \in 1..Len(evs) : ~(q <= j)
  OBVIOUS
<1>2. Sum(more) = Sum(evs) + e.add /\ e.add \in Nat
  BY SumAppend DEF Events
<1> HIDE DEF more, q
<1>3. CASE e.op = "usage"
  <2>1. UsagesOf(more) = UsagesOf(evs) \union {q}
    BY <1>1, <1>3 DEF UsagesOf
  <2>2. more[q].total = Sum(more)
    BY <1>1, <1>2, <1>3
  <2>3. ASSUME NEW k \in UsagesOf(more), \A j \in UsagesOf(more) : j <= k
        PROVE  k = q
    <3>1. q <= k /\ (k = q \/ k \in 1..Len(evs))
      BY <2>1, <2>3 DEF UsagesOf
    <3> QED
      BY <1>1, <3>1
  <2>4. q \in UsagesOf(more)
    BY <2>1
  <2>5. Summed(more)
    BY <2>2, <2>3, <2>4 DEF Summed, Sums
  <2> QED
    BY <1>2, <2>5 DEF more
<1>4. CASE e.op # "usage"
  <2>1. UsagesOf(more) = UsagesOf(evs)
    BY <1>1, <1>4 DEF UsagesOf
  <2>2. Sum(more) = Sum(evs)
    BY <1>2, <1>4
  <2>3. \A k \in UsagesOf(evs) : more[k] = evs[k]
    BY <1>1 DEF UsagesOf
  <2> QED
    BY <2>1, <2>2, <2>3 DEF Summed, Sums, more
<1> QED
  BY <1>3, <1>4

-----------------------------------------------------------------------------
(* An empty log is sound.                                                  *)
LEMMA NothingSound == SoundDoc(<<>>) /\ Replay(<<>>) = <<>>
<1> DEFINE none == <<>>
<1>1. none \in Seq(Events) /\ none \in Seq(1..0) /\ Len(none) = 0
  OBVIOUS
<1>2. Faithful(none, none)
  BY <1>1 DEF Faithful, Distinct
<1>3. Summed(none)
  BY <1>1, SumNothing DEF Summed, Sums, UsagesOf
<1> QED
  BY <1>1, <1>2, <1>3, ReplayNothing, SumNothing DEF SoundDoc

(* A committed event leaves a sound log.                                   *)
LEMMA SoundMore ==
  ASSUME NEW evs, SoundDoc(evs), NEW e \in Events,
         e.op = "replace" => Replaceable(Replay(evs), e.from, e.to),
         IF e.op = "usage" THEN e.total = Used(evs) + e.add ELSE e.add = 0
  PROVE  SoundDoc(Append(evs, e))
<1> DEFINE more == Append(evs, e)
<1>1. evs \in Seq(Events) /\ Len(evs) \in Nat /\ Faithful(evs, Replay(evs)) /\ Summed(evs) /\ Sum(evs) \in Nat
  BY DEF SoundDoc
<1>2. Used(evs) = Sum(evs)
  BY <1>1, UsedIsSum
<1>3. Summed(more) /\ Sum(more) \in Nat
  BY <1>1, <1>2, SummedMore
<1>4. Replay(more) = Show(Replay(evs), e, Len(evs) + 1)
  BY <1>1, ReplayAppend
<1>5. Faithful(more, Replay(more))
  <2>1. CASE e.op = "append"
    <3>1. Replay(more) = Append(Replay(evs), Len(evs) + 1)
      BY <1>4, <2>1 DEF Show
    <3> QED
      BY <1>1, <2>1, <3>1, FaithfulAppend
  <2>2. CASE e.op = "replace"
    <3>1. Replay(more) = Replaced(Replay(evs), e.from, e.to, Len(evs) + 1)
      BY <1>4, <2>2 DEF Show
    <3> QED
      BY <1>1, <2>2, <3>1, FaithfulReplace
  <2>3. CASE e.op \notin {"append", "replace"}
    <3>1. Replay(more) = Replay(evs)
      BY <1>4, <2>3 DEF Show
    <3> QED
      BY <1>1, <2>3, <3>1, FaithfulNote
  <2> QED
    BY <2>1, <2>2, <2>3
<1>6. more \in Seq(Events)
  BY <1>1
<1> QED
  BY <1>3, <1>5, <1>6 DEF SoundDoc

(* A prefix stays one when the log grows.                                  *)
LEMMA PrefixMore ==
  ASSUME NEW p \in Seq(Events), NEW s \in Seq(Events), NEW e \in Events, IsPrefixOf(p, s)
  PROVE  IsPrefixOf(p, Append(s, e))
<1>1. /\ Len(p) \in Nat /\ Len(s) \in Nat /\ Len(p) <= Len(s) /\ Append(s, e) \in Seq(Events)
      /\ Len(Append(s, e)) = Len(s) + 1 /\ \A k \in 1..Len(p) : Append(s, e)[k] = s[k]
  BY DEF IsPrefixOf
<1>2. SubSeq(Append(s, e), 1, Len(p)) = SubSeq(s, 1, Len(p))
  BY <1>1
<1> QED
  BY <1>1, <1>2 DEF IsPrefixOf

(* A snapshot of the whole log is a prefix of it.                          *)
LEMMA PrefixSelf ==
  ASSUME NEW p \in Seq(Events)
  PROVE  IsPrefixOf(p, p)
<1>1. p = SubSeq(p, 1, Len(p)) /\ Len(p) \in Nat
  OBVIOUS
<1> QED
  BY <1>1 DEF IsPrefixOf

(* A listener that is told of the next event has got all of them.          *)
LEMMA SeenMore ==
  ASSUME NEW since \in Nat, NEW m \in Nat, since <= m,
         NEW got, got = SeqsAfter(since, m)
  PROVE  Append(got, m + 1) = SeqsAfter(since, m + 1)
<1>0. got = [i \in 1..(m - since) |-> since + i]
  BY DEF SeqsAfter
<1>1. m - since \in Nat /\ got \in Seq(Nat) /\ Len(got) = m - since /\ m + 1 - since = (m - since) + 1
  BY <1>0
<1> DEFINE more == Append(got, m + 1)
<1>2. more \in Seq(Nat) /\ Len(more) = (m - since) + 1
  BY <1>1
<1>3. ASSUME NEW i \in 1..((m - since) + 1) PROVE more[i] = since + i
  <2>1. CASE i = (m - since) + 1
    BY <1>1, <2>1
  <2>2. CASE i \in 1..(m - since)
    <3>1. more[i] = got[i]
      BY <1>1, <2>2
    <3> QED
      BY <1>0, <2>2, <3>1
  <2> QED
    BY <1>1, <2>1, <2>2
<1>4. more = [i \in 1..Len(more) |-> more[i]]
  BY <1>2
<1> HIDE DEF more
<1>5. more = [i \in 1..((m - since) + 1) |-> since + i]
  BY <1>2, <1>3, <1>4
<1> QED
  BY <1>1, <1>5 DEF more, SeqsAfter

(* A usage record carries the next total, and only it adds anything.       *)
UsageRight(e) == IF e.op = "usage" THEN e.total = UsedTokens + e.add ELSE e.add = 0

(* Append, accepted or refused: what it leaves of the log, of the          *)
(* listeners and of the snapshots taken before.                            *)
LEMMA CommitSound ==
  ASSUME SessionInv, NEW e \in Events, UsageRight(e), Commit(e)
  PROVE  /\ events' \in Seq(Events) /\ surface' \in Seq(Nat)
         /\ watch' \in [Watchers -> [since: Int, got: Seq(Nat)]]
         /\ LogGood' /\ WatchGood'
         /\ \A p \in Seq(Events) : IsPrefixOf(p, events) => IsPrefixOf(p, events')
         /\ (\A w \in Watchers : ~Subscribed(w)) => \A w \in Watchers : ~Subscribed(w)'
<1>1. CASE UNCHANGED <<events, surface, watch>>
  BY <1>1 DEF SessionInv, SessionTypeOK, LogGood, WatchGood, Subscribed
<1>2. CASE /\ ~closed /\ Acceptable(e)
           /\ events' = Append(events, e)
           /\ surface' = Show(surface, e, Len(events) + 1)
           /\ Notify(Len(events) + 1)
  <2>1. /\ events \in Seq(Events) /\ Len(events) \in Nat /\ surface = Replay(events)
        /\ SoundDoc(events) /\ watch \in [Watchers -> [since: Int, got: Seq(Nat)]]
    BY DEF SessionInv, SessionTypeOK, LogGood
  <2>2. events' \in Seq(Events) /\ Len(events') = Len(events) + 1
    BY <1>2, <2>1
  <2>3. surface' = Replay(events')
    BY <1>2, <2>1, ReplayAppend
  <2>4. SoundDoc(events')
    <3>1. UsedTokens = Used(events)
      BY DEF UsedTokens, Used, UsageEvents, UsagesOf
    <3>2. e.op = "replace" => Replaceable(Replay(events), e.from, e.to)
      BY <1>2, <2>1 DEF Acceptable
    <3>3. IF e.op = "usage" THEN e.total = Used(events) + e.add ELSE e.add = 0
      BY <3>1 DEF UsageRight
    <3> QED
      BY <1>2, <2>1, <3>2, <3>3, SoundMore
  <2>5. surface' \in Seq(Nat)
    <3>1. surface' \in Seq(1..Len(events'))
      BY <2>3, <2>4 DEF SoundDoc, Faithful
    <3> QED
      BY <2>2, <3>1
  <2>6. /\ watch' \in [Watchers -> [since: Int, got: Seq(Nat)]]
        /\ \A w \in Watchers : /\ watch'[w].since = watch[w].since
                               /\ Subscribed(w) => watch'[w].got = Append(watch[w].got, Len(events) + 1)
    <3>1. ASSUME NEW w \in Watchers
          PROVE  /\ watch'[w] \in [since: Int, got: Seq(Nat)]
                 /\ watch'[w].since = watch[w].since
                 /\ Subscribed(w) => watch'[w].got = Append(watch[w].got, Len(events) + 1)
      <4>1. watch[w] \in [since: Int, got: Seq(Nat)]
        BY <2>1
      <4>2. watch'[w] = IF Subscribed(w) THEN [watch[w] EXCEPT !.got = Append(@, Len(events) + 1)]
                        ELSE watch[w]
        BY <1>2 DEF Notify
      <4>3. Append(watch[w].got, Len(events) + 1) \in Seq(Nat)
        BY <2>1, <4>1
      <4> QED
        BY <4>1, <4>2, <4>3
    <3>2. watch' = [w \in Watchers |-> watch'[w]]
      BY <1>2 DEF Notify
    <3> QED
      BY <3>1, <3>2
  <2>7. \A w \in Watchers : Subscribed(w)' <=> Subscribed(w)
    BY <2>6 DEF Subscribed
  <2>8. WatchGood'
    <3> SUFFICES ASSUME NEW w \in Watchers, Subscribed(w)
                 PROVE  /\ watch'[w].since <= Len(events')
                        /\ watch'[w].got = SeqsAfter(watch'[w].since, Len(events'))
      BY <2>7 DEF WatchGood
    <3> DEFINE since == watch[w].since
               got == watch[w].got
    <3>1. since \in Nat /\ since <= Len(events)
          /\ got = SeqsAfter(since, Len(events))
      BY <2>1 DEF SessionInv, WatchGood, Subscribed
    <3>2. watch'[w].since = since /\ watch'[w].got = Append(got, Len(events) + 1)
      BY <2>6
    <3> HIDE DEF since, got
    <3>3. Append(got, Len(events) + 1) = SeqsAfter(since, Len(events) + 1)
      BY <2>1, <3>1, SeenMore
    <3>4. since <= Len(events) + 1
      BY <2>1, <3>1
    <3> HIDE DEF since, got
    <3>5. Len(events') = Len(events) + 1
      BY <2>2
    <3> QED
      BY <3>2, <3>3, <3>4, <3>5
  <2>9. \A p \in Seq(Events) : IsPrefixOf(p, events) => IsPrefixOf(p, events')
    BY <1>2, <2>1, PrefixMore
  <2> QED
    BY <2>2, <2>3, <2>4, <2>5, <2>6, <2>7, <2>8, <2>9 DEF LogGood
<1> QED
  BY <1>1, <1>2 DEF Commit, Reject

(* Every operation that ends in Append keeps the invariant.                *)
LEMMA CommitKeeps ==
  ASSUME SessionInv, NEW e \in Events, UsageRight(e), Commit(e), up,
         UNCHANGED <<closed, save, stored, up>>,
         trim' \in [Trims -> [at: {"idle", "replacing", "adding"}, first: Nat, last: Nat, keep: Nat]]
  PROVE  SessionInv'
<1>1. /\ events' \in Seq(Events) /\ surface' \in Seq(Nat)
      /\ watch' \in [Watchers -> [since: Int, got: Seq(Nat)]]
      /\ LogGood' /\ WatchGood'
      /\ \A p \in Seq(Events) : IsPrefixOf(p, events) => IsPrefixOf(p, events')
  BY CommitSound
<1>2. SessionTypeOK'
  BY <1>1 DEF SessionInv, SessionTypeOK
<1>3. SavesGood'
  BY <1>1 DEF SessionInv, SavesGood, SoundDoc
<1> QED
  BY <1>1, <1>2, <1>3 DEF SessionInv

(* Every step keeps it, crashes and restores included.                     *)
LEMMA SessionStep == SessionInv /\ [SessionNext]_sessionVars => SessionInv'
<1> DEFINE Trimming == [at: {"idle", "replacing", "adding"}, first: Nat, last: Nat, keep: Nat]
<1> SUFFICES ASSUME SessionInv, [SessionNext]_sessionVars PROVE SessionInv'
  OBVIOUS
<1>1. /\ trim \in [Trims -> Trimming] /\ events \in Seq(Events) /\ surface \in Seq(Nat)
      /\ save \in [Saves -> {NoSave} \union [doc: Seq(Events)]]
      /\ stored \in {NoDoc} \union [doc: Seq(Events)]
      /\ watch \in [Watchers -> [since: Int, got: Seq(Nat)]]
      /\ closed \in BOOLEAN /\ up \in BOOLEAN
  BY DEF SessionInv, SessionTypeOK
<1>2. UsedTokens \in Nat
  <2>1. UsedTokens = Used(events)
    BY DEF UsedTokens, Used, UsageEvents, UsagesOf
  <2>2. Len(events) \in Nat /\ Summed(events) /\ Sum(events) \in Nat
    BY <1>1 DEF SessionInv, LogGood, SoundDoc
  <2> QED
    BY <2>1, <2>2, UsedIsSum
<1>3. AppendEvent \in Events /\ UsageRight(AppendEvent) /\ NoteEvent \in Events /\ UsageRight(NoteEvent)
  BY DEF AppendEvent, NoteEvent, Events, UsageRight
<1>4. ASSUME NEW f \in Nat, NEW t \in Nat PROVE ReplaceEvent(f, t) \in Events /\ UsageRight(ReplaceEvent(f, t))
  BY DEF ReplaceEvent, AppendEvent, Events, UsageRight
<1>5. CASE AddMessage
  BY <1>1, <1>3, <1>5, CommitKeeps DEF AddMessage
<1>6. CASE AddNote
  BY <1>1, <1>3, <1>6, CommitKeeps DEF AddNote
<1>7. ASSUME NEW f \in 0..MaxEvents, NEW t \in 0..MaxEvents, Compact(f, t) PROVE SessionInv'
  <2>1. ReplaceEvent(f, t) \in Events /\ UsageRight(ReplaceEvent(f, t))
    BY <1>4
  <2> QED
    BY <1>1, <1>7, <2>1, CommitKeeps DEF Compact
<1>8. ASSUME NEW n \in 1..2, AddTokenUsage(n) PROVE SessionInv'
  <2> DEFINE total == NextTotal(n)
  <2>2. total = UsedTokens + n
    BY DEF NextTotal
  <2>3. total \in Nat /\ n \in Nat
    BY <1>2, <2>2
  <2> HIDE DEF total
  <2> DEFINE e == UsageEvent(total, n)
  <2>4. e \in Events /\ e.op = "usage" /\ e.total = total /\ e.add = n
    BY <2>3 DEF UsageEvent, AppendEvent, Events
  <2>1. UsageEvent(NextTotal(n), n) \in Events /\ UsageRight(UsageEvent(NextTotal(n), n))
    BY <2>2, <2>4 DEF UsageRight, total
  <2> QED
    BY <1>1, <1>8, <2>1, CommitKeeps DEF AddTokenUsage
<1>9. CASE Close
  BY <1>9 DEF Close, SessionInv, SessionTypeOK, LogGood, WatchGood, SavesGood, Subscribed
<1>10. ASSUME NEW w \in Watchers, Subscribe(w) PROVE SessionInv'
  <2> DEFINE fresh == [since |-> Len(events), got |-> <<>>]
  <2>1. fresh \in [since: Int, got: Seq(Nat)] /\ fresh.since = Len(events) /\ fresh.got = <<>>
        /\ Len(events) \in Nat
    BY <1>1
  <2> HIDE DEF fresh
  <2>2. /\ watch' = [watch EXCEPT ![w] = fresh] /\ up
        /\ UNCHANGED <<events, surface, closed, trim, save, stored, up>>
    BY <1>10 DEF Subscribe, fresh
  <2>3. SessionTypeOK' /\ LogGood' /\ SavesGood'
    BY <2>1, <2>2 DEF SessionInv, SessionTypeOK, LogGood, SavesGood
  <2>4. WatchGood'
    <3> SUFFICES ASSUME NEW v \in Watchers, Subscribed(v)'
                 PROVE  /\ watch'[v].since <= Len(events)
                        /\ watch'[v].got = SeqsAfter(watch'[v].since, Len(events))
      BY <2>2 DEF WatchGood
    <3>1. CASE v = w
      <4>1. watch'[v] = fresh
        BY <1>1, <2>2, <3>1
      <4>2. SeqsAfter(Len(events), Len(events)) = <<>>
        BY <2>1 DEF SeqsAfter
      <4> QED
        BY <2>1, <4>1, <4>2
    <3>2. CASE v # w
      <4>1. watch'[v] = watch[v]
        BY <1>1, <2>2, <3>2
      <4> QED
        BY <4>1 DEF SessionInv, WatchGood, Subscribed
    <3> QED
      BY <3>1, <3>2
  <2> QED
    BY <2>3, <2>4 DEF SessionInv
<1>11. ASSUME NEW w \in Watchers, Unsubscribe(w) PROVE SessionInv'
  <2>1. Unsubscribed \in [since: Int, got: Seq(Nat)] /\ Unsubscribed.since = -1
    BY DEF Unsubscribed
  <2>2. \A v \in Watchers : watch'[v] = IF v = w THEN Unsubscribed ELSE watch[v]
    BY <1>1, <1>11 DEF Unsubscribe
  <2>3. /\ watch' \in [Watchers -> [since: Int, got: Seq(Nat)]] /\ up
        /\ UNCHANGED <<events, surface, closed, trim, save, stored, up>>
    BY <1>1, <1>11, <2>1 DEF Unsubscribe
  <2>4. SessionTypeOK' /\ LogGood' /\ SavesGood'
    BY <2>3 DEF SessionInv, SessionTypeOK, LogGood, SavesGood
  <2>5. \A v \in Watchers : Subscribed(v)' => Subscribed(v) /\ watch'[v] = watch[v]
    BY <2>1, <2>2 DEF Subscribed
  <2>6. WatchGood'
    BY <2>3, <2>5 DEF SessionInv, WatchGood
  <2> QED
    BY <2>4, <2>6 DEF SessionInv
<1>12. ASSUME NEW t \in Trims, NEW k \in KeepSizes, TrimRead(t, k) PROVE SessionInv'
  <2>1. trim' \in [Trims -> Trimming]
    <3>1. k \in Nat
      BY SessionAssumption
    <3>2. [NoTrim EXCEPT !.at = "adding", !.keep = k] \in Trimming
      BY <3>1 DEF NoTrim
    <3>3. surface # <<>> => surface[1] \in Nat /\ surface[Len(surface)] \in Nat
      BY <1>1
    <3>4. surface # <<>> =>
            [at |-> "replacing", first |-> surface[1], last |-> surface[Len(surface)], keep |-> k]
              \in Trimming
      BY <3>1, <3>3
    <3> HIDE DEF Trimming
    <3> QED
      BY <1>1, <1>12, <3>2, <3>4 DEF TrimRead
  <2>2. UNCHANGED <<logVars, save, stored, up>>
    BY <1>12 DEF TrimRead
  <2> QED
    BY <2>1, <2>2 DEF SessionInv, SessionTypeOK, LogGood, WatchGood, SavesGood, Subscribed, logVars
<1>13. ASSUME NEW t \in Trims, TrimReplace(t) PROVE SessionInv'
  <2>1. trim[t] \in Trimming
    BY <1>1
  <2>2. trim[t].first \in Nat /\ trim[t].last \in Nat
    BY <2>1
  <2>3. trim' \in [Trims -> Trimming]
    BY <1>1, <1>13, <2>1 DEF TrimReplace
  <2> QED
    BY <1>4, <1>13, <2>2, <2>3, CommitKeeps DEF TrimReplace
<1>14. ASSUME NEW t \in Trims, TrimAdd(t) PROVE SessionInv'
  <2>1. trim[t] \in Trimming
    BY <1>1
  <2>2. CASE /\ trim[t].keep > 0 /\ Commit(AppendEvent)
             /\ trim' = [trim EXCEPT ![t].keep = @ - 1]
    <3>1. trim[t].keep - 1 \in Nat
      BY <2>1, <2>2
    <3>2. trim' \in [Trims -> Trimming]
      BY <1>1, <2>1, <2>2, <3>1
    <3> QED
      BY <1>3, <1>14, <2>2, <3>2, CommitKeeps DEF TrimAdd
  <2>3. CASE trim' = [trim EXCEPT ![t] = NoTrim] /\ UNCHANGED <<events, surface, watch>>
    <3>1. trim' \in [Trims -> Trimming]
      BY <1>1, <2>3 DEF NoTrim
    <3>2. UNCHANGED <<events, surface, watch, closed, save, stored, up>>
      BY <1>14, <2>3 DEF TrimAdd
    <3> QED
      BY <3>1, <3>2 DEF SessionInv, SessionTypeOK, LogGood, WatchGood, SavesGood, Subscribed
  <2> QED
    BY <1>14, <2>2, <2>3 DEF TrimAdd
<1>15. ASSUME NEW c \in Saves, SaveSnapshot(c) PROVE SessionInv'
  <2> DEFINE snap == [doc |-> events]
  <2>1. snap \in [doc: Seq(Events)] /\ snap.doc = events
    BY <1>1
  <2> HIDE DEF snap
  <2>2. /\ save' = [save EXCEPT ![c] = snap] /\ up
        /\ UNCHANGED <<events, surface, closed, watch, trim, stored, up>>
    BY <1>15 DEF SaveSnapshot, Snapshot, snap, logVars
  <2>3. SoundDoc(events) /\ IsPrefixOf(events, events)
    BY <1>1, PrefixSelf DEF SessionInv, LogGood
  <2>4. \A d \in Saves : save'[d] = IF d = c THEN snap ELSE save[d]
    BY <1>1, <2>2
  <2>5. SessionTypeOK' /\ LogGood' /\ WatchGood'
    BY <2>1, <2>2 DEF SessionInv, SessionTypeOK, LogGood, WatchGood, Subscribed
  <2>6. SavesGood'
    BY <2>1, <2>2, <2>3, <2>4 DEF SessionInv, SavesGood, Subscribed
  <2> QED
    BY <2>5, <2>6 DEF SessionInv
<1>16. ASSUME NEW c \in Saves, SaveRename(c) PROVE SessionInv'
  <2>1. /\ stored' = save[c] /\ save' = [save EXCEPT ![c] = NoSave] /\ up /\ save[c] # NoSave
        /\ UNCHANGED <<events, surface, closed, watch, trim, up>>
    BY <1>16 DEF SaveRename, logVars
  <2>2. save[c] \in [doc: Seq(Events)]
    BY <1>1, <2>1
  <2>3. \A d \in Saves : save'[d] = IF d = c THEN NoSave ELSE save[d]
    BY <1>1, <2>1
  <2>4. SessionTypeOK' /\ LogGood' /\ WatchGood'
    BY <2>1, <2>2 DEF SessionInv, SessionTypeOK, LogGood, WatchGood, Subscribed
  <2>5. SavesGood'
    BY <2>1, <2>3 DEF SessionInv, SavesGood, Subscribed
  <2> QED
    BY <2>4, <2>5 DEF SessionInv
<1>17. ASSUME NEW c \in Saves, RenameFails(c) PROVE SessionInv'
  <2>1. /\ save' = [save EXCEPT ![c] = NoSave]
        /\ UNCHANGED <<events, surface, closed, watch, trim, stored, up>>
    BY <1>17 DEF RenameFails, logVars
  <2>2. \A d \in Saves : save'[d] = IF d = c THEN NoSave ELSE save[d]
    BY <1>1, <2>1
  <2>3. SessionTypeOK' /\ LogGood' /\ WatchGood'
    BY <2>1 DEF SessionInv, SessionTypeOK, LogGood, WatchGood, Subscribed
  <2>4. SavesGood'
    BY <2>1, <2>2 DEF SessionInv, SavesGood, Subscribed
  <2> QED
    BY <2>3, <2>4 DEF SessionInv
<1>18. CASE DeleteDocument
  BY <1>18 DEF DeleteDocument, logVars, SessionInv, SessionTypeOK, LogGood, WatchGood, SavesGood, Subscribed
<1>19. CASE Crash
  <2>1. /\ up' = FALSE /\ events' = <<>> /\ surface' = <<>> /\ closed' = FALSE /\ stored' = stored
        /\ trim' = [t \in Trims |-> NoTrim] /\ save' = [c \in Saves |-> NoSave]
        /\ watch' = [w \in Watchers |-> Unsubscribed]
    BY <1>19 DEF Crash
  <2>2. \A w \in Watchers : ~Subscribed(w)'
    BY <2>1 DEF Subscribed, Unsubscribed
  <2>3. NoTrim \in Trimming /\ Unsubscribed \in [since: Int, got: Seq(Nat)]
    BY DEF NoTrim, Unsubscribed
  <2>7. /\ events' \in Seq(Events) /\ surface' \in Seq(Nat)
        /\ closed' \in BOOLEAN /\ up' \in BOOLEAN /\ stored' \in {NoDoc} \union [doc: Seq(Events)]
    <3>1. <<>> \in Seq(Events) /\ <<>> \in Seq(Nat)
      OBVIOUS
    <3>2. FALSE \in BOOLEAN
      OBVIOUS
    <3> QED
      BY <1>1, <2>1, <3>1, <3>2
  <2>8. /\ watch' \in [Watchers -> [since: Int, got: Seq(Nat)]]
        /\ trim' \in [Trims -> Trimming]
    BY <2>1, <2>3
  <2>9. save' \in [Saves -> {NoSave} \union [doc: Seq(Events)]]
    BY <2>1
  <2>4. SessionTypeOK'
    BY <2>7, <2>8, <2>9 DEF SessionTypeOK
  <2>5. LogGood' /\ WatchGood'
    BY <2>1, <2>2, NothingSound DEF LogGood, WatchGood
  <2>6. SavesGood'
    BY <2>1, <2>2 DEF SessionInv, SavesGood
  <2> QED
    BY <2>4, <2>5, <2>6 DEF SessionInv
<1>20. CASE Get
  <2>1. /\ ~up /\ stored # NoDoc /\ up' = TRUE /\ events' = stored.doc
        /\ surface' = Replay(stored.doc) /\ UNCHANGED <<closed, watch, trim, save, stored>>
    BY <1>20 DEF Get, Restored
  <2>2. SoundDoc(stored.doc) /\ stored.doc \in Seq(Events)
    BY <2>1 DEF SessionInv, SavesGood, SoundDoc
  <2>3. surface' \in Seq(Nat)
    <3>1. Replay(stored.doc) \in Seq(1..Len(stored.doc)) /\ Len(stored.doc) \in Nat
      BY <2>2 DEF SoundDoc, Faithful
    <3>2. 1..Len(stored.doc) \subseteq Nat
      BY <3>1
    <3> QED
      BY <2>1, <3>1, <3>2
  <2>4. SessionTypeOK' /\ LogGood'
    BY <1>1, <2>1, <2>2, <2>3 DEF SessionTypeOK, LogGood
  <2>5. (\A w \in Watchers : ~Subscribed(w)) /\ (\A c \in Saves : save[c] = NoSave)
    BY <2>1 DEF SessionInv, SavesGood
  <2>6. WatchGood' /\ SavesGood'
    BY <2>1, <2>2, <2>5, PrefixSelf DEF WatchGood, SavesGood, Subscribed
  <2> QED
    BY <2>4, <2>6 DEF SessionInv
<1>21. CASE UNCHANGED sessionVars
  BY <1>21 DEF sessionVars, logVars, SessionInv, SessionTypeOK, LogGood, WatchGood, SavesGood, Subscribed
<1> QED
  BY <1>5, <1>6, <1>7, <1>8, <1>9, <1>10, <1>11, <1>12, <1>13, <1>14, <1>15, <1>16, <1>17, <1>18,
     <1>19, <1>20, <1>21 DEF SessionNext

(* A fresh log satisfies it.                                               *)
LEMMA SessionStart == SessionInit => SessionInv
<1> SUFFICES ASSUME SessionInit PROVE SessionInv
  OBVIOUS
<1>1. NoTrim \in [at: {"idle", "replacing", "adding"}, first: Nat, last: Nat, keep: Nat]
      /\ Unsubscribed \in [since: Int, got: Seq(Nat)] /\ Unsubscribed.since = -1
  BY DEF NoTrim, Unsubscribed
<1>2. SessionTypeOK
  <2>1. /\ events \in Seq(Events) /\ surface \in Seq(Nat)
        /\ closed \in BOOLEAN /\ up \in BOOLEAN /\ stored \in {NoDoc} \union [doc: Seq(Events)]
    <3>1. <<>> \in Seq(Events) /\ <<>> \in Seq(Nat)
      OBVIOUS
    <3>2. stored = NoDoc
      BY DEF SessionInit
    <3> QED
      BY <3>1, <3>2 DEF SessionInit
  <2>2. watch \in [Watchers -> [since: Int, got: Seq(Nat)]]
    BY <1>1 DEF SessionInit
  <2>3. trim \in [Trims -> [at: {"idle", "replacing", "adding"}, first: Nat, last: Nat, keep: Nat]]
    BY <1>1 DEF SessionInit
  <2>4. save \in [Saves -> {NoSave} \union [doc: Seq(Events)]]
    BY DEF SessionInit
  <2> QED
    BY <2>1, <2>2, <2>3, <2>4 DEF SessionTypeOK
<1>3. LogGood
  BY NothingSound DEF SessionInit, LogGood
<1>4. \A w \in Watchers : ~Subscribed(w)
  BY <1>1 DEF SessionInit, Subscribed
<1> QED
  BY <1>2, <1>3, <1>4 DEF SessionInit, SessionInv, WatchGood, SavesGood

(* NothingLost from the invariant.                                         *)
LEMMA FaithfulIsLossless ==
  ASSUME SessionInv
  PROVE  NothingLost
<1>1. Faithful(events, surface) /\ surface \in Seq(Nat)
  BY DEF SessionInv, LogGood, SoundDoc, SessionTypeOK
<1> SUFFICES ASSUME NEW i \in 1..Len(events)
             PROVE  Cardinality({k \in 1..Len(surface) : surface[k] = i}) + Cardinality(ShadowedBy(i))
                      = IF Carries(i) THEN 1 ELSE 0
  BY DEF NothingLost
<1> DEFINE shown == {k \in 1..Len(surface) : surface[k] = i}
<1>2. /\ ShadowedBy(i) = ShadowsIn(events, i) /\ (Carries(i) <=> CarriedBy(events[i]))
      /\ (OnSurface(surface, i) <=> shown # {})
  BY DEF ShadowedBy, ShadowsIn, Carries, CarriedBy, OnSurface
<1>3. OnSurface(surface, i) => \E k : shown = {k}
  <2> SUFFICES ASSUME OnSurface(surface, i) PROVE \E k : shown = {k}
    OBVIOUS
  <2>1. PICK k \in 1..Len(surface) : surface[k] = i
    BY DEF OnSurface
  <2>2. \A j \in 1..Len(surface) : surface[j] = i => j = k
    BY <1>1, <2>1 DEF Faithful, Distinct
  <2>3. shown = {k}
    BY <2>1, <2>2
  <2> QED
    BY <2>3
<1> HIDE DEF shown
<1>4. \/ ~Carries(i) /\ shown = {} /\ ShadowedBy(i) = {}
      \/ Carries(i) /\ (\E k : shown = {k}) /\ ShadowedBy(i) = {}
      \/ Carries(i) /\ shown = {} /\ \E r : ShadowedBy(i) = {r}
  BY <1>1, <1>2, <1>3, Zenon DEF Faithful
<1>5. Cardinality({}) = 0 /\ \A S : (\E x : S = {x}) => Cardinality(S) = 1
  BY FS_EmptySet, FS_Singleton
<1>6. Cardinality(shown) + Cardinality(ShadowedBy(i)) = IF Carries(i) THEN 1 ELSE 0
  <2>1. CASE ~Carries(i) /\ shown = {} /\ ShadowedBy(i) = {}
    BY <1>5, <2>1
  <2>2. CASE Carries(i) /\ (\E k : shown = {k}) /\ ShadowedBy(i) = {}
    <3>1. Cardinality(shown) = 1
      BY <1>5, <2>2
    <3> QED
      BY <1>5, <2>2, <3>1
  <2>3. CASE Carries(i) /\ shown = {} /\ \E r : ShadowedBy(i) = {r}
    <3>1. Cardinality(ShadowedBy(i)) = 1
      BY <1>5, <2>3
    <3> QED
      BY <1>5, <2>3, <3>1
  <2> QED
    BY <1>4, <2>1, <2>2, <2>3
<1> QED
  BY <1>6 DEF shown

(* What the run checks follows from the invariant.                         *)
LEMMA LogIsRight == SessionInv => LogIsFaithful
<1> SUFFICES ASSUME SessionInv PROVE LogIsFaithful
  OBVIOUS
<1>1. NothingLost
  BY FaithfulIsLossless
<1>2. UsageIsSum
  <2>1. UsedTokens = Used(events)
    BY DEF UsedTokens, Used, UsageEvents, UsagesOf
  <2>2. Used(events) = Sum(events)
    BY UsedIsSum DEF SessionInv, SessionTypeOK, LogGood, SoundDoc
  <2> QED
    BY <2>1, <2>2, Zenon DEF UsageIsSum, Sum
<1> QED
  BY <1>1, <1>2 DEF LogIsFaithful, SessionInv, LogGood, WatchGood, SavesGood, SurfaceIsReplay,
                    WatchersSeeEveryCommit, StoredIsSnapshot, SeqsAfter

(* The invariant holds in every behaviour, for any number of trims, saves  *)
(* and listeners and logs of any length.                                   *)
THEOREM SessionInvariant == SessionSpec => []SessionInv
<1>1. SessionInit => SessionInv
  BY SessionStart
<1>2. SessionInv /\ [SessionNext]_sessionVars => SessionInv'
  BY SessionStep
<1> QED
  BY <1>1, <1>2, PTL DEF SessionSpec

(* The surface is the replay of the events, no message is lost or shown    *)
(* twice, the usage is the sum of what callers added, every listener saw   *)
(* every commit and the stored document is a snapshot of the log           *)
(* (core/session/log.go, store.go).                                        *)
THEOREM LogFaithful == SessionSpec => []LogIsFaithful
<1>1. SessionInv => LogIsFaithful
  BY LogIsRight
<1> QED
  BY <1>1, SessionInvariant, PTL

-----------------------------------------------------------------------------
(* The plain session services.                                             *)

(* A session as an object and as a file, and what makes either sound: no   *)
(* run twice, and the tokens are those of runs that are there.             *)
SessionObjects == [id : SessionIds, msgs : Seq(Runs), tokens : SUBSET Runs,
                   status : {"active", "completed", "error"}]
SessionDocs == [text : {"whole"}, msgs : Seq(Runs), tokens : SUBSET Runs,
                status : {"active", "completed", "error"}]
Sound(s) == /\ s.tokens \subseteq RunsIn(s)
            /\ \A i, j \in 1..Len(s.msgs) : s.msgs[i] = s.msgs[j] => i = j

Whole(id) == file[id].text = "whole"
InObject(r, id) == \E k \in 1..Len(objects) : objects[k].id = id /\ r \in RunsIn(objects[k])
InFile(r, id) == Whole(id) /\ r \in RunsIn(file[id])
Holds(at) == at \in {"loaded", "added", "counted"}

PlainTyped ==
  /\ service \in {"memory", "files"} /\ alive \in BOOLEAN /\ made \in 0..MaxSessions
  /\ objects \in Seq(SessionObjects)
  /\ cache \in [SessionIds -> Nat]
  /\ file \in [SessionIds -> {NoFile, TornFile} \cup SessionDocs]
  /\ obs \in [Runs -> [at : {"idle", "loaded", "added", "counted", "saved", "failed"}, held : Nat]]
  /\ saved \subseteq Runs

ObjectsSound == \A k \in 1..Len(objects) : Sound(objects[k]) /\ objects[k].id <= made
FilesSound == \A id \in SessionIds : Whole(id) => /\ Sound(file[id]) /\ id <= made
                                                  /\ service = "files"
CacheSound == \A id \in SessionIds : cache[id] # 0 => /\ cache[id] \in 1..Len(objects)
                                                      /\ objects[cache[id]].id = id

(* An observer holds an object from its load to its save; its run is there *)
(* from the append on and nowhere before.                                  *)
ObserversSound ==
  \A r \in Runs :
    /\ Holds(obs[r].at) => obs[r].held \in 1..Len(objects)
    /\ obs[r].at \in {"added", "counted"} => r \in RunsIn(objects[obs[r].held])
    /\ obs[r].at \in {"idle", "loaded"} => \A id \in SessionIds : ~InObject(r, id) /\ ~InFile(r, id)

(* A run is in the objects and the file of one session only.               *)
OneHome ==
  \A r \in Runs : \A i, j \in SessionIds :
    (InObject(r, i) \/ InFile(r, i)) /\ (InObject(r, j) \/ InFile(r, j)) => i = j

(* The file service has one object for a session, in its cache as long as  *)
(* there is a file to read, and the file is never ahead of it.             *)
OneObject ==
  service = "files" =>
    /\ \A j, k \in 1..Len(objects) : objects[j].id = objects[k].id => j = k
    /\ \A id \in SessionIds : Whole(id) =>
         /\ cache[id] = 0 => \A k \in 1..Len(objects) : objects[k].id # id
         /\ cache[id] # 0 => RunsIn(file[id]) \subseteq RunsIn(objects[cache[id]])

InStore(r, id) == IF service = "files" THEN InFile(r, id)
                  ELSE cache[id] # 0 /\ r \in RunsIn(objects[cache[id]])
SavedInv == \A r \in saved \ excused : \E id \in SessionIds : InStore(r, id)

(* Every step of a service or an observer keeps these together.            *)
PlainInv == /\ PlainTyped /\ ObjectsSound /\ FilesSound /\ CacheSound
            /\ ObserversSound /\ OneHome /\ OneObject /\ SavedInv

-----------------------------------------------------------------------------
LEMMA RunsInMember ==
  ASSUME NEW s, s.msgs \in Seq(Runs), NEW r
  PROVE  r \in RunsIn(s) <=> \E i \in 1..Len(s.msgs) : s.msgs[i] = r
BY DEF RunsIn, ToSet

LEMMA EmptyIsSound ==
  ASSUME NEW id \in SessionIds
  PROVE  /\ NewSession(id) \in SessionObjects /\ Doc(NewSession(id)) \in SessionDocs
         /\ Sound(NewSession(id)) /\ Sound(Doc(NewSession(id)))
         /\ RunsIn(NewSession(id)) = {} /\ RunsIn(Doc(NewSession(id))) = {}
         /\ NewSession(id).id = id /\ Doc(NewSession(id)).text = "whole"
BY DEF NewSession, Doc, Sound, RunsIn, ToSet, SessionObjects, SessionDocs

LEMMA DocIsSound ==
  ASSUME NEW s \in SessionObjects, Sound(s)
  PROVE  /\ Doc(s) \in SessionDocs /\ Sound(Doc(s)) /\ RunsIn(Doc(s)) = RunsIn(s)
         /\ Doc(s).text = "whole"
BY DEF Doc, Sound, RunsIn, ToSet, SessionObjects, SessionDocs

LEMMA CopyIsSound ==
  ASSUME NEW id \in SessionIds, file[id] \in SessionDocs, Sound(file[id])
  PROVE  /\ FromFile(id) \in SessionObjects /\ Sound(FromFile(id))
         /\ RunsIn(FromFile(id)) = RunsIn(file[id]) /\ FromFile(id).id = id
BY DEF FromFile, Sound, RunsIn, ToSet, SessionObjects, SessionDocs

LEMMA WholeIsDoc ==
  ASSUME PlainTyped, NEW id \in SessionIds, Whole(id)
  PROVE  file[id] \in SessionDocs
BY DEF PlainTyped, Whole, NoFile, TornFile

LEMMA InitPlainInv == PlainInit => PlainInv
<1> SUFFICES ASSUME PlainInit PROVE PlainInv
  OBVIOUS
<1>1. PlainTyped
  BY PlainAssumption DEF PlainInit, PlainTyped, Quiet
<1>2. \A id \in SessionIds : ~Whole(id) /\ cache[id] = 0
  BY DEF PlainInit, Whole, NoFile
<1>3. Len(objects) = 0
  BY DEF PlainInit
<1>4. \A r \in Runs : obs[r].at = "idle"
  BY DEF PlainInit, Quiet
<1>5. \A r, id : id \in SessionIds => ~InObject(r, id) /\ ~InFile(r, id)
  BY <1>2, <1>3 DEF InObject, InFile
<1>6. ObserversSound
  BY <1>4, <1>5 DEF ObserversSound, Holds
<1>7. SavedInv /\ OneHome
  BY <1>5 DEF PlainInit, SavedInv, OneHome
<1> QED
  BY <1>1, <1>2, <1>3, <1>6, <1>7 DEF PlainInv, ObjectsSound, FilesSound, CacheSound, OneObject

LEMMA ObjectTyped ==
  ASSUME PlainTyped, NEW k \in 1..Len(objects)
  PROVE  /\ objects[k] \in SessionObjects /\ objects[k].id \in SessionIds
         /\ objects[k].msgs \in Seq(Runs)
<1>1. objects[k] \in SessionObjects
  BY DEF PlainTyped
<1> QED
  BY <1>1 DEF SessionObjects

(* One more object, in the last place.                                     *)
LEMMA OneMoreObject ==
  ASSUME PlainTyped, NEW s \in SessionObjects, objects' = Append(objects, s)
  PROVE  /\ objects' \in Seq(SessionObjects) /\ Len(objects') = Len(objects) + 1
         /\ objects'[New] = s /\ New \in 1..Len(objects')
         /\ \A k \in 1..Len(objects) : objects'[k] = objects[k] /\ k \in 1..Len(objects')
         /\ \A k \in 1..Len(objects') : k = New \/ k \in 1..Len(objects)
BY DEF PlainTyped, New

(* A session is created: a new id, with one empty object.                  *)
LEMMA SessionCreateStep ==
  ASSUME PlainInv, CreateSession, UNCHANGED <<service, alive, saved, excused>>,
         \/ UNCHANGED obs
         \/ \E r \in Runs : /\ obs[r].at = "idle"
                            /\ obs' = [obs EXCEPT ![r] = [at |-> "loaded", held |-> New]]
  PROVE  PlainInv'
<1>n. PICK n : n = made + 1
  OBVIOUS
<1>s. PICK s : s = NewSession(n)
  OBVIOUS
<1>0. PlainTyped /\ ObjectsSound /\ FilesSound /\ CacheSound /\ ObserversSound /\ OneHome
      /\ OneObject /\ SavedInv
  BY DEF PlainInv
<1>1. /\ n \in SessionIds /\ made' = n /\ objects' = Append(objects, s)
      /\ cache' = [cache EXCEPT ![n] = New]
      /\ file' = IF service = "files" THEN [file EXCEPT ![n] = Doc(s)] ELSE file
  BY <1>n, <1>s, <1>0, PlainAssumption DEF CreateSession, Allocate, SessionIds, PlainTyped
<1>2. /\ s \in SessionObjects /\ Doc(s) \in SessionDocs /\ Sound(s) /\ Sound(Doc(s))
      /\ RunsIn(s) = {} /\ RunsIn(Doc(s)) = {} /\ s.id = n /\ Doc(s).text = "whole"
  BY <1>1, <1>s, EmptyIsSound
<1>3. /\ objects' \in Seq(SessionObjects) /\ Len(objects') = Len(objects) + 1
      /\ objects'[New] = s /\ New \in 1..Len(objects')
      /\ \A k \in 1..Len(objects) : objects'[k] = objects[k] /\ k \in 1..Len(objects')
      /\ \A k \in 1..Len(objects') : k = New \/ k \in 1..Len(objects)
  BY <1>0, <1>1, <1>2, OneMoreObject
<1>4. n \in 1..MaxSessions /\ made \in Nat /\ n = made + 1 /\ New \in Nat /\ New # 0
  BY <1>0, <1>1, <1>3, <1>n DEF SessionIds, PlainTyped, New
<1>5. PlainTyped'
  <2>1. obs' \in [Runs -> [at : {"idle", "loaded", "added", "counted", "saved", "failed"},
                           held : Nat]]
    <3> DEFINE R == [at : {"idle", "loaded", "added", "counted", "saved", "failed"}, held : Nat]
    <3>1. [at |-> "loaded", held |-> New] \in R
      BY <1>4
    <3>2. obs \in [Runs -> R]
      BY <1>0 DEF PlainTyped
    <3> HIDE DEF R
    <3>3. obs' \in [Runs -> R]
      BY <3>1, <3>2
    <3> QED
      BY <3>3 DEF R
  <2>2. file' \in [SessionIds -> {NoFile, TornFile} \cup SessionDocs]
    BY <1>0, <1>1, <1>2 DEF PlainTyped
  <2>3. cache' \in [SessionIds -> Nat]
    BY <1>0, <1>1, <1>4 DEF PlainTyped
  <2> QED
    BY <1>0, <1>1, <1>3, <1>4, <2>1, <2>2, <2>3 DEF PlainTyped
<1>6. \A k \in 1..Len(objects) : objects[k].id <= made /\ objects[k].id \in SessionIds
  BY <1>0, ObjectTyped DEF ObjectsSound
<1>7. /\ \A id \in SessionIds : id # n => file'[id] = file[id] /\ cache'[id] = cache[id]
      /\ cache'[n] = New /\ ~Whole(n) /\ cache[n] = 0
      /\ Whole(n)' => file'[n] = Doc(s) /\ service = "files"
  <2>1. ~Whole(n)
    BY <1>0, <1>1, <1>4 DEF FilesSound
  <2>2. cache[n] = 0
    BY <1>0, <1>1, <1>4, <1>6 DEF CacheSound
  <2>3. Whole(n)' => file'[n] = Doc(s) /\ service = "files"
    <3>1. CASE service = "files"
      <4>1. file'[n] = Doc(s)
        BY <1>0, <1>1, <3>1 DEF PlainTyped
      <4> QED
        BY <3>1, <4>1
    <3>2. CASE service # "files"
      <4>1. file' = file
        BY <1>1, <3>2
      <4> QED
        BY <2>1, <4>1 DEF Whole
    <3> QED
      BY <3>1, <3>2
  <2> QED
    BY <1>0, <1>1, <2>1, <2>2, <2>3 DEF PlainTyped
<1>8. /\ \A r, id : id \in SessionIds /\ InObject(r, id)' => InObject(r, id)
      /\ \A r, id : id \in SessionIds /\ InFile(r, id)' => InFile(r, id)
  <2>1. ASSUME NEW r, NEW id \in SessionIds, InObject(r, id)' PROVE InObject(r, id)
    <3>1. PICK k \in 1..Len(objects') : objects'[k].id = id /\ r \in RunsIn(objects'[k])
      BY <2>1 DEF InObject, RunsIn
    <3> QED
      BY <1>2, <1>3, <3>1 DEF InObject
  <2>2. ASSUME NEW r, NEW id \in SessionIds, InFile(r, id)' PROVE InFile(r, id)
    <3>1. file'[id].text = "whole" /\ r \in RunsIn(file'[id])
      BY <2>2 DEF InFile, Whole, RunsIn
    <3>2. id # n
      <4> SUFFICES ASSUME id = n PROVE FALSE
        OBVIOUS
      <4>1. file'[n] = Doc(s)
        BY <1>7, <3>1 DEF Whole
      <4> QED
        BY <1>2, <3>1, <4>1
    <3> QED
      BY <1>7, <3>1, <3>2 DEF InFile, Whole
  <2> QED
    BY <2>1, <2>2
<1>9. ObjectsSound'
  <2> SUFFICES ASSUME NEW k \in 1..Len(objects')
               PROVE  Sound(objects'[k]) /\ objects'[k].id <= made'
    BY DEF ObjectsSound, Sound, RunsIn
  <2>1. CASE k = New
    BY <1>1, <1>2, <1>3, <1>4, <2>1
  <2>2. CASE k \in 1..Len(objects)
    BY <1>0, <1>1, <1>3, <1>4, <1>6, <2>2 DEF ObjectsSound, SessionIds
  <2> QED
    BY <1>3, <2>1, <2>2
<1>10. FilesSound'
  <2> SUFFICES ASSUME NEW id \in SessionIds, Whole(id)'
               PROVE  Sound(file'[id]) /\ id <= made' /\ service' = "files"
    BY DEF FilesSound, Sound, RunsIn
  <2>1. CASE id = n
    BY <1>1, <1>2, <1>4, <1>7, <2>1
  <2>2. CASE id # n
    BY <1>0, <1>1, <1>4, <1>7, <2>2 DEF FilesSound, Whole, SessionIds
  <2> QED
    BY <2>1, <2>2
<1>11. CacheSound'
  BY <1>0, <1>2, <1>3, <1>7 DEF CacheSound
<1>12. ObserversSound'
  <2> SUFFICES ASSUME NEW r \in Runs
               PROVE  /\ Holds(obs'[r].at) => obs'[r].held \in 1..Len(objects')
                      /\ obs'[r].at \in {"added", "counted"}
                           => r \in RunsIn(objects'[obs'[r].held])
                      /\ obs'[r].at \in {"idle", "loaded"}
                           => \A id \in SessionIds : ~InObject(r, id)' /\ ~InFile(r, id)'
    BY DEF ObserversSound, Holds, RunsIn
  <2>1. CASE obs'[r] = obs[r]
    BY <1>0, <1>3, <1>8, <2>1 DEF ObserversSound, Holds
  <2>2. CASE obs'[r] = [at |-> "loaded", held |-> New] /\ obs[r].at = "idle"
    BY <1>0, <1>3, <1>8, <2>2 DEF ObserversSound, Holds
  <2> QED
    BY <1>0, <2>1, <2>2 DEF PlainTyped
<1>13. OneHome'
  BY <1>0, <1>8 DEF OneHome
<1>14. OneObject'
  <2> SUFFICES ASSUME service = "files"
               PROVE  /\ \A j, k \in 1..Len(objects') : objects'[j].id = objects'[k].id => j = k
                      /\ \A id \in SessionIds : Whole(id)' =>
                           /\ cache'[id] = 0 => \A k \in 1..Len(objects') : objects'[k].id # id
                           /\ cache'[id] # 0
                                => RunsIn(file'[id]) \subseteq RunsIn(objects'[cache'[id]])
    BY DEF OneObject, RunsIn
  <2>1. \A k \in 1..Len(objects) : objects[k].id # n
    BY <1>4, <1>6
  <2>2. \A j, k \in 1..Len(objects') : objects'[j].id = objects'[k].id => j = k
    BY <1>0, <1>2, <1>3, <2>1 DEF OneObject
  <2>3. ASSUME NEW id \in SessionIds, Whole(id)'
        PROVE  /\ cache'[id] = 0 => \A k \in 1..Len(objects') : objects'[k].id # id
               /\ cache'[id] # 0 => RunsIn(file'[id]) \subseteq RunsIn(objects'[cache'[id]])
    <3>1. CASE id = n
      <4>1. file'[id] = Doc(s) /\ cache'[id] = New
        BY <1>7, <2>3, <3>1
      <4> QED
        BY <1>2, <1>4, <4>1
    <3>2. CASE id # n
      <4>1. Whole(id) /\ file'[id] = file[id] /\ cache'[id] = cache[id]
        BY <1>7, <2>3, <3>2 DEF Whole
      <4> QED
        BY <1>0, <1>2, <1>3, <3>2, <4>1 DEF OneObject, CacheSound
    <3> QED
      BY <3>1, <3>2
  <2> QED
    BY <2>2, <2>3
<1>15. SavedInv'
  <2> SUFFICES ASSUME NEW r \in saved \ excused
               PROVE  \E id \in SessionIds : InStore(r, id)'
    BY DEF SavedInv
  <2>1. PICK id \in SessionIds : InStore(r, id)
    BY <1>0 DEF SavedInv
  <2>2. id # n
    BY <1>7, <2>1 DEF InStore, InFile
  <2>3. file'[id] = file[id] /\ cache'[id] = cache[id]
    BY <1>7, <2>2
  <2>4. cache[id] # 0 => cache[id] \in 1..Len(objects)
    BY <1>0 DEF CacheSound
  <2>5. InStore(r, id)'
    BY <1>3, <2>1, <2>3, <2>4 DEF InStore, InFile, Whole, RunsIn
  <2> QED
    BY <2>5
<1> QED
  BY <1>5, <1>9, <1>10, <1>11, <1>12, <1>13, <1>14, <1>15 DEF PlainInv

(* An observer takes an object; nothing else moves.                        *)
LEMMA LoadTyped ==
  ASSUME PlainTyped, NEW r \in Runs, NEW k \in Nat, NEW p \in {"loaded", "added", "counted", "saved", "failed"},
         obs' = [obs EXCEPT ![r] = [at |-> p, held |-> k]]
  PROVE  obs' \in [Runs -> [at : {"idle", "loaded", "added", "counted", "saved", "failed"},
                            held : Nat]]
<1> DEFINE R == [at : {"idle", "loaded", "added", "counted", "saved", "failed"}, held : Nat]
<1>1. [at |-> p, held |-> k] \in R
  OBVIOUS
<1>2. obs \in [Runs -> R]
  BY DEF PlainTyped
<1> HIDE DEF R
<1>3. obs' \in [Runs -> R]
  BY <1>1, <1>2
<1> QED
  BY <1>3 DEF R

(* The object handed out: the one there is, or a copy of what is stored.   *)
LEMMA HandedOut ==
  ASSUME PlainInv, NEW id \in SessionIds, Readable(id), GetSession(id), ~Shares(id)
  PROVE  \E s \in SessionObjects :
           /\ Sound(s) /\ s.id = id /\ objects' = Append(objects, s)
           /\ \A r : r \in RunsIn(s) => InObject(r, id) \/ InFile(r, id)
           /\ \/ service = "memory" /\ cache' = cache
              \/ /\ service = "files" /\ cache[id] = 0 /\ Whole(id)
                 /\ cache' = [cache EXCEPT ![id] = New]
                 /\ RunsIn(s) = RunsIn(file[id])
<1>0. PlainTyped /\ ObjectsSound /\ FilesSound /\ CacheSound
  BY DEF PlainInv
<1>1. CASE cache[id] # 0
  <2>1. objects' = Append(objects, objects[cache[id]]) /\ service = "memory" /\ cache' = cache
    BY <1>0, <1>1 DEF GetSession, Allocate, Shares, PlainTyped
  <2>2. cache[id] \in 1..Len(objects) /\ objects[cache[id]].id = id
    BY <1>0, <1>1 DEF CacheSound
  <2>3. objects[cache[id]] \in SessionObjects /\ Sound(objects[cache[id]])
    BY <1>0, <2>2, ObjectTyped DEF ObjectsSound
  <2>4. \A r : r \in RunsIn(objects[cache[id]]) => InObject(r, id)
    BY <2>2 DEF InObject
  <2> QED
    BY <2>1, <2>2, <2>3, <2>4
<1>2. CASE cache[id] = 0
  <2>1. service = "files" /\ Whole(id) /\ objects' = Append(objects, FromFile(id))
        /\ cache' = [cache EXCEPT ![id] = New]
    BY <1>0, <1>2 DEF GetSession, Allocate, Shares, Readable, Whole
  <2>2. file[id] \in SessionDocs /\ Sound(file[id])
    BY <1>0, <2>1, WholeIsDoc DEF FilesSound
  <2>3. /\ FromFile(id) \in SessionObjects /\ Sound(FromFile(id))
        /\ RunsIn(FromFile(id)) = RunsIn(file[id]) /\ FromFile(id).id = id
    BY <2>2, CopyIsSound
  <2>4. \A r : r \in RunsIn(FromFile(id)) => InFile(r, id)
    BY <2>1, <2>3 DEF InFile
  <2> QED
    BY <1>2, <2>1, <2>3, <2>4
<1> QED
  BY <1>1, <1>2

LEMMA SessionGetStep ==
  ASSUME PlainInv, NEW id \in SessionIds, Readable(id), GetSession(id),
         UNCHANGED <<service, alive, made, file, saved, excused>>,
         \/ UNCHANGED obs
         \/ \E r \in Runs : /\ obs[r].at = "idle"
                            /\ obs' = [obs EXCEPT ![r] = [at |-> "loaded", held |-> Handed(id)]]
  PROVE  PlainInv'
<1>0. PlainTyped /\ ObjectsSound /\ FilesSound /\ CacheSound /\ ObserversSound /\ OneHome
      /\ OneObject /\ SavedInv
  BY DEF PlainInv
<1>f. FilesSound'
  BY <1>0 DEF FilesSound, Whole, Sound, RunsIn
<1>1. CASE Shares(id)
  <2>1. objects' = objects /\ cache' = cache /\ Handed(id) = cache[id] /\ cache[id] # 0
        /\ cache[id] \in 1..Len(objects)
    BY <1>0, <1>1 DEF GetSession, Shares, Handed, CacheSound
  <2>2. obs' \in [Runs -> [at : {"idle", "loaded", "added", "counted", "saved", "failed"},
                           held : Nat]]
    BY <1>0, <2>1, LoadTyped DEF PlainTyped
  <2>3. PlainTyped'
    BY <1>0, <2>1, <2>2 DEF PlainTyped
  <2>4. /\ \A r, i : InObject(r, i)' = InObject(r, i) /\ InFile(r, i)' = InFile(r, i)
        /\ \A r, i : InStore(r, i)' = InStore(r, i)
    BY <2>1 DEF InObject, InFile, InStore, Whole, RunsIn
  <2>5. ObserversSound'
    <3> SUFFICES ASSUME NEW r \in Runs
                 PROVE  /\ Holds(obs'[r].at) => obs'[r].held \in 1..Len(objects)
                        /\ obs'[r].at \in {"added", "counted"}
                             => r \in RunsIn(objects[obs'[r].held])
                        /\ obs'[r].at \in {"idle", "loaded"}
                             => \A i \in SessionIds : ~InObject(r, i) /\ ~InFile(r, i)
      BY <2>1, <2>4 DEF ObserversSound, Holds, RunsIn
    <3>1. CASE obs'[r] = obs[r]
      BY <1>0, <3>1 DEF ObserversSound
    <3>2. CASE obs'[r] = [at |-> "loaded", held |-> Handed(id)] /\ obs[r].at = "idle"
      BY <1>0, <2>1, <3>2 DEF ObserversSound, Holds
    <3> QED
      BY <1>0, <3>1, <3>2 DEF PlainTyped
  <2>6. OneHome' /\ SavedInv'
    BY <1>0, <2>4 DEF OneHome, SavedInv
  <2>7. UNCHANGED <<objects, cache, file, made, service>>
    BY <1>0, <2>1
  <2>8. ObjectsSound' /\ CacheSound'
    BY <1>0, <2>7 DEF ObjectsSound, Sound, RunsIn, CacheSound
  <2>9. OneObject'
    BY <1>0, <2>7 DEF RunsIn, OneObject, Whole
  <2> QED
    BY <1>f, <2>3, <2>5, <2>6, <2>8, <2>9 DEF PlainInv
<1>2. CASE ~Shares(id)
  <2>s. PICK s \in SessionObjects :
           /\ Sound(s) /\ s.id = id /\ objects' = Append(objects, s)
           /\ \A r : r \in RunsIn(s) => InObject(r, id) \/ InFile(r, id)
           /\ \/ service = "memory" /\ cache' = cache
              \/ /\ service = "files" /\ cache[id] = 0 /\ Whole(id)
                 /\ cache' = [cache EXCEPT ![id] = New]
                 /\ RunsIn(s) = RunsIn(file[id])
    BY <1>2, HandedOut
  <2>1. /\ objects' \in Seq(SessionObjects) /\ Len(objects') = Len(objects) + 1
        /\ objects'[New] = s /\ New \in 1..Len(objects')
        /\ \A k \in 1..Len(objects) : objects'[k] = objects[k] /\ k \in 1..Len(objects')
        /\ \A k \in 1..Len(objects') : k = New \/ k \in 1..Len(objects)
    BY <1>0, <2>s, OneMoreObject
  <2>2. New \in Nat /\ New # 0 /\ New \notin 1..Len(objects) /\ Handed(id) = New
    BY <1>0, <1>2, <2>1 DEF New, Handed
  <2>3. PlainTyped'
    <3>1. obs' \in [Runs -> [at : {"idle", "loaded", "added", "counted", "saved", "failed"},
                             held : Nat]]
      BY <1>0, <2>2, LoadTyped DEF PlainTyped
    <3>2. cache' \in [SessionIds -> Nat]
      BY <1>0, <2>s, <2>2 DEF PlainTyped
    <3> QED
      BY <1>0, <2>1, <3>1, <3>2 DEF PlainTyped
  <2>4. /\ \A r, i : InFile(r, i)' = InFile(r, i)
        /\ \A r, i : InObject(r, i)' => InObject(r, i) \/ InFile(r, i)
    <3>1. ASSUME NEW r, NEW i PROVE InFile(r, i)' = InFile(r, i)
      BY DEF InFile, Whole, RunsIn
    <3>2. ASSUME NEW r, NEW i, InObject(r, i)' PROVE InObject(r, i) \/ InFile(r, i)
      <4>1. PICK k \in 1..Len(objects') : objects'[k].id = i /\ r \in RunsIn(objects'[k])
        BY <3>2 DEF InObject, RunsIn
      <4>2. CASE k = New
        BY <2>s, <2>1, <4>1, <4>2
      <4>3. CASE k \in 1..Len(objects)
        BY <2>1, <4>1, <4>3 DEF InObject
      <4> QED
        BY <2>1, <4>2, <4>3
    <3> QED
      BY <3>1, <3>2
  <2>5. ObjectsSound'
    <3> SUFFICES ASSUME NEW k \in 1..Len(objects')
                 PROVE  Sound(objects'[k]) /\ objects'[k].id <= made
      BY DEF ObjectsSound, Sound, RunsIn
    <3>1. CASE k \in 1..Len(objects)
      BY <1>0, <2>1, <3>1 DEF ObjectsSound
    <3>2. CASE k = New
      <4>1. id <= made
        <5>1. CASE service = "files"
          BY <1>0, <2>s, <5>1 DEF FilesSound
        <5>2. CASE service # "files"
          <6>1. cache[id] # 0
            BY <5>2 DEF Readable
          <6> QED
            BY <1>0, <6>1 DEF CacheSound, ObjectsSound
        <5> QED
          BY <5>1, <5>2
      <4> QED
        BY <2>s, <2>1, <3>2, <4>1
    <3> QED
      BY <2>1, <3>1, <3>2
  <2>6. CacheSound'
    <3> SUFFICES ASSUME NEW i \in SessionIds, cache'[i] # 0
                 PROVE  cache'[i] \in 1..Len(objects') /\ objects'[cache'[i]].id = i
      BY DEF CacheSound
    <3>1. CASE cache'[i] = cache[i]
      BY <1>0, <2>1, <3>1 DEF CacheSound
    <3>2. CASE i = id /\ cache'[i] = New
      BY <2>s, <2>1, <3>2
    <3> QED
      BY <1>0, <2>s, <3>1, <3>2 DEF PlainTyped
  <2>7. ObserversSound'
    <3> SUFFICES ASSUME NEW r \in Runs
                 PROVE  /\ Holds(obs'[r].at) => obs'[r].held \in 1..Len(objects')
                        /\ obs'[r].at \in {"added", "counted"}
                             => r \in RunsIn(objects'[obs'[r].held])
                        /\ obs'[r].at \in {"idle", "loaded"}
                             => \A i \in SessionIds : ~InObject(r, i)' /\ ~InFile(r, i)'
      BY DEF ObserversSound, Holds, RunsIn
    <3>1. CASE obs'[r] = obs[r]
      BY <1>0, <2>1, <2>4, <3>1 DEF ObserversSound, Holds
    <3>2. CASE obs'[r] = [at |-> "loaded", held |-> New] /\ obs[r].at = "idle"
      BY <1>0, <2>1, <2>4, <3>2 DEF ObserversSound, Holds
    <3> QED
      BY <1>0, <2>2, <3>1, <3>2 DEF PlainTyped
  <2>8. OneHome'
    BY <1>0, <2>4 DEF OneHome
  <2>9. OneObject'
    <3> SUFFICES ASSUME service = "files"
                 PROVE  /\ \A j, k \in 1..Len(objects') : objects'[j].id = objects'[k].id => j = k
                        /\ \A i \in SessionIds : Whole(i) =>
                             /\ cache'[i] = 0 => \A k \in 1..Len(objects') : objects'[k].id # i
                             /\ cache'[i] # 0
                                  => RunsIn(file[i]) \subseteq RunsIn(objects'[cache'[i]])
      BY DEF OneObject, RunsIn, Whole
    <3>1. /\ cache[id] = 0 /\ Whole(id) /\ cache' = [cache EXCEPT ![id] = New]
          /\ RunsIn(s) = RunsIn(file[id])
      BY <2>s
    <3>2. \A k \in 1..Len(objects) : objects[k].id # id
      BY <1>0, <3>1 DEF OneObject
    <3>3. \A j, k \in 1..Len(objects') : objects'[j].id = objects'[k].id => j = k
      BY <1>0, <2>s, <2>1, <3>2 DEF OneObject
    <3>4. ASSUME NEW i \in SessionIds, Whole(i)
          PROVE  /\ cache'[i] = 0 => \A k \in 1..Len(objects') : objects'[k].id # i
                 /\ cache'[i] # 0 => RunsIn(file[i]) \subseteq RunsIn(objects'[cache'[i]])
      <4>1. CASE i = id
        <5>1. cache'[i] = New
          BY <1>0, <3>1, <4>1 DEF PlainTyped
        <5> QED
          BY <2>1, <2>2, <3>1, <4>1, <5>1
      <4>2. CASE i # id
        <5>1. cache'[i] = cache[i]
          BY <1>0, <3>1, <4>2 DEF PlainTyped
        <5> QED
          BY <1>0, <2>s, <2>1, <3>4, <4>2, <5>1 DEF OneObject, CacheSound
      <4> QED
        BY <4>1, <4>2
    <3> QED
      BY <3>3, <3>4
  <2>10. SavedInv'
    <3> SUFFICES ASSUME NEW r \in saved \ excused
                 PROVE  \E i \in SessionIds : InStore(r, i)'
      BY DEF SavedInv
    <3>1. PICK i \in SessionIds : InStore(r, i)
      BY <1>0 DEF SavedInv
    <3>2. cache[i] # 0 => cache[i] \in 1..Len(objects)
      BY <1>0 DEF CacheSound
    <3>3. InStore(r, i)'
      BY <2>s, <2>1, <2>4, <3>1, <3>2 DEF InStore, InFile, Whole, RunsIn
    <3> QED
      BY <3>3
  <2> QED
    BY <1>f, <2>3, <2>5, <2>6, <2>7, <2>8, <2>9, <2>10 DEF PlainInv
<1> QED
  BY <1>1, <1>2

(* An observer adds its run to the object it holds.                        *)
LEMMA ObjectStep ==
  ASSUME PlainInv, NEW r \in Runs, obs[r].at \in {"loaded", "added"},
         NEW h, h = obs[r].held,
         NEW t \in SessionObjects, Sound(t), t.id = objects[h].id,
         RunsIn(t) = RunsIn(objects[h]) \cup {r},
         objects' = [objects EXCEPT ![h] = t],
         NEW p \in {"added", "counted"}, obs' = [obs EXCEPT ![r].at = p],
         UNCHANGED <<service, cache, file, alive, made, saved, excused>>
  PROVE  PlainInv'
<1>0. PlainTyped /\ ObjectsSound /\ FilesSound /\ CacheSound /\ ObserversSound /\ OneHome
      /\ OneObject /\ SavedInv
  BY DEF PlainInv
<1>1. h \in 1..Len(objects)
  BY <1>0 DEF ObserversSound, Holds
<1>2. /\ objects' \in Seq(SessionObjects) /\ Len(objects') = Len(objects) /\ objects'[h] = t
      /\ \A k \in 1..Len(objects) : k # h => objects'[k] = objects[k]
  BY <1>0, <1>1 DEF PlainTyped
<1>3. \A k \in 1..Len(objects) : /\ objects'[k].id = objects[k].id
                                 /\ RunsIn(objects[k]) \subseteq RunsIn(objects'[k])
  BY <1>2
<1>4. /\ obs'[r].at = p /\ obs'[r].held = h
      /\ \A q \in Runs : q # r => obs'[q] = obs[q]
  BY <1>0 DEF PlainTyped
<1>5. PlainTyped'
  <2> DEFINE R == [at : {"idle", "loaded", "added", "counted", "saved", "failed"}, held : Nat]
  <2>1. obs \in [Runs -> R] /\ obs' = [obs EXCEPT ![r] = [obs[r] EXCEPT !.at = p]]
    BY <1>0 DEF PlainTyped
  <2>2. [obs[r] EXCEPT !.at = p] \in R
    BY <2>1
  <2> HIDE DEF R
  <2>3. obs' \in [Runs -> R]
    BY <2>1, <2>2
  <2>4. obs' \in [Runs -> [at : {"idle", "loaded", "added", "counted", "saved", "failed"},
                           held : Nat]]
    BY <2>3 DEF R
  <2> QED
    BY <1>0, <1>2, <2>4 DEF PlainTyped
<1>6. /\ \A q, i : InFile(q, i)' = InFile(q, i)
      /\ \A q, i : InObject(q, i)' => InObject(q, i) \/ (q = r /\ i = t.id)
      /\ \A q, i : InObject(q, i) => InObject(q, i)'
  <2>1. ASSUME NEW q, NEW i PROVE InFile(q, i)' = InFile(q, i)
    BY DEF InFile, Whole, RunsIn
  <2>2. ASSUME NEW q, NEW i, InObject(q, i)' PROVE InObject(q, i) \/ (q = r /\ i = t.id)
    <3>1. PICK k \in 1..Len(objects) : objects'[k].id = i /\ q \in RunsIn(objects'[k])
      BY <1>2, <2>2 DEF InObject, RunsIn
    <3>2. CASE k = h
      BY <1>1, <1>2, <3>1, <3>2 DEF InObject
    <3>3. CASE k # h
      BY <1>2, <3>1, <3>3 DEF InObject
    <3> QED
      BY <3>2, <3>3
  <2>3. ASSUME NEW q, NEW i, InObject(q, i) PROVE InObject(q, i)'
    <3>1. PICK k \in 1..Len(objects) : objects[k].id = i /\ q \in RunsIn(objects[k])
      BY <2>3 DEF InObject
    <3>2. k \in 1..Len(objects') /\ objects'[k].id = i /\ q \in RunsIn(objects'[k])
      BY <1>2, <1>3, <3>1
    <3> QED
      BY <3>2 DEF InObject, RunsIn
  <2> QED
    BY <2>1, <2>2, <2>3
<1>7. ObjectsSound'
  <2> SUFFICES ASSUME NEW k \in 1..Len(objects)
               PROVE  Sound(objects'[k]) /\ objects'[k].id <= made
    BY <1>2 DEF ObjectsSound, Sound, RunsIn
  <2> QED
    BY <1>0, <1>1, <1>2, <1>3 DEF ObjectsSound
<1>8. FilesSound'
  BY <1>0 DEF FilesSound, Whole, Sound, RunsIn
<1>9. CacheSound'
  BY <1>0, <1>2, <1>3 DEF CacheSound
<1>10. ObserversSound'
  <2> SUFFICES ASSUME NEW q \in Runs
               PROVE  /\ Holds(obs'[q].at) => obs'[q].held \in 1..Len(objects)
                      /\ obs'[q].at \in {"added", "counted"}
                           => q \in RunsIn(objects'[obs'[q].held])
                      /\ obs'[q].at \in {"idle", "loaded"}
                           => \A i \in SessionIds : ~InObject(q, i)' /\ ~InFile(q, i)'
    BY <1>2 DEF ObserversSound, Holds, RunsIn
  <2>1. CASE q = r
    BY <1>1, <1>2, <1>4, <2>1
  <2>2. CASE q # r
    <3>1. obs'[q] = obs[q]
      BY <1>4, <2>2
    <3> QED
      BY <1>0, <1>3, <1>6, <2>2, <3>1 DEF ObserversSound, Holds
  <2> QED
    BY <2>1, <2>2
<1>11. OneHome'
  <2>1. t.id \in SessionIds
    BY DEF SessionObjects
  <2>2. CASE obs[r].at = "loaded"
    <3>1. \A i \in SessionIds : ~InObject(r, i) /\ ~InFile(r, i)
      BY <1>0, <2>2 DEF ObserversSound
    <3> QED
      BY <1>0, <1>6, <3>1 DEF OneHome
  <2>3. CASE obs[r].at = "added"
    <3>1. InObject(r, t.id)
      BY <1>0, <1>1, <2>3 DEF ObserversSound, InObject
    <3> QED
      BY <1>0, <1>6, <3>1 DEF OneHome
  <2> QED
    BY <2>2, <2>3
<1>12. OneObject'
  <2> SUFFICES ASSUME service = "files"
               PROVE  /\ \A j, k \in 1..Len(objects) : objects'[j].id = objects'[k].id => j = k
                      /\ \A i \in SessionIds : Whole(i) =>
                           /\ cache[i] = 0 => \A k \in 1..Len(objects) : objects'[k].id # i
                           /\ cache[i] # 0
                                => RunsIn(file[i]) \subseteq RunsIn(objects'[cache[i]])
    BY <1>2 DEF OneObject, RunsIn, Whole
  <2>1. \A j, k \in 1..Len(objects) : objects'[j].id = objects'[k].id => j = k
    BY <1>0, <1>3 DEF OneObject
  <2>2. ASSUME NEW i \in SessionIds, Whole(i)
        PROVE  /\ cache[i] = 0 => \A k \in 1..Len(objects) : objects'[k].id # i
               /\ cache[i] # 0 => RunsIn(file[i]) \subseteq RunsIn(objects'[cache[i]])
    <3>1. CASE cache[i] = 0
      BY <1>0, <1>3, <2>2, <3>1 DEF OneObject
    <3>2. CASE cache[i] # 0
      <4>1. cache[i] \in 1..Len(objects)
        BY <1>0, <3>2 DEF CacheSound
      <4>2. RunsIn(file[i]) \subseteq RunsIn(objects[cache[i]])
        BY <1>0, <2>2, <3>2 DEF OneObject
      <4> QED
        BY <1>3, <3>2, <4>1, <4>2
    <3> QED
      BY <3>1, <3>2
  <2> QED
    BY <2>1, <2>2
<1>13. SavedInv'
  <2> SUFFICES ASSUME NEW q \in saved \ excused
               PROVE  \E i \in SessionIds : InStore(q, i)'
    BY DEF SavedInv
  <2>1. PICK i \in SessionIds : InStore(q, i)
    BY <1>0 DEF SavedInv
  <2>2. cache[i] # 0 => cache[i] \in 1..Len(objects)
    BY <1>0 DEF CacheSound
  <2>3. InStore(q, i)'
    BY <1>3, <1>6, <2>1, <2>2 DEF InStore, InFile, Whole, RunsIn
  <2> QED
    BY <2>3
<1> QED
  BY <1>5, <1>7, <1>8, <1>9, <1>10, <1>11, <1>12, <1>13 DEF PlainInv

LEMMA AppendStep ==
  ASSUME PlainInv, NEW r \in Runs, NEW status \in {"completed", "error"},
         ObserverAppends(r, status)
  PROVE  PlainInv'
<1>0. PlainTyped /\ ObjectsSound /\ ObserversSound
  BY DEF PlainInv
<1>1. PICK h : h = obs[r].held
  OBVIOUS
<1>2. h \in 1..Len(objects) /\ obs[r].at = "loaded"
  BY <1>0, <1>1 DEF ObserverAppends, ObserversSound, Holds
<1>3. PICK o : o = objects[h]
  OBVIOUS
<1>4. o \in SessionObjects /\ Sound(o) /\ o.msgs \in Seq(Runs) /\ o.id \in SessionIds
      /\ o.tokens \subseteq Runs
  <2>1. o \in SessionObjects
    BY <1>0, <1>2, <1>3, ObjectTyped
  <2> QED
    BY <1>0, <1>2, <1>3, <2>1 DEF ObjectsSound, SessionObjects
<1>5. PICK t : t = [o EXCEPT !.status = status, !.msgs = Append(@, r)]
  OBVIOUS
<1>6. t = [id |-> o.id, msgs |-> Append(o.msgs, r), tokens |-> o.tokens, status |-> status]
  BY <1>4, <1>5 DEF SessionObjects
<1>7. t \in SessionObjects /\ t.id = o.id
  BY <1>4, <1>6 DEF SessionObjects
<1>8. RunsIn(t) = RunsIn(o) \cup {r}
  BY <1>4, <1>6 DEF RunsIn, ToSet
<1>9. r \notin RunsIn(o)
  <2>1. ~InObject(r, o.id)
    BY <1>0, <1>2, <1>4 DEF ObserversSound
  <2> QED
    BY <1>2, <1>3, <2>1 DEF InObject
<1>10. Sound(t)
  <2>1. t.tokens \subseteq RunsIn(t)
    BY <1>4, <1>6, <1>8 DEF Sound
  <2>2. ASSUME NEW i \in 1..Len(t.msgs), NEW j \in 1..Len(t.msgs), t.msgs[i] = t.msgs[j]
        PROVE  i = j
    <3>1. t.msgs = Append(o.msgs, r)
      BY <1>6
    <3>2. \A k \in 1..Len(o.msgs) : o.msgs[k] # r
      BY <1>4, <1>9, RunsInMember
    <3>3. \A k, l \in 1..Len(o.msgs) : o.msgs[k] = o.msgs[l] => k = l
      BY <1>4 DEF Sound
    <3> QED
      BY <1>4, <2>2, <3>1, <3>2, <3>3
  <2> QED
    BY <2>1, <2>2 DEF Sound
<1>11. objects' = [objects EXCEPT ![h] = t]
  BY <1>0, <1>1, <1>2, <1>3, <1>5 DEF ObserverAppends, PlainTyped
<1> QED
  BY <1>1, <1>2, <1>3, <1>7, <1>8, <1>10, <1>11, ObjectStep DEF ObserverAppends

LEMMA CountStep ==
  ASSUME PlainInv, NEW r \in Runs, ObserverCounts(r)
  PROVE  PlainInv'
<1>0. PlainTyped /\ ObjectsSound /\ ObserversSound
  BY DEF PlainInv
<1>1. PICK h : h = obs[r].held
  OBVIOUS
<1>2. h \in 1..Len(objects) /\ obs[r].at = "added" /\ r \in RunsIn(objects[h])
  BY <1>0, <1>1 DEF ObserverCounts, ObserversSound, Holds
<1>3. PICK o : o = objects[h]
  OBVIOUS
<1>4. o \in SessionObjects /\ Sound(o) /\ o.msgs \in Seq(Runs) /\ o.id \in SessionIds
      /\ o.tokens \subseteq Runs
  <2>1. o \in SessionObjects
    BY <1>0, <1>2, <1>3, ObjectTyped
  <2> QED
    BY <1>0, <1>2, <1>3, <2>1 DEF ObjectsSound, SessionObjects
<1>5. PICK t : t = [o EXCEPT !.tokens = @ \cup {r}]
  OBVIOUS
<1>6. t = [id |-> o.id, msgs |-> o.msgs, tokens |-> o.tokens \cup {r}, status |-> o.status]
  BY <1>4, <1>5 DEF SessionObjects
<1>7. t \in SessionObjects /\ t.id = o.id
  BY <1>4, <1>6 DEF SessionObjects
<1>8. RunsIn(t) = RunsIn(o) \cup {r}
  BY <1>2, <1>3, <1>6 DEF RunsIn
<1>9. Sound(t)
  BY <1>4, <1>6, <1>8 DEF Sound
<1>10. objects' = [objects EXCEPT ![h] = t]
  BY <1>0, <1>1, <1>2, <1>3, <1>5 DEF ObserverCounts, PlainTyped
<1> QED
  BY <1>1, <1>2, <1>3, <1>7, <1>8, <1>9, <1>10, ObjectStep DEF ObserverCounts

(* What changes no object, and of observers only that some let go.         *)
LEMMA KeepsObservers ==
  ASSUME PlainTyped, ObserversSound, UNCHANGED objects,
         NEW r \in Runs, NEW p \in {"saved", "failed"}, NEW k,
         obs' = [obs EXCEPT ![r] = [at |-> p, held |-> k]],
         \A q \in Runs, i \in SessionIds : InFile(q, i)' => InObject(q, i) \/ InFile(q, i)
  PROVE  ObserversSound'
<1>1. \A q, i : InObject(q, i)' = InObject(q, i)
  BY DEF InObject, RunsIn
<1>2. /\ obs'[r].at = p
      /\ \A q \in Runs : q # r => obs'[q] = obs[q]
  BY DEF PlainTyped
<1> QED
  BY <1>1, <1>2 DEF ObserversSound, Holds, RunsIn

LEMMA ObserverSaveStep ==
  ASSUME PlainInv, NEW r \in Runs, ObserverSaves(r)
  PROVE  PlainInv'
<1>0. PlainTyped /\ ObjectsSound /\ FilesSound /\ CacheSound /\ ObserversSound /\ OneHome
      /\ OneObject /\ SavedInv
  BY DEF PlainInv
<1>1. PICK h : h = obs[r].held
  OBVIOUS
<1>2. h \in 1..Len(objects) /\ obs[r].at = "counted" /\ r \in RunsIn(objects[h])
  BY <1>0, <1>1 DEF ObserverSaves, ObserversSound, Holds
<1>3. PICK o : o = objects[h]
  OBVIOUS
<1>4. o \in SessionObjects /\ Sound(o) /\ o.id \in SessionIds /\ o.id <= made
  BY <1>0, <1>2, <1>3, ObjectTyped DEF ObjectsSound
<1>5. /\ Doc(o) \in SessionDocs /\ Sound(Doc(o)) /\ RunsIn(Doc(o)) = RunsIn(o)
      /\ Doc(o).text = "whole"
  BY <1>4, DocIsSound
<1>6. PICK n : n = o.id
  OBVIOUS
<1>7. /\ cache' = [cache EXCEPT ![n] = h]
      /\ service = "files" => file' = [file EXCEPT ![n] = Doc(o)]
      /\ service # "files" => file' = file
      /\ obs' = [obs EXCEPT ![r] = [at |-> "saved", held |-> 0]]
      /\ saved' = saved \cup {r} /\ excused' = excused \cup Overwritten(r)
      /\ UNCHANGED <<service, objects, alive, made>>
  BY <1>1, <1>3, <1>6 DEF ObserverSaves
<1>8. /\ cache'[n] = h /\ h # 0 /\ h \in Nat
      /\ service = "files" => file'[n] = Doc(o)
      /\ \A i \in SessionIds : i # n => cache'[i] = cache[i] /\ file'[i] = file[i]
  BY <1>0, <1>2, <1>4, <1>6, <1>7 DEF PlainTyped
<1>9. PlainTyped'
  <2>1. obs' \in [Runs -> [at : {"idle", "loaded", "added", "counted", "saved", "failed"},
                           held : Nat]]
    BY <1>0, <1>7, LoadTyped
  <2>2. file' \in [SessionIds -> {NoFile, TornFile} \cup SessionDocs]
    BY <1>0, <1>5, <1>7 DEF PlainTyped
  <2>3. cache' \in [SessionIds -> Nat] /\ saved' \subseteq Runs
    BY <1>0, <1>7, <1>8 DEF PlainTyped
  <2> QED
    BY <1>0, <1>7, <2>1, <2>2, <2>3 DEF PlainTyped
<1>10. ObjectsSound'
  BY <1>0, <1>7 DEF ObjectsSound, Sound, RunsIn
<1>11. FilesSound'
  <2> SUFFICES ASSUME NEW i \in SessionIds, file'[i].text = "whole"
               PROVE  Sound(file'[i]) /\ i <= made /\ service = "files"
    BY <1>7 DEF FilesSound, Sound, RunsIn, Whole
  <2>1. CASE i = n /\ service = "files"
    BY <1>4, <1>5, <1>6, <1>8, <2>1
  <2>2. CASE file'[i] = file[i]
    BY <1>0, <2>2 DEF FilesSound, Whole
  <2> QED
    BY <1>7, <1>8, <2>1, <2>2
<1>12. CacheSound'
  <2> SUFFICES ASSUME NEW i \in SessionIds, cache'[i] # 0
               PROVE  cache'[i] \in 1..Len(objects) /\ objects[cache'[i]].id = i
    BY <1>7 DEF CacheSound
  <2> QED
    BY <1>0, <1>2, <1>3, <1>6, <1>8 DEF CacheSound
<1>13. /\ \A q, i : InObject(q, i)' = InObject(q, i)
       /\ \A q, i : i \in SessionIds /\ InFile(q, i)' => InObject(q, i) \/ InFile(q, i)
  <2>1. ASSUME NEW q, NEW i \in SessionIds, InFile(q, i)' PROVE InObject(q, i) \/ InFile(q, i)
    <3>1. file'[i].text = "whole" /\ q \in RunsIn(file'[i])
      BY <2>1 DEF InFile, Whole, RunsIn
    <3>2. CASE i = n /\ service = "files"
      BY <1>2, <1>3, <1>5, <1>6, <1>8, <3>1, <3>2 DEF InObject
    <3>3. CASE file'[i] = file[i]
      BY <3>1, <3>3 DEF InFile, Whole
    <3> QED
      BY <1>7, <1>8, <3>2, <3>3
  <2>2. \A q, i : InObject(q, i)' = InObject(q, i)
    BY <1>7 DEF InObject, RunsIn
  <2> QED
    BY <2>1, <2>2
<1>14. ObserversSound'
  BY <1>0, <1>7, <1>13, KeepsObservers
<1>15. OneHome'
  BY <1>0, <1>13 DEF OneHome
<1>16. OneObject'
  <2> SUFFICES ASSUME service = "files"
               PROVE  /\ \A j, k \in 1..Len(objects) : objects[j].id = objects[k].id => j = k
                      /\ \A i \in SessionIds : file'[i].text = "whole" =>
                           /\ cache'[i] = 0 => \A k \in 1..Len(objects) : objects[k].id # i
                           /\ cache'[i] # 0
                                => RunsIn(file'[i]) \subseteq RunsIn(objects[cache'[i]])
    BY <1>7 DEF OneObject, RunsIn, Whole
  <2>1. ASSUME NEW i \in SessionIds, file'[i].text = "whole"
        PROVE  /\ cache'[i] = 0 => \A k \in 1..Len(objects) : objects[k].id # i
               /\ cache'[i] # 0 => RunsIn(file'[i]) \subseteq RunsIn(objects[cache'[i]])
    <3>1. CASE i = n
      BY <1>3, <1>5, <1>8, <3>1
    <3>2. CASE i # n
      BY <1>0, <1>8, <2>1, <3>2 DEF OneObject, Whole
    <3> QED
      BY <3>1, <3>2
  <2> QED
    BY <1>0, <2>1 DEF OneObject
<1>17. SavedInv'
  <2> SUFFICES ASSUME NEW q \in saved \cup {r}, q \notin excused \cup Overwritten(r)
               PROVE  \E i \in SessionIds : InStore(q, i)'
    BY <1>7 DEF SavedInv
  <2>1. ASSUME q \in RunsIn(o) PROVE InStore(q, n)'
    BY <1>3, <1>5, <1>7, <1>8, <2>1 DEF InStore, InFile, Whole, RunsIn
  <2>2. CASE q = r
    BY <1>2, <1>3, <1>4, <1>6, <2>1, <2>2
  <2>3. CASE q \in saved
    <3>1. PICK i \in SessionIds : InStore(q, i)
      BY <1>0, <2>3 DEF SavedInv
    <3>2. CASE i # n
      <4>1. file'[i] = file[i] /\ cache'[i] = cache[i]
        BY <1>8, <3>2
      <4>2. InStore(q, i)'
        BY <1>7, <3>1, <4>1 DEF InStore, InFile, Whole, RunsIn
      <4> QED
        BY <4>2
    <3>3. CASE i = n /\ service = "files"
      <4>1. Whole(n) /\ q \in RunsIn(file[n])
        BY <3>1, <3>3 DEF InStore, InFile
      <4>2. objects[h].id = n
        BY <1>3, <1>6
      <4>3. cache[n] # 0 /\ RunsIn(file[n]) \subseteq RunsIn(objects[cache[n]])
        BY <1>0, <1>2, <3>3, <4>1, <4>2 DEF OneObject
      <4>4. cache[n] = h
        BY <1>0, <1>2, <3>3, <4>2, <4>3 DEF OneObject, CacheSound
      <4> QED
        BY <1>3, <2>1, <3>3, <4>1, <4>3, <4>4
    <3>4. CASE i = n /\ service # "files"
      <4>1. service = "memory"
        BY <1>0, <3>4 DEF PlainTyped
      <4>2. q \in StoredRuns(n)
        BY <3>1, <3>4 DEF InStore, StoredRuns
      <4>3. q \in RunsIn(o)
        BY <1>1, <1>3, <1>6, <4>1, <4>2 DEF Overwritten
      <4> QED
        BY <2>1, <3>4, <4>3
    <3> QED
      BY <3>2, <3>3, <3>4
  <2> QED
    BY <2>2, <2>3
<1> QED
  BY <1>9, <1>10, <1>11, <1>12, <1>14, <1>15, <1>16, <1>17 DEF PlainInv

(* What is in the store is what a reader of it would find.                 *)
LEMMA StoredThere ==
  ASSUME PlainInv, NEW i \in SessionIds, NEW q, InStore(q, i)
  PROVE  q \in StoredRuns(i)
<1>1. CASE service = "files"
  <2>1. Whole(i) /\ q \in RunsIn(file[i])
    BY <1>1 DEF InStore, InFile
  <2>2. CASE cache[i] # 0
    BY <1>1, <2>1, <2>2 DEF PlainInv, OneObject, StoredRuns
  <2>3. CASE cache[i] = 0
    BY <2>1, <2>3 DEF StoredRuns, Whole
  <2> QED
    BY <2>2, <2>3
<1>2. CASE service # "files"
  BY <1>2 DEF InStore, StoredRuns
<1> QED
  BY <1>1, <1>2

(* A session's file and, with it or not, its place in the cache go: what   *)
(* was stored there is excused.                                            *)
LEMMA FileGone ==
  ASSUME PlainInv, NEW n \in SessionIds, NEW d \in {NoFile, TornFile},
         \/ file' = [file EXCEPT ![n] = d] /\ UNCHANGED cache
         \/ file' = [file EXCEPT ![n] = d] /\ cache' = [cache EXCEPT ![n] = 0],
         excused' = excused \cup StoredRuns(n),
         ObserversSound', obs' \in [Runs -> [at : {"idle", "loaded", "added", "counted", "saved",
                                                   "failed"}, held : Nat]],
         UNCHANGED <<service, objects, alive, made, saved>>,
         service = "memory" => cache' = [cache EXCEPT ![n] = 0]
  PROVE  PlainInv'
<1>0. PlainTyped /\ ObjectsSound /\ FilesSound /\ CacheSound /\ OneHome
      /\ OneObject /\ SavedInv
  BY DEF PlainInv
<1>1. /\ file'[n] = d /\ file'[n].text # "whole"
      /\ \A i \in SessionIds : i # n => file'[i] = file[i] /\ cache'[i] = cache[i]
      /\ \A i \in SessionIds : cache'[i] = cache[i] \/ cache'[i] = 0
  BY <1>0 DEF PlainTyped, NoFile, TornFile
<1>2. PlainTyped'
  <2>1. file' \in [SessionIds -> {NoFile, TornFile} \cup SessionDocs]
    BY <1>0 DEF PlainTyped
  <2>2. cache' \in [SessionIds -> Nat]
    BY <1>0 DEF PlainTyped
  <2> QED
    BY <1>0, <2>1, <2>2 DEF PlainTyped
<1>3. ObjectsSound'
  BY <1>0 DEF ObjectsSound, Sound, RunsIn
<1>4. FilesSound'
  <2> SUFFICES ASSUME NEW i \in SessionIds, file'[i].text = "whole"
               PROVE  Sound(file'[i]) /\ i <= made /\ service = "files"
    BY DEF FilesSound, Sound, RunsIn, Whole
  <2> QED
    BY <1>0, <1>1 DEF FilesSound, Whole
<1>5. CacheSound'
  BY <1>0, <1>1 DEF CacheSound
<1>6. /\ \A q, i : InObject(q, i)' = InObject(q, i)
      /\ \A q, i : i \in SessionIds /\ InFile(q, i)' => i # n /\ InFile(q, i)
  BY <1>1 DEF InObject, InFile, Whole, RunsIn
<1>7. OneHome'
  BY <1>0, <1>6 DEF OneHome
<1>8. OneObject'
  <2> SUFFICES ASSUME service = "files"
               PROVE  /\ \A j, k \in 1..Len(objects) : objects[j].id = objects[k].id => j = k
                      /\ \A i \in SessionIds : file'[i].text = "whole" =>
                           /\ cache'[i] = 0 => \A k \in 1..Len(objects) : objects[k].id # i
                           /\ cache'[i] # 0
                                => RunsIn(file'[i]) \subseteq RunsIn(objects[cache'[i]])
    BY DEF OneObject, RunsIn, Whole
  <2> QED
    BY <1>0, <1>1 DEF OneObject, Whole
<1>9. SavedInv'
  <2> SUFFICES ASSUME NEW q \in saved, q \notin excused \cup StoredRuns(n)
               PROVE  \E i \in SessionIds : InStore(q, i)'
    BY DEF SavedInv
  <2>1. PICK i \in SessionIds : InStore(q, i)
    BY <1>0 DEF SavedInv
  <2>2. i # n
    BY <2>1, StoredThere
  <2>3. file'[i] = file[i] /\ cache'[i] = cache[i]
    BY <1>1, <2>2
  <2>4. InStore(q, i)'
    BY <2>1, <2>3 DEF InStore, InFile, Whole, RunsIn
  <2> QED
    BY <2>4
<1> QED
  BY <1>2, <1>3, <1>4, <1>5, <1>7, <1>8, <1>9 DEF PlainInv

LEMMA SaveFailsStep ==
  ASSUME PlainInv, NEW r \in Runs, ObserverSaveFails(r)
  PROVE  PlainInv'
<1>0. PlainTyped /\ ObserversSound
  BY DEF PlainInv
<1>1. PICK n : n = objects[obs[r].held].id
  OBVIOUS
<1>2. n \in SessionIds
  BY <1>0, <1>1, ObjectTyped DEF ObserverSaveFails, ObserversSound, Holds
<1>3. /\ file' = [file EXCEPT ![n] = TornFile] /\ excused' = excused \cup StoredRuns(n)
      /\ obs' = [obs EXCEPT ![r] = [at |-> "failed", held |-> 0]] /\ service = "files"
      /\ UNCHANGED <<service, objects, cache, alive, made, saved>>
  BY <1>1 DEF ObserverSaveFails
<1>4. \A q \in Runs, i \in SessionIds : InFile(q, i)' => InFile(q, i)
  <2> SUFFICES ASSUME NEW q, NEW i \in SessionIds, file'[i].text = "whole", q \in RunsIn(file'[i])
               PROVE  InFile(q, i)
    BY DEF InFile, Whole, RunsIn
  <2>1. i # n
    BY <1>0, <1>2, <1>3 DEF PlainTyped, TornFile
  <2> QED
    BY <1>0, <1>3, <2>1 DEF PlainTyped, InFile, Whole
<1>5. ObserversSound'
  BY <1>0, <1>3, <1>4, KeepsObservers
<1>6. obs' \in [Runs -> [at : {"idle", "loaded", "added", "counted", "saved", "failed"},
                         held : Nat]]
  BY <1>0, <1>3, LoadTyped
<1> QED
  BY <1>2, <1>3, <1>5, <1>6, FileGone

LEMMA SessionDeleteStep ==
  ASSUME PlainInv, NEW id \in SessionIds, DeleteSession(id)
  PROVE  PlainInv'
<1>0. PlainTyped /\ ObserversSound
  BY DEF PlainInv
<1>1. \A q \in Runs, i \in SessionIds : /\ InFile(q, i)' => InFile(q, i)
                                        /\ InObject(q, i)' = InObject(q, i)
  <2>1. ASSUME NEW q, NEW i \in SessionIds, file'[i].text = "whole", q \in RunsIn(file'[i])
        PROVE  InFile(q, i)
    <3>1. i # id
      BY <1>0, <2>1 DEF DeleteSession, PlainTyped, NoFile
    <3> QED
      BY <1>0, <2>1, <3>1 DEF DeleteSession, PlainTyped, InFile, Whole
  <2>2. \A q, i : InObject(q, i)' = InObject(q, i)
    BY DEF DeleteSession, InObject, RunsIn
  <2> QED
    BY <2>1, <2>2 DEF InFile, Whole, RunsIn
<1>2. ObserversSound'
  BY <1>0, <1>1 DEF DeleteSession, ObserversSound, Holds, RunsIn
<1>3. obs' \in [Runs -> [at : {"idle", "loaded", "added", "counted", "saved", "failed"},
                         held : Nat]]
  BY <1>0 DEF DeleteSession, PlainTyped
<1> QED
  BY <1>2, <1>3, FileGone DEF DeleteSession

LEMMA EndsStep ==
  ASSUME PlainInv, ServiceEnds
  PROVE  PlainInv'
<1>0. PlainTyped /\ FilesSound /\ ObserversSound /\ OneHome /\ SavedInv
  BY DEF PlainInv
<1>1. /\ objects' = <<>> /\ cache' = [i \in SessionIds |-> 0] /\ service = "files"
      /\ alive' = FALSE /\ UNCHANGED <<service, made, saved>>
  BY DEF ServiceEnds
<1>2. \/ file' = file /\ excused' = excused
      \/ \E n \in SessionIds : /\ file' = [file EXCEPT ![n] = TornFile]
                               /\ excused' = excused \cup StoredRuns(n)
  BY DEF ServiceEnds
<1>3. \A q \in Runs : obs'[q] = IF obs[q].at \in {"saved", "failed", "idle"} THEN obs[q]
                                ELSE [at |-> "failed", held |-> 0]
  BY DEF ServiceEnds
<1>4. PlainTyped'
  <2>1. obs' \in [Runs -> [at : {"idle", "loaded", "added", "counted", "saved", "failed"},
                           held : Nat]]
    <3> DEFINE R == [at : {"idle", "loaded", "added", "counted", "saved", "failed"}, held : Nat]
    <3>1. [at |-> "failed", held |-> 0] \in R
      OBVIOUS
    <3>2. \A q \in Runs : obs[q] \in R
      BY <1>0 DEF PlainTyped
    <3>3. obs' = [q \in Runs |-> IF obs[q].at \in {"saved", "failed", "idle"} THEN obs[q]
                                 ELSE [at |-> "failed", held |-> 0]]
      BY DEF ServiceEnds
    <3> HIDE DEF R
    <3>4. obs' \in [Runs -> R]
      BY <3>1, <3>2, <3>3
    <3> QED
      BY <3>4 DEF R
  <2>2. file' \in [SessionIds -> {NoFile, TornFile} \cup SessionDocs]
    BY <1>0, <1>2 DEF PlainTyped
  <2>3. objects' \in Seq(SessionObjects)
    BY <1>1
  <2>4. cache' \in [SessionIds -> Nat]
    BY <1>1
  <2>5. /\ service' \in {"memory", "files"} /\ alive' \in BOOLEAN /\ made' \in 0..MaxSessions
        /\ saved' \subseteq Runs
    BY <1>0, <1>1 DEF PlainTyped
  <2> QED
    BY <2>1, <2>2, <2>3, <2>4, <2>5 DEF PlainTyped, SessionObjects, SessionDocs
<1>5. \A i \in SessionIds : file'[i].text = "whole" => file'[i] = file[i]
  BY <1>0, <1>2 DEF PlainTyped, TornFile
<1>6. ObjectsSound' /\ CacheSound'
  BY <1>1 DEF ObjectsSound, CacheSound
<1>7. FilesSound'
  <2> SUFFICES ASSUME NEW i \in SessionIds, file'[i].text = "whole"
               PROVE  Sound(file'[i]) /\ i <= made /\ service = "files"
    BY <1>1 DEF FilesSound, Sound, RunsIn, Whole
  <2> QED
    BY <1>0, <1>5 DEF FilesSound, Whole
<1>8. /\ \A q, i : ~InObject(q, i)'
      /\ \A q, i : i \in SessionIds /\ InFile(q, i)' => InFile(q, i)
  <2>1. \A q, i : ~InObject(q, i)'
    BY <1>1 DEF InObject
  <2>2. ASSUME NEW q, NEW i \in SessionIds, file'[i].text = "whole", q \in RunsIn(file'[i])
        PROVE  InFile(q, i)
    BY <1>5, <2>2 DEF InFile, Whole
  <2> QED
    BY <2>1, <2>2 DEF InFile, Whole, RunsIn
<1>9. ObserversSound'
  <2> SUFFICES ASSUME NEW q \in Runs
               PROVE  /\ ~Holds(obs'[q].at)
                      /\ obs'[q].at = "idle" => obs[q].at = "idle"
    BY <1>0, <1>8 DEF ObserversSound, Holds, RunsIn
  <2> QED
    BY <1>3 DEF Holds
<1>10. OneHome' /\ OneObject'
  BY <1>0, <1>1, <1>8 DEF OneHome, OneObject, Whole
<1>11. SavedInv'
  <2> SUFFICES ASSUME NEW q \in saved, q \notin excused'
               PROVE  \E i \in SessionIds : InStore(q, i)'
    BY <1>1 DEF SavedInv
  <2>1. PICK i \in SessionIds : InStore(q, i)
    BY <1>0, <1>2 DEF SavedInv
  <2>2. q \in StoredRuns(i)
    BY <2>1, StoredThere
  <2>3. file'[i] = file[i]
    BY <1>0, <1>2, <2>2 DEF PlainTyped
  <2>4. InStore(q, i)'
    BY <1>1, <2>1, <2>3 DEF InStore, InFile, Whole, RunsIn
  <2> QED
    BY <2>4
<1> QED
  BY <1>4, <1>6, <1>7, <1>9, <1>10, <1>11 DEF PlainInv

(* Steps that change nothing the invariant is about but an observer's end. *)
LEMMA OtherStep ==
  ASSUME PlainInv,
         \/ ServiceStarts
         \/ \E r \in Runs : CreateFails(r)
         \/ UNCHANGED plainVars
  PROVE  PlainInv'
<1>0. /\ PlainTyped /\ ObserversSound
      /\ UNCHANGED <<service, objects, cache, file, made, saved, excused>>
      /\ alive' \in BOOLEAN
  BY DEF PlainInv, PlainTyped, ServiceStarts, CreateFails, plainVars
<1>1. /\ \A q, i : InObject(q, i)' = InObject(q, i) /\ InFile(q, i)' = InFile(q, i)
      /\ \A q, i : InStore(q, i)' = InStore(q, i)
  BY <1>0 DEF InObject, InFile, InStore, Whole, RunsIn
<1>2. /\ obs' \in [Runs -> [at : {"idle", "loaded", "added", "counted", "saved", "failed"},
                            held : Nat]]
      /\ ObserversSound'
  <2>1. CASE UNCHANGED obs
    BY <1>0, <1>1, <2>1 DEF PlainTyped, ObserversSound, Holds, RunsIn
  <2>2. ASSUME NEW r \in Runs, CreateFails(r)
        PROVE  /\ obs' \in [Runs -> [at : {"idle", "loaded", "added", "counted", "saved",
                                           "failed"}, held : Nat]]
               /\ ObserversSound'
    <3>1. PICK k \in Nat : k = obs[r].held
      BY <1>0 DEF PlainTyped
    <3> DEFINE R == [at : {"idle", "loaded", "added", "counted", "saved", "failed"}, held : Nat]
    <3>a. obs \in [Runs -> R]
      BY <1>0 DEF PlainTyped
    <3>b. [obs[r] EXCEPT !.at = "failed"] = [at |-> "failed", held |-> k]
      BY <3>a, <3>1
    <3>c. obs' = [obs EXCEPT ![r] = [obs[r] EXCEPT !.at = "failed"]]
      BY <2>2 DEF CreateFails
    <3>2. obs' = [obs EXCEPT ![r] = [at |-> "failed", held |-> k]]
      BY <3>b, <3>c
    <3> QED
      BY <1>0, <1>1, <3>2, LoadTyped, KeepsObservers
  <2> QED
    BY <2>1, <2>2 DEF ServiceStarts, plainVars
<1>3. PlainTyped'
  BY <1>0, <1>2 DEF PlainTyped
<1>4. OneHome' /\ SavedInv'
  BY <1>0, <1>1 DEF PlainInv, OneHome, SavedInv
<1>5. ObjectsSound' /\ FilesSound' /\ CacheSound' /\ OneObject'
  BY <1>0 DEF PlainInv, ObjectsSound, FilesSound, CacheSound, OneObject, Sound, RunsIn, Whole
<1> QED
  BY <1>2, <1>3, <1>4, <1>5 DEF PlainInv

LEMMA NextPlainInv == PlainInv /\ [PlainNext]_plainVars => PlainInv'
<1> SUFFICES ASSUME PlainInv, [PlainNext]_plainVars PROVE PlainInv'
  OBVIOUS
<1>1. CASE UserCreates
  BY <1>1, SessionCreateStep DEF UserCreates
<1>2. ASSUME NEW r \in Runs, ObserverCreates(r) PROVE PlainInv'
  BY <1>2, SessionCreateStep DEF ObserverCreates
<1>3. CASE List
  <2>1. PICK id \in SessionIds : Readable(id) /\ GetSession(id)
    BY <1>3 DEF List
  <2> QED
    BY <1>3, <2>1, SessionGetStep DEF List
<1>4. ASSUME NEW r \in Runs, NEW id \in SessionIds, ObserverLoads(r, id) PROVE PlainInv'
  BY <1>4, SessionGetStep DEF ObserverLoads
<1>5. ASSUME NEW r \in Runs, NEW s \in {"completed", "error"}, ObserverAppends(r, s)
      PROVE  PlainInv'
  BY <1>5, AppendStep
<1>6. ASSUME NEW r \in Runs, ObserverCounts(r) PROVE PlainInv'
  BY <1>6, CountStep
<1>7. ASSUME NEW r \in Runs, ObserverSaves(r) PROVE PlainInv'
  BY <1>7, ObserverSaveStep
<1>8. ASSUME NEW r \in Runs, ObserverSaveFails(r) PROVE PlainInv'
  BY <1>8, SaveFailsStep
<1>9. ASSUME NEW id \in SessionIds, DeleteSession(id) PROVE PlainInv'
  BY <1>9, SessionDeleteStep
<1>10. CASE ServiceEnds
  BY <1>10, EndsStep
<1>11. CASE ServiceStarts
  BY <1>11, OtherStep
<1>12. ASSUME NEW r \in Runs, CreateFails(r) PROVE PlainInv'
  BY <1>12, OtherStep
<1>13. CASE UNCHANGED plainVars
  BY <1>13, OtherStep
<1> QED
  BY <1>1, <1>2, <1>3, <1>4, <1>5, <1>6, <1>7, <1>8, <1>9, <1>10, <1>11, <1>12, <1>13
     DEF PlainNext

(* The objects, the cache, the files and the observers agree: a run is at  *)
(* home in one session, and a file is never ahead of its cached object.    *)
THEOREM PlainInvariant == PlainSpec => []PlainInv
BY InitPlainInv, NextPlainInv, PTL DEF PlainSpec

LEMMA RunsAreCounted ==
  ASSUME NEW s, s.msgs \in Seq(Runs), Sound(s)
  PROVE  Cardinality(RunsIn(s)) = Len(s.msgs)
<1>1. PICK m : m = s.msgs
  OBVIOUS
<1>2. m \in Seq(Runs) /\ m \in [1..Len(m) -> ToSet(m)] /\ Len(m) \in Nat
  BY <1>1 DEF ToSet
<1>3. m \in Bijection(1..Len(m), ToSet(m))
  <2>1. DOMAIN m = 1..Len(m)
    BY <1>2
  <2>2. \A i, j \in 1..Len(m) : m[i] = m[j] => i = j
    BY <1>1 DEF Sound
  <2>3. IsInjective(m)
    BY <2>1, <2>2 DEF IsInjective
  <2>4. \A t \in ToSet(m) : \E i \in 1..Len(m) : m[i] = t
    BY <2>1 DEF ToSet
  <2> QED
    BY <1>2, <2>3, <2>4 DEF Bijection, Injection, Surjection
<1>4. IsFiniteSet(1..Len(m)) /\ Cardinality(1..Len(m)) = Len(m)
  <2>1. PICK n \in Nat : n = Len(m)
    BY <1>2
  <2>2. 1 \in Int /\ n \in Int
    OBVIOUS
  <2>3. IsFiniteSet(1..n) /\ Cardinality(1..n) = IF 1 > n THEN 0 ELSE n - 1 + 1
    BY ONLY <2>2, FS_Interval
  <2>4. Cardinality(1..n) = n
    BY <2>3
  <2> QED
    BY <2>1, <2>3, <2>4
<1>5. Cardinality(ToSet(m)) = Len(m)
  <2>1. ExistsBijection(1..Len(m), ToSet(m))
    BY <1>3 DEF ExistsBijection
  <2> QED
    BY <2>1, <1>4, FS_Bijection
<1> QED
  BY <1>1, <1>5 DEF RunsIn

LEMMA InvKeepsSaves == PlainInv => SavesAreKept
<1> SUFFICES ASSUME PlainInv PROVE SavesAreKept
  OBVIOUS
<1>0. PlainTyped /\ FilesSound /\ OneHome /\ SavedInv
  BY DEF PlainInv
<1>1. SavedRunsStay
  <2> SUFFICES ASSUME NEW r \in saved \ excused
               PROVE  /\ \E id \in SessionIds : r \in StoredRuns(id)
                      /\ service = "files" => \E id \in SessionIds :
                           file[id].text = "whole" /\ r \in RunsIn(file[id])
    BY DEF SavedRunsStay
  <2>1. PICK id \in SessionIds : InStore(r, id)
    BY <1>0 DEF SavedInv
  <2> QED
    BY <2>1, StoredThere DEF InStore, InFile, Whole
<1>2. RunsAreFiledOnce
  <2> SUFFICES ASSUME NEW id \in SessionIds, Whole(id)
               PROVE  /\ file[id].tokens \subseteq RunsIn(file[id])
                      /\ Cardinality(RunsIn(file[id])) = Len(file[id].msgs)
                      /\ \A other \in SessionIds \ {id} :
                           Whole(other) => RunsIn(file[other]) \cap RunsIn(file[id]) = {}
    BY DEF RunsAreFiledOnce, Whole
  <2>1. file[id] \in SessionDocs /\ Sound(file[id])
    BY <1>0, WholeIsDoc DEF FilesSound
  <2>2. file[id].msgs \in Seq(Runs)
    BY <2>1 DEF SessionDocs
  <2>3. RunsIn(file[id]) \subseteq Runs
    BY <2>2 DEF RunsIn, ToSet
  <2>4. \A other \in SessionIds \ {id} :
          Whole(other) => RunsIn(file[other]) \cap RunsIn(file[id]) = {}
    BY <1>0, <2>3 DEF OneHome, InFile
  <2> QED
    BY <2>1, <2>2, <2>4, RunsAreCounted DEF Sound
<1> QED
  BY <1>1, <1>2 DEF SavesAreKept

(* What was saved is there: a finished run stays in its session, once and  *)
(* with its tokens, unless the session was deleted, torn or overwritten    *)
(* from an older copy; for any runs, sessions, restarts and interleaving.  *)
THEOREM SavesKept == PlainSpec => []SavesAreKept
BY PlainInvariant, InvKeepsSaves, PTL

(* The index lists sessions that were made; it is read back from its file. *)
IndexDocs == [text : {"whole"}, ids : Seq(SessionIds)]
IndexInv == /\ service \in Services /\ excused \subseteq Runs
            /\ index \in Seq(SessionIds)
            /\ indexFile = TornFile \/ indexFile \in IndexDocs

(* Leaving an id out keeps entries of the list, in their places.           *)
LEMMA WithoutTyped ==
  ASSUME NEW S, NEW ids \in Seq(S), NEW id
  PROVE  Without(ids, id) \in Seq(S)
<1> DEFINE kept == {i \in 1..Len(ids) : ids[i] # id}
           Rank(m) == {j \in kept : j <= m}
<1>1. IsFiniteSet(kept) /\ Cardinality(kept) \in Nat /\ Len(ids) \in Nat
  <2>1. Len(ids) \in Nat /\ IsFiniteSet(1..Len(ids))
    BY FS_Interval
  <2> QED
    BY <2>1, FS_Subset, FS_CardinalityType
<1>2. \A m \in Nat : IsFiniteSet(Rank(m)) /\ Cardinality(Rank(m)) \in Nat
  BY <1>1, FS_Subset, FS_CardinalityType
<1>3. Without(ids, id) = [n \in 1..Cardinality(kept) |->
                            ids[CHOOSE i \in kept : Cardinality(Rank(i)) = n]]
  BY DEF Without
<1>4. Rank(0) = {} /\ Rank(Len(ids)) = kept /\ kept \subseteq 1..Len(ids)
  BY <1>1
<1>5. ASSUME NEW m \in Nat, m # 0
      PROVE  /\ m \in kept => Rank(m) = Rank(m - 1) \cup {m} /\ m \notin Rank(m - 1)
             /\ m \notin kept => Rank(m) = Rank(m - 1)
  BY <1>1, <1>5
<1> HIDE DEF kept, Rank
<1>6. ASSUME NEW n \in 1..Cardinality(kept)
      PROVE  \E i \in kept : Cardinality(Rank(i)) = n
  <2> DEFINE Above == {m \in Nat : Cardinality(Rank(m)) >= n}
  <2>1. Len(ids) \in Above
    BY <1>1, <1>4
  <2>2. PICK m \in Above : \A k \in Above : ~(k < m)
    BY <2>1, Least
  <2>3. m \in Nat /\ Cardinality(Rank(m)) >= n
    BY <2>2
  <2>4. m # 0
    <3>1. Cardinality(Rank(0)) = 0
      BY <1>4, FS_EmptySet
    <3>2. ~(0 >= n)
      BY <1>1
    <3> QED
      BY <2>3, <3>1, <3>2
  <2>5. m - 1 \in Nat /\ m - 1 < m
    BY <2>3, <2>4
  <2>6. m - 1 \notin Above
    BY <2>2, <2>5
  <2>7. PICK c \in Nat : c = Cardinality(Rank(m - 1))
    BY <1>2, <2>5
  <2>8. c < n /\ n \in Nat
    BY <1>1, <2>5, <2>6, <2>7
  <2>9. CASE m \in kept
    <3>1. Cardinality(Rank(m)) = c + 1
      BY <1>2, <1>5, <2>3, <2>4, <2>5, <2>7, <2>9, FS_AddElement
    <3>2. c + 1 = n
      BY <2>3, <2>8, <3>1
    <3> QED
      BY <2>9, <3>1, <3>2
  <2>10. CASE m \notin kept
    <3>1. Cardinality(Rank(m)) = c
      BY <1>5, <2>3, <2>4, <2>7, <2>10
    <3> QED
      BY <2>3, <2>8, <3>1
  <2> QED
    BY <2>9, <2>10
<1>7. ASSUME NEW n \in 1..Cardinality(kept)
      PROVE  ids[CHOOSE i \in kept : Cardinality(Rank(i)) = n] \in S
  <2>1. PICK k \in kept : k = CHOOSE i \in kept : Cardinality(Rank(i)) = n
    BY <1>6
  <2>2. ids[k] \in S
    BY <1>4
  <2> QED
    BY <2>1, <2>2
<1>8. Without(ids, id) \in [1..Cardinality(kept) -> S]
  BY <1>3, <1>7
<1> QED
  BY <1>1, <1>8

LEMMA InitIndexInv == PlainInit => IndexInv
BY DEF PlainInit, IndexInv, IndexDocs, IndexDoc

LEMMA StoredRunsTyped ==
  ASSUME PlainInv, NEW id \in SessionIds PROVE StoredRuns(id) \subseteq Runs
<1>1. PlainTyped /\ CacheSound /\ FilesSound
  BY DEF PlainInv
<1>2. CASE cache[id] # 0
  <2>1. objects[cache[id]] \in SessionObjects
    BY <1>1, <1>2 DEF PlainTyped, CacheSound
  <2> QED
    BY <1>2, <2>1 DEF StoredRuns, RunsIn, ToSet, SessionObjects
<1>3. CASE cache[id] = 0 /\ file[id].text = "whole"
  <2>1. file[id] \in SessionDocs
    BY <1>1, <1>3 DEF PlainTyped, NoFile, TornFile
  <2> QED
    BY <1>3, <2>1 DEF StoredRuns, RunsIn, ToSet, SessionDocs
<1> QED
  BY <1>2, <1>3 DEF StoredRuns

LEMMA NextIndexInv ==
  ASSUME PlainInv, IndexInv, [PlainNext]_plainVars PROVE IndexInv'
<1>0. PlainTyped /\ ObserversSound /\ SessionIds = 1..MaxSessions /\ MaxSessions \in Nat
  BY PlainAssumption DEF PlainInv, SessionIds
<1>1. ASSUME NEW i2 \in Seq(SessionIds) PROVE IndexDoc(i2) \in IndexDocs
  BY DEF IndexDoc, IndexDocs
<1>2. ASSUME NEW id \in SessionIds PROVE Registered(id) \in Seq(SessionIds)
  BY DEF IndexInv, Registered
<1>3. ASSUME NEW r \in Runs, obs[r].at = "counted"
      PROVE  objects[obs[r].held].id \in SessionIds
  <2>1. obs[r].held \in 1..Len(objects)
    BY <1>0, <1>3 DEF ObserversSound, Holds
  <2>2. objects[obs[r].held] \in SessionObjects
    BY <1>0, <2>1 DEF PlainTyped
  <2> QED
    BY <2>2 DEF SessionObjects
<1>4. ASSUME CreateSession, UNCHANGED <<service, excused>> PROVE IndexInv'
  <2>1. made + 1 \in SessionIds
    BY <1>0, <1>4 DEF CreateSession, PlainTyped
  <2>2. index' \in Seq(SessionIds)
    BY <1>4, <2>1 DEF CreateSession, IndexInv
  <2> QED
    BY <1>1, <1>4, <2>2 DEF CreateSession, IndexInv
<1>5. ASSUME NEW r \in Runs, ObserverSaves(r) PROVE IndexInv'
  <2> DEFINE s == objects[obs[r].held]
  <2>1. s.id \in SessionIds /\ StoredRuns(s.id) \subseteq Runs
    BY <1>3, <1>5, StoredRunsTyped DEF ObserverSaves
  <2>2. excused' \subseteq Runs /\ service' = service
    BY <1>5, <2>1 DEF ObserverSaves, Overwritten, IndexInv
  <2>3. /\ index' = index \/ index' = Registered(s.id)
        /\ indexFile' = indexFile \/ indexFile' = IndexDoc(index')
    BY <1>5 DEF ObserverSaves
  <2> QED
    BY <1>1, <1>2, <2>1, <2>2, <2>3 DEF IndexInv
<1>6. ASSUME NEW r \in Runs, ObserverSaveFails(r) PROVE IndexInv'
  <2>1. StoredRuns(objects[obs[r].held].id) \subseteq Runs
    BY <1>3, <1>6, StoredRunsTyped DEF ObserverSaveFails
  <2> QED
    BY <1>6, <2>1 DEF ObserverSaveFails, IndexInv
<1>7. ASSUME NEW id \in SessionIds, DeleteSession(id) PROVE IndexInv'
  <2>1. index' \in Seq(SessionIds)
    BY <1>7, WithoutTyped DEF DeleteSession, IndexInv
  <2>2. excused' \subseteq Runs
    BY <1>7, StoredRunsTyped DEF DeleteSession, IndexInv
  <2> QED
    BY <1>1, <1>7, <2>1, <2>2 DEF DeleteSession, IndexInv
<1>8. CASE ServiceEnds
  <2>1. service' = service /\ index' = <<>>
        /\ (indexFile' = indexFile \/ indexFile' = TornFile)
    BY <1>8 DEF ServiceEnds
  <2>2. excused' \subseteq Runs
    BY <1>8, StoredRunsTyped DEF ServiceEnds, IndexInv
  <2>3. <<>> \in Seq(SessionIds)
    OBVIOUS
  <2> QED
    BY <2>1, <2>2, <2>3 DEF IndexInv
<1>9. CASE ServiceStarts
  <2>1. indexFile # TornFile => indexFile.ids \in Seq(SessionIds)
    BY DEF IndexInv, IndexDocs
  <2>2. <<>> \in Seq(SessionIds)
    OBVIOUS
  <2> QED
    BY <1>9, <2>1, <2>2 DEF ServiceStarts, IndexInv
<1>10. ASSUME UNCHANGED <<service, excused, index, indexFile>> PROVE IndexInv'
  BY <1>10 DEF IndexInv
<1>11. CASE UNCHANGED plainVars
  BY <1>10, <1>11 DEF plainVars
<1>12. CASE PlainNext
  BY <1>4, <1>5, <1>6, <1>7, <1>8, <1>9, <1>10, <1>12
     DEF PlainNext, UserCreates, List, ObserverLoads, ObserverCreates, CreateFails,
         ObserverAppends, ObserverCounts
<1> QED
  BY <1>11, <1>12

LEMMA PlainTypes == ASSUME PlainInv, IndexInv PROVE PlainTypeOK
<1>1. PlainTyped /\ CacheSound
  BY DEF PlainInv
<1>2. \A i \in 1..Len(objects) : objects[i].id \in SessionIds /\ objects[i].tokens \subseteq Runs
  <2>1. \A i \in 1..Len(objects) : objects[i] \in SessionObjects
    BY <1>1 DEF PlainTyped
  <2> QED
    BY <2>1 DEF SessionObjects
<1>3. cache \in [SessionIds -> 0..Len(objects)]
  <2>1. \A id \in SessionIds : cache[id] \in 0..Len(objects)
    BY <1>1 DEF PlainTyped, CacheSound
  <2> QED
    BY <1>1, <2>1 DEF PlainTyped
<1>4. ToSet(index) \subseteq SessionIds
  BY DEF IndexInv, ToSet
<1> QED
  BY <1>1, <1>2, <1>3, <1>4 DEF PlainTyped, IndexInv, PlainTypeOK

-----------------------------------------------------------------------------
(* A document that is not blocked, and one that is.                        *)
CalmDocs == [phase : {"active", "paused", "complete"}, revision : Nat, rounds : Nat,
             reason : {""}, streak : {0}]
Stuck == [phase : {"blocked"}, revision : Nat, rounds : Nat, reason : Reasons,
          streak : Nat \ {0}]
GoalDocs == CalmDocs \union Stuck

(* The stored document counts the rounds that were claimed.                *)
DocInv ==
  /\ goal # Missing => goal \in GoalDocs /\ goal.revision \in 1..MaxRevision + 1
  /\ goal # Missing => goal.rounds = Len(claims)
  /\ claims = [i \in 1..Len(claims) |-> i] /\ Len(claims) \in Nat
  /\ MaxRounds > 0 => Len(claims) <= MaxRounds

(* The lock: one actor is in an update, of the document as it still is,    *)
(* because the others wait; a claim is the next round below the cap.       *)
Updating(a) == update[a] # NoUpdate
InFlight == [stage : {"reread", "save", "failed"}, g : GoalDocs, rev : Nat, claim : BOOLEAN]
UpdateInv ==
  /\ update \in [Actors -> InFlight \union {NoUpdate}]
  /\ \A a, b \in Actors : Updating(a) /\ Updating(b) => a = b
  /\ \A a \in Actors : Updating(a) =>
       /\ goal # Missing /\ goal.revision < MaxRevision
       /\ update[a].g \in GoalDocs /\ update[a].g.revision = goal.revision
       /\ update[a].claim => /\ a \in Sessions /\ run[a].pc = "claiming"
                             /\ update[a].g.rounds = goal.rounds + 1 /\ ~CapReached(goal)
       /\ ~update[a].claim => update[a].g.rounds = goal.rounds

(* Where a run is, and the armed states: one that has host authority left  *)
(* has given it to no run yet.                                             *)
RunPlaces == {"idle", "running", "claiming", "claimed", "claimFailed", "ending", "settling"}
RunRecs == [pc : RunPlaces, st : Nat, host : BOOLEAN, round : Nat,
            why : {"", "failed", "paused", "blocked", "complete", "rounds_exhausted"}]
ArmedStates == [round : Nat, hostRun : BOOLEAN]
ArmInv ==
  /\ arms \in Seq(ArmedStates)
  /\ hostRuns \in Seq({0, 1}) /\ Len(hostRuns) = Len(arms)
  /\ \A st \in 1..Len(arms) : arms[st].hostRun => hostRuns[st] = 0
  /\ armed \in [Sessions -> 0..Len(arms)]
  /\ run \in [Sessions -> RunRecs]
  /\ \A s \in Sessions :
       /\ run[s].st \in 0..Len(arms)
       /\ run[s].pc \in {"claiming", "claimed", "claimFailed"} => run[s].st # 0

GoalInv == DocInv /\ UpdateInv /\ ArmInv

(* No goal, nothing armed, no update.                                      *)
LEMMA InitGoalInv == GoalsInit => GoalInv
<1> SUFFICES ASSUME GoalsInit PROVE GoalInv
  OBVIOUS
<1>1. DocInv
  <2>1. goal = Missing /\ claims = <<>>
    BY DEF GoalsInit
  <2>2. claims = [i \in 1..Len(claims) |-> i]
    BY <2>1
  <2> QED
    BY <2>1, <2>2, GoalAssumption DEF DocInv
<1>2. UpdateInv
  <2>1. update = [a \in Actors |-> NoUpdate]
    BY DEF GoalsInit
  <2> QED
    BY <2>1 DEF UpdateInv, Updating
<1>3. ArmInv
  <2>1. /\ armed = [s \in Sessions |-> 0] /\ arms = <<>> /\ hostRuns = <<>>
        /\ run = [s \in Sessions |-> Idle]
    BY DEF GoalsInit
  <2>2. Idle \in RunRecs /\ Idle.st = 0 /\ Idle.pc = "idle"
    BY DEF Idle, RunRecs, RunPlaces
  <2> QED
    BY <2>1, <2>2 DEF ArmInv
<1> QED
  BY <1>1, <1>2, <1>3 DEF GoalInv

(* What update_goal's functions may make of a document.                     *)
LEMMA AskedIsGood ==
  ASSUME NEW g \in GoalDocs, NEW a \in Actors, NEW h \in Actions(a, g)
  PROVE  h \in GoalDocs /\ h.revision = g.revision /\ h.rounds = g.rounds
<1> DEFINE Good == h \in GoalDocs /\ h.revision = g.revision /\ h.rounds = g.rounds
<1>1. ASSUME h \in Complete(g) PROVE Good
  <2>1. CASE g \in CalmDocs
    BY <1>1, <2>1 DEF Complete, GoalDocs, CalmDocs
  <2>2. CASE g \in Stuck
    BY <1>1, <2>2 DEF Complete, GoalDocs, CalmDocs, Stuck
  <2> QED
    BY <2>1, <2>2 DEF GoalDocs
<1>2. ASSUME h \in Pause(g) PROVE Good
  BY <1>2 DEF Pause, GoalDocs, CalmDocs, Stuck
<1>3. ASSUME h \in Resume(g) PROVE Good
  <2>1. CASE g \in CalmDocs
    BY <1>3, <2>1 DEF Resume, GoalDocs, CalmDocs
  <2>2. CASE g \in Stuck
    BY <1>3, <2>2 DEF Resume, GoalDocs, CalmDocs, Stuck
  <2> QED
    BY <2>1, <2>2 DEF GoalDocs
<1>4. ASSUME NEW why \in Reasons, h \in Block(g, why) PROVE Good
  <2>1. CASE g \in CalmDocs
    <3>1. h = [g EXCEPT !.phase = "blocked", !.reason = why, !.streak = 1]
      BY <1>4, <2>1 DEF Block, CalmDocs
    <3>2. h = [phase |-> "blocked", revision |-> g.revision, rounds |-> g.rounds,
               reason |-> why, streak |-> 1]
      BY <2>1, <3>1 DEF CalmDocs
    <3>3. g.revision \in Nat /\ g.rounds \in Nat
      BY <2>1 DEF CalmDocs
    <3>4. h \in Stuck
      BY <3>2, <3>3 DEF Stuck
    <3> QED
      BY <3>2, <3>4 DEF GoalDocs
  <2>2. CASE g \in Stuck /\ g.reason = why
    <3>1. h = [g EXCEPT !.streak = g.streak + 1] /\ g.streak + 1 \in Nat \ {0}
      BY <1>4, <2>2 DEF Block, Stuck
    <3> QED
      BY <2>2, <3>1 DEF GoalDocs, Stuck
  <2>3. CASE g \in Stuck /\ g.reason # why
    <3>1. h = [g EXCEPT !.phase = "blocked", !.reason = why, !.streak = 1]
      BY <1>4, <2>3 DEF Block, Stuck
    <3>2. h = [phase |-> "blocked", revision |-> g.revision, rounds |-> g.rounds,
               reason |-> why, streak |-> 1]
      BY <2>3, <3>1 DEF Stuck
    <3>3. g.revision \in Nat /\ g.rounds \in Nat
      BY <2>3 DEF Stuck
    <3>4. h \in Stuck
      BY <3>2, <3>3 DEF Stuck
    <3> QED
      BY <3>2, <3>4 DEF GoalDocs
  <2> QED
    BY <2>1, <2>2, <2>3 DEF GoalDocs
<1>5. ASSUME NEW why \in Reasons, h \in BlockAutonomous(g, why) PROVE Good
  <2>1. g \in Stuck
    BY <1>5 DEF BlockAutonomous, GoalDocs, CalmDocs
  <2>2. h = [g EXCEPT !.streak = g.streak + 1] /\ g.streak + 1 \in Nat \ {0}
    BY <1>5, <2>1 DEF BlockAutonomous, Stuck
  <2> QED
    BY <2>1, <2>2 DEF GoalDocs, Stuck
<1> QED
  BY <1>1, <1>2, <1>3, <1>4, <1>5 DEF Actions

(* StartRound makes a document with one round more.                        *)
LEMMA RoundIsGood ==
  ASSUME NEW g \in GoalDocs, NEW h \in StartRound(g)
  PROVE  /\ h \in GoalDocs /\ h.revision = g.revision /\ h.rounds = g.rounds + 1
         /\ ~CapReached(g)
<1>1. g \in CalmDocs
  BY DEF StartRound, GoalDocs, Stuck
<1>2. h = [g EXCEPT !.rounds = g.rounds + 1] /\ ~CapReached(g)
  BY DEF StartRound
<1>3. g.rounds \in Nat /\ g.revision \in Nat /\ g.phase \in {"active", "paused", "complete"}
  BY <1>1 DEF CalmDocs
<1>4. h = [phase |-> g.phase, revision |-> g.revision, rounds |-> g.rounds + 1,
           reason |-> "", streak |-> 0]
  BY <1>1, <1>2 DEF CalmDocs
<1>5. h \in CalmDocs
  <2>1. g.rounds + 1 \in Nat
    BY <1>3
  <2> QED
    BY <1>3, <1>4, <2>1 DEF CalmDocs
<1> QED
  BY <1>2, <1>4, <1>5 DEF GoalDocs

(* Update begins only with the lock free, so there is one at a time.        *)
LEMMA UpdateBegins ==
  ASSUME GoalInv, NEW a \in Actors, NEW results, Begin(a, results),
         UNCHANGED <<goal, armed, arms, run, claims, hostRuns>>,
         \A h \in results :
           /\ h \in GoalDocs /\ h.revision = goal.revision
           /\ IF a \in Sessions /\ run[a].pc = "claiming"
              THEN h.rounds = goal.rounds + 1 /\ ~CapReached(goal)
              ELSE h.rounds = goal.rounds
  PROVE  GoalInv'
<1>1. PICK h \in results :
        update' = [update EXCEPT ![a] = [stage |-> "reread", g |-> h, rev |-> goal.revision,
                     claim |-> a \in Sessions /\ run[a].pc = "claiming"]]
  BY DEF Begin
<1>2. LockFree /\ goal # Missing /\ goal.revision < MaxRevision
  BY DEF Begin
<1> DEFINE u == [stage |-> "reread", g |-> h, rev |-> goal.revision,
                 claim |-> (a \in Sessions /\ run[a].pc = "claiming")]
<1>3. u \in InFlight /\ u # NoUpdate
  BY <1>2 DEF InFlight, NoUpdate, GoalDocs, CalmDocs, Stuck, GoalInv, DocInv
<1>4. update' = [update EXCEPT ![a] = u] /\ \A b \in Actors : ~Updating(b)
  BY <1>1, <1>2 DEF LockFree, Updating
<1>5. /\ u.g = h
      /\ u.claim => a \in Sessions /\ run[a].pc = "claiming"
      /\ ~u.claim => ~(a \in Sessions /\ run[a].pc = "claiming")
  OBVIOUS
<1> HIDE DEF u
<1>6. UpdateInv'
  <2>1. update' \in [Actors -> InFlight \union {NoUpdate}]
    BY <1>3, <1>4 DEF GoalInv, UpdateInv
  <2>2. \A b \in Actors : Updating(b)' => b = a
    BY <1>4 DEF Updating, GoalInv, UpdateInv
  <2>3. update'[a] = u
    BY <1>4 DEF GoalInv, UpdateInv
  <2>4. /\ goal' # Missing /\ goal'.revision < MaxRevision
        /\ u.g \in GoalDocs /\ u.g.revision = goal'.revision
        /\ u.claim => /\ a \in Sessions /\ run'[a].pc = "claiming"
                      /\ u.g.rounds = goal'.rounds + 1 /\ ~CapReached(goal')
        /\ ~u.claim => u.g.rounds = goal'.rounds
    BY <1>2, <1>5 DEF CapReached
  <2> QED
    BY <2>1, <2>2, <2>3, <2>4 DEF UpdateInv
<1>7. DocInv' /\ ArmInv'
  BY DEF GoalInv, DocInv, ArmInv
<1> QED
  BY <1>6, <1>7 DEF GoalInv

(* A step of the driver leaves the document and the updates alone: a claim  *)
(* in flight still belongs to a run that is claiming.                       *)
LEMMA DriverStep ==
  ASSUME GoalInv, UNCHANGED <<goal, update, claims>>, ArmInv',
         \A s \in Sessions : Updating(s) /\ run[s].pc = "claiming" => run'[s].pc = "claiming"
  PROVE  GoalInv'
<1>1. DocInv'
  BY DEF GoalInv, DocInv
<1>2. UpdateInv'
  BY DEF GoalInv, UpdateInv, Updating, CapReached
<1> QED
  BY <1>1, <1>2 DEF GoalInv

(* The commit gives the document the next revision.                        *)
LEMMA CommittedIsGood ==
  ASSUME NEW g \in GoalDocs
  PROVE  LET h == [g EXCEPT !.revision = @ + 1]
         IN h \in GoalDocs /\ h # Missing /\ h.revision = g.revision + 1 /\ h.rounds = g.rounds
<1> DEFINE h == [g EXCEPT !.revision = @ + 1]
<1>1. g.revision \in Nat
  BY DEF GoalDocs, CalmDocs, Stuck
<1>2. g.revision + 1 \in Nat
  BY <1>1
<1>3. h = [phase |-> g.phase, revision |-> g.revision + 1, rounds |-> g.rounds,
           reason |-> g.reason, streak |-> g.streak]
  <2>1. CASE g \in CalmDocs
    <3>1. g = [phase |-> g.phase, revision |-> g.revision, rounds |-> g.rounds,
               reason |-> g.reason, streak |-> g.streak]
      BY <2>1 DEF CalmDocs
    <3> QED
      BY <3>1
  <2>2. CASE g \in Stuck
    BY <2>2 DEF Stuck
  <2> QED
    BY <2>1, <2>2 DEF GoalDocs
<1>4. CASE g \in CalmDocs
  BY <1>2, <1>3, <1>4 DEF GoalDocs, CalmDocs, Missing
<1>5. CASE g \in Stuck
  BY <1>2, <1>3, <1>5 DEF GoalDocs, Stuck, Missing
<1> QED
  BY <1>4, <1>5 DEF GoalDocs

(* Only the holder of the lock saves, so what it loaded is still current.   *)
LEMMA SaveStep ==
  ASSUME GoalInv, NEW a \in Actors, Save(a)
  PROVE  GoalInv'
<1> DEFINE u == update[a]
<1>1. /\ Updating(a) /\ u \in InFlight /\ u.stage = "save"
      /\ update' = [update EXCEPT ![a] = NoUpdate]
      /\ goal' = [u.g EXCEPT !.revision = @ + 1]
      /\ UNCHANGED <<armed, arms, hostRuns>>
  BY DEF Save, Updating, NoUpdate, GoalInv, UpdateInv
<1>2. /\ goal # Missing /\ goal.revision < MaxRevision /\ goal \in GoalDocs
      /\ u.g \in GoalDocs /\ u.g.revision = goal.revision /\ goal.revision \in 1..MaxRevision + 1
      /\ goal.rounds = Len(claims)
  BY <1>1 DEF GoalInv, UpdateInv, DocInv
<1>3. /\ goal' \in GoalDocs /\ goal' # Missing /\ goal'.rounds = u.g.rounds
      /\ goal'.revision \in 1..MaxRevision + 1
  <2>1. /\ goal' \in GoalDocs /\ goal' # Missing /\ goal'.revision = u.g.revision + 1
        /\ goal'.rounds = u.g.rounds
    BY <1>1, <1>2, CommittedIsGood
  <2> QED
    BY <1>2, <2>1, GoalAssumption
<1>4. \A b \in Actors : ~Updating(b)'
  BY <1>1 DEF GoalInv, UpdateInv, Updating
<1>5. UpdateInv'
  <2>1. update' \in [Actors -> InFlight \union {NoUpdate}]
    BY <1>1 DEF GoalInv, UpdateInv
  <2> QED
    BY <1>4, <2>1 DEF UpdateInv
<1>6. CASE u.claim
  <2>1. /\ a \in Sessions /\ run[a].pc = "claiming" /\ u.g.rounds = goal.rounds + 1
        /\ ~CapReached(goal)
    BY <1>1, <1>6 DEF GoalInv, UpdateInv
  <2>2. /\ claims' = Append(claims, u.g.rounds)
        /\ run' = [run EXCEPT ![a].pc = "claimed", ![a].round = u.g.rounds]
    BY <1>6 DEF Save, Claims
  <2>3. claims \in Seq(Nat) /\ Len(claims) \in Nat /\ claims = [i \in 1..Len(claims) |-> i]
    BY DEF GoalInv, DocInv
  <2>4. /\ Len(claims') = Len(claims) + 1
        /\ claims' = [i \in 1..Len(claims') |-> i]
    BY <1>2, <2>1, <2>2, <2>3
  <2>5. MaxRounds > 0 => Len(claims') <= MaxRounds
    BY <1>2, <2>1, <2>3, <2>4, GoalAssumption DEF CapReached
  <2>6. DocInv'
    BY <1>2, <1>3, <2>1, <2>3, <2>4, <2>5 DEF DocInv
  <2>7. ArmInv'
    <3>1. u.g.rounds \in Nat
      BY <1>2 DEF GoalDocs, CalmDocs, Stuck
    <3>2. run' \in [Sessions -> RunRecs]
      <4>1. run \in [Sessions -> RunRecs] /\ "claimed" \in RunPlaces
        BY DEF GoalInv, ArmInv, RunPlaces
      <4>2. run[a] \in RunRecs
        BY <2>1, <4>1
      <4>3. [run[a] EXCEPT !.pc = "claimed", !.round = u.g.rounds] \in RunRecs
        BY <3>1, <4>1, <4>2 DEF RunRecs
      <4>4. run' = [run EXCEPT ![a] = [run[a] EXCEPT !.pc = "claimed", !.round = u.g.rounds]]
        BY <2>2, <4>1
      <4> QED
        BY <4>1, <4>3, <4>4
    <3>3. \A s \in Sessions : run'[s].st = run[s].st /\ (s # a => run'[s].pc = run[s].pc)
      BY <2>1, <2>2 DEF GoalInv, ArmInv, RunRecs
    <3> QED
      BY <1>1, <2>1, <3>2, <3>3 DEF GoalInv, ArmInv
  <2> QED
    BY <1>5, <2>6, <2>7 DEF GoalInv
<1>7. CASE ~u.claim
  <2>1. u.g.rounds = goal.rounds /\ UNCHANGED <<claims, run>>
    BY <1>1, <1>7 DEF Save, Claims, GoalInv, UpdateInv
  <2>2. DocInv'
    BY <1>2, <1>3, <2>1 DEF GoalInv, DocInv
  <2>3. ArmInv'
    BY <1>1, <2>1 DEF GoalInv, ArmInv
  <2> QED
    BY <1>5, <2>2, <2>3 DEF GoalInv
<1> QED
  BY <1>6, <1>7

(* An update that begins, rereads or fails leaves the document alone.      *)
LEMMA UpdateStep ==
  ASSUME GoalInv, NEW a \in Actors, Reread(a) \/ SaveFails(a) \/ UpdateGoal(a)
  PROVE  GoalInv'
<1>1. CASE Reread(a)
  <2>1. /\ Updating(a) /\ update[a] \in InFlight
        /\ UNCHANGED <<goal, armed, arms, run, claims, hostRuns>>
    BY <1>1 DEF Reread, Updating, NoUpdate, GoalInv, UpdateInv
  <2>2. PICK st \in {"failed", "save"} : update' = [update EXCEPT ![a].stage = st]
    BY <1>1, <2>1 DEF Reread, GoalInv, UpdateInv
  <2>3. /\ update' \in [Actors -> InFlight \union {NoUpdate}]
        /\ \A b \in Actors \ {a} : update'[b] = update[b]
        /\ update'[a] = [update[a] EXCEPT !.stage = st]
    BY <2>1, <2>2 DEF GoalInv, UpdateInv, InFlight
  <2>4. /\ update'[a].g = update[a].g /\ update'[a].claim = update[a].claim
    BY <2>1, <2>3 DEF InFlight
  <2>5. UpdateInv'
    <3>1. \A b \in Actors : Updating(b)' => Updating(b)
      BY <2>1, <2>3 DEF Updating
    <3>2. \A b \in Actors : update'[b].g = update[b].g /\ update'[b].claim = update[b].claim
      BY <2>3, <2>4
    <3>3. \A b \in Actors : CapReached(goal)' <=> CapReached(goal)
      BY <2>1 DEF CapReached
    <3> QED
      BY <2>1, <2>3, <3>1, <3>2, <3>3 DEF GoalInv, UpdateInv
  <2>6. DocInv' /\ ArmInv'
    BY <2>1 DEF GoalInv, DocInv, ArmInv
  <2> QED
    BY <2>5, <2>6 DEF GoalInv
<1>2. CASE SaveFails(a)
  <2>1. /\ Updating(a) /\ update[a] \in InFlight
        /\ update' = [update EXCEPT ![a] = NoUpdate]
        /\ UNCHANGED <<goal, armed, arms, claims, hostRuns>>
    BY <1>2 DEF SaveFails, Updating, NoUpdate, GoalInv, UpdateInv
  <2>2. \A b \in Actors : ~Updating(b)'
    BY <2>1 DEF GoalInv, UpdateInv, Updating
  <2>3. UpdateInv'
    <3>1. update' \in [Actors -> InFlight \union {NoUpdate}]
      BY <2>1 DEF GoalInv, UpdateInv
    <3> QED
      BY <2>2, <3>1 DEF UpdateInv
  <2>4. ArmInv'
    <3>1. CASE Claims(a)
      <4>1. a \in Sessions /\ run[a].pc = "claiming"
        BY <2>1, <3>1 DEF Claims, GoalInv, UpdateInv
      <4>2. run' = [run EXCEPT ![a].pc = "claimFailed"]
        BY <1>2, <3>1 DEF SaveFails
      <4>3. run' \in [Sessions -> RunRecs]
        BY <4>1, <4>2 DEF GoalInv, ArmInv, RunRecs, RunPlaces
      <4>4. \A s \in Sessions : run'[s].st = run[s].st /\ (s # a => run'[s].pc = run[s].pc)
        BY <4>1, <4>2 DEF GoalInv, ArmInv, RunRecs
      <4> QED
        BY <2>1, <4>1, <4>3, <4>4 DEF GoalInv, ArmInv
    <3>2. CASE ~Claims(a)
      BY <1>2, <2>1, <3>2 DEF SaveFails, GoalInv, ArmInv
    <3> QED
      BY <3>1, <3>2
  <2>5. DocInv'
    BY <2>1 DEF GoalInv, DocInv
  <2> QED
    BY <2>3, <2>4, <2>5 DEF GoalInv
<1>3. CASE UpdateGoal(a)
  <2>1. /\ Begin(a, Actions(a, goal))
        /\ UNCHANGED <<goal, armed, arms, run, claims, hostRuns>>
    BY <1>3 DEF UpdateGoal
  <2>2. ~(a \in Sessions /\ run[a].pc = "claiming")
    BY <1>3 DEF UpdateGoal, MayAct
  <2>3. goal \in GoalDocs
    BY <2>1 DEF Begin, GoalInv, DocInv
  <2> QED
    BY <2>1, <2>2, <2>3, AskedIsGood, UpdateBegins
<1> QED
  BY <1>1, <1>2, <1>3

(* Arming, disarming, and a claimed round that takes the host turn.        *)
LEMMA ArmStep ==
  ASSUME GoalInv, NEW s \in Sessions, Arm(s) \/ Disarm(s) \/ Claimed(s)
  PROVE  GoalInv'
<1> USE DEF GoalInv
<1>1. CASE Arm(s)
  <2>1. /\ arms' = Append(arms, [round |-> 0, hostRun |-> TRUE])
        /\ armed' = [armed EXCEPT ![s] = Len(arms) + 1]
        /\ hostRuns' = Append(hostRuns, 0)
        /\ UNCHANGED <<goal, update, run, claims>>
    BY <1>1 DEF Arm
  <2>2. /\ Len(arms) \in Nat /\ arms' \in Seq(ArmedStates)
        /\ hostRuns' \in Seq({0, 1})
        /\ Len(arms') = Len(arms) + 1 /\ Len(hostRuns') = Len(arms) + 1
    BY <2>1 DEF ArmInv, ArmedStates
  <2>3. \A st \in 1..Len(arms') : arms'[st].hostRun => hostRuns'[st] = 0
    BY <2>1, <2>2 DEF ArmInv
  <2>4. armed' \in [Sessions -> 0..Len(arms')]
    BY <2>1, <2>2 DEF ArmInv
  <2>5. ArmInv'
    BY <2>1, <2>2, <2>3, <2>4 DEF ArmInv
  <2> QED
    BY <2>1, <2>5, DriverStep
<1>2. CASE Disarm(s)
  <2>1. /\ armed' = [armed EXCEPT ![s] = 0]
        /\ UNCHANGED <<goal, update, arms, run, claims, hostRuns>>
    BY <1>2 DEF Disarm
  <2>2. ArmInv'
    BY <2>1 DEF ArmInv
  <2> QED
    BY <2>1, <2>2, DriverStep
<1>3. CASE Claimed(s)
  <2> DEFINE st == run[s].st
  <2>1. /\ run[s].pc = "claimed" /\ st \in 1..Len(arms) /\ Len(arms) \in Nat
        /\ run[s] \in RunRecs
    BY <1>3 DEF Claimed, ArmInv
  <2>2. /\ arms' = [arms EXCEPT ![st] = [HostOnce(st) EXCEPT !.round = run[s].round]]
        /\ run' = [run EXCEPT ![s].pc = "running", ![s].host = arms[st].hostRun]
        /\ hostRuns' = [hostRuns EXCEPT ![st] = @ + IF arms[st].hostRun THEN 1 ELSE 0]
        /\ UNCHANGED <<goal, update, armed, claims>>
    BY <1>3 DEF Claimed
  <2>3. /\ arms[st] \in ArmedStates /\ hostRuns[st] \in {0, 1}
        /\ arms[st].hostRun => hostRuns[st] = 0
    <3>1. arms \in Seq(ArmedStates) /\ hostRuns \in Seq({0, 1}) /\ Len(hostRuns) = Len(arms)
      BY DEF ArmInv
    <3> QED
      BY <2>1, <3>1 DEF ArmInv
  <2> DEFINE spent == [HostOnce(st) EXCEPT !.round = run[s].round]
  <2>4. spent \in ArmedStates /\ ~spent.hostRun
    <3>1. run[s].round \in Nat
      BY <2>1 DEF RunRecs
    <3>2. HostOnce(st) \in ArmedStates /\ ~HostOnce(st).hostRun
      BY <2>3 DEF HostOnce, ArmedStates
    <3> QED
      BY <3>1, <3>2 DEF ArmedStates
  <2>5. /\ arms' \in Seq(ArmedStates) /\ Len(arms') = Len(arms)
        /\ \A q \in 1..Len(arms) : arms'[q].hostRun => q # st /\ arms[q].hostRun
    <3>1. arms' = [arms EXCEPT ![st] = spent] /\ spent \in ArmedStates /\ ~spent.hostRun
      BY <2>2, <2>4
    <3>2. arms \in Seq(ArmedStates)
      BY DEF ArmInv
    <3> HIDE DEF spent
    <3> QED
      BY <2>1, <3>1, <3>2
  <2>6. /\ hostRuns' \in Seq({0, 1}) /\ Len(hostRuns') = Len(arms)
        /\ \A q \in 1..Len(arms) : q # st => hostRuns'[q] = hostRuns[q]
    BY <2>1, <2>2, <2>3 DEF ArmInv
  <2>7. run' \in [Sessions -> RunRecs]
    <3>1. arms[st].hostRun \in BOOLEAN
      BY <2>3 DEF ArmedStates
    <3>2. [run[s] EXCEPT !.pc = "running", !.host = arms[st].hostRun] \in RunRecs
      BY <2>1, <3>1 DEF RunRecs, RunPlaces
    <3> QED
      BY <2>2, <3>2 DEF ArmInv
  <2>8. \A r \in Sessions : run'[r].st = run[r].st /\ run'[r].pc \in {run[r].pc, "running"}
    BY <2>1, <2>2 DEF ArmInv, RunRecs
  <2>9. ArmInv'
    BY <2>1, <2>2, <2>5, <2>6, <2>7, <2>8 DEF ArmInv
  <2>10. \A r \in Sessions : run[r].pc = "claiming" => run'[r].pc = "claiming"
    BY <2>1, <2>2 DEF ArmInv, RunRecs
  <2> QED
    BY <2>2, <2>9, <2>10, DriverStep
<1> QED
  BY <1>1, <1>2, <1>3

(* The rest of the driver moves one run.                                    *)
LEMMA RunMoves ==
  ASSUME GoalInv, NEW s \in Sessions, NEW r \in RunRecs,
         run' = [run EXCEPT ![s] = r], UNCHANGED <<goal, update, arms, claims, hostRuns>>,
         armed' = armed \/ armed' = [armed EXCEPT ![s] = 0],
         ~Updating(s) \/ run[s].pc # "claiming",
         r.st \in 0..Len(arms), r.pc \in {"claiming", "claimed", "claimFailed"} => r.st # 0
  PROVE  GoalInv'
<1>1. ArmInv'
  <2>1. run' \in [Sessions -> RunRecs] /\ \A q \in Sessions : run'[q] = IF q = s THEN r ELSE run[q]
    BY DEF GoalInv, ArmInv
  <2>2. armed' \in [Sessions -> 0..Len(arms)]
    BY DEF GoalInv, ArmInv
  <2> QED
    BY <2>1, <2>2 DEF GoalInv, ArmInv
<1>2. \A q \in Sessions : Updating(q) /\ run[q].pc = "claiming" => run'[q].pc = "claiming"
  BY DEF GoalInv, ArmInv
<1> QED
  BY <1>1, <1>2, DriverStep

(* The hooks of one run: look up, claim, settle, end.                      *)
LEMMA DriverMoves ==
  ASSUME GoalInv, NEW s \in Sessions,
         RunStarts(s) \/ ClaimRefused(s) \/ ClaimFailed(s) \/ RunEnds(s) \/ ReadGoal(s)
           \/ Settling(s)
  PROVE  GoalInv'
<1>1. /\ run[s] \in RunRecs /\ run[s].st \in 0..Len(arms) /\ armed[s] \in 0..Len(arms)
      /\ Len(arms) \in Nat /\ run \in [Sessions -> RunRecs]
      /\ run[s].pc \in {"claiming", "claimed", "claimFailed"} => run[s].st # 0
  BY DEF GoalInv, ArmInv
<1>2. /\ Idle \in RunRecs /\ Idle.st \in 0..Len(arms)
      /\ Idle.pc \notin {"claiming", "claimed", "claimFailed"}
  <2>1. Idle \in RunRecs /\ Idle.st = 0 /\ Idle.pc = "idle"
    BY DEF Idle, RunRecs, RunPlaces
  <2> QED
    BY <1>1, <2>1
<1>3. CASE RunStarts(s)
  <2> DEFINE r == IF armed[s] = 0 THEN [Idle EXCEPT !.pc = "running", !.host = TRUE]
                  ELSE [Idle EXCEPT !.pc = "claiming", !.st = armed[s]]
  <2>1. r \in RunRecs /\ r.st = armed[s] /\ (r.pc = "claiming" => armed[s] # 0)
          /\ r.pc \in {"running", "claiming"}
    <3>1. CASE armed[s] = 0
      BY <3>1 DEF Idle, RunRecs, RunPlaces
    <3>2. CASE armed[s] # 0
      <4>1. armed[s] \in Nat
        BY <1>1
      <4> QED
        BY <3>2, <4>1 DEF Idle, RunRecs, RunPlaces
    <3> QED
      BY <3>1, <3>2
  <2>2. /\ run' = [run EXCEPT ![s] = r] /\ run[s].pc = "idle"
        /\ UNCHANGED <<goal, update, armed, arms, claims, hostRuns>>
    BY <1>3 DEF RunStarts
  <2> HIDE DEF r
  <2> QED
    BY <1>1, <2>1, <2>2, RunMoves
<1>4. CASE ClaimRefused(s)
  <2>1. /\ run' = [run EXCEPT ![s] = [run[s] EXCEPT !.pc = "claimFailed"]]
        /\ ~Updating(s) /\ run[s].pc = "claiming"
        /\ UNCHANGED <<goal, update, armed, arms, claims, hostRuns>>
    BY <1>4 DEF ClaimRefused, Updating
  <2>2. /\ [run[s] EXCEPT !.pc = "claimFailed"] \in RunRecs
        /\ [run[s] EXCEPT !.pc = "claimFailed"].st = run[s].st
    BY <1>1 DEF RunRecs, RunPlaces
  <2> QED
    BY <1>1, <2>1, <2>2, RunMoves
<1>5. CASE ClaimFailed(s)
  <2> DEFINE r == [Idle EXCEPT !.pc = "running"]
  <2>1. /\ run' = [run EXCEPT ![s] = r]
        /\ run[s].pc = "claimFailed" /\ armed' = [armed EXCEPT ![s] = 0]
        /\ UNCHANGED <<goal, update, arms, claims, hostRuns>>
    BY <1>5 DEF ClaimFailed, Settle
  <2>2. /\ r \in RunRecs /\ r.st \in 0..Len(arms) /\ r.pc = "running"
    <3>1. r \in RunRecs /\ r.st = 0 /\ r.pc = "running"
      BY DEF Idle, RunRecs, RunPlaces
    <3> QED
      BY <1>1, <3>1
  <2> HIDE DEF r
  <2> QED
    BY <1>1, <2>1, <2>2, RunMoves
<1>6. CASE RunEnds(s)
  <2> DEFINE r == IF armed[s] = 0 THEN Idle ELSE [Idle EXCEPT !.pc = "ending", !.st = armed[s]]
  <2>1. r \in RunRecs /\ r.st = armed[s] /\ r.pc \in {"idle", "ending"}
    <3>1. CASE armed[s] = 0
      BY <3>1 DEF Idle, RunRecs, RunPlaces
    <3>2. CASE armed[s] # 0
      <4>1. armed[s] \in Nat
        BY <1>1
      <4> QED
        BY <3>2, <4>1 DEF Idle, RunRecs, RunPlaces
    <3> QED
      BY <3>1, <3>2
  <2>2. /\ run' = [run EXCEPT ![s] = r] /\ run[s].pc = "running"
        /\ UNCHANGED <<goal, update, armed, arms, claims, hostRuns>>
    BY <1>6 DEF RunEnds
  <2> HIDE DEF r
  <2> QED
    BY <1>1, <2>1, <2>2, RunMoves
<1>7. CASE ReadGoal(s)
  <2>1. CASE Verdict = "go on"
    <3>1. /\ run' = [run EXCEPT ![s] = Idle] /\ run[s].pc = "ending"
          /\ UNCHANGED <<goal, update, armed, arms, claims, hostRuns>>
      BY <1>7, <2>1 DEF ReadGoal
    <3> QED
      BY <1>1, <1>2, <3>1, RunMoves
  <2>2. CASE Verdict # "go on"
    <3> DEFINE r == [run[s] EXCEPT !.pc = "settling", !.why = Verdict]
    <3>1. /\ run' = [run EXCEPT ![s] = r] /\ run[s].pc = "ending"
          /\ UNCHANGED <<goal, update, armed, arms, claims, hostRuns>>
      BY <1>7, <2>2 DEF ReadGoal
    <3>2. Verdict \in {"failed", "paused", "blocked", "complete", "rounds_exhausted"}
      BY <2>2 DEF Verdict, GoalInv, DocInv, GoalDocs, CalmDocs, Stuck
    <3>3. r \in RunRecs /\ r.st = run[s].st /\ r.pc = "settling"
      BY <1>1, <3>2 DEF RunRecs, RunPlaces
    <3> HIDE DEF r
    <3> QED
      BY <1>1, <3>1, <3>3, RunMoves
  <2> QED
    BY <2>1, <2>2
<1>8. CASE Settling(s)
  <2>1. /\ run' = [run EXCEPT ![s] = Idle] /\ run[s].pc = "settling"
        /\ armed' = [armed EXCEPT ![s] = 0]
        /\ UNCHANGED <<goal, update, arms, claims, hostRuns>>
    BY <1>8 DEF Settling, Settle
  <2> QED
    BY <1>1, <1>2, <2>1, RunMoves
<1> QED
  BY <1>3, <1>4, <1>5, <1>6, <1>7, <1>8

(* Create and Clear take the lock.                                         *)
LEMMA DocumentStep ==
  ASSUME GoalInv, Create \/ Clear
  PROVE  GoalInv'
<1>1. /\ UNCHANGED <<update, armed, arms, run, claims, hostRuns>> /\ LockFree /\ claims' = claims
      /\ goal' # Missing =>
           /\ claims = <<>>
           /\ goal' = [phase |-> "active", revision |-> 1, rounds |-> 0, reason |-> "",
                       streak |-> 0]
  BY DEF Create, Clear
<1>2. DocInv'
  <2>1. CASE goal' = Missing
    BY <1>1, <2>1 DEF GoalInv, DocInv
  <2>2. CASE goal' # Missing
    <3>1. goal' = [phase |-> "active", revision |-> 1, rounds |-> 0, reason |-> "",
                   streak |-> 0]
      BY <1>1, <2>2, Zenon
    <3>2. goal' \in CalmDocs /\ goal'.revision = 1 /\ goal'.rounds = 0
      BY <3>1 DEF CalmDocs
    <3>4. claims = <<>> /\ Len(claims) = 0
      BY <1>1, <2>2
    <3>3. 1 \in 1..MaxRevision + 1
      BY GoalAssumption
    <3> QED
      BY <1>1, <3>2, <3>3, <3>4 DEF GoalDocs, GoalInv, DocInv
  <2> QED
    BY <2>1, <2>2
<1>3. UpdateInv'
  BY <1>1 DEF GoalInv, UpdateInv, LockFree, Updating
<1>4. ArmInv'
  BY <1>1 DEF GoalInv, ArmInv
<1> QED
  BY <1>2, <1>3, <1>4 DEF GoalInv

(* Every step of the goal, the tool and the driver keeps the invariant.    *)
LEMMA NextGoalInv ==
  ASSUME GoalInv, [GoalsNext]_goalVars PROVE GoalInv'
<1>1. ASSUME NEW s \in Sessions, Claim(s) PROVE GoalInv'
  <2>1. /\ Begin(s, StartRound(goal)) /\ run[s].pc = "claiming"
        /\ UNCHANGED <<goal, armed, arms, run, claims, hostRuns>>
    BY <1>1 DEF Claim
  <2>2. goal \in GoalDocs /\ s \in Actors
    BY <2>1 DEF Begin, GoalInv, DocInv, Actors
  <2> QED
    BY <2>1, <2>2, RoundIsGood, UpdateBegins
<1>2. CASE UNCHANGED goalVars
  BY <1>2 DEF goalVars, GoalInv, DocInv, UpdateInv, ArmInv, Updating, CapReached
<1> QED
  BY <1>1, <1>2, SaveStep, UpdateStep, ArmStep, DriverMoves, DocumentStep DEF GoalsNext

(* Every reachable state of the goal and its driver satisfies the          *)
(* inductive invariant.                                                    *)
THEOREM GoalInvariant == GoalsSpec => []GoalInv
  BY InitGoalInv, NextGoalInv, PTL DEF GoalsSpec

(* However any number of sessions and the product interleave, every round  *)
(* of the goal is claimed once, in order and up to the cap, and an armed   *)
(* state has given host authority once.                                    *)
THEOREM RoundsSound == GoalsSpec => []RoundsClaimedOnce
<1>1. GoalInv => RoundsClaimedOnce
  <2> HAVE GoalInv
  <2>1. \A st \in DOMAIN arms : hostRuns[st] <= 1
    BY DEF GoalInv, ArmInv
  <2> QED
    BY <2>1 DEF GoalInv, DocInv, RoundsClaimedOnce
<1> QED
  BY <1>1, GoalInvariant, PTL

(* A goal is blocked with a reason and a streak, and only then carries     *)
(* them.                                                                   *)
THEOREM BlockedForReason == GoalsSpec => []BlockedHasReason
<1>1. GoalInv => BlockedHasReason
  <2> HAVE GoalInv
  <2>1. goal # Missing => goal \in CalmDocs \/ goal \in Stuck
    BY DEF GoalInv, DocInv, GoalDocs
  <2>2. goal \in CalmDocs => goal.phase # "blocked" /\ goal.reason = "" /\ goal.streak = 0
    BY DEF CalmDocs
  <2>3. goal \in Stuck => goal.phase = "blocked" /\ goal.reason \in Reasons /\ goal.streak >= 1
    BY DEF Stuck
  <2> QED
    BY <2>1, <2>2, <2>3 DEF BlockedHasReason
<1> QED
  BY <1>1, GoalInvariant, PTL

(* A goal counts its rounds, each claimed once, and is blocked for a       *)
(* reason, for any sessions, reasons, caps and updates in between.         *)
THEOREM GoalsSound == GoalsSpec => []GoalsAreSound
  BY RoundsSound, BlockedForReason, PTL DEF GoalsAreSound

-----------------------------------------------------------------------------
(* Reminders.  A firing is on time if the pass saw it due and re-armed a   *)
(* repeating one on its anchor, at the next target ahead.                  *)
Listed == [id : IDs, kind : Kinds, at : Nat, done : BOOLEAN]
OnTime(d) ==
  /\ d.pass >= d.target
  /\ d.kind = "every" => /\ d.next > d.pass /\ d.next - d.pass <= Cadence
                         /\ (d.next - d.target) % Cadence = 0
Firings == {d \in [id : IDs, kind : Kinds, target : Nat, pass : Nat, next : Nat] : OnTime(d)}
Firing(r) == [id |-> r.id, kind |-> r.kind, target |-> r.at, pass |-> now, next |-> Fired(r).at]

Awaits(id) == \E i \in DOMAIN fires : fires[i].id = id
FiringsOf(id) == Times(id) + IF Awaits(id) THEN 1 ELSE 0

(* The list and the log agree, and a pass delivers an id at most once.     *)
ListInv ==
  /\ now \in Nat /\ crashes \in Nat
  /\ IsFiniteSet(logged) /\ logged \subseteq Listed
  /\ \A r, s \in logged : r.id = s.id => r = s
  /\ {r.id : r \in logged} = created \ deleted /\ deleted \subseteq created
  /\ fires \in Seq(Firings) /\ deliveries \in Seq(Firings)
  /\ \A i, j \in DOMAIN fires : fires[i].id = fires[j].id => i = j
  /\ \A i \in DOMAIN fires : fires[i].id \in created
  /\ \A i \in DOMAIN deliveries : deliveries[i].id \in created

(* How often a one-shot has fired: once per process at most, and, if every *)
(* append of its firing went through, once.                                *)
ShotInv(r) ==
  /\ FiringsOf(r.id) <= crashes + 1
  /\ ~r.done /\ r.id \notin delivered => FiringsOf(r.id) <= crashes
  /\ r.id \notin lostWrites => /\ FiringsOf(r.id) <= 1
                               /\ ~r.done => FiringsOf(r.id) = 0
OnceInv == \A r \in logged : r.kind = "once" => ShotInv(r)

ScheduleInv == ListInv /\ OnceInv

-----------------------------------------------------------------------------
(* Division by the cadence, which is positive.                             *)
LEMMA WholeSteps ==
  ASSUME NEW x \in Nat
  PROVE  LET k == x \div Cadence
         IN  k \in Nat /\ k * Cadence <= x /\ x < k * Cadence + Cadence
<1> QED
  BY ScheduleAssumption

LEMMA MultipleOfCadence == ASSUME NEW k \in Nat PROVE (k * Cadence) % Cadence = 0
<1> QED
  BY ScheduleAssumption, Z3

(* The next target lies ahead, by at most one cadence, on the anchor.      *)
LEMMA NextIsAhead ==
  ASSUME now \in Nat, NEW at \in Nat, now >= at
  PROVE  /\ NextTarget(at) \in Nat /\ NextTarget(at) > now
         /\ NextTarget(at) - now <= Cadence /\ (NextTarget(at) - at) % Cadence = 0
<1> DEFINE next == at + Cadence
           k == (now - next) \div Cadence
<1>1. Cadence \in Nat /\ Cadence > 0 /\ next \in Nat
  BY ScheduleAssumption
<1>2. CASE next > now
  <2>1. NextTarget(at) = next
    BY <1>2 DEF NextTarget
  <2>2. next - at = 1 * Cadence
    BY <1>1
  <2>3. (1 * Cadence) % Cadence = 0
    BY MultipleOfCadence
  <2> QED
    BY <1>1, <1>2, <2>1, <2>2, <2>3
<1>3. CASE ~(next > now)
  <2>1. now - next \in Nat
    BY <1>1, <1>3
  <2>2. k \in Nat /\ k * Cadence <= now - next /\ now - next < k * Cadence + Cadence
    BY <2>1, WholeSteps
  <2>3. NextTarget(at) = next + (k + 1) * Cadence
    BY <1>3 DEF NextTarget
  <2> HIDE DEF k
  <2>4. PICK m \in Nat : m = k * Cadence
    BY <1>1, <2>2
  <2>5. (k + 1) * Cadence = m + Cadence /\ (k + 2) * Cadence = m + Cadence + Cadence
    BY <1>1, <2>2, <2>4
  <2>6. NextTarget(at) = at + Cadence + (m + Cadence)
    BY <2>3, <2>5
  <2>7. NextTarget(at) - at = (k + 2) * Cadence
    BY <1>1, <2>5, <2>6
  <2>8. ((k + 2) * Cadence) % Cadence = 0
    BY <2>2, MultipleOfCadence
  <2>9. m <= now - next /\ now - next < m + Cadence
    BY <2>2, <2>4
  <2>10. NextTarget(at) \in Nat /\ NextTarget(at) > now /\ NextTarget(at) - now <= Cadence
    BY <1>1, <2>6, <2>9
  <2> QED
    BY <2>7, <2>8, <2>10
<1> QED
  BY <1>2, <1>3

(* What a firing makes of a reminder that is due.                          *)
LEMMA FiredRight ==
  ASSUME now \in Nat, NEW r \in Listed, Due(r)
  PROVE  /\ Fired(r) \in Listed /\ Fired(r).id = r.id /\ Fired(r).kind = r.kind
         /\ r.kind = "once" => Fired(r).done
         /\ Firing(r) \in Firings /\ Firing(r).id = r.id
<1>1. r.at \in Nat /\ now >= r.at /\ r.id \in IDs /\ r.kind \in Kinds
  BY DEF Listed, Due
<1>2. CASE r.kind = "every"
  <2>1. Fired(r) = [r EXCEPT !.at = NextTarget(r.at)]
    BY <1>2 DEF Fired
  <2>2. /\ NextTarget(r.at) \in Nat /\ NextTarget(r.at) > now
        /\ NextTarget(r.at) - now <= Cadence /\ (NextTarget(r.at) - r.at) % Cadence = 0
    BY <1>1, NextIsAhead
  <2> DEFINE t == NextTarget(r.at)
  <2> HIDE DEF t
  <2>3. Fired(r) \in Listed /\ Fired(r).id = r.id /\ Fired(r).kind = r.kind /\ Fired(r).at = t
    BY <2>1, <2>2 DEF Listed, t
  <2>4. Firing(r) = [id |-> r.id, kind |-> r.kind, target |-> r.at, pass |-> now, next |-> t]
    BY <2>3 DEF Firing
  <2>5. Firing(r) \in Firings
    BY <1>1, <2>2, <2>4 DEF Firings, OnTime, t
  <2> QED
    BY <1>2, <2>3, <2>4, <2>5
<1>3. CASE r.kind # "every"
  <2>1. Fired(r) = [r EXCEPT !.done = TRUE]
    BY <1>3 DEF Fired
  <2>2. /\ Fired(r) \in Listed /\ Fired(r).id = r.id /\ Fired(r).kind = r.kind
        /\ Fired(r).at = r.at /\ Fired(r).done
    BY <2>1 DEF Listed
  <2>3. Firing(r) = [id |-> r.id, kind |-> r.kind, target |-> r.at, pass |-> now, next |-> r.at]
    BY <2>2 DEF Firing
  <2>4. Firing(r) \in Firings
    BY <1>1, <1>3, <2>3 DEF Firings, OnTime
  <2> QED
    BY <2>2, <2>3, <2>4
<1> QED
  BY <1>2, <1>3

-----------------------------------------------------------------------------
(* Deliveries can be counted.                                              *)
LEMMA TimesType ==
  ASSUME deliveries \in Seq(Firings), NEW id
  PROVE  /\ IsFiniteSet({i \in DOMAIN deliveries : deliveries[i].id = id})
         /\ Times(id) \in Nat
<1> DEFINE S == {i \in DOMAIN deliveries : deliveries[i].id = id}
<1>1. 1 \in Int /\ Len(deliveries) \in Int /\ S \in SUBSET (1..Len(deliveries))
  OBVIOUS
<1>2. IsFiniteSet(1..Len(deliveries))
  BY <1>1, FS_Interval
<1>3. Times(id) = Cardinality(S)
  BY DEF Times
<1> HIDE DEF S
<1>4. IsFiniteSet(S)
  BY <1>1, <1>2, FS_Subset
<1> QED
  BY <1>3, <1>4, FS_CardinalityType DEF S

(* A delivery counts for its own id.                                       *)
LEMMA TimesAppend ==
  ASSUME deliveries \in Seq(Firings), NEW d \in Firings, NEW id,
         deliveries' = Append(deliveries, d)
  PROVE  Times(id)' = Times(id) + IF d.id = id THEN 1 ELSE 0
<1> DEFINE S == {i \in DOMAIN deliveries : deliveries[i].id = id}
           T == {i \in DOMAIN deliveries' : deliveries'[i].id = id}
           n == Len(deliveries) + 1
<1>1. IsFiniteSet(S) /\ Times(id) = Cardinality(S) /\ Times(id) \in Nat
  BY TimesType DEF Times
<1>2. /\ DOMAIN deliveries' = 1..n /\ DOMAIN deliveries = 1..(n - 1) /\ n \in Nat
      /\ \A i \in 1..(n - 1) : deliveries'[i] = deliveries[i]
      /\ deliveries'[n] = d
  OBVIOUS
<1>3. n \notin S
  BY <1>2
<1>4. T = IF d.id = id THEN S \cup {n} ELSE S
  BY <1>2
<1>5. Times(id)' = Cardinality(T)
  BY DEF Times
<1> HIDE DEF S, T, n
<1>6. Cardinality(S \cup {n}) = Cardinality(S) + 1
  BY <1>1, <1>3, FS_AddElement
<1> QED
  BY <1>1, <1>4, <1>5, <1>6

(* An id nobody has created has not fired.                                 *)
LEMMA NeverFired ==
  ASSUME ListInv, NEW id, id \notin created
  PROVE  FiringsOf(id) = 0
<1>1. {i \in DOMAIN deliveries : deliveries[i].id = id} = {}
  BY DEF ListInv
<1>2. Times(id) = 0
  BY <1>1, FS_EmptySet DEF Times
<1>3. ~Awaits(id)
  BY DEF ListInv, Awaits
<1> QED
  BY <1>2, <1>3 DEF FiringsOf

(* And so can firings.                                                     *)
LEMMA FiringsType == ASSUME ListInv, NEW id PROVE FiringsOf(id) \in Nat /\ Times(id) \in Nat
<1>1. Times(id) \in Nat
  BY TimesType DEF ListInv
<1> QED
  BY <1>1 DEF FiringsOf

-----------------------------------------------------------------------------
(* Where nothing is delivered or taken up, the count stays.                *)
LEMMA SameFirings ==
  ASSUME UNCHANGED <<fires, deliveries>>, NEW id
  PROVE  FiringsOf(id)' = FiringsOf(id)
<1> QED
  BY DEF FiringsOf, Times, Awaits

(* No reminder is there at the start.                                      *)
LEMMA InitScheduleInv == ScheduleInit => ScheduleInv
<1> SUFFICES ASSUME ScheduleInit PROVE ScheduleInv
  OBVIOUS
<1>1. <<>> \in Seq(Firings) /\ DOMAIN <<>> = {}
  OBVIOUS
<1>2. IsFiniteSet({})
  BY FS_EmptySet
<1>3. ListInv
  BY <1>1, <1>2 DEF ScheduleInit, ListInv
<1>4. OnceInv
  BY DEF ScheduleInit, OnceInv
<1> QED
  BY <1>3, <1>4 DEF ScheduleInv

(* Time passes, and the scheduler is started and stopped.                  *)
LEMMA IdleStep ==
  ASSUME ScheduleInv, now' \in Nat,
         UNCHANGED <<logged, delivered, fires, created, deleted, deliveries, crashes, lostWrites>>
  PROVE  ScheduleInv'
<1>1. ListInv'
  BY DEF ScheduleInv, ListInv
<1>2. \A id : FiringsOf(id)' = FiringsOf(id)
  BY SameFirings
<1>3. OnceInv'
  BY <1>2 DEF ScheduleInv, OnceInv, ShotInv
<1> QED
  BY <1>1, <1>3 DEF ScheduleInv

(* A new reminder has an id that nothing has fired under.                  *)
LEMMA CreateStep ==
  ASSUME ScheduleInv, NEW x \in IDs, NEW k \in Kinds, NEW at \in {now + 1, now + Cadence},
         CreateReminder(x, k, at)
  PROVE  ScheduleInv'
<1>1. at \in Nat
  BY ScheduleAssumption DEF ScheduleInv, ListInv
<1> DEFINE r == [id |-> x, kind |-> k, at |-> at, done |-> FALSE]
<1>2. r \in Listed /\ r.id = x /\ r.kind = k
  BY <1>1 DEF Listed
<1>3. /\ x \notin created /\ logged' = logged \cup {r} /\ created' = created \cup {x}
      /\ UNCHANGED <<now, sched, started, stopping, delivered, fires, deleted, deliveries,
                     crashes, lostWrites>>
  BY DEF CreateReminder
<1> HIDE DEF r
<1>4. \A s \in logged : s.id \in created
  BY DEF ScheduleInv, ListInv
<1>5. IsFiniteSet(logged')
  BY <1>3, FS_AddElement DEF ScheduleInv, ListInv
<1>6. \A s, t \in logged' : s.id = t.id => s = t
  BY <1>2, <1>3, <1>4 DEF ScheduleInv, ListInv
<1>7. x \notin deleted
  BY <1>3 DEF ScheduleInv, ListInv
<1>8. {s.id : s \in logged'} = created' \ deleted'
  <2>1. {s.id : s \in logged'} = {s.id : s \in logged} \cup {x}
    BY <1>2, <1>3
  <2> QED
    BY <1>3, <1>7, <2>1 DEF ScheduleInv, ListInv
<1>9. ListInv'
  BY <1>2, <1>3, <1>5, <1>6, <1>8 DEF ScheduleInv, ListInv
<1>10. \A y : FiringsOf(y)' = FiringsOf(y)
  BY <1>3, SameFirings
<1>11. FiringsOf(x) = 0
  BY <1>3, NeverFired DEF ScheduleInv
<1>12. ShotInv(r)'
  BY <1>2, <1>3, <1>10, <1>11 DEF ScheduleInv, ListInv, ShotInv
<1>13. ASSUME NEW s \in logged, ShotInv(s)
       PROVE  ShotInv(s)'
  BY <1>3, <1>10, <1>13 DEF ShotInv
<1>14. OnceInv'
  BY <1>3, <1>12, <1>13 DEF ScheduleInv, OnceInv
<1> QED
  BY <1>9, <1>14 DEF ScheduleInv

(* A deleted reminder leaves the list; what it fired is not undone.        *)
LEMMA DeleteStep ==
  ASSUME ScheduleInv, NEW x \in IDs, DeleteReminder(x)
  PROVE  ScheduleInv'
<1>1. /\ logged' = {r \in logged : r.id # x} /\ deleted' = deleted \cup {x}
      /\ x \in created
      /\ UNCHANGED <<now, sched, started, stopping, delivered, fires, created, deliveries,
                     crashes, lostWrites>>
  BY DEF DeleteReminder, ScheduleInv, ListInv
<1>2. IsFiniteSet(logged')
  BY <1>1, FS_Subset DEF ScheduleInv, ListInv
<1>3. {s.id : s \in logged'} = created' \ deleted'
  <2>1. {s.id : s \in logged'} = {s.id : s \in logged} \ {x}
    BY <1>1
  <2> QED
    BY <1>1, <2>1 DEF ScheduleInv, ListInv
<1>4. ListInv'
  BY <1>1, <1>2, <1>3 DEF ScheduleInv, ListInv
<1>5. \A y : FiringsOf(y)' = FiringsOf(y)
  BY <1>1, SameFirings
<1>6. ASSUME NEW s \in logged, ShotInv(s)
      PROVE  ShotInv(s)'
  BY <1>1, <1>5, <1>6 DEF ShotInv
<1>7. OnceInv'
  BY <1>1, <1>6 DEF ScheduleInv, OnceInv
<1> QED
  BY <1>4, <1>7 DEF ScheduleInv

(* A delivery moves a firing from the pass to the past.                    *)
LEMMA DeliverStep == ASSUME ScheduleInv, Deliver PROVE ScheduleInv'
<1>1. /\ fires # <<>> /\ fires' = Tail(fires) /\ deliveries' = Append(deliveries, Head(fires))
      /\ UNCHANGED <<now, logged, sched, started, stopping, delivered, created, deleted,
                     crashes, lostWrites>>
  BY DEF Deliver
<1>2. fires \in Seq(Firings) /\ deliveries \in Seq(Firings)
  BY DEF ScheduleInv, ListInv
<1>3. PICK d \in Firings : d = Head(fires) /\ d = fires[1]
  BY <1>1, <1>2
<1>4. PICK n \in Nat : n = Len(fires) /\ n > 0
  BY <1>1, <1>2
<1>5. /\ fires' \in Seq(Firings) /\ DOMAIN fires' = 1..(n - 1) /\ DOMAIN fires = 1..n
      /\ \A i \in 1..(n - 1) : fires'[i] = fires[i + 1]
  BY <1>1, <1>2, <1>4
<1>6. /\ deliveries' \in Seq(Firings)
      /\ DOMAIN deliveries' = 1..(Len(deliveries) + 1)
      /\ DOMAIN deliveries = 1..Len(deliveries) /\ Len(deliveries) \in Nat
      /\ \A i \in 1..Len(deliveries) : deliveries'[i] = deliveries[i]
      /\ deliveries'[Len(deliveries) + 1] = d
  BY <1>1, <1>2, <1>3
<1>7. \A i \in DOMAIN deliveries' : deliveries'[i].id \in created
  <2>0. 1 \in DOMAIN fires
    BY <1>4, <1>5
  <2>1. d.id \in created
    BY <1>3, <2>0 DEF ScheduleInv, ListInv
  <2>2. \A i \in DOMAIN deliveries : deliveries[i].id \in created
    BY DEF ScheduleInv, ListInv
  <2> QED
    BY <1>6, <2>1, <2>2
<1>8. \A i \in DOMAIN fires' : i + 1 \in DOMAIN fires /\ fires'[i] = fires[i + 1]
  BY <1>4, <1>5
<1>9. /\ \A i, j \in DOMAIN fires' : fires'[i].id = fires'[j].id => i = j
      /\ \A i \in DOMAIN fires' : fires'[i].id \in created
  <2>1. \A i, j \in 1..(n - 1) : i + 1 = j + 1 => i = j
    BY <1>4
  <2>2. /\ \A i, j \in DOMAIN fires : fires[i].id = fires[j].id => i = j
        /\ \A i \in DOMAIN fires : fires[i].id \in created
    BY DEF ScheduleInv, ListInv
  <2> QED
    BY SMTT(30), <1>5, <1>8, <2>1, <2>2
<1>10. ListInv'
  BY <1>1, <1>5, <1>6, <1>7, <1>9 DEF ScheduleInv, ListInv
<1>11. ASSUME NEW x
       PROVE  FiringsOf(x)' = FiringsOf(x)
  <2>1. Times(x)' = Times(x) + IF d.id = x THEN 1 ELSE 0
    BY <1>1, <1>2, <1>3, TimesAppend
  <2>2. Times(x) \in Nat
    BY <1>2, TimesType
  <2>3. CASE d.id = x
    <3>1. Awaits(x)
      BY <1>3, <1>4, <1>5, <2>3 DEF Awaits
    <3>2. ~Awaits(x)'
      <4>1. \A i \in DOMAIN fires' : i + 1 # 1 /\ 1 \in DOMAIN fires
        BY <1>4, <1>5
      <4> QED
        BY <1>3, <1>8, <2>3, <4>1 DEF Awaits, ScheduleInv, ListInv
    <3> QED
      BY <2>1, <2>2, <2>3, <3>1, <3>2 DEF FiringsOf
  <2>4. CASE d.id # x
    <3>1. Awaits(x)' => Awaits(x)
      BY <1>8 DEF Awaits
    <3>2. Awaits(x) => Awaits(x)'
      <4> SUFFICES ASSUME NEW i \in DOMAIN fires, fires[i].id = x PROVE Awaits(x)'
        BY DEF Awaits
      <4>1. i # 1 /\ i \in 1..n
        BY <1>3, <1>5, <2>4
      <4>2. i - 1 \in 1..(n - 1) /\ (i - 1) + 1 = i
        BY <1>4, <4>1
      <4>3. fires'[i - 1] = fires[i]
        BY <1>5, <4>2
      <4> QED
        BY <1>5, <4>2, <4>3 DEF Awaits
    <3> QED
      BY <2>1, <2>2, <2>4, <3>1, <3>2 DEF FiringsOf
  <2> QED
    BY <2>3, <2>4
<1>12. OnceInv'
  BY <1>1, <1>11 DEF ScheduleInv, OnceInv, ShotInv
<1> QED
  BY <1>10, <1>12 DEF ScheduleInv

(* A restart forgets the delivered set and what the pass had still to do.  *)
LEMMA RestartStep == ASSUME ScheduleInv, ProcessEnds PROVE ScheduleInv'
<1>1. /\ crashes' = crashes + 1 /\ delivered' = {} /\ fires' = <<>>
      /\ UNCHANGED <<now, logged, created, deleted, deliveries, lostWrites>>
  BY DEF ProcessEnds
<1>2. <<>> \in Seq(Firings) /\ DOMAIN <<>> = {}
  OBVIOUS
<1>3. ListInv'
  BY <1>1, <1>2 DEF ScheduleInv, ListInv
<1>4. ASSUME NEW x
      PROVE  /\ FiringsOf(x)' <= FiringsOf(x)
             /\ FiringsOf(x) \in Nat /\ FiringsOf(x)' \in Nat
  <2>1. Times(x)' = Times(x)
    BY <1>1 DEF Times
  <2>2. ~Awaits(x)'
    BY <1>1, <1>2 DEF Awaits
  <2>3. Times(x) \in Nat
    BY FiringsType DEF ScheduleInv
  <2> QED
    BY <2>1, <2>2, <2>3 DEF FiringsOf
<1>5. crashes \in Nat
  BY DEF ScheduleInv, ListInv
<1>6. ASSUME NEW r \in logged, ShotInv(r)
      PROVE  ShotInv(r)'
  <2> DEFINE a == FiringsOf(r.id)
  <2>1. PICK m \in Nat : m = FiringsOf(r.id)
    BY <1>4
  <2>2. PICK l \in Nat : l = FiringsOf(r.id)' /\ l <= m
    BY <1>4, <2>1
  <2> QED
    BY <1>1, <1>5, <1>6, <2>1, <2>2 DEF ShotInv
<1>7. OnceInv'
  BY <1>1, <1>6 DEF ScheduleInv, OnceInv
<1> QED
  BY <1>3, <1>7 DEF ScheduleInv

(* What a pass finds due are reminders of the list, each known by its id.  *)
LEMMA PendingListed ==
  ASSUME ListInv
  PROVE  /\ Pending \subseteq logged /\ IsFiniteSet(Pending) /\ Cardinality(Pending) \in Nat
         /\ IsFiniteSet({Fired(r) : r \in Pending})
         /\ \A r \in Pending : r \in Listed /\ Due(r) /\ ~r.done /\ r.id \notin delivered
<1>1. Pending \subseteq logged /\ \A r \in Pending : Fires(r)
  BY DEF Pending
<1>2. IsFiniteSet(Pending)
  BY <1>1, FS_Subset DEF ListInv
<1>3. Cardinality(Pending) \in Nat
  BY <1>2, FS_CardinalityType
<1> DEFINE T == {Fired(r) : r \in Pending}
           f == [r \in Pending |-> Fired(r)]
<1>4. f \in Surjection(Pending, T)
  BY DEF Surjection
<1> HIDE DEF T, f
<1>5. IsFiniteSet(T)
  BY <1>2, <1>4, FS_Surjection
<1> QED
  BY <1>1, <1>2, <1>3, <1>5 DEF T, Fires, Due, ListInv

(* A function on the first n numbers is a list.                            *)
LEMMA ListOf == ASSUME NEW S, NEW n \in Nat, NEW f \in [1..n -> S] PROVE f \in Seq(S)
<1> QED
  OBVIOUS

(* The deliveries a pass sets out to make: those of the due, in any order. *)
LEMMA PassFires ==
  ASSUME ListInv, RunningPass, NEW turns \in [1..Cardinality(Pending) -> Pending],
         \A i, j \in DOMAIN turns : i # j => turns[i] # turns[j],
         fires' = [i \in DOMAIN turns |->
                     [id |-> turns[i].id, kind |-> turns[i].kind, target |-> turns[i].at,
                      pass |-> now, next |-> Fired(turns[i]).at]]
  PROVE  /\ fires' \in Seq(Firings)
         /\ \A i, j \in DOMAIN fires' : fires'[i].id = fires'[j].id => i = j
         /\ \A i \in DOMAIN fires' : \E r \in Pending : fires'[i].id = r.id
<1>1. PICK n \in Nat : n = Cardinality(Pending)
  BY PendingListed
<1>2. DOMAIN turns = 1..n /\ turns \in [1..n -> Pending]
  BY <1>1
<1>3. fires' = [i \in 1..n |-> Firing(turns[i])]
  BY <1>2 DEF Firing
<1>4. ASSUME NEW i \in 1..n
      PROVE  turns[i] \in Pending /\ fires'[i] \in Firings /\ fires'[i].id = turns[i].id
  <2>1. turns[i] \in Pending
    BY <1>2
  <2>2. turns[i] \in Listed /\ Due(turns[i]) /\ now \in Nat
    BY <2>1, PendingListed DEF ListInv
  <2>3. Firing(turns[i]) \in Firings /\ Firing(turns[i]).id = turns[i].id
    BY <2>2, FiredRight
  <2> QED
    BY <1>3, <2>1, <2>3
<1>5. DOMAIN fires' = 1..n /\ fires' \in [1..n -> Firings]
  BY <1>3, <1>4
<1>6. fires' \in Seq(Firings)
  BY <1>5, ListOf
<1>7. ASSUME NEW i \in 1..n, NEW j \in 1..n, fires'[i].id = fires'[j].id
      PROVE  i = j
  <2>1. turns[i].id = turns[j].id /\ turns[i] \in logged /\ turns[j] \in logged
    BY <1>4, <1>7, PendingListed
  <2>2. turns[i] = turns[j]
    BY <2>1 DEF ListInv
  <2> QED
    BY <1>2, <2>2
<1>8. \A i \in 1..n : \E r \in Pending : fires'[i].id = r.id
  BY <1>4
<1> QED
  BY <1>5, <1>6, <1>7, <1>8

(* How a pass counts: one firing more of what was due, none of the rest.   *)
LEMMA PassCounts ==
  ASSUME ListInv, RunningPass, UNCHANGED deliveries, NEW x,
         \A i \in DOMAIN fires' : \E r \in Pending : fires'[i].id = r.id
  PROVE  /\ FiringsOf(x) \in Nat /\ FiringsOf(x)' \in Nat
         /\ FiringsOf(x)' <= FiringsOf(x) + 1
         /\ (\A r \in Pending : r.id # x) => FiringsOf(x)' = FiringsOf(x)
<1>1. Times(x) \in Nat /\ Times(x)' = Times(x)
  BY FiringsType DEF Times
<1>2. ~Awaits(x)
  BY DEF Awaits, RunningPass
<1>3. FiringsOf(x) = Times(x) /\ FiringsOf(x)' = Times(x) + IF Awaits(x)' THEN 1 ELSE 0
  BY <1>1, <1>2 DEF FiringsOf
<1>4. (\A r \in Pending : r.id # x) => ~Awaits(x)'
  BY DEF Awaits
<1> QED
  BY <1>1, <1>3, <1>4

(* A pass that persists, or fails to, fires each due id once.              *)
LEMMA FireStep == ASSUME ScheduleInv, FireDue PROVE ScheduleInv'
<1>1. ListInv /\ RunningPass
  BY DEF ScheduleInv, FireDue
<1>2. PICK turns \in [1..Cardinality(Pending) -> Pending] :
        /\ \A i, j \in DOMAIN turns : i # j => turns[i] # turns[j]
        /\ fires' = [i \in DOMAIN turns |->
                       [id |-> turns[i].id, kind |-> turns[i].kind, target |-> turns[i].at,
                        pass |-> now, next |-> Fired(turns[i]).at]]
  BY DEF FireDue
<1>3. /\ fires' \in Seq(Firings)
      /\ \A i, j \in DOMAIN fires' : fires'[i].id = fires'[j].id => i = j
      /\ \A i \in DOMAIN fires' : \E r \in Pending : fires'[i].id = r.id
  BY <1>1, <1>2, PassFires
<1>4. /\ delivered' = delivered \cup {r.id : r \in Pending}
      /\ UNCHANGED <<now, sched, started, stopping, created, deleted, deliveries, crashes>>
  BY DEF FireDue
<1>5. /\ Pending \subseteq logged /\ IsFiniteSet({Fired(r) : r \in Pending})
      /\ \A r \in Pending : r \in Listed /\ Due(r) /\ ~r.done /\ r.id \notin delivered
  BY <1>1, PendingListed
<1>6. ASSUME NEW r \in Pending
      PROVE  /\ Fired(r) \in Listed /\ Fired(r).id = r.id /\ Fired(r).kind = r.kind
             /\ r.kind = "once" => Fired(r).done
  BY <1>1, <1>5, FiredRight DEF ListInv
<1>7. \A i \in DOMAIN fires' : fires'[i].id \in created
  BY <1>1, <1>3, <1>5 DEF ListInv
<1>8. ASSUME NEW x
      PROVE  /\ FiringsOf(x) \in Nat /\ FiringsOf(x)' \in Nat
             /\ FiringsOf(x)' <= FiringsOf(x) + 1
             /\ (\A r \in Pending : r.id # x) => FiringsOf(x)' = FiringsOf(x)
  BY <1>1, <1>3, <1>4, PassCounts
<1>9. ASSUME NEW s \in logged \ Pending, ShotInv(s), lostWrites \subseteq lostWrites'
      PROVE  ShotInv(s)'
  <2>1. \A r \in Pending : r.id # s.id
    BY <1>1, <1>5 DEF ListInv
  <2>2. FiringsOf(s.id)' = FiringsOf(s.id)
    BY <1>8, <2>1
  <2> QED
    BY <1>4, <1>9, <2>2 DEF ShotInv
<1>10. ASSUME NEW r \in Pending, ShotInv(r)
       PROVE  /\ FiringsOf(r.id)' <= crashes + 1 /\ r.id \in delivered'
              /\ r.id \notin lostWrites => FiringsOf(r.id)' <= 1
  <2>1. PICK m \in Nat : m = FiringsOf(r.id)
    BY <1>8
  <2>2. PICK l \in Nat : l = FiringsOf(r.id)' /\ l <= m + 1
    BY <1>8, <2>1
  <2>3. m <= crashes /\ (r.id \notin lostWrites => m = 0) /\ crashes \in Nat
    BY <1>1, <1>5, <1>10, <2>1 DEF ShotInv, ListInv
  <2> QED
    BY <1>4, <2>2, <2>3
<1>11. CASE /\ logged' = (logged \ Pending) \union {Fired(r) : r \in Pending}
            /\ lostWrites' = lostWrites
  <2>1. IsFiniteSet(logged')
    <3>1. IsFiniteSet(logged \ Pending)
      BY <1>1, FS_Subset DEF ListInv
    <3> QED
      BY <1>5, <1>11, <3>1, FS_Union
  <2>2. logged' \subseteq Listed
    BY <1>1, <1>6, <1>11 DEF ListInv
  <2>3. ASSUME NEW u \in logged'
        PROVE  \E s \in logged : /\ s.id = u.id
                                 /\ u = IF s \in Pending THEN Fired(s) ELSE s
    BY <1>5, <1>6, <1>11
  <2>4. \A u, v \in logged' : u.id = v.id => u = v
    BY <1>1, <2>3 DEF ListInv
  <2>5. ASSUME NEW s \in logged
        PROVE  \E u \in logged' : u.id = s.id
    BY <1>6, <1>11
  <2>6. {u.id : u \in logged'} = {s.id : s \in logged}
    BY <2>3, <2>5
  <2>7. ListInv'
    BY <1>1, <1>3, <1>4, <1>7, <2>1, <2>2, <2>4, <2>6 DEF ListInv
  <2>8. ASSUME NEW u \in logged', u.kind = "once"
        PROVE  ShotInv(u)'
    <3>1. CASE u \in logged \ Pending
      BY <1>9, <1>11, <2>8, <3>1 DEF ScheduleInv, OnceInv
    <3>2. CASE \E r \in Pending : u = Fired(r)
      <4>1. PICK r \in Pending : u = Fired(r)
        BY <3>2
      <4>2. u.id = r.id /\ u.kind = r.kind /\ u.done /\ ShotInv(r)
        BY <1>5, <1>6, <2>8, <4>1 DEF ScheduleInv, OnceInv
      <4>3. /\ FiringsOf(r.id)' <= crashes + 1
            /\ r.id \notin lostWrites => FiringsOf(r.id)' <= 1
        BY <1>10, <4>2
      <4> QED
        BY <1>4, <1>11, <4>2, <4>3 DEF ShotInv
    <3> QED
      BY <1>11, <3>1, <3>2
  <2> QED
    BY <2>7, <2>8 DEF ScheduleInv, OnceInv
<1>12. CASE lostWrites' = lostWrites \union {r.id : r \in Pending} /\ logged' = logged
  <2>1. ListInv'
    BY <1>1, <1>3, <1>4, <1>7, <1>12 DEF ListInv
  <2>2. ASSUME NEW s \in logged, s.kind = "once"
        PROVE  ShotInv(s)'
    <3>1. ShotInv(s)
      BY <2>2 DEF ScheduleInv, OnceInv
    <3>2. CASE s \in Pending
      <4>1. FiringsOf(s.id)' <= crashes + 1 /\ s.id \in delivered' /\ s.id \in lostWrites'
        BY <1>10, <1>12, <3>1, <3>2
      <4> QED
        BY <1>4, <4>1 DEF ShotInv
    <3>3. CASE s \notin Pending
      BY <1>9, <1>12, <3>1, <3>3
    <3> QED
      BY <3>2, <3>3
  <2> QED
    BY <1>12, <2>1, <2>2 DEF ScheduleInv, OnceInv
<1> QED
  BY <1>11, <1>12 DEF FireDue

(* Every step keeps the invariant.                                         *)
LEMMA ScheduleStep == ScheduleInv /\ [ScheduleNext]_scheduleVars => ScheduleInv'
<1> SUFFICES ASSUME ScheduleInv, [ScheduleNext]_scheduleVars PROVE ScheduleInv'
  OBVIOUS
<1>1. now \in Nat
  BY DEF ScheduleInv, ListInv
<1>2. CASE Passes
  BY <1>1, <1>2, IdleStep DEF Passes
<1>3. CASE StartScheduler \/ Stop \/ RunReturns \/ StopReturns
  BY <1>1, <1>3, IdleStep DEF StartScheduler, Stop, RunReturns, StopReturns
<1>4. CASE UNCHANGED scheduleVars
  BY <1>1, <1>4, IdleStep DEF scheduleVars
<1>5. CASE FireDue \/ Deliver \/ ProcessEnds
  BY <1>5, FireStep, DeliverStep, RestartStep
<1>6. CASE \E id \in IDs : \/ DeleteReminder(id)
                           \/ \E k \in Kinds, at \in {now + 1, now + Cadence} :
                                CreateReminder(id, k, at)
  BY <1>6, CreateStep, DeleteStep
<1> QED
  BY <1>2, <1>3, <1>4, <1>5, <1>6 DEF ScheduleNext

(* The inductive invariant of the reminders.                               *)
THEOREM ScheduleInvariant == ScheduleSpec => []ScheduleInv
<1> QED
  BY InitScheduleInv, ScheduleStep, PTL DEF ScheduleSpec

(* Whatever order reminders are created, deleted, fired and delivered in,  *)
(* and wherever the process ends, the list is what create and delete made  *)
(* of it, nothing fires before its time, a one-shot fires once unless a    *)
(* write was lost with the process, and a repeating one stays on its       *)
(* anchor.                                                                 *)
THEOREM RemindersSound == ScheduleSpec => []RemindersAreSound
<1>1. ScheduleInv => RemindersAreSound
  <2> SUFFICES ASSUME ScheduleInv PROVE RemindersAreSound
    OBVIOUS
  <2>1. ListInv /\ OnceInv
    BY DEF ScheduleInv
  <2>2. ASSUME NEW x \in created, KindOf(x) = {"once"}
        PROVE  Times(x) <= 1 + IF x \in lostWrites THEN crashes ELSE 0
    <3>1. PICK r \in logged : r.id = x /\ r.kind = "once"
      BY <2>2 DEF KindOf
    <3>2. ShotInv(r)
      BY <2>1, <3>1 DEF OnceInv
    <3>3. PICK m \in Nat : m = Times(x)
      BY <2>1, FiringsType
    <3>4. PICK l \in Nat : l = FiringsOf(x) /\ m <= l
      BY <3>3 DEF FiringsOf
    <3>5. crashes \in Nat
      BY <2>1 DEF ListInv
    <3> QED
      BY <3>1, <3>2, <3>3, <3>4, <3>5 DEF ShotInv
  <2>3. \A i \in DOMAIN deliveries : OnTime(deliveries[i])
    BY <2>1 DEF ListInv, Firings
  <2> QED
    BY <2>1, <2>2, <2>3 DEF RemindersAreSound, ListInv, OnTime
<1> QED
  BY <1>1, ScheduleInvariant, PTL

(* The scheduler runs when it was started, and delivers what was created.  *)
SchedulerInv == /\ sched \in {"off", "running", "ended"} /\ (sched = "off" <=> ~started)
                /\ stopping => started
                /\ delivered \subseteq created
LEMMA InitSchedulerInv == ScheduleInit => SchedulerInv
BY DEF ScheduleInit, SchedulerInv

LEMMA NextSchedulerInv ==
  ASSUME ScheduleInv, SchedulerInv, [ScheduleNext]_scheduleVars PROVE SchedulerInv'
<1>1. {r.id : r \in Pending} \subseteq created
  <2>1. \A r \in logged : r.id \in created
    BY DEF ScheduleInv, ListInv
  <2> QED
    BY <2>1 DEF Pending
<1>2. CASE FireDue
  BY <1>1, <1>2 DEF FireDue, SchedulerInv
<1>3. CASE Passes \/ Deliver \/ StartScheduler \/ Stop \/ RunReturns \/ StopReturns \/ ProcessEnds
  BY <1>3 DEF Passes, Deliver, StartScheduler, Stop, RunReturns, RunningPass, StopReturns,
              ProcessEnds, SchedulerInv
<1>4. ASSUME NEW id \in IDs,
             DeleteReminder(id) \/ \E k \in Kinds, at \in {now + 1, now + Cadence} :
                                     CreateReminder(id, k, at)
      PROVE  SchedulerInv'
  BY <1>4 DEF DeleteReminder, CreateReminder, SchedulerInv
<1>5. CASE UNCHANGED scheduleVars
  BY <1>5 DEF scheduleVars, SchedulerInv
<1> QED
  BY <1>2, <1>3, <1>4, <1>5 DEF ScheduleNext

LEMMA ScheduleTypes == ASSUME ScheduleInv, SchedulerInv PROVE ScheduleTypeOK
BY DEF ScheduleInv, ListInv, Listed, SchedulerInv, ScheduleTypeOK

LEMMA GoalTypes == ASSUME GoalInv PROVE GoalsTypeOK
<1>1. DocInv /\ ArmInv
  BY DEF GoalInv
<1>2. goal # Missing => /\ goal.phase \in {"active", "paused", "blocked", "complete"}
                        /\ goal.revision \in 1..MaxRevision + 1 /\ goal.streak >= 0
  <2>1. \A g \in GoalDocs : g.phase \in {"active", "paused", "blocked", "complete"}
                           /\ g.streak \in Nat
    <3>1. \A g \in CalmDocs : g.phase \in {"active", "paused", "complete"} /\ g.streak = 0
      BY DEF CalmDocs
    <3>2. \A g \in Stuck : g.phase = "blocked" /\ g.streak \in Nat
      BY DEF Stuck
    <3> QED
      BY <3>1, <3>2 DEF GoalDocs
  <2> QED
    BY <1>1, <2>1 DEF DocInv
<1>3. \A s \in Sessions : armed[s] \in 0..Len(arms) /\ run[s].st \in 0..Len(arms)
  BY <1>1 DEF ArmInv
<1> QED
  BY <1>1, <1>2, <1>3 DEF ArmInv, GoalsTypeOK
================================================================================
