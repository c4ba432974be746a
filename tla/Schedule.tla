---- MODULE Schedule ----
(* Durable reminders (module/schedule): the list lives in the session log   *)
(* as whole-value events, the last one wins; create, delete and the firing  *)
(* pass fold it, change it and append it under stateMu. The scheduler is a  *)
(* goroutine of the process; a crash loses it and everything not logged.    *)
(* Times are counted in units of the ticker; a reminder's due time At is    *)
(* CreatedAt + AfterSecs for one-shots.                                     *)
EXTENDS Integers, Sequences, FiniteSets

CONSTANTS
  IDs, Kinds,      \* reminders and the kinds to create: "once", "every"
  Cadence,         \* EverySecs
  MaxTime,         \* bound on the clock
  MaxCrashes       \* bound on the restarts

\* A repeating reminder has a positive number of seconds.
ASSUME ScheduleAssumption == Cadence \in Nat \ {0}

VARIABLES
  now,
  logged,          \* the reminders of the last schedule/change event
  sched,           \* the scheduler: "off", "running", "ended" (run returned)
  started,         \* m.started
  stopping,        \* a Stop call between closing m.stop and resetting it
  delivered,       \* the process-wide delivered set
  fires,           \* reminders the pass has still to deliver
  created, deleted,\* history: ids ever logged, ids deleted
  deliveries,      \* history: what was delivered, with the time of the pass and
                   \* the target it set
  crashes, lostWrites

scheduleVars == <<now, logged, sched, started, stopping, delivered, fires, created,
                  deleted, deliveries, crashes, lostWrites>>

ScheduleInit ==
  /\ now = 0 /\ logged = {} /\ sched = "off" /\ started = FALSE /\ stopping = FALSE
  /\ delivered = {} /\ fires = <<>> /\ created = {} /\ deleted = {}
  /\ deliveries = <<>> /\ crashes = 0 /\ lostWrites = {}

Passes == /\ now < MaxTime /\ now' = now + 1
          /\ UNCHANGED <<logged, sched, started, stopping, delivered, fires, created,
                         deleted, deliveries, crashes, lostWrites>>

\* create: exactly one selector; At must be in the future.
CreateReminder(id, kind, at) ==
  /\ id \notin created /\ at > now
  /\ kind = "every" => at = now + Cadence
  /\ logged' = logged \union {[id |-> id, kind |-> kind, at |-> at, done |-> FALSE]}
  /\ created' = created \union {id}
  /\ UNCHANGED <<now, sched, started, stopping, delivered, fires, deleted, deliveries,
                 crashes, lostWrites>>

DeleteReminder(id) ==
  /\ \E r \in logged : r.id = id
  /\ logged' = {r \in logged : r.id # id}
  /\ deleted' = deleted \union {id}
  /\ UNCHANGED <<now, sched, started, stopping, delivered, fires, created, deliveries,
                 crashes, lostWrites>>
----------------------------------------------------------------------------
Due(r) == ~r.done /\ now >= r.at

NextFromNow(at) == now + Cadence
\* The next target after now on the anchor's cadence: At plus the steps missed.
NextTarget(at) ==
  LET next == at + Cadence
  IN IF next > now THEN next
     ELSE next + ((now - next) \div Cadence + 1) * Cadence

Fired(r) == IF r.kind = "every" THEN [r EXCEPT !.at = NextTarget(r.at)]
            ELSE [r EXCEPT !.done = TRUE]

FiresAgain(r) == Due(r)
Fires(r) == Due(r) /\ r.id \notin delivered

Pending == {r \in logged : Fires(r)}
RunningPass == sched = "running" /\ fires = <<>>

\* fireDue up to the unlock. The append may fail: that is only logged.
FireDue ==
  /\ RunningPass /\ Pending # {}
  /\ \E order \in {q \in [1..Cardinality(Pending) -> Pending] :
                     \A i, j \in DOMAIN q : i # j => q[i] # q[j]} :
       fires' = [i \in DOMAIN order |->
                   [id |-> order[i].id, kind |-> order[i].kind, target |-> order[i].at,
                    pass |-> now, next |-> Fired(order[i]).at]]
  /\ delivered' = delivered \union {r.id : r \in Pending}
  /\ \/ /\ logged' = (logged \ Pending) \union {Fired(r) : r \in Pending}
        /\ UNCHANGED lostWrites
     \/ /\ crashes < MaxCrashes        \* a failed append matters at a restart
        /\ lostWrites' = lostWrites \union {r.id : r \in Pending}
        /\ UNCHANGED logged
  /\ UNCHANGED <<now, sched, started, stopping, created, deleted, deliveries, crashes>>

\* deliverSafe, outside the lock; a panic of the callback is recovered from.
Deliver ==
  /\ fires # <<>>
  /\ deliveries' = Append(deliveries, Head(fires))
  /\ fires' = Tail(fires)
  /\ UNCHANGED <<now, logged, sched, started, stopping, delivered, created, deleted,
                 crashes, lostWrites>>
----------------------------------------------------------------------------
StartScheduler ==
  /\ ~started /\ started' = TRUE /\ sched' = "running"
  /\ UNCHANGED <<now, logged, stopping, delivered, fires, created, deleted, deliveries,
                 crashes, lostWrites>>

\* Stop closes m.stop and waits for run to return.
Stop ==
  /\ started /\ ~stopping /\ stopping' = TRUE
  /\ UNCHANGED <<now, logged, sched, started, delivered, fires, created, deleted,
                 deliveries, crashes, lostWrites>>

\* run returns at its next select when m.stop is closed or the context ends;
\* the passes it is in the middle of go on to their end.
RunReturns ==
  /\ RunningPass /\ sched' = "ended"
  /\ UNCHANGED <<now, logged, started, stopping, delivered, fires, created, deleted,
                 deliveries, crashes, lostWrites>>

StopReturns ==
  /\ stopping /\ sched = "ended"
  /\ stopping' = FALSE /\ started' = FALSE /\ sched' = "off"
  /\ UNCHANGED <<now, logged, delivered, fires, created, deleted, deliveries, crashes,
                 lostWrites>>

ProcessEnds ==
  /\ crashes < MaxCrashes /\ crashes' = crashes + 1
  /\ sched' = "off" /\ started' = FALSE /\ stopping' = FALSE
  /\ delivered' = {} /\ fires' = <<>>
  /\ UNCHANGED <<now, logged, created, deleted, deliveries, lostWrites>>

ScheduleNext ==
  \/ Passes \/ FireDue \/ Deliver \/ StartScheduler \/ Stop \/ RunReturns \/ StopReturns
  \/ ProcessEnds
  \/ \E id \in IDs : \/ DeleteReminder(id)
                     \/ \E kind \in Kinds, at \in {now + 1, now + Cadence} : CreateReminder(id, kind, at)

ScheduleSpec == ScheduleInit /\ [][ScheduleNext]_scheduleVars
----------------------------------------------------------------------------
ScheduleTypeOK ==
  /\ sched \in {"off", "running", "ended"} /\ (sched = "off" <=> ~started)
  /\ stopping => started
  /\ {r.id : r \in logged} \subseteq IDs /\ delivered \subseteq created

Times(id) == Cardinality({i \in DOMAIN deliveries : deliveries[i].id = id})
KindOf(id) == {r.kind : r \in {x \in logged : x.id = id}}

(* The list in the log is what create and delete made of it, and no         *)
(* reminder fires before its time. A one-shot fires once, and again only    *)
(* after a restart when the write of its first firing was lost; a repeating *)
(* one is set to the next multiple of its cadence that lies ahead.          *)
RemindersAreSound ==
  /\ {r.id : r \in logged} = created \ deleted
  /\ \A id \in created : KindOf(id) = {"once"} =>
       Times(id) <= 1 + IF id \in lostWrites THEN crashes ELSE 0
  /\ \A i \in DOMAIN deliveries :
       LET d == deliveries[i]
       IN /\ d.pass >= d.target
          /\ d.kind = "every" => /\ d.next > d.pass /\ d.next - d.pass <= Cadence
                                 /\ (d.next - d.target) % Cadence = 0

(* Package comment: "every-reminders re-arm on their anchor-aligned         *)
(* cadence". A running scheduler that has nothing to fire between two       *)
(* passes has no repeating reminder that is due.                            *)
RepeatingRemindersRearm ==
  sched = "running" /\ fires = <<>> /\ Pending = {} =>
    ~\E r \in logged : Due(r) /\ r.kind = "every" /\ r.id \notin lostWrites
====
