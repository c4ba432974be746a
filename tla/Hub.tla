---- MODULE Hub ----
(* The event hub of core/hub: Publish under the hub's lock, a bounded queue *)
(* per subscriber that drops its oldest event, a bounded replay buffer per  *)
(* stream, and the client protocol its package comment describes: subscribe *)
(* first, Replay what was missed, go on with the channel from the last Seq. *)
(* One stream; its events are numbered 1, 2, ... by the producer.           *)
EXTENDS Integers, Sequences, FiniteSets, SequencesExt

CONSTANTS
  Subscribers,
  SubBuffer, ReplayCap,   \* WithSubscriberBuffer, WithReplayCap
  MaxSeq                  \* bound on the published events

VARIABLES
  subs,        \* h.subs
  queue,       \* the channel of each subscription
  recent,      \* h.recent of the stream
  published,   \* the last Seq published
  sending,     \* Publish holds the lock: the event, [] when nobody publishes
  todo,        \* subscribers it has not served yet
  step,        \* where the three selects are for each of them
  client,      \* "off", "subscribed", "live", "gone"
  since,       \* published when the client subscribed
  view,        \* the events a client has taken, in order
  watermark,   \* the last Seq a client has taken
  missed       \* history: events dropped from a full queue, or no longer
               \* in the replay buffer when the client asked for them

hubVars == <<subs, queue, recent, published, sending, todo, step, client, since,
             view, watermark, missed>>

Unlocked == sending = 0

HubInit ==
  /\ subs = {} /\ queue = [s \in Subscribers |-> <<>>]
  /\ recent = <<>> /\ published = 0
  /\ sending = 0 /\ todo = {} /\ step = [s \in Subscribers |-> "try"]
  /\ client = [s \in Subscribers |-> "off"]
  /\ since = [s \in Subscribers |-> 0]
  /\ view = [s \in Subscribers |-> <<>>]
  /\ watermark = [s \in Subscribers |-> 0]
  /\ missed = [s \in Subscribers |-> {}]

\* The newest ReplayCap events of a buffer.
Newest(buf) == IF Len(buf) > ReplayCap
               THEN SubSeq(buf, Len(buf) - ReplayCap + 1, Len(buf)) ELSE buf

Publish ==
  /\ Unlocked /\ published < MaxSeq
  /\ published' = published + 1
  /\ recent' = Newest(Append(recent, published + 1))
  /\ todo' = subs
  /\ sending' = IF subs = {} THEN 0 ELSE published + 1
  /\ step' = [s \in Subscribers |-> "try"]
  /\ UNCHANGED <<subs, queue, client, since, view, watermark, missed>>

Served(s) ==
  /\ todo' = todo \ {s}
  /\ sending' = IF todo = {s} THEN 0 ELSE sending

\* select { case ch <- ev: default: }
FirstSend(s) ==
  /\ s \in todo /\ step[s] = "try"
  /\ IF Len(queue[s]) < SubBuffer
     THEN /\ queue' = [queue EXCEPT ![s] = Append(@, sending)] /\ Served(s) /\ step' = step
     ELSE /\ step' = [step EXCEPT ![s] = "drop"] /\ UNCHANGED <<queue, todo, sending>>
  /\ UNCHANGED <<subs, recent, published, client, since, view, watermark, missed>>

DropNothing(q) == q
DropOldest(q) == IF q = <<>> THEN q ELSE Tail(q)

\* The subscriber may have read in the meantime; its oldest event goes anyway.
Drop(s) ==
  /\ s \in todo /\ step[s] = "drop"
  /\ queue' = [queue EXCEPT ![s] = DropOldest(@)]
  /\ step' = [step EXCEPT ![s] = "retry"]
  /\ missed' = [missed EXCEPT ![s] =
                  @ \union IF queue[s] = <<>> THEN {} ELSE {Head(queue[s])}]
  /\ UNCHANGED <<subs, recent, published, sending, todo, client, since, view, watermark>>

SecondSend(s) ==
  /\ s \in todo /\ step[s] = "retry"
  /\ queue' = [queue EXCEPT ![s] = IF Len(@) < SubBuffer THEN Append(@, sending) ELSE @]
  /\ Served(s)
  /\ UNCHANGED <<subs, recent, published, step, client, since, view, watermark, missed>>

Subscribe(s) ==
  /\ Unlocked /\ client[s] = "off"
  /\ subs' = subs \union {s}
  /\ client' = [client EXCEPT ![s] = "subscribed"]
  /\ since' = [since EXCEPT ![s] = published]
  /\ UNCHANGED <<queue, recent, published, sending, todo, step, view, watermark, missed>>

\* The events of a buffer above a Seq: they lie in the order of Publish, which
\* is that of Seq, so these are its end.
NewerThan(buf, seq) ==
  LET older == Cardinality({i \in DOMAIN buf : buf[i] <= seq})
  IN SubSeq(buf, older + 1, Len(buf))

\* Replay of what is newer than the client's watermark, while the channel
\* already fills.
Replay(s) ==
  /\ Unlocked /\ client[s] = "subscribed"
  /\ LET got == NewerThan(recent, watermark[s])
     IN /\ view' = [view EXCEPT ![s] = @ \o got]
        /\ watermark' = [watermark EXCEPT ![s] = IF got = <<>> THEN @ ELSE Last(got)]
  /\ missed' = [missed EXCEPT ![s] =
                  @ \union {e \in watermark[s] + 1..published : ~Contains(recent, e)}]
  /\ client' = [client EXCEPT ![s] = "live"]
  /\ UNCHANGED <<subs, queue, recent, published, sending, todo, step, since>>

\* The client skips what the replay has already given it.
Read(s) ==
  /\ client[s] = "live" /\ queue[s] # <<>>
  /\ queue' = [queue EXCEPT ![s] = Tail(@)]
  /\ IF Head(queue[s]) > watermark[s]
     THEN /\ view' = [view EXCEPT ![s] = Append(@, Head(queue[s]))]
          /\ watermark' = [watermark EXCEPT ![s] = Head(queue[s])]
     ELSE UNCHANGED <<view, watermark>>
  /\ UNCHANGED <<subs, recent, published, sending, todo, step, client, since, missed>>

\* unsubscribe: the channel is closed; what is queued is lost with it.
Unsubscribe(s) ==
  /\ Unlocked /\ client[s] \in {"subscribed", "live"}
  /\ subs' = subs \ {s}
  /\ client' = [client EXCEPT ![s] = "gone"]
  /\ queue' = [queue EXCEPT ![s] = <<>>]
  /\ UNCHANGED <<recent, published, sending, todo, step, since, view, watermark, missed>>

\* The same client attaches again, with the Seq it has seen.
Reattach(s) ==
  /\ client[s] = "gone"
  /\ client' = [client EXCEPT ![s] = "off"]
  /\ UNCHANGED <<subs, queue, recent, published, sending, todo, step, since, view, watermark, missed>>

\* The stream has ended.
Forget ==
  /\ Unlocked /\ recent # <<>> /\ published = MaxSeq
  /\ recent' = <<>>
  /\ UNCHANGED <<subs, queue, published, sending, todo, step, client, since, view, watermark, missed>>

HubNext ==
  \/ Publish \/ Forget
  \/ \E s \in Subscribers :
       FirstSend(s) \/ Drop(s) \/ SecondSend(s) \/ Subscribe(s) \/ Replay(s)
       \/ Read(s) \/ Unsubscribe(s) \/ Reattach(s)

HubSpec == HubInit /\ [][HubNext]_hubVars
----------------------------------------------------------------------------
HubTypeOK ==
  /\ subs \subseteq Subscribers /\ todo \subseteq subs
  /\ published \in 0..MaxSeq /\ Len(recent) <= ReplayCap
  /\ \A s \in Subscribers : Len(queue[s]) <= SubBuffer /\ watermark[s] \in 0..published

(* A client sees the events of a stream in order and once each, however it  *)
(* attaches; what is queued for it is in order too, and the newest event    *)
(* published since it subscribed is in its queue or in its hands: only      *)
(* older ones are dropped.                                                  *)
Increasing(q) == \A i, j \in DOMAIN q : i < j => q[i] < q[j]
NewestIsKept ==
  \A s \in Subscribers :
    /\ Increasing(view[s]) /\ Increasing(queue[s])
    /\ client[s] = "live" /\ s \notin todo /\ published > since[s] =>
         published \in ToSet(view[s]) \union ToSet(queue[s])

(* A client that subscribes first and replays then, also after it was away, *)
(* misses nothing the hub still had: no gap lies between the replay and the *)
(* channel.                                                                 *)
CatchesUp ==
  \A s \in Subscribers : client[s] = "live" /\ s \notin todo =>
    1..published = ToSet(view[s]) \union ToSet(queue[s]) \union missed[s]
====
