---- MODULE FifoSemaphore ----
(* What a strict first-come-first-served semaphore promises: nobody is let  *)
(* in past the capacity, a free place is never left while someone waits,    *)
(* and whoever leaves hands the place to the one who has waited longest.    *)
EXTENDS Integers, Sequences, FiniteSets

CONSTANTS Slots, Clients
VARIABLES
  holders,    \* clients that have a place, or have been handed one
  queue       \* clients that wait, oldest first

InQueue(c) == \E i \in DOMAIN queue : queue[i] = c

SemaphoreInit == holders = {} /\ queue = <<>>

Enter(c) ==
  /\ c \notin holders /\ ~InQueue(c)
  /\ Cardinality(holders) < Slots /\ queue = <<>>
  /\ holders' = holders \union {c} /\ queue' = queue

Wait(c) ==
  /\ c \notin holders /\ ~InQueue(c)
  /\ Cardinality(holders) = Slots
  /\ queue' = Append(queue, c) /\ holders' = holders

Abandon(c) ==
  /\ \E i \in DOMAIN queue :
       queue[i] = c /\ queue' = SubSeq(queue, 1, i - 1) \o SubSeq(queue, i + 1, Len(queue))
  /\ holders' = holders

Leave(c) ==
  /\ c \in holders
  /\ \/ queue = <<>> /\ holders' = holders \ {c} /\ queue' = queue
     \/ /\ queue # <<>>
        /\ holders' = (holders \ {c}) \union {Head(queue)}
        /\ queue' = Tail(queue)

SemaphoreNext == \E c \in Clients : Enter(c) \/ Wait(c) \/ Abandon(c) \/ Leave(c)
SemaphoreSpec == SemaphoreInit /\ [][SemaphoreNext]_<<holders, queue>>
====
