------------------------------- MODULE EventStream -------------------------------
(***************************************************************************)
(* Event streams: AsyncIterator (core/kernel/iterator.go) and the          *)
(* transforms that pump one iterator into another                          *)
(* (core/stream/transforms.go).                                            *)
(*                                                                         *)
(*   producer s --Send--> iterator s --pump--> iterator Out --> consumer   *)
(*                                                                         *)
(* Close takes the iterator's lock and then, still holding it, marks the   *)
(* iterator closed, closes done and closes the channel: three steps of     *)
(* phase.  Send looks at the mark under the lock and sends without it.     *)
(* Every element of Out is a batch; all transforms but Buffer send         *)
(* batches of one.                                                         *)
(***************************************************************************)
EXTENDS Integers, Sequences
LOCAL INSTANCE SequencesExt

CONSTANTS NumSources,  \* iterators given to Concat and Merge
          NumValues,   \* bound: how many values each producer sends
          ChanCap,     \* channel buffer (100 in the code)
          BatchSize,   \* size given to Buffer
          Kinds        \* the transforms explored

Sources == 1..NumSources
Out   == 0
Iters == Sources \cup {Out}

VARIABLES
  kind,      \* the transform
  chan,      \* AsyncIterator.ch
  phase,     \* how far Close has come: open, marked, signalled, closed
  err,       \* AsyncIterator.err
  prod,      \* producers: idle, checked (inside Send), stopped
  sent,      \* values for which Send returned true, by source
  pump,      \* transform goroutines: recv, send, put, failing, finish, ended
  hand,      \* the batch a pump holds
  from,      \* the source a pump reads (Concat moves on)
  last,      \* Buffer: the batch in hand is the final flush
  canceled,  \* the context given to Merge is done
  refused,   \* the function given to MapErr has failed (history)
  got,       \* values the consumer has received, in order
  ended,     \* the consumer has seen the end of the stream
  quit       \* the consumer has closed the stream itself

iterVars == <<chan, phase, err>>
pumpVars == <<pump, hand, from, last>>
seenVars == <<got, ended, quit>>
vars == <<kind, iterVars, prod, sent, pumpVars, canceled, refused, seenVars>>

Used == IF kind \in {"concat", "merge"} THEN Sources ELSE {1}
Pumps == IF kind = "merge" THEN Sources ELSE {1}
Value(s, n) == [src |-> s, val |-> n]

Init ==
  /\ kind \in Kinds
  /\ chan = [i \in Iters |-> <<>>]
  /\ phase = [i \in Iters |-> "open"]
  /\ err = [i \in Iters |-> "none"]
  /\ prod = [s \in Sources |-> "idle"]
  /\ sent = [s \in Sources |-> 0]
  /\ pump = [p \in Sources |-> "recv"]
  /\ hand = [p \in Sources |-> <<>>]
  /\ from = [p \in Sources |-> p]
  /\ last = {}
  /\ canceled = FALSE /\ refused = FALSE /\ ended = FALSE /\ quit = FALSE
  /\ got = <<>>

-----------------------------------------------------------------------------
(* The iterator.  Close and CloseWithError; the latter records its error    *)
(* even on an iterator that is closed already.                              *)
LockFree(i) == phase[i] \in {"open", "closed"}
Closing(i) ==
  /\ LockFree(i)
  /\ phase' = [phase EXCEPT ![i] = IF @ = "open" THEN "marked" ELSE @]
Close(i) == Closing(i) /\ UNCHANGED err
CloseWithError(i, e) == Closing(i) /\ err' = [err EXCEPT ![i] = e]

CloseStep(i) ==
  /\ phase[i] \in {"marked", "signalled"}
  /\ phase' = [phase EXCEPT ![i] = IF @ = "marked" THEN "signalled" ELSE "closed"]
  /\ UNCHANGED <<kind, chan, err, prod, sent, pumpVars, canceled, refused, seenVars>>

(* watchContext: the context of an iterator ends it with the context error. *)
WatchContext(s) ==
  /\ s \in Used /\ phase[s] = "open"
  /\ CloseWithError(s, "context")
  /\ UNCHANGED <<kind, chan, prod, sent, pumpVars, canceled, refused, seenVars>>

(* The select of Send: a closed channel panics, which Send recovers from.   *)
CanPut(i) == phase[i] # "closed" /\ Len(chan[i]) < ChanCap
IsDone(i) == phase[i] \in {"signalled", "closed"}

-----------------------------------------------------------------------------
ProducerStep == UNCHANGED <<kind, pumpVars, canceled, refused, seenVars>>

ProducerChecks(s) ==
  /\ s \in Used /\ prod[s] = "idle" /\ sent[s] < NumValues[s] /\ LockFree(s)
  /\ prod' = [prod EXCEPT ![s] = IF phase[s] = "closed" THEN "stopped" ELSE "checked"]
  /\ UNCHANGED <<iterVars, sent>> /\ ProducerStep

ProducerPuts(s) ==
  /\ prod[s] = "checked" /\ CanPut(s)
  /\ chan' = [chan EXCEPT ![s] = Append(@, Value(s, sent[s] + 1))]
  /\ sent' = [sent EXCEPT ![s] = @ + 1]
  /\ prod' = [prod EXCEPT ![s] = "idle"]
  /\ UNCHANGED <<phase, err>> /\ ProducerStep

ProducerRefused(s) ==
  /\ prod[s] = "checked" /\ IsDone(s)
  /\ prod' = [prod EXCEPT ![s] = "stopped"]
  /\ UNCHANGED <<iterVars, sent>> /\ ProducerStep

ProducerCloses(s, fails) ==
  /\ s \in Used /\ prod[s] = "idle"
  /\ IF fails THEN CloseWithError(s, "producer") ELSE Close(s)
  /\ prod' = [prod EXCEPT ![s] = "stopped"]
  /\ UNCHANGED <<chan, sent>> /\ ProducerStep

-----------------------------------------------------------------------------
(* The pump.  What one received value does to it.                           *)
PumpStep == UNCHANGED <<kind, prod, sent, canceled, refused, seenVars>>
SetPump(p, to, batch) == pump' = [pump EXCEPT ![p] = to] /\ hand' = [hand EXCEPT ![p] = batch]

Filtered(v) == v.val % 2 = 0

Receive(p) ==
  /\ p \in Pumps /\ pump[p] = "recv" /\ chan[from[p]] # <<>>
  /\ LET v == Head(chan[from[p]])
         batch == Append(hand[p], v)
     IN  CASE kind = "filter" /\ Filtered(v) -> SetPump(p, "recv", <<>>)
           [] kind = "buffer" /\ Len(batch) < BatchSize -> SetPump(p, "recv", batch)
           [] OTHER -> SetPump(p, "send", batch)
  /\ chan' = [chan EXCEPT ![from[p]] = Tail(@)]
  /\ UNCHANGED <<phase, err, from, last>> /\ PumpStep

(* MapErr: the function refuses the value.                                  *)
ReceiveFails(p) ==
  /\ p \in Pumps /\ kind = "mapErr" /\ pump[p] = "recv" /\ chan[from[p]] # <<>>
  /\ SetPump(p, "failing", <<>>)
  /\ chan' = [chan EXCEPT ![from[p]] = Tail(@)]
  /\ UNCHANGED <<phase, err, from, last>> /\ refused' = TRUE /\ UNCHANGED <<kind, prod, sent, canceled, seenVars>>

FailOut(p) ==
  /\ pump[p] = "failing"
  /\ CloseWithError(Out, "function")
  /\ SetPump(p, "finish", <<>>)
  /\ UNCHANGED <<chan, from, last>> /\ PumpStep

SourceDrained(p) == chan[from[p]] = <<>> /\ phase[from[p]] = "closed"
SeeEnd(p) ==
  /\ p \in Pumps /\ pump[p] = "recv" /\ SourceDrained(p)
  /\ CASE kind = "concat" /\ from[p] < NumSources ->
            from' = [from EXCEPT ![p] = @ + 1] /\ UNCHANGED <<pump, hand, last>>
       [] kind = "buffer" /\ hand[p] # <<>> ->
            last' = last \cup {p} /\ SetPump(p, "send", hand[p]) /\ UNCHANGED from
       [] OTHER -> SetPump(p, "finish", hand[p]) /\ UNCHANGED <<from, last>>
  /\ UNCHANGED iterVars /\ PumpStep

SeeCanceled(p) ==
  /\ p \in Pumps /\ kind = "merge" /\ canceled /\ pump[p] = "recv"
  /\ SetPump(p, "finish", <<>>)
  /\ UNCHANGED <<iterVars, from, last>> /\ PumpStep

(* Send to Out.  Buffer ignores a refusal and reads on.                     *)
BatchKept(p) == hand[p]
NextBatch(p) == <<>>
AfterSend(p) == IF p \in last THEN "finish" ELSE "recv"
AfterRefusal(p) == IF kind = "buffer" THEN AfterSend(p) ELSE "finish"
PumpChecks(p) ==
  /\ pump[p] = "send" /\ LockFree(Out)
  /\ IF phase[Out] = "closed" THEN SetPump(p, AfterRefusal(p), <<>>)
                              ELSE SetPump(p, "put", hand[p])
  /\ UNCHANGED <<iterVars, from, last>> /\ PumpStep

PumpPuts(p) ==
  /\ pump[p] = "put" /\ CanPut(Out)
  /\ chan' = [chan EXCEPT ![Out] = Append(@, hand[p])]
  /\ SetPump(p, AfterSend(p), NextBatch(p))
  /\ UNCHANGED <<phase, err, from, last>> /\ PumpStep

PumpRefused(p) ==
  /\ pump[p] = "put" /\ IsDone(Out)
  /\ SetPump(p, AfterRefusal(p), <<>>)
  /\ UNCHANGED <<iterVars, from, last>> /\ PumpStep

(* The deferred close of Out: Map, MapErr, Filter and Concat hand on the    *)
(* error of a source, Buffer and Merge do not; Merge waits for all pumps.   *)
PassesErrors == kind \in {"map", "mapErr", "filter", "concat"}
SourceErrorNone == "none"
SourceError ==
  IF PassesErrors /\ \E s \in Used : err[s] # "none"
  THEN err[CHOOSE s \in Used : err[s] # "none" /\ \A t \in Used : t < s => err[t] = "none"]
  ELSE "none"

OthersAndSelf(p) == Pumps
Others(p) == Pumps \ {p}
Finish(p) ==
  /\ pump[p] = "finish" /\ \A s \in Used : LockFree(s)
  /\ SetPump(p, "ended", <<>>)
  /\ IF \E q \in Others(p) : pump[q] # "ended"
     THEN UNCHANGED <<phase, err>>
     ELSE IF SourceError # "none" THEN CloseWithError(Out, SourceError) ELSE Close(Out)
  /\ UNCHANGED <<chan, from, last>> /\ PumpStep

CancelMerge ==
  /\ kind = "merge" /\ ~canceled
  /\ canceled' = TRUE
  /\ UNCHANGED <<kind, iterVars, prod, sent, pumpVars, refused, seenVars>>

-----------------------------------------------------------------------------
ConsumerNext ==
  /\ ~ended
  /\ IF chan[Out] # <<>>
     THEN /\ got' = got \o Head(chan[Out])
          /\ chan' = [chan EXCEPT ![Out] = Tail(@)]
          /\ UNCHANGED ended
     ELSE phase[Out] = "closed" /\ ended' = TRUE /\ UNCHANGED <<got, chan>>
  /\ UNCHANGED <<kind, phase, err, prod, sent, pumpVars, canceled, refused, quit>>

ConsumerCloses ==
  /\ ~quit /\ ~ended
  /\ quit' = TRUE
  /\ Close(Out)
  /\ UNCHANGED <<kind, chan, prod, sent, pumpVars, canceled, refused, got, ended>>

Producer(s) ==
  \/ ProducerChecks(s) \/ ProducerPuts(s) \/ ProducerRefused(s)
  \/ \E fails \in BOOLEAN : ProducerCloses(s, fails)
Pump(p) ==
  \/ Receive(p) \/ ReceiveFails(p) \/ FailOut(p) \/ SeeEnd(p) \/ SeeCanceled(p)
  \/ PumpChecks(p) \/ PumpPuts(p) \/ PumpRefused(p) \/ Finish(p)

Next ==
  \/ \E s \in Sources : Producer(s)
  \/ \E p \in Sources : Pump(p)
  \/ \E i \in Iters : CloseStep(i)
  \/ \E s \in Sources : WatchContext(s)
  \/ CancelMerge
  \/ ConsumerNext
  \/ ConsumerCloses

Spec == Init /\ [][Next]_vars

(* Goroutines are scheduled, producers finish, and the consumer reads on    *)
(* until it closes the stream: WF on each, in MCProgress.                   *)
ConsumerReads == ~quit /\ ConsumerNext

-----------------------------------------------------------------------------
Values == [src : Sources, val : Nat \ {0}]

(* Every variable keeps its type.                                          *)
TypeOK ==
  /\ kind \in Kinds
  /\ \A s \in Sources : chan[s] \in Seq(Values) /\ Len(chan[s]) <= ChanCap
  /\ \A k \in 1..Len(chan[Out]) : chan[Out][k] \in Seq(Values) /\ chan[Out][k] # <<>>
  /\ phase \in [Iters -> {"open", "marked", "signalled", "closed"}]
  /\ err \in [Iters -> {"none", "context", "producer", "function"}]
  /\ prod \in [Sources -> {"idle", "checked", "stopped"}]
  /\ sent \in [Sources -> Nat] /\ \A s \in Sources : sent[s] <= NumValues[s]
  /\ pump \in [Sources -> {"recv", "send", "put", "failing", "finish", "ended"}]
  /\ \A p \in Sources : hand[p] \in Seq(Values) /\ Len(hand[p]) <= BatchSize
  /\ from \in [Sources -> Sources] /\ last \subseteq Sources
  /\ got \in Seq(Values) /\ canceled \in BOOLEAN /\ refused \in BOOLEAN /\ ended \in BOOLEAN /\ quit \in BOOLEAN

Held(s) == IF kind = "merge" THEN hand[s] ELSE hand[1]
OfSource(vs, s) == SelectSeq(vs, LAMBDA v : v.src = s)
Sent(s) == [n \in 1..sent[s] |-> Value(s, n)]
Kept(vs) == IF kind = "filter" THEN SelectSeq(vs, LAMBDA v : ~Filtered(v)) ELSE vs

(* What the consumer has of a source, what is under way and what still     *)
(* waits is, in this order, exactly what Send accepted: nothing lost,      *)
(* doubled or reordered, however sends, closes and pumps interleave.  (A   *)
(* consumer that closes the stream and a cancelled Merge give values up;   *)
(* so does a MapErr whose function failed.)                                *)
NothingLostOrReordered ==
  ~quit /\ ~canceled /\ ~refused =>
    \A s \in Used :
      Kept(OfSource(got \o FlattenSeq(chan[Out]) \o Held(s) \o chan[s], s)) = Kept(Sent(s))

(* Even then, what is delivered is a beginning of what was sent.           *)
DeliveredIsPrefix ==
  \A s \in Used :
    LET d == OfSource(got, s)
        k == Kept(Sent(s))
    IN  Len(d) <= Len(k) /\ \A i \in 1..Len(d) : d[i] = k[i]

(* Concat delivers its sources one after the other.                        *)
ConcatKeepsOrder ==
  kind = "concat" => \A i, j \in 1..Len(got) : i < j => got[i].src <= got[j].src

(* Whatever interleaves, a consumer gets what was sent, in its order.      *)
StreamsKeepOrder == NothingLostOrReordered /\ DeliveredIsPrefix /\ ConcatKeepsOrder

(* A failure upstream is not presented as a clean end of stream, by the    *)
(* transforms that hand errors on.                                         *)
ErrorsSurface ==
  ended /\ ~quit /\ PassesErrors /\ (\E s \in Used : err[s] # "none" /\ phase[s] = "closed")
    => err[Out] # "none"

(* What a comment of the source says of all transforms: "Transforms close  *)
(* their outputs with it so failures surface to consumers instead of       *)
(* presenting as a clean end-of-stream".                                   *)
EveryTransformSurfacesErrors ==
  ended /\ ~quit /\ ~canceled /\ (\E s \in Used : err[s] # "none") => err[Out] # "none"

(* A consumer that reads on gets to the end; a Close releases the Send     *)
(* that is blocked on a full channel nobody reads any more.                *)
ConsumerSeesEnd == ended \/ quit
CloseReleasesSend ==
  \A p \in Sources : (pump[p] = "put" /\ quit) ~> pump[p] # "put"
=============================================================================
