------------------------------- MODULE Pipeline -------------------------------
(***************************************************************************)
(* The driver of the data path (internal/pipeline): Receiver -> batch ->   *)
(* sampling -> assemble -> sink, where the sink is WAL.Append or, without  *)
(* a WAL, ExportBatch.  Pipeline.Run is one goroutine; the plugins send to *)
(* its channel and the WAL consumer sets the degraded flag at any time.    *)
(*                                                                         *)
(* Abstraction.  An event is its number; a metric is its name, its OTLP    *)
(* kind and the events its data points stand for, in order; the events of  *)
(* a name have the same attributes.  Aggregation keeps the events a        *)
(* summary stands for, and time is a choice of whether the window has      *)
(* elapsed.  stored and lost are history.                                  *)
(***************************************************************************)
EXTENDS Integers, Sequences, FiniteSets, SequencesExt

CONSTANTS Gauges,      \* names whose events are gauges
          Sums,        \* names whose events are delta sums
          Modes,       \* sampling modes: "off", "auto", "always"
          MaxBatch,    \* b.maxBatch
          MaxPending,  \* b.maxPending
          ChanCap,     \* capacity of the event channel
          MaxEvent,    \* bound: number of events
          MaxFail      \* bound: number of errors the sink returns

ASSUME PipelineAssumption ==
  /\ Modes \subseteq {"off", "auto", "always"}
  /\ {MaxBatch, MaxPending, ChanCap} \subseteq Nat \ {0}
  /\ {MaxEvent, MaxFail} \subseteq Nat

Name == Gauges \cup Sums
Event == 1 .. MaxEvent

VARIABLES
  mode,      \* s.mode
  chan,      \* the event channel
  closed,    \* Manager.Stop has closed it
  stop,      \* p.stop is closed
  pc,        \* where Pipeline.Run is
  pending,   \* b.pending
  window,    \* the window of s.agg, "none" when s.agg is nil
  agg,       \* the series of s.agg, in order
  force,     \* s.force
  tail,      \* the local out of emitTail
  degraded,  \* p.degraded
  named,     \* the name of each event sent so far
  taken,     \* number of events received from the channel
  stored, lost, fails

plugins == <<chan, closed, named>>
sampling == <<window, agg, force>>
history == <<stored, lost, fails>>
vars == <<mode, plugins, stop, pc, pending, sampling, tail, degraded, taken, history>>

Item == [name : Name, kind : {"gauge", "sum", "histogram"}, events : Seq(Event)]
Cause == {"overflow", "merge", "marshal", "sink"}

TypeOK ==
  /\ mode \in Modes
  /\ Len(chan) <= ChanCap
  /\ pc \in {"run", "flush", "sample", "emit", "done"}
  /\ pending \in Seq(Item) /\ Len(pending) <= MaxPending
  /\ agg \in Seq(Item) /\ tail \in Seq(Item)
  /\ window \in {"none", "summary", "degraded"}
  /\ {closed, stop, force, degraded} \subseteq BOOLEAN
  /\ named \in Seq(Name) /\ taken \in 0 .. Len(named)
  /\ stored \in Seq(Event)
  /\ lost \in [Cause -> SUBSET Event]
  /\ fails \in 0 .. MaxFail

Init ==
  /\ mode \in Modes
  /\ chan = << >> /\ closed = FALSE /\ stop = FALSE
  /\ pc = "run"
  /\ pending = << >>
  /\ window = "none" /\ agg = << >> /\ force = FALSE
  /\ tail = << >>
  /\ degraded = FALSE
  /\ named = << >> /\ taken = 0
  /\ stored = << >> /\ lost = [c \in Cause |-> {}] /\ fails = 0

EventsOf(items) == UNION {ToSet(items[i].events) : i \in DOMAIN items}
Lost == UNION {lost[c] : c \in Cause}

(* Receiver.Convert: one metric with one data point. *)
Convert(e) == [name |-> named[e], kind |-> IF named[e] \in Gauges THEN "gauge" ELSE "sum",
               events |-> <<e>>]

-----------------------------------------------------------------------------
(* BatchProcessor. *)

(* Mutant: the queue is cut one item too late. *)
NewestLate(items) ==
  IF Len(items) > MaxPending + 1
  THEN SubSeq(items, Len(items) - MaxPending, Len(items)) ELSE items

(* Beyond maxPending the oldest items are dropped. *)
Newest(items) ==
  IF Len(items) > MaxPending
  THEN SubSeq(items, Len(items) - MaxPending + 1, Len(items)) ELSE items

Overflow(items) ==
  EventsOf(SubSeq(items, 1, Len(items) - Len(Newest(items)))) \ EventsOf(Newest(items))

(* Requeue: the failed batch goes to the front. *)
Requeue(items, rest) == items \o rest

-----------------------------------------------------------------------------
(* aggregate.Aggregator. *)

(* Add: one series per name, attributes and kind, in the order first seen. *)
Add(series, m) ==
  IF \E i \in DOMAIN series : series[i].name = m.name /\ series[i].kind = m.kind
  THEN [i \in DOMAIN series |->
          IF series[i].name = m.name /\ series[i].kind = m.kind
          THEN [series[i] EXCEPT !.events = @ \o m.events] ELSE series[i]]
  ELSE Append(series, m)

(* The metrics of a batch, one after the other. *)
AddAll(series, items) ==
  LET acc[i \in 0 .. Len(items)] ==
        IF i = 0 THEN series ELSE Add(acc[i - 1], items[i])
  IN acc[Len(items)]

(* build: a gauge's summary is a histogram, other kinds keep theirs. *)
Build(m) == [m EXCEPT !.kind = IF @ = "gauge" THEN "histogram" ELSE @]
Flush(series) == [i \in DOMAIN series |-> Build(series[i])]

-----------------------------------------------------------------------------
(* SamplingProcessor. *)

EffectiveWindow ==
  CASE mode = "off"    -> "none"
    [] mode = "always" -> "summary"
    [] mode = "auto"   -> IF degraded THEN "degraded" ELSE "none"

(* What a change to window w emits: the partial window of the old size. *)
Carried(w) == IF window # w THEN Flush(agg) ELSE << >>

(* Mutant: a flush leaves the series in the window. *)
LeftAll(fire, series) == series

(* Flush resets the window. *)
Left(fire, series) == IF fire THEN << >> ELSE series

(* Mutants: the batch goes before the rest of the window, or the rest is   *)
(* forgotten.                                                              *)
PassThroughFirst(items) == items \o Flush(agg)
PassThroughOnly(items) == items

(* Back in pass-through: the rest of the window, then the batch. *)
PassThrough(items) == Flush(agg) \o items

(* Process: passes the batch through, behind what is left in the window,   *)
(* or adds it to the window, which is emitted when it has elapsed or by    *)
(* force.  force is taken only if the window is not due.                   *)
Process(items, due) ==
  LET w       == EffectiveWindow
      full    == AddAll(IF window = w THEN agg ELSE << >>, items)
      elapsed == due /\ full # << >>
      fire    == elapsed \/ force
  IN IF w = "none"
     THEN [out |-> PassThrough(items), agg |-> << >>, window |-> window, force |-> force]
     ELSE [out    |-> Carried(w) \o (IF fire THEN Flush(full) ELSE << >>),
           agg    |-> Left(fire, full),
           window |-> w,
           force  |-> force /\ elapsed]

-----------------------------------------------------------------------------
(* AssembleExportRequest. *)

IsFirst(items, i) == \A j \in 1 .. i - 1 : items[j].name # items[i].name

(* The data points of item i after merging: its own, and those of the      *)
(* later items of its name and kind, which mergeDataPoints appends.        *)
Absorbed(items, i) ==
  FlattenSeq([j \in DOMAIN items |->
    IF j >= i /\ items[j].name = items[i].name /\ items[j].kind = items[i].kind
    THEN items[j].events ELSE << >>])

(* The items after the call: merging changes the first metric of a name in *)
(* place, and the others stay as they were.                                *)
Merged(items) ==
  [i \in DOMAIN items |->
     IF IsFirst(items, i) THEN [items[i] EXCEPT !.events = Absorbed(items, i)]
     ELSE items[i]]

(* The data points of the request. *)
Content(items) ==
  FlattenSeq([i \in DOMAIN items |->
    IF IsFirst(items, i) THEN Absorbed(items, i) ELSE << >>])

-----------------------------------------------------------------------------
(* Pipeline.emit of batch items, with rest left in the batcher and the     *)
(* losses l so far.                                                        *)

Losing(l, c, events) == [l EXCEPT ![c] = @ \cup events]

(* The request cannot be marshalled (a string that is not UTF-8): it is    *)
(* dropped, and nothing is requeued.                                       *)
Discard(out, rest, l) ==
  /\ lost' = Losing(l, "marshal", EventsOf(out))
  /\ pending' = rest
  /\ UNCHANGED <<stored, fails>>

(* The sink takes the request. *)
Store(out, rest, l) ==
  /\ stored' = stored \o Content(out)
  /\ lost' = Losing(l, "merge", EventsOf(out) \ ToSet(Content(out)))
  /\ pending' = rest
  /\ UNCHANGED fails

(* The sink fails: the batch is requeued, as merging has left it when it   *)
(* was passed through; what sampling had put before it is gone.            *)
Refuse(items, out, series, rest, l) ==
  LET again == IF EffectiveWindow = "none"
               THEN SubSeq(Merged(out), Len(out) - Len(items) + 1, Len(out))
               ELSE items
      queue == Requeue(again, rest)
      gone  == EventsOf(out) \ (EventsOf(again) \cup EventsOf(series))
  IN /\ fails < MaxFail
     /\ fails' = fails + 1
     /\ pending' = Newest(queue)
     /\ lost' = Losing(Losing(l, "overflow", Overflow(queue)), "sink", gone)
     /\ UNCHANGED stored

Emit(items, rest, l) ==
  IF items = << >>
  THEN pending' = rest /\ lost' = l /\ UNCHANGED <<sampling, stored, fails>>
  ELSE \E due \in BOOLEAN :
         LET p == Process(items, due)
         IN /\ window' = p.window /\ agg' = p.agg /\ force' = p.force
            /\ IF p.out = << >>
                 THEN pending' = rest /\ lost' = l /\ UNCHANGED <<stored, fails>>
                 ELSE \/ Discard(p.out, rest, l) \/ Store(p.out, rest, l)
                      \/ Refuse(items, p.out, p.agg, rest, l)

-----------------------------------------------------------------------------
(* The plugins, Core.Run and the WAL consumer. *)

Send ==
  /\ ~closed
  /\ Len(named) < MaxEvent
  /\ Len(chan) < ChanCap
  /\ \E n \in Name : named' = Append(named, n)
  /\ chan' = Append(chan, Len(named'))
  /\ UNCHANGED <<mode, closed, stop, pc, pending, sampling, tail, degraded, taken, history>>

(* Core.Run stops the plugins first, then the pipeline. *)
CloseEvents ==
  /\ ~closed
  /\ closed' = TRUE
  /\ UNCHANGED <<mode, chan, named, stop, pc, pending, sampling, tail, degraded, taken, history>>

Shutdown ==
  /\ closed /\ ~stop
  /\ stop' = TRUE
  /\ UNCHANGED <<mode, plugins, pc, pending, sampling, tail, degraded, taken, history>>

(* onPressure. *)
Backpressure ==
  /\ mode = "auto"
  /\ degraded' = ~degraded
  /\ UNCHANGED <<mode, plugins, stop, pc, pending, sampling, tail, taken, history>>

-----------------------------------------------------------------------------
(* Pipeline.Run: the select picks any ready case. *)

(* An event: batcher.Process, then emit when the batch is full. *)
Receive ==
  LET more  == Append(pending, Convert(Head(chan)))
      queue == Newest(more)
      l     == Losing(lost, "overflow", Overflow(more))
  IN /\ pc = "run"
     /\ chan # << >>
     /\ chan' = Tail(chan)
     /\ taken' = Head(chan)
     /\ IF Len(queue) >= MaxBatch
          THEN Emit(queue, << >>, l)
          ELSE pending' = queue /\ lost' = l /\ UNCHANGED <<sampling, stored, fails>>
     /\ UNCHANGED <<mode, closed, named, stop, pc, tail, degraded>>

Tick ==
  /\ pc = "run"
  /\ Emit(pending, << >>, lost)
  /\ UNCHANGED <<mode, plugins, stop, pc, tail, degraded, taken>>

(* The channel is closed and empty, or p.stop is closed, whatever the      *)
(* channel still holds: emitTail begins with ForceFlush.                   *)
Ending ==
  /\ pc = "run"
  /\ stop \/ (closed /\ chan = << >>)
  /\ force' = TRUE
  /\ pc' = "flush"
  /\ UNCHANGED <<mode, plugins, stop, pending, window, agg, tail, degraded, taken, history>>

-----------------------------------------------------------------------------
(* emitTail, one step per call of sampling.Process, which reads the flag.  *)

(* Mutant: the tail flush leaves the batcher alone. *)
FlushBatcherNot ==
  /\ pc = "flush"
  /\ pc' = "sample"
  /\ UNCHANGED <<mode, plugins, stop, pending, sampling, tail, degraded, taken, history>>

(* Emit what the batcher holds. *)
FlushBatcher ==
  /\ pc = "flush"
  /\ Emit(pending, << >>, lost)
  /\ pc' = "sample"
  /\ UNCHANGED <<mode, plugins, stop, tail, degraded, taken>>

(* sampling.Process(ctx, nil): the window, if force is still set. *)
FlushWindow ==
  /\ pc = "sample"
  /\ \E due \in BOOLEAN :
       LET p == Process(<< >>, due)
       IN /\ window' = p.window /\ agg' = p.agg /\ force' = p.force
          /\ tail' = p.out
          /\ pc' = IF p.out = << >> THEN "done" ELSE "emit"
  /\ UNCHANGED <<mode, plugins, stop, pending, degraded, taken, history>>

(* emit of that window, which passes through the sampling stage again. *)
EmitWindow ==
  /\ pc = "emit"
  /\ Emit(tail, pending, lost)
  /\ tail' = << >>
  /\ pc' = "done"
  /\ UNCHANGED <<mode, plugins, stop, degraded, taken>>

Done == pc = "done" /\ UNCHANGED vars

Next ==
  \/ Send \/ CloseEvents \/ Shutdown \/ Backpressure
  \/ Receive \/ Tick \/ Ending
  \/ FlushBatcher \/ FlushWindow \/ EmitWindow \/ Done

Spec == Init /\ [][Next]_vars

-----------------------------------------------------------------------------
(* No event received from the channel vanishes unseen: it was stored, it   *)
(* waits in the batcher, the window or the tail, or it was given up by a   *)
(* step that names the loss (queue overflow, kinds that do not merge, a    *)
(* request that cannot be marshalled, an aggregate the sink refused),      *)
(* across batching, window changes, requeues and the tail flush.           *)
Conserved ==
  1 .. taken \subseteq
    ToSet(stored) \cup EventsOf(pending) \cup EventsOf(agg) \cup EventsOf(tail) \cup Lost

(* As long as the sink never failed, no event is stored twice.             *)
AtMostOnce ==
  fails = 0 => \A i, j \in DOMAIN stored : stored[i] = stored[j] => i = j

(* Events of one name reach the sink in the order they were received: an   *)
(* event stored behind a later one was stored before it, too.              *)
InOrder ==
  \A j \in DOMAIN stored : \A i \in 1 .. j - 1 :
    named[stored[i]] = named[stored[j]] /\ stored[j] < stored[i]
      => \E k \in 1 .. i - 1 : stored[k] = stored[j]

(* Run ends with nothing in the batcher unless the sink has failed.        *)
Drained == pc = "done" /\ fails = 0 => pending = << >>

(* pipeline.go: emitTail forces the sampling window to emit its partial    *)
(* aggregation, so shutdown does not lose in-window data.                  *)
TailFlushed == pc = "done" => agg = << >>
=============================================================================
