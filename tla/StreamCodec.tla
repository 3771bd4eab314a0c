----------------------------- MODULE StreamCodec -----------------------------
(***************************************************************************)
(* The stateful wire codec of internal/transport/codec: StreamEncoder and  *)
(* StreamDecoder with their per-series state.                              *)
(*                                                                         *)
(* Abstraction.  A seriesState is the timestamp it last saw, Unseen when   *)
(* there is none (not initialized, or no map entry); the value and window  *)
(* registers advance with it.  A point is coded raw (a keyframe) or as the *)
(* difference to the state, and the decoder adds the difference to its own *)
(* state: decoding is right only as long as the two states agree.  A frame *)
(* carries at most one point per series; the bit packing, the dictionary   *)
(* and snappy keep what they are given.                                    *)
(*                                                                         *)
(* A series is what seriesKey makes it, a metric's name and its labels     *)
(* (the attributes): series of one metric differ in their labels.          *)
(***************************************************************************)
EXTENDS Integers, Sequences, FiniteSets, SequencesExt

CONSTANTS Numbers,     \* series that may carry gauge or sum points
          Histograms,  \* series that may carry histogram points
          MaxSeries    \* maxSeries, the cap on series with state

ASSUME CodecAssumption ==
  /\ IsFiniteSet(Numbers) /\ IsFiniteSet(Histograms)
  /\ \A s \in Numbers \cup Histograms : s = [name |-> s.name, labels |-> s.labels]
  /\ MaxSeries \in Nat

Series == Numbers \cup Histograms

(* A point of a batch: the series it belongs to and the kind it comes as. *)
Point == {[series |-> s, kind |-> "number"] : s \in Numbers}
           \cup {[series |-> s, kind |-> "histogram"] : s \in Histograms}

Unseen == 0

(* NewStreamEncoder, NewStreamDecoder and Reset. *)
Fresh == [s \in Series |-> Unseen]

Known(st) == {s \in Series : st[s] # Unseen}

-----------------------------------------------------------------------------
(* One point at time t: a number series beyond the cap is coded without    *)
(* state, a histogram series always has one.                               *)
EncodePoint(acc, p, t) ==
  LET stateless == p.kind = "number" /\ Cardinality(Known(acc.enc)) >= MaxSeries
      last      == IF stateless THEN Unseen ELSE acc.enc[p.series]
  IN [enc |-> IF stateless THEN acc.enc ELSE [acc.enc EXCEPT ![p.series] = t],
      out |-> Append(acc.out, [series |-> p.series, kind |-> p.kind,
                               key |-> last = Unseen, val |-> t - last])]

(* EncodeFrame: the points of batch b at time t against state st, one      *)
(* after the other.                                                        *)
EncodeSteps(st, b, t) ==
  LET acc[i \in 0 .. Len(b)] ==
        IF i = 0 THEN [enc |-> st, out |-> << >>] ELSE EncodePoint(acc[i - 1], b[i], t)
  IN acc

EncodeFrame(st, b, t) == EncodeSteps(st, b, t)[Len(b)]

-----------------------------------------------------------------------------
(* The series of the rebuilt point.  The labels of the wire go into sums   *)
(* and gauges only; a histogram's point comes out without any.             *)
Rebuilt(f) == IF f.kind = "histogram" THEN [name |-> f.series.name, labels |-> {}]
              ELSE f.series

(* Mutant: a raw point of a known series is taken for a difference. *)
DecodePointAdds(acc, f) ==
  LET t == acc.dec[f.series] + f.val
  IN IF ~acc.ok \/ (~f.key /\ acc.dec[f.series] = Unseen)
     THEN [acc EXCEPT !.ok = FALSE]
     ELSE [acc EXCEPT !.dec[f.series] = t,
                      !.out = Append(@, [series |-> Rebuilt(f), time |-> t])]

(* A difference to a series never seen is the one decoding error.          *)
DecodePoint(acc, f) ==
  LET t == IF f.key THEN f.val ELSE acc.dec[f.series] + f.val
  IN IF ~acc.ok \/ (~f.key /\ acc.dec[f.series] = Unseen)
     THEN [acc EXCEPT !.ok = FALSE]
     ELSE [acc EXCEPT !.dec[f.series] = t,
                      !.out = Append(@, [series |-> Rebuilt(f), time |-> t])]

(* DecodeFrame: the first error ends it; the series before it are kept. *)
DecodeSteps(st, pts) ==
  LET acc[i \in 0 .. Len(pts)] ==
        IF i = 0 THEN [dec |-> st, ok |-> TRUE, out |-> << >>]
        ELSE DecodePoint(acc[i - 1], pts[i])
  IN acc

DecodeFrame(st, pts) == DecodeSteps(st, pts)[Len(pts)]
=============================================================================
