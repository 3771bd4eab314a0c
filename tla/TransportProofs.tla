--------------------------- MODULE TransportProofs ---------------------------
(***************************************************************************)
(* Proofs about module Transport: the codec's round trip for every batch   *)
(* and every pair of states that agree, and from it that the server never  *)
(* meets a frame it cannot decode (NoResync), that the points it decodes   *)
(* are the points sent (Faithful), and that a connection carries one       *)
(* stream (SingleStream).                                                  *)
(***************************************************************************)
EXTENDS Transport, DataInduction, FiniteSetTheorems, SequenceTheorems

Coded == [series : Series, kind : {"number", "histogram"}, key : BOOLEAN, val : Int]
Decoded == [series : {Rebuilt(c) : c \in Coded}, time : Int]

(* The cap on the encoder's series is reached. *)
Capped(e) == Cardinality(Known(e)) >= MaxSeries

(* No series comes both as numbers and as histograms, or the cap is out of *)
(* reach.                                                                  *)
KindsKept == Numbers \cap Histograms = {} \/ Cardinality(Series) < MaxSeries

(* The decoder's state d serves the encoder's state e: it has seen every   *)
(* series that e has, and what it saw last is what e saw last, except for  *)
(* series that the encoder codes without state from now on.                *)
Agree(e, d) ==
  \A s \in Series : e[s] # Unseen =>
    /\ d[s] >= e[s]
    /\ KindsKept => d[s] = e[s] \/ (s \notin Histograms /\ Capped(e))

-----------------------------------------------------------------------------
(* The series with state are finitely many, and a series gains state but   *)
(* never loses it.                                                         *)
LEMMA KnownGrows ==
  ASSUME NEW e \in [Series -> Nat], NEW s \in Series, NEW t \in Nat \ {0}
  PROVE  /\ Capped(e) => Capped([e EXCEPT ![s] = t])
         /\ Capped(e) => ~(Cardinality(Series) < MaxSeries)
<1> DEFINE x == [e EXCEPT ![s] = t]
<1>1. IsFiniteSet(Series)
  BY CodecAssumption, FS_Union DEF Series
<1>2. Known(e) \subseteq Known(x) /\ Known(x) \subseteq Series /\ Known(e) \subseteq Series
  BY DEF Known, Unseen
<1>3. /\ IsFiniteSet(Known(x)) /\ IsFiniteSet(Known(e))
      /\ Cardinality(Known(e)) <= Cardinality(Known(x))
      /\ Cardinality(Known(e)) <= Cardinality(Series)
  BY <1>1, <1>2, FS_Subset
<1>4. /\ Cardinality(Known(e)) \in Nat /\ Cardinality(Known(x)) \in Nat
      /\ Cardinality(Series) \in Nat /\ MaxSeries \in Nat
  BY <1>1, <1>3, FS_CardinalityType, CodecAssumption
<1> QED
  BY <1>3, <1>4 DEF Capped

(* A point coded against state x, and what it does to the state. *)
Stateful(x, s, t, y, c) ==
  /\ s \in Histograms \/ ~Capped(x)
  /\ y = [x EXCEPT ![s] = t]
  /\ c.key = (x[s] = Unseen)
  /\ c.val = t - x[s]

Stateless(x, s, t, y, c) ==
  /\ s \in Numbers
  /\ Capped(x)
  /\ y = x
  /\ c.key = TRUE
  /\ c.val = t

CodedPoint(x, p, t, y, c) ==
  /\ c \in Coded
  /\ c.series = p.series /\ c.kind = p.kind
  /\ Stateful(x, p.series, t, y, c) \/ Stateless(x, p.series, t, y, c)

EncAcc(V) == [enc : [Series -> V], out : Seq(Coded)]

(* EncodePoint appends one coded point. *)
LEMMA EncodePointAppends ==
  ASSUME NEW V \in SUBSET Nat, NEW t \in V, NEW a \in EncAcc(V), NEW p \in Point
  PROVE  \E c \in Coded :
           /\ EncodePoint(a, p, t).out = Append(a.out, c)
           /\ CodedPoint(a.enc, p, t, EncodePoint(a, p, t).enc, c)
           /\ EncodePoint(a, p, t) \in EncAcc(V)
<1> DEFINE stateless == p.kind = "number" /\ Capped(a.enc)
           last == IF stateless THEN Unseen ELSE a.enc[p.series]
           key  == last = Unseen
           c    == [series |-> p.series, kind |-> p.kind, key |-> key, val |-> t - last]
           y    == IF stateless THEN a.enc ELSE [a.enc EXCEPT ![p.series] = t]
<1>1. EncodePoint(a, p, t) = [enc |-> y, out |-> Append(a.out, c)]
  BY DEF EncodePoint, Capped
<1>2. /\ p.series \in Series /\ p.kind \in {"number", "histogram"}
      /\ p.kind = "number" => p.series \in Numbers
      /\ p.kind # "number" => p.series \in Histograms
  BY DEF Point, Series
<1>3. last \in Nat /\ key \in BOOLEAN /\ y \in [Series -> V]
  BY <1>2 DEF EncAcc, Unseen
<1>4. c \in Coded
  <2> HIDE DEF key, last
  <2> QED
    BY <1>2, <1>3 DEF Coded
<1>5. CodedPoint(a.enc, p, t, y, c)
  <2>1. CASE stateless
    <3>1. last = Unseen
      BY <2>1
    <3>2. key = TRUE
      BY <3>1
    <3> HIDE DEF key
    <3>3. c.key = TRUE
      BY <3>2
    <3>4. c.val = t
      <4>1. c.val = t - last
        OBVIOUS
      <4> QED
        BY <4>1, <3>1 DEF Unseen
    <3>5. p.series \in Numbers /\ Capped(a.enc) /\ y = a.enc
      BY <2>1, <1>2
    <3>6. c.series = p.series /\ c.kind = p.kind
      OBVIOUS
    <3> HIDE DEF c, y
    <3> QED
      BY <3>3, <3>4, <3>5, <3>6, <1>4 DEF CodedPoint, Stateless
  <2>2. CASE ~stateless
    BY <2>2, <1>2, <1>4 DEF CodedPoint, Stateful
  <2> QED
    BY <2>1, <2>2
<1>6. [enc |-> y, out |-> Append(a.out, c)] \in EncAcc(V)
  <2> HIDE DEF c, y
  <2>1. Append(a.out, c) \in Seq(Coded)
    BY <1>4 DEF EncAcc
  <2> QED
    BY <2>1, <1>3 DEF EncAcc
<1> QED
  <2> HIDE DEF c, y
  <2>1. /\ EncodePoint(a, p, t).out = Append(a.out, c)
        /\ EncodePoint(a, p, t).enc = y
    BY <1>1
  <2> QED
    BY <2>1, <1>1, <1>4, <1>5, <1>6, Zenon

(* The states EncodeFrame goes through. *)
LEMMA EncodeStepsRun ==
  ASSUME NEW V \in SUBSET Nat, NEW t \in V, NEW st \in [Series -> V], NEW b \in Seq(Point)
  PROVE  /\ EncodeSteps(st, b, t) \in [0 .. Len(b) -> EncAcc(V)]
         /\ EncodeSteps(st, b, t)[0] = [enc |-> st, out |-> << >>]
         /\ \A i \in 1 .. Len(b) :
              EncodeSteps(st, b, t)[i] = EncodePoint(EncodeSteps(st, b, t)[i - 1], b[i], t)
<1> DEFINE D == EncAcc(V)
           z == [enc |-> st, out |-> << >>]
           G(g) == [i \in 0 .. Len(b) |-> IF i = 0 THEN z ELSE EncodePoint(g[i - 1], b[i], t)]
           F == [i \in Nat |-> [a \in D |-> IF i \in 1 .. Len(b)
                                            THEN EncodePoint(a, b[i], t) ELSE a]]
           f == EncodeSteps(st, b, t)
<1>1. Len(b) \in Nat /\ z \in D
  BY DEF EncAcc
<1>2. F \in [Nat -> [D -> D]]
  <2>1. \A i \in 1 .. Len(b) : b[i] \in Point
    OBVIOUS
  <2>2. ASSUME NEW i \in 1 .. Len(b), NEW a \in D
        PROVE  EncodePoint(a, b[i], t) \in D
    BY <2>1, EncodePointAppends
  <2> QED
    BY <2>2
<1>3. PICK g \in [0 .. Len(b) -> D] : Runs(g, Len(b), z, F)
  <2> HIDE DEF D, F, z
  <2> QED
    BY <1>1, <1>2, Recursion, Zenon
<1>4. ASSUME NEW i \in 1 .. Len(b)
      PROVE  g[i] = EncodePoint(g[i - 1], b[i], t)
  <2>1. i - 1 \in 0 .. Len(b) /\ i \in Nat
    OBVIOUS
  <2>2. g[i - 1] \in D
    BY <2>1
  <2>3. g[i] = F[i][g[i - 1]]
    BY <1>3 DEF Runs
  <2> QED
    BY <2>1, <2>2, <2>3
<1>5. g = G(g)
  BY <1>4, <1>3 DEF Runs
<1>6. f = CHOOSE h : h = G(h)
  BY DEF EncodeSteps
<1>7. f = G(f)
  BY <1>5, <1>6, Zenon
<1>8. f \in [0 .. Len(b) -> D]
  <2> HIDE DEF f, D
  <2> DEFINE S == {i \in 0 .. Len(b) : f[i] = g[i]}
  <2>1. 0 \in S
    BY <1>3, <1>7 DEF Runs
  <2>2. \A i \in 1 .. Len(b) : i - 1 \in S => i \in S
    BY <1>4, <1>7, SMTT(60)
  <2>3. 0 .. Len(b) \subseteq S
    <3> HIDE DEF S
    <3> QED
      BY <1>1, <2>1, <2>2, Upward
  <2>4. \A i \in 0 .. Len(b) : f[i] = g[i]
    BY <2>3
  <2>5. f = [i \in 0 .. Len(b) |-> f[i]]
    BY <1>7
  <2> QED
    BY <2>4, <2>5
<1> QED
  <2> HIDE DEF f
  <2>1. f[0] = z
    BY <1>7
  <2>2. \A i \in 1 .. Len(b) : f[i] = EncodePoint(f[i - 1], b[i], t)
    BY <1>7, SMTT(60)
  <2> QED
    BY <1>8, <2>1, <2>2 DEF f

-----------------------------------------------------------------------------
DecAcc == [dec : [Series -> Int], ok : BOOLEAN, out : Seq(Decoded)]

(* The two outcomes of DecodePoint. *)
LEMMA DecodePointCases ==
  ASSUME NEW a \in DecAcc, NEW c \in Coded,
         NEW t, t = IF c.key THEN c.val ELSE a.dec[c.series] + c.val
  PROVE  /\ ~a.ok \/ (~c.key /\ a.dec[c.series] = Unseen)
              => DecodePoint(a, c) = [a EXCEPT !.ok = FALSE]
         /\ a.ok /\ (c.key \/ a.dec[c.series] # Unseen)
              => DecodePoint(a, c) =
                   [dec |-> [a.dec EXCEPT ![c.series] = t], ok |-> a.ok,
                    out |-> Append(a.out, [series |-> Rebuilt(c), time |-> t])]
         /\ t \in Int
<1>1. c.key \in BOOLEAN /\ c.val \in Int /\ c.series \in Series
  BY DEF Coded
<1>2. t \in Int
  BY <1>1 DEF DecAcc
<1>3. ASSUME ~a.ok \/ (~c.key /\ a.dec[c.series] = Unseen)
      PROVE  DecodePoint(a, c) = [a EXCEPT !.ok = FALSE]
  BY <1>3 DEF DecodePoint
<1>4. ASSUME a.ok, c.key \/ a.dec[c.series] # Unseen
      PROVE  DecodePoint(a, c) =
               [dec |-> [a.dec EXCEPT ![c.series] = t], ok |-> a.ok,
                out |-> Append(a.out, [series |-> Rebuilt(c), time |-> t])]
  <2>1. DecodePoint(a, c) =
          [a EXCEPT !.dec[c.series] = t,
                    !.out = Append(@, [series |-> Rebuilt(c), time |-> t])]
    BY <1>4 DEF DecodePoint
  <2>2. a = [dec |-> a.dec, ok |-> a.ok, out |-> a.out]
    BY DEF DecAcc
  <2> QED
    BY <2>1, <2>2
<1> QED
  BY <1>2, <1>3, <1>4

(* DecodePoint keeps the type of its accumulator. *)
LEMMA DecodePointType ==
  ASSUME NEW a \in DecAcc, NEW c \in Coded
  PROVE  DecodePoint(a, c) \in DecAcc
<1> DEFINE t == IF c.key THEN c.val ELSE a.dec[c.series] + c.val
           bad == ~a.ok \/ (~c.key /\ a.dec[c.series] = Unseen)
<1>1. c.series \in Series
  BY DEF Coded
<1>2. CASE bad
  <2>1. DecodePoint(a, c) = [a EXCEPT !.ok = FALSE]
    BY <1>2, DecodePointCases
  <2>2. [a EXCEPT !.ok = FALSE] \in DecAcc
    BY DEF DecAcc
  <2> QED
    BY <2>1, <2>2
<1>3. CASE ~bad
  <2>1. /\ DecodePoint(a, c) =
              [dec |-> [a.dec EXCEPT ![c.series] = t], ok |-> a.ok,
               out |-> Append(a.out, [series |-> Rebuilt(c), time |-> t])]
        /\ t \in Int
    BY <1>3, DecodePointCases
  <2> HIDE DEF t
  <2>2. [series |-> Rebuilt(c), time |-> t] \in Decoded
    BY <2>1 DEF Decoded
  <2>3. Append(a.out, [series |-> Rebuilt(c), time |-> t]) \in Seq(Decoded)
    BY <2>2 DEF DecAcc
  <2>4. [a.dec EXCEPT ![c.series] = t] \in [Series -> Int]
    BY <2>1 DEF DecAcc
  <2>5. a.ok \in BOOLEAN
    BY DEF DecAcc
  <2> QED
    BY <2>1, <2>3, <2>4, <2>5 DEF DecAcc
<1> QED
  BY <1>2, <1>3

(* One point's round trip: coded against a state the decoder agrees with,  *)
(* it is decoded to the time it was coded from, and the states still agree.*)
LEMMA PointRoundTrip ==
  ASSUME NEW x \in [Series -> Nat], NEW y \in [Series -> Nat], NEW p \in Point,
         NEW t \in Nat \ {0}, NEW c, CodedPoint(x, p, t, y, c),
         \A r \in Series : x[r] <= t,
         NEW a \in DecAcc, a.ok = TRUE, Agree(x, a.dec)
  PROVE  \E u \in Int :
           /\ DecodePoint(a, c).ok = TRUE
           /\ DecodePoint(a, c).out = Append(a.out, [series |-> Rebuilt(p), time |-> u])
           /\ KindsKept => u = t
           /\ Agree(y, DecodePoint(a, c).dec)
           /\ \A r \in Series : y[r] <= t
<1> DEFINE s == p.series
           u == IF c.key THEN c.val ELSE a.dec[c.series] + c.val
           d == [a.dec EXCEPT ![s] = u]
<1>1. c \in Coded /\ c.series = s /\ s \in Series /\ Rebuilt(c) = Rebuilt(p)
  BY DEF CodedPoint, Rebuilt, Point, Series
<1> HIDE DEF s
<1>2. CASE Stateful(x, s, t, y, c)
  <2>1. c.key \/ a.dec[s] # Unseen
    <3>1. CASE x[s] = Unseen
      BY <1>2, <3>1 DEF Stateful
    <3>2. CASE x[s] # Unseen
      BY <1>1, <3>2 DEF Agree, Unseen, DecAcc
    <3> QED
      BY <3>1, <3>2
  <2>2. /\ u \in Int /\ u >= t
        /\ KindsKept => u = t
    <3>1. CASE x[s] = Unseen
      <4>1. c.key = TRUE
        BY <1>2, <3>1 DEF Stateful
      <4>2. c.val = t - x[s]
        BY <1>2 DEF Stateful
      <4>3. u = t
        BY <4>1, <4>2, <3>1 DEF Unseen
      <4> QED
        BY <4>3
    <3>2. CASE x[s] # Unseen
      <4>1. c.key = FALSE /\ c.val = t - x[s]
        BY <1>2, <3>2 DEF Stateful
      <4>2. u = a.dec[s] + (t - x[s]) /\ a.dec[s] \in Int /\ x[s] \in Nat
        BY <4>1, <1>1 DEF DecAcc
      <4>3. a.dec[s] >= x[s] /\ (KindsKept => a.dec[s] = x[s])
        BY <1>2, <3>2 DEF Agree, Stateful
      <4> QED
        BY <4>2, <4>3
    <3> QED
      BY <3>1, <3>2
  <2>3. Agree(y, d)
    <3> HIDE DEF u
    <3>1. y = [x EXCEPT ![s] = t]
      BY <1>2 DEF Stateful
    <3>2. Capped(x) => Capped(y)
      BY <3>1, KnownGrows
    <3>3. ASSUME NEW r \in Series, y[r] # Unseen
          PROVE  /\ d[r] >= y[r]
                 /\ KindsKept => d[r] = y[r] \/ (r \notin Histograms /\ Capped(y))
      <4>1. CASE r = s
        BY <4>1, <3>1, <2>2 DEF DecAcc
      <4>2. CASE r # s
        BY <4>2, <3>1, <3>2, <3>3 DEF DecAcc, Agree
      <4> QED
        BY <4>1, <4>2
    <3> QED
      BY <3>3 DEF Agree
  <2>4. \A r \in Series : y[r] <= t
    BY <1>2 DEF Stateful
  <2> QED
    <3>1. DecodePoint(a, c) = [dec |-> d, ok |-> a.ok,
                               out |-> Append(a.out, [series |-> Rebuilt(p), time |-> u])]
      BY <2>1, <1>1, DecodePointCases
    <3> HIDE DEF d, u
    <3> QED
      BY <3>1, <2>2, <2>3, <2>4, SMTT(60)
<1>3. CASE Stateless(x, s, t, y, c)
  <2>1. c.key = TRUE /\ u = t /\ y = x /\ Capped(x) /\ s \in Numbers
    BY <1>3 DEF Stateless
  <2>2. Agree(y, d)
    <3>1. ~(Cardinality(Series) < MaxSeries)
      BY <1>1, <2>1, KnownGrows
    <3>2. KindsKept => s \notin Histograms
      BY <2>1, <3>1 DEF KindsKept
    <3> HIDE DEF u
    <3>3. ASSUME NEW r \in Series, y[r] # Unseen
          PROVE  /\ d[r] >= y[r]
                 /\ KindsKept => d[r] = y[r] \/ (r \notin Histograms /\ Capped(y))
      <4>1. CASE r = s
        BY <4>1, <2>1, <3>2 DEF DecAcc
      <4>2. CASE r # s
        BY <4>2, <2>1, <3>3 DEF DecAcc, Agree
      <4> QED
        BY <4>1, <4>2
    <3> QED
      BY <3>3 DEF Agree
  <2>3. DecodePoint(a, c) = [dec |-> d, ok |-> a.ok,
                             out |-> Append(a.out, [series |-> Rebuilt(p), time |-> u])]
    BY <2>1, <1>1, DecodePointCases
  <2> HIDE DEF d, u
  <2> QED
    BY <2>1, <2>2, <2>3
<1> QED
  BY <1>2, <1>3 DEF CodedPoint, s

(* The states DecodeFrame goes through. *)
LEMMA DecodeStepsRun ==
  ASSUME NEW st \in [Series -> Int], NEW q \in Seq(Coded)
  PROVE  /\ DecodeSteps(st, q) \in [0 .. Len(q) -> DecAcc]
         /\ DecodeSteps(st, q)[0] = [dec |-> st, ok |-> TRUE, out |-> << >>]
         /\ \A i \in 1 .. Len(q) :
              DecodeSteps(st, q)[i] = DecodePoint(DecodeSteps(st, q)[i - 1], q[i])
<1> DEFINE D == DecAcc
           z == [dec |-> st, ok |-> TRUE, out |-> << >>]
           G(g) == [i \in 0 .. Len(q) |-> IF i = 0 THEN z ELSE DecodePoint(g[i - 1], q[i])]
           F == [i \in Nat |-> [a \in D |-> IF i \in 1 .. Len(q)
                                            THEN DecodePoint(a, q[i]) ELSE a]]
           f == DecodeSteps(st, q)
<1>1. Len(q) \in Nat /\ z \in D
  BY DEF DecAcc
<1>2. F \in [Nat -> [D -> D]]
  <2>1. \A i \in 1 .. Len(q) : q[i] \in Coded
    OBVIOUS
  <2>2. ASSUME NEW i \in 1 .. Len(q), NEW a \in D
        PROVE  DecodePoint(a, q[i]) \in D
    BY <2>1, DecodePointType
  <2> QED
    BY <2>2
<1>3. PICK g \in [0 .. Len(q) -> D] : Runs(g, Len(q), z, F)
  <2> HIDE DEF D, F, z
  <2> QED
    BY <1>1, <1>2, Recursion, Zenon
<1>4. ASSUME NEW i \in 1 .. Len(q)
      PROVE  g[i] = DecodePoint(g[i - 1], q[i])
  <2>1. i - 1 \in 0 .. Len(q) /\ i \in Nat
    OBVIOUS
  <2>2. g[i - 1] \in D
    BY <2>1
  <2>3. g[i] = F[i][g[i - 1]]
    BY <1>3 DEF Runs
  <2> QED
    BY <2>1, <2>2, <2>3
<1>5. g = G(g)
  BY <1>4, <1>3 DEF Runs
<1>6. f = CHOOSE h : h = G(h)
  BY DEF DecodeSteps
<1>7. f = G(f)
  BY <1>5, <1>6, Zenon
<1> HIDE DEF z
<1>8. f \in [0 .. Len(q) -> D]
  <2> HIDE DEF f, D
  <2> DEFINE S == {i \in 0 .. Len(q) : f[i] = g[i]}
  <2>1. 0 \in S
    BY <1>3, <1>7 DEF Runs
  <2>2. \A i \in 1 .. Len(q) : i - 1 \in S => i \in S
    BY <1>4, <1>7
  <2>3. 0 .. Len(q) \subseteq S
    <3> HIDE DEF S
    <3> QED
      BY <1>1, <2>1, <2>2, Upward
  <2>4. \A i \in 0 .. Len(q) : f[i] = g[i]
    BY <2>3
  <2>5. f = [i \in 0 .. Len(q) |-> f[i]]
    BY <1>7
  <2> QED
    BY <2>4, <2>5
<1> QED
  <2> HIDE DEF f
  <2>1. f[0] = z
    BY <1>7
  <2>2. \A i \in 1 .. Len(q) : f[i] = DecodePoint(f[i - 1], q[i])
    BY <1>7
  <2> QED
    BY <1>8, <2>1, <2>2 DEF f, z

(* The frame holds one coded point for every point of the batch, each      *)
(* coded against the state the points before it left behind.               *)
LEMMA FramePoints ==
  ASSUME NEW V \in SUBSET Nat, NEW t \in V, NEW e \in [Series -> V], NEW b \in Seq(Point)
  PROVE  LET A == EncodeSteps(e, b, t)
             q == EncodeFrame(e, b, t).out
         IN /\ q \in Seq(Coded) /\ Len(q) = Len(b)
            /\ EncodeFrame(e, b, t).enc \in [Series -> V]
            /\ \A i \in 1 .. Len(b) :
                 CodedPoint(A[i - 1].enc, b[i], t, A[i].enc, q[i])
<1> DEFINE A == EncodeSteps(e, b, t)
           n == Len(b)
           q == EncodeFrame(e, b, t).out
<1>1. /\ A \in [0 .. n -> EncAcc(V)]
      /\ A[0] = [enc |-> e, out |-> << >>]
      /\ \A i \in 1 .. n : A[i] = EncodePoint(A[i - 1], b[i], t)
  BY EncodeStepsRun
<1>2. n \in Nat /\ EncodeFrame(e, b, t) = A[n]
  BY DEF EncodeFrame
<1> HIDE DEF A, q
<1>3. \A i \in 0 .. n : A[i] \in EncAcc(V) /\ A[i].out \in Seq(Coded)
  BY <1>1 DEF EncAcc
<1>4. ASSUME NEW i \in 1 .. n
      PROVE  \E c \in Coded : /\ A[i].out = Append(A[i - 1].out, c)
                              /\ CodedPoint(A[i - 1].enc, b[i], t, A[i].enc, c)
  <2>1. A[i - 1] \in EncAcc(V) /\ b[i] \in Point
    BY <1>3
  <2>2. A[i] = EncodePoint(A[i - 1], b[i], t)
    BY <1>1
  <2> DEFINE a == A[i - 1]
             p == b[i]
  <2> HIDE DEF a, p
  <2>3. a \in EncAcc(V) /\ p \in Point
    BY <2>1 DEF a, p
  <2>4. PICK c \in Coded : /\ EncodePoint(a, p, t).out = Append(a.out, c)
                           /\ CodedPoint(a.enc, p, t, EncodePoint(a, p, t).enc, c)
    BY <2>3, EncodePointAppends
  <2> QED
    BY <2>2, <2>4 DEF a, p
<1> DEFINE S == {k \in 0 .. n : /\ Len(A[k].out) = k
                                /\ \A j \in 1 .. k : A[k].out[j] = A[j].out[j]}
<1>5. 0 \in S
  BY <1>1, <1>2
<1>6. ASSUME NEW i \in 1 .. n, i - 1 \in S
      PROVE  i \in S
  <2>1. PICK c \in Coded : A[i].out = Append(A[i - 1].out, c)
    BY <1>4
  <2>2. A[i - 1].out \in Seq(Coded) /\ Len(A[i - 1].out) = i - 1
    BY <1>3, <1>6
  <2>3. Len(A[i].out) = i
    BY <2>1, <2>2
  <2>4. ASSUME NEW j \in 1 .. i
        PROVE  A[i].out[j] = A[j].out[j]
    <3>1. CASE j = i
      BY <3>1
    <3>2. CASE j # i
      <4>1. j \in 1 .. i - 1
        BY <3>2
      <4>2. A[i].out[j] = A[i - 1].out[j]
        BY <4>1, <2>1, <2>2
      <4> QED
        BY <4>1, <4>2, <1>6
    <3> QED
      BY <3>1, <3>2
  <2> QED
    BY <2>3, <2>4
<1>7. n \in S
  <2> HIDE DEF S, n
  <2>1. 0 .. n \subseteq S
    BY <1>2, <1>5, <1>6, Upward
  <2> QED
    BY <1>2, <2>1
<1>8. q = A[n].out
  BY <1>2 DEF q
<1>9. ASSUME NEW i \in 1 .. n
      PROVE  CodedPoint(A[i - 1].enc, b[i], t, A[i].enc, q[i])
  <2>1. PICK c \in Coded : /\ A[i].out = Append(A[i - 1].out, c)
                           /\ CodedPoint(A[i - 1].enc, b[i], t, A[i].enc, c)
    BY <1>4
  <2>2. i - 1 \in S
    <3> HIDE DEF S, n
    <3>1. 0 .. n \subseteq S
      BY <1>2, <1>5, <1>6, Upward
    <3> QED
      BY <1>2, <3>1
  <2>3. Len(A[i - 1].out) = i - 1 /\ A[i - 1].out \in Seq(Coded)
    BY <2>2, <1>3
  <2>4. A[i].out[i] = c
    BY <2>1, <2>3
  <2>5. q[i] = A[i].out[i]
    BY <1>7, <1>8
  <2> QED
    BY <2>1, <2>4, <2>5
<1>10. q \in Seq(Coded) /\ Len(q) = n /\ A[n].enc \in [Series -> V]
  BY <1>2, <1>3, <1>7, <1>8 DEF EncAcc
<1> QED
  BY <1>2, <1>9, <1>10 DEF A, q

(* What is asked of a frame f, encoded from batch b at time t, and of its  *)
(* decoding r: it is accepted, the states agree, and the points are those  *)
(* of the batch, in order, each with its metric's name, a number with its  *)
(* whole series, and with its time.                                        *)
Survives(b, t, f, r) ==
  /\ r.ok = TRUE
  /\ Agree(f.enc, r.dec)
  /\ \A s \in Series : f.enc[s] <= t
  /\ r.out \in Seq(Decoded) /\ Len(r.out) = Len(b)
  /\ \A i \in 1 .. Len(b) :
       /\ r.out[i].series.name = b[i].series.name
       /\ b[i].kind = "number" => r.out[i].series = b[i].series
       /\ KindsKept => r.out[i].time = t

(* The codec's round trip, for every batch, every state of the encoder and *)
(* every state of the decoder that agrees with it: StreamDecoder accepts   *)
(* what StreamEncoder wrote, the states agree again, and the points come   *)
(* back in order, each with its metric's name, a gauge or a sum with its   *)
(* labels too, and, as long as the series keep their kinds or the cap is   *)
(* out of reach, with its time.  A histogram's labels do not come back.    *)
THEOREM RoundTrip ==
  ASSUME NEW V \in SUBSET Nat, NEW t \in V, t # 0,
         NEW e \in [Series -> V], \A s \in Series : e[s] <= t,
         NEW b \in Seq(Point),
         NEW d \in [Series -> Int], Agree(e, d)
  PROVE  LET f == EncodeFrame(e, b, t)
             r == DecodeFrame(d, f.out)
         IN /\ Survives(b, t, f, r)
            /\ f.enc \in [Series -> V]
            /\ r.dec \in [Series -> Int]
<1> DEFINE A == EncodeSteps(e, b, t)
           n == Len(b)
           q == EncodeFrame(e, b, t).out
           B == DecodeSteps(d, q)
<1>1. /\ q \in Seq(Coded) /\ Len(q) = n
      /\ EncodeFrame(e, b, t).enc \in [Series -> V]
      /\ \A i \in 1 .. n : CodedPoint(A[i - 1].enc, b[i], t, A[i].enc, q[i])
  BY FramePoints
<1>2. /\ n \in Nat
      /\ EncodeFrame(e, b, t) = A[n]
      /\ A \in [0 .. n -> EncAcc(V)]
      /\ A[0] = [enc |-> e, out |-> << >>]
  <2>1. n \in Nat /\ EncodeFrame(e, b, t) = A[n]
    BY DEF EncodeFrame
  <2>2. /\ A \in [0 .. n -> EncAcc(V)]
        /\ A[0] = [enc |-> e, out |-> << >>]
    <3>1. /\ A \in [0 .. n -> EncAcc(V)]
          /\ A[0] = [enc |-> e, out |-> << >>]
          /\ \A i \in 1 .. n : A[i] = EncodePoint(A[i - 1], b[i], t)
      BY EncodeStepsRun
    <3> HIDE DEF A, n, q
    <3> QED
      BY <3>1
  <2> QED
    BY <2>1, <2>2
<1> HIDE DEF A, q
<1>3. /\ B \in [0 .. n -> DecAcc]
      /\ B[0] = [dec |-> d, ok |-> TRUE, out |-> << >>]
      /\ \A i \in 1 .. n : B[i] = DecodePoint(B[i - 1], q[i])
      /\ DecodeFrame(d, q) = B[n]
  <2>1. Len(q) = n /\ q \in Seq(Coded)
    BY <1>1
  <2> HIDE DEF n
  <2> QED
    BY <2>1, DecodeStepsRun DEF DecodeFrame
<1> HIDE DEF B
<1>4. \A i \in 0 .. n : /\ A[i].enc \in [Series -> Nat]
                        /\ B[i] \in DecAcc /\ B[i].out \in Seq(Decoded)
                        /\ B[i].dec \in [Series -> Int]
  <2>1. \A i \in 0 .. n : A[i].enc \in [Series -> Nat]
    BY <1>2 DEF EncAcc
  <2>2. \A i \in 0 .. n : B[i] \in DecAcc
    BY <1>3
  <2> QED
    BY <2>1, <2>2 DEF DecAcc
<1> DEFINE Back(o, k) == /\ Len(o) = k
                         /\ \A j \in 1 .. k : /\ o[j].series = Rebuilt(b[j])
                                              /\ KindsKept => o[j].time = t
           S == {k \in 0 .. n : /\ B[k].ok = TRUE
                                /\ Agree(A[k].enc, B[k].dec)
                                /\ \A s \in Series : A[k].enc[s] <= t
                                /\ Back(B[k].out, k)}
<1>5. 0 \in S
  <2>1. B[0].ok = TRUE /\ B[0].dec = d /\ B[0].out = << >> /\ A[0].enc = e
    BY <1>2, <1>3
  <2>2. Back(<< >>, 0)
    OBVIOUS
  <2> HIDE DEF Back
  <2> QED
    BY <1>2, <2>1, <2>2
<1>6. ASSUME NEW i \in 1 .. n, i - 1 \in S
      PROVE  i \in S
  <2> DEFINE x == A[i - 1].enc
             y == A[i].enc
             a == B[i - 1]
             p == b[i]
             c == q[i]
  <2>1. CodedPoint(x, p, t, y, c)
    BY <1>1
  <2>2. x \in [Series -> Nat] /\ y \in [Series -> Nat] /\ a \in DecAcc /\ a.out \in Seq(Decoded)
    BY <1>4, SMTT(60)
  <2>3. p \in Point
    OBVIOUS
  <2>4. /\ a.ok = TRUE /\ Agree(x, a.dec) /\ \A s \in Series : x[s] <= t
        /\ Back(a.out, i - 1)
    <3> HIDE DEF Back
    <3> QED
      BY <1>6
  <2>5. B[i] = DecodePoint(a, c) /\ t \in Nat \ {0}
    BY <1>3
  <2> HIDE DEF x, y, a, p, c, Back
  <2>6. PICK u \in Int :
           /\ DecodePoint(a, c).ok = TRUE
           /\ DecodePoint(a, c).out = Append(a.out, [series |-> Rebuilt(p), time |-> u])
           /\ KindsKept => u = t
           /\ Agree(y, DecodePoint(a, c).dec)
           /\ \A r \in Series : y[r] <= t
    BY <2>1, <2>2, <2>3, <2>4, <2>5, PointRoundTrip
  <2>7. Back(B[i].out, i)
    <3>1. B[i].out = Append(a.out, [series |-> Rebuilt(p), time |-> u]) /\ Len(a.out) = i - 1
      BY <2>4, <2>5, <2>6 DEF Back
    <3>2. Len(B[i].out) = i
      BY <3>1, <2>2
    <3>3. ASSUME NEW j \in 1 .. i
          PROVE  /\ B[i].out[j].series = Rebuilt(b[j])
                 /\ KindsKept => B[i].out[j].time = t
      <4>1. CASE j = i
        <5>1. B[i].out[j] = [series |-> Rebuilt(p), time |-> u]
          BY <4>1, <3>1, <2>2
        <5> QED
          BY <5>1, <4>1, <2>6 DEF p
      <4>2. CASE j # i
        <5>1. j \in 1 .. i - 1 /\ B[i].out[j] = a.out[j]
          BY <4>2, <3>1, <2>2
        <5> QED
          BY <5>1, <2>4 DEF Back
      <4> QED
        BY <4>1, <4>2
    <3> QED
      BY <3>2, <3>3 DEF Back
  <2>8. B[i].ok = TRUE
    BY <2>5, <2>6
  <2>9. Agree(A[i].enc, B[i].dec)
    BY <2>5, <2>6 DEF y
  <2>10. \A r \in Series : A[i].enc[r] <= t
    BY <2>6 DEF y
  <2> QED
    BY <2>7, <2>8, <2>9, <2>10
<1>7. n \in S
  <2> HIDE DEF S, n
  <2>1. 0 .. n \subseteq S
    BY <1>2, <1>5, <1>6, Upward
  <2> QED
    BY <1>2, <2>1
<1> DEFINE f == EncodeFrame(e, b, t)
           r == DecodeFrame(d, f.out)
<1>8. f.enc = A[n].enc /\ r = B[n]
  BY <1>2, <1>3 DEF q
<1>9. /\ r.ok = TRUE /\ Agree(f.enc, r.dec) /\ \A s \in Series : f.enc[s] <= t
      /\ Back(r.out, n)
  <2> HIDE DEF f, r, Back
  <2> QED
    BY <1>7, <1>8
<1>10. r.dec \in [Series -> Int] /\ r.out \in Seq(Decoded)
  <2> HIDE DEF f, r
  <2> QED
    BY <1>2, <1>4, <1>8
<1>11. f.enc \in [Series -> V]
  BY <1>1
<1> HIDE DEF f, r
<1>12. Survives(b, t, f, r)
  <2>1. \A p \in Point : /\ Rebuilt(p).name = p.series.name
                         /\ p.kind = "number" => Rebuilt(p) = p.series
    BY DEF Rebuilt, Point
  <2>2. \A i \in 1 .. n : b[i] \in Point
    OBVIOUS
  <2> QED
    BY <1>9, <1>10, <2>1, <2>2 DEF Survives
<1> QED
  BY <1>10, <1>11, <1>12 DEF f, r

-----------------------------------------------------------------------------
(* The frames of a connection, and what is left of them to decode.         *)

EncState == [Series -> Rec \cup {Unseen}]

(* Frame f was encoded in state e, which became x. *)
Codes(e, f, x) ==
  /\ \A s \in Series : e[s] <= f.rec
  /\ \E b \in Batch : EncodeFrame(e, b, f.rec) = [enc |-> x, out |-> f.pts]

(* The frames q, decoded one after the other from state d, lead to a state *)
(* that agrees with x: the decoder follows the states e the encoder went   *)
(* through.                                                                *)
Replays(d, q, x) ==
  \E e \in [0 .. Len(q) -> EncState] :
    /\ Agree(e[0], d)
    /\ e[Len(q)] = x
    /\ \A i \in 1 .. Len(q) : Codes(e[i - 1], q[i], e[i])

(* The sets of batches, frames and encoder states, and that Fresh agrees   *)
(* with any decoder.                                                       *)
LEMMA FrameType ==
  /\ Batch \subseteq Seq(Point)
  /\ Frame = [rec : Rec, big : BOOLEAN, pts : Seq(Coded)]
  /\ Fresh \in EncState
  /\ Rec \subseteq Nat \ {0}
  /\ \A d : Agree(Fresh, d)
  /\ EncState \subseteq [Series -> Nat]
<1>1. Batch \subseteq Seq(Point)
  BY DEF Batch, BoundedSeq, SeqOf
<1>2. Frame = [rec : Rec, big : BOOLEAN, pts : Seq(Coded)]
  BY DEF Frame, Coded
<1>3. Rec \subseteq Nat \ {0}
  BY TransportAssumption DEF Rec
<1>4. Fresh \in EncState /\ EncState \subseteq [Series -> Nat]
  <2>1. Rec \cup {Unseen} \subseteq Nat
    BY <1>3 DEF Unseen
  <2>2. Fresh \in EncState
    BY DEF Fresh, EncState
  <2>3. ASSUME NEW e \in EncState
        PROVE  e \in [Series -> Nat]
    BY <2>1 DEF EncState
  <2> QED
    BY <2>2, <2>3
<1>5. \A d : Agree(Fresh, d)
  BY DEF Agree, Fresh
<1> QED
  BY <1>1, <1>2, <1>3, <1>4, <1>5

(* No frames: the states must agree as they are. *)
LEMMA ReplayNone ==
  ASSUME NEW x \in EncState, NEW d, Agree(x, d)
  PROVE  Replays(d, << >>, x)
<1> DEFINE e == [i \in 0 .. 0 |-> x]
<1>1. e \in [0 .. Len(<< >>) -> EncState] /\ e[0] = x /\ e[Len(<< >>)] = x
  OBVIOUS
<1>2. \A i \in 1 .. Len(<< >>) : FALSE
  OBVIOUS
<1> QED
  BY <1>1, <1>2 DEF Replays

(* One more frame at the end. *)
LEMMA ReplayAppend ==
  ASSUME NEW q \in Seq(Frame), NEW f \in Frame, NEW d,
         NEW x \in EncState, NEW y \in EncState, Replays(d, q, x), Codes(x, f, y)
  PROVE  Replays(d, Append(q, f), y)
<1> DEFINE n == Len(q)
           w == Append(q, f)
<1>1. PICK e \in [0 .. n -> EncState] : /\ Agree(e[0], d)
                                        /\ e[n] = x
                                        /\ \A i \in 1 .. n : Codes(e[i - 1], q[i], e[i])
  BY DEF Replays
<1> DEFINE g == [i \in 0 .. n + 1 |-> IF i = n + 1 THEN y ELSE e[i]]
<1>2. n \in Nat /\ Len(w) = n + 1 /\ w[n + 1] = f /\ \A i \in 1 .. n : w[i] = q[i]
  OBVIOUS
<1> HIDE DEF n, w
<1>3. g \in [0 .. n + 1 -> EncState]
  BY <1>2
<1>4. /\ \A i \in 0 .. n : g[i] = e[i]
      /\ g[n + 1] = y
  BY <1>2
<1> HIDE DEF g
<1>5. ASSUME NEW i \in 1 .. n + 1
      PROVE  Codes(g[i - 1], w[i], g[i])
  <2>1. CASE i = n + 1
    <3>1. g[i - 1] = x /\ w[i] = f /\ g[i] = y
      BY <2>1, <1>1, <1>2, <1>4
    <3> QED
      BY <3>1
  <2>2. CASE i # n + 1
    <3>1. i \in 1 .. n /\ i - 1 \in 0 .. n /\ i \in 0 .. n
      BY <2>2, <1>2
    <3>2. g[i - 1] = e[i - 1] /\ w[i] = q[i] /\ g[i] = e[i]
      BY <3>1, <1>2, <1>4
    <3> QED
      BY <3>1, <3>2, <1>1
  <2> QED
    BY <2>1, <2>2
<1>6. Agree(g[0], d)
  BY <1>1, <1>2, <1>4
<1> QED
  BY <1>2, <1>3, <1>4, <1>5, <1>6 DEF Replays, w

(* The first frame is decoded, and the rest replays from there. *)
LEMMA ReplayHead ==
  ASSUME NEW q \in Seq(Frame), q # << >>, NEW d \in [Series -> Int],
         NEW x \in EncState, Replays(d, q, x)
  PROVE  LET r == DecodeFrame(d, Head(q).pts)
         IN /\ r.ok = TRUE
            /\ r.dec \in [Series -> Int]
            /\ Replays(r.dec, Tail(q), x)
            /\ KindsKept => \A i \in DOMAIN r.out : r.out[i].time = Head(q).rec
<1> DEFINE n == Len(q)
           f == Head(q)
           w == Tail(q)
           r == DecodeFrame(d, f.pts)
<1>1. PICK e \in [0 .. n -> EncState] : /\ Agree(e[0], d)
                                        /\ e[n] = x
                                        /\ \A i \in 1 .. n : Codes(e[i - 1], q[i], e[i])
  BY DEF Replays
<1>2. /\ n \in Nat \ {0} /\ Len(w) = n - 1 /\ q[1] = f /\ f \in Frame
      /\ \A i \in 1 .. n - 1 : w[i] = q[i + 1]
  OBVIOUS
<1>3. Codes(e[0], f, e[1])
  <2>1. Codes(e[1 - 1], q[1], e[1])
    BY <1>1, <1>2
  <2> QED
    BY <2>1, <1>2
<1> DEFINE V == Rec \cup {Unseen}
<1>4. /\ V \in SUBSET Nat /\ f.rec \in V /\ f.rec # 0
      /\ e[0] \in [Series -> V] /\ e[1] \in EncState
  <2>1. V \in SUBSET Nat
    BY FrameType DEF Unseen
  <2>2. f.rec \in Rec
    <3> HIDE DEF f
    <3> QED
      BY <1>2, FrameType
  <2>3. f.rec \in V /\ f.rec # 0
    <3> HIDE DEF f
    <3> QED
      BY <2>2, FrameType
  <2>4. e[0] \in EncState /\ e[1] \in EncState
    <3> HIDE DEF n
    <3> QED
      BY <1>2
  <2> QED
    BY <2>1, <2>3, <2>4 DEF EncState
<1>5. PICK b \in Batch : EncodeFrame(e[0], b, f.rec) = [enc |-> e[1], out |-> f.pts]
  BY <1>3 DEF Codes
<1>6. b \in Seq(Point)
  BY FrameType
<1>7. /\ EncodeFrame(e[0], b, f.rec).enc = e[1]
      /\ EncodeFrame(e[0], b, f.rec).out = f.pts
  BY <1>5
<1>8. /\ r.ok = TRUE
      /\ r.dec \in [Series -> Int]
      /\ Agree(e[1], r.dec)
      /\ r.out \in Seq(Decoded) /\ Len(r.out) = Len(b)
      /\ \A i \in 1 .. Len(b) : KindsKept => r.out[i].time = f.rec
  <2> DEFINE t == f.rec
             z == e[0]
  <2>1. t \in V /\ t # 0 /\ z \in [Series -> V] /\ \A s \in Series : z[s] <= t
    BY <1>3, <1>4 DEF Codes
  <2> HIDE DEF t, z, V, f
  <2>2. /\ Survives(b, t, EncodeFrame(z, b, t), DecodeFrame(d, EncodeFrame(z, b, t).out))
        /\ DecodeFrame(d, EncodeFrame(z, b, t).out).dec \in [Series -> Int]
    <3>1. V \in SUBSET Nat /\ Agree(z, d)
      BY <1>1, <1>4 DEF z
    <3> QED
      BY <3>1, <2>1, <1>6, RoundTrip
  <2>3. Survives(b, t, EncodeFrame(z, b, t), r) /\ r.dec \in [Series -> Int]
    BY <2>2, <1>7 DEF z, t
  <2> HIDE DEF r
  <2> QED
    BY <2>3, <1>7 DEF z, t, Survives
<1> HIDE DEF r
<1>9. KindsKept => \A i \in DOMAIN r.out : r.out[i].time = f.rec
  <2> HIDE DEF f
  <2>1. DOMAIN r.out = 1 .. Len(b)
    BY <1>8
  <2> QED
    BY <1>8, <2>1
<1>10. Replays(r.dec, w, x)
  <2> DEFINE g == [i \in 0 .. n - 1 |-> e[i + 1]]
  <2> HIDE DEF n, w, f
  <2>1. g \in [0 .. n - 1 -> EncState] /\ g[0] = e[1] /\ g[n - 1] = x
    BY <1>1, <1>2
  <2>2. ASSUME NEW i \in 1 .. n - 1
        PROVE  Codes(g[i - 1], w[i], g[i])
    <3>1. i + 1 \in 1 .. n /\ (i + 1) - 1 = i /\ i - 1 \in 0 .. n - 1 /\ (i - 1) + 1 = i
      BY <1>2
    <3>2. Codes(e[i], q[i + 1], e[i + 1])
      BY <3>1, <1>1
    <3>3. g[i - 1] = e[i] /\ g[i] = e[i + 1] /\ w[i] = q[i + 1]
      BY <3>1, <1>2
    <3> QED
      BY <3>2, <3>3
  <2>3. Agree(g[0], r.dec)
    BY <2>1, <1>8
  <2> QED
    BY <1>2, <2>1, <2>2, <2>3 DEF Replays
<1> QED
  BY <1>8, <1>9, <1>10 DEF r

-----------------------------------------------------------------------------
(* The inductive invariant. *)

TypeInv ==
  /\ xpc \in {"idle", "check", "dial", "handshake", "encode", "stream",
              "write", "blocked", "closed"}
  /\ attempt \in 0 .. MaxRetries
  /\ rec \in Rec \cup {None}
  /\ big \in BOOLEAN
  /\ enc \in EncState
  /\ conn \in Conn \cup {None}
  /\ stream \in {None, 1}
  /\ nconn \in 0 .. MaxConn
  /\ up \in [Conn -> BOOLEAN]
  /\ srv \in [Conn -> {"none", "hello", "serving", "closed"}]
  /\ dec \in [Conn -> [Series -> Int]]
  /\ wire \in [Conn -> Seq(Seq(Frame))]
  /\ cut \in [Conn -> SUBSET Nat]
  /\ faults \in 0 .. MaxFault
  /\ acked \in SUBSET Rec
  /\ rec # None => batch \in Batch
  /\ xpc \in {"stream", "write", "blocked"} => frame \in Frame

(* A connection carries one stream, which belongs to the client's current  *)
(* connection; connections not yet dialled are untouched.                  *)
WireInv ==
  /\ \A c \in Conn : Len(wire[c]) <= 1
  /\ conn # None => conn = nconn
  /\ \A c \in Conn : c > nconn => wire[c] = << >> /\ cut[c] = {} /\ srv[c] = "none"
  /\ \A c \in Conn : srv[c] = "hello" => wire[c] = << >>
  /\ stream # None => conn # None /\ Len(wire[conn]) = 1
  /\ conn # None /\ stream = None => wire[conn] = << >>
  /\ \A c \in Conn : wire[c] = << >> => cut[c] = {}

(* Where ExportBatch is, and what holds of its connection there. *)
PlaceInv ==
  /\ xpc \in {"handshake", "encode", "stream", "write", "blocked"} => conn # None
  /\ xpc \in {"write", "blocked"} => stream # None
  /\ xpc = "handshake" => stream = None
  /\ xpc = "handshake" /\ srv[conn] = "serving" => dec[conn] = Fresh
  /\ xpc # "handshake" /\ conn # None => srv[conn] \in {"serving", "closed"}
  /\ xpc \in {"stream", "write", "blocked"} => frame.rec = rec
  /\ xpc \notin {"idle", "closed"} => rec # None

(* A frame over the limit is on the current connection only while its      *)
(* Write is blocked, and only then can the stream be cancelled.            *)
LimitInv ==
  xpc # "blocked" /\ conn # None =>
    /\ cut[conn] = {}
    /\ wire[conn] # << >> => \A i \in DOMAIN wire[conn][1] : ~wire[conn][1][i].big

(* Records are exported one after the other, and the encoder's times are   *)
(* not ahead of the record at hand.                                        *)
CountInv ==
  /\ IsFiniteSet(acked)
  /\ \A r \in Rec : r \in acked <=> r <= Cardinality(acked)
  /\ rec # None => rec = Cardinality(acked) + 1
  /\ \A s \in Series : enc[s] <= IF rec = None THEN Cardinality(acked) ELSE rec

(* The frames of the only stream, if it is there. *)
Frames(w) == IF w = << >> THEN << >> ELSE w[1]
Queue(c) == Frames(wire[c])

(* Every open connection can be decoded to its end, and at the end of the  *)
(* current one the decoder agrees with the encoder.                        *)
SyncInv ==
  /\ \A c \in Conn : srv[c] = "serving" => \E x \in EncState : Replays(dec[c], Queue(c), x)
  /\ conn # None /\ srv[conn] = "serving" =>
       /\ xpc \in {"idle", "check", "dial", "encode"} => Replays(dec[conn], Queue(conn), enc)
       /\ xpc \in {"stream", "write"} =>
            \E x \in EncState : Replays(dec[conn], Queue(conn), x) /\ Codes(x, frame, enc)

HistoryInv == resyncs = 0 /\ (KindsKept => Faithful)

Shape == TypeInv /\ WireInv /\ PlaceInv
IInv == Shape /\ LimitInv /\ CountInv /\ SyncInv /\ HistoryInv

-----------------------------------------------------------------------------
(* The stream of connection c gets new contents q. *)
LEMMA StreamUpdate ==
  ASSUME TypeInv, WireInv, NEW c \in Conn, NEW k \in DOMAIN wire[c], NEW q \in Seq(Frame)
  PROVE  LET w == [wire EXCEPT ![c][k] = q]
         IN /\ k = 1 /\ Len(wire[c]) = 1
            /\ w \in [Conn -> Seq(Seq(Frame))]
            /\ \A o \in Conn : o # c => w[o] = wire[o]
            /\ Len(w[c]) = 1 /\ w[c][1] = q
<1> DEFINE v == [wire[c] EXCEPT ![k] = q]
           w == [wire EXCEPT ![c][k] = q]
<1>1. wire[c] \in Seq(Seq(Frame)) /\ Len(wire[c]) <= 1 /\ k \in 1 .. Len(wire[c])
  BY DEF TypeInv, WireInv
<1>2. k = 1 /\ Len(wire[c]) = 1
  <2>1. Len(wire[c]) \in Nat
    BY <1>1, LenProperties
  <2>2. \A n \in Nat : \A i \in 1 .. n : n <= 1 => i = 1 /\ n = 1
    OBVIOUS
  <2> QED
    BY <1>1, <2>1, <2>2, Zenon
<1>3. v \in Seq(Seq(Frame)) /\ Len(v) = 1 /\ v[1] = q
  BY <1>1, <1>2, ExceptSeq
<1>4. w = [wire EXCEPT ![c] = v]
  OBVIOUS
<1> HIDE DEF v, w
<1>5. w[c] = v /\ w \in [Conn -> Seq(Seq(Frame))] /\ \A o \in Conn : o # c => w[o] = wire[o]
  BY <1>3, <1>4 DEF TypeInv
<1> QED
  BY <1>2, <1>3, <1>5 DEF w

(* Put adds the frame to the stream, or nothing. *)
LEMMA PutEffect ==
  ASSUME Shape, xpc = "write"
  PROVE  /\ Put \in [Conn -> Seq(Seq(Frame))]
         /\ \A o \in Conn : o # conn => Put[o] = wire[o]
         /\ Len(Put[conn]) = 1 /\ wire[conn] # << >>
         /\ Put[conn][1] \in {wire[conn][1], Append(wire[conn][1], frame)}
         /\ srv[conn] = "serving" /\ cut[conn] = {}
              => Put[conn][1] = Append(wire[conn][1], frame)
<1> DEFINE q == Append(wire[conn][stream], frame)
           w == [wire EXCEPT ![conn][stream] = q]
           gone == srv[conn] = "closed" \/ stream \in cut[conn]
<1>1. /\ conn \in Conn /\ stream = 1 /\ Len(wire[conn]) = 1
      /\ wire[conn] \in Seq(Seq(Frame)) /\ frame \in Frame
  BY DEF Shape, TypeInv, WireInv, PlaceInv
<1>2. stream \in DOMAIN wire[conn] /\ wire[conn] # << >> /\ wire[conn][stream] \in Seq(Frame)
  BY <1>1
<1>3. q \in Seq(Frame)
  BY <1>1, <1>2
<1>4. Put = IF gone THEN wire ELSE w
  BY DEF Put
<1> HIDE DEF q
<1>5. /\ w \in [Conn -> Seq(Seq(Frame))]
      /\ \A o \in Conn : o # conn => w[o] = wire[o]
      /\ Len(w[conn]) = 1 /\ w[conn][1] = q
  BY <1>1, <1>2, <1>3, StreamUpdate DEF Shape
<1> HIDE DEF w
<1>6. wire \in [Conn -> Seq(Seq(Frame))]
  BY DEF Shape, TypeInv
<1>7. CASE gone
  BY <1>1, <1>2, <1>4, <1>6, <1>7
<1>8. CASE ~gone
  BY <1>1, <1>2, <1>4, <1>5, <1>8 DEF q
<1> QED
  BY <1>7, <1>8

(* Decoding keeps the type of the decoder's state. *)
LEMMA DecodeType ==
  ASSUME NEW d \in [Series -> Int], NEW f \in Frame
  PROVE  DecodeFrame(d, f.pts).dec \in [Series -> Int]
<1>1. f.pts \in Seq(Coded)
  BY FrameType
<1>2. Len(f.pts) \in 0 .. Len(f.pts)
  BY <1>1
<1>3. DecodeFrame(d, f.pts) \in DecAcc
  <2> DEFINE q == f.pts
  <2> HIDE DEF q
  <2>1. q \in Seq(Coded) /\ Len(q) \in 0 .. Len(q)
    BY <1>1, <1>2 DEF q
  <2>2. DecodeSteps(d, q) \in [0 .. Len(q) -> DecAcc]
    BY <2>1, DecodeStepsRun
  <2>3. DecodeFrame(d, q) \in DecAcc
    BY <2>1, <2>2 DEF DecodeFrame
  <2> QED
    BY <2>3 DEF q
<1> QED
  BY <1>3 DEF DecAcc

(* Encoding keeps the type of the encoder's state, and makes a frame. *)
LEMMA EncodeType ==
  ASSUME NEW e \in EncState, NEW b \in Batch, NEW t \in Rec
  PROVE  /\ EncodeFrame(e, b, t).enc \in EncState
         /\ EncodeFrame(e, b, t).out \in Seq(Coded)
<1> DEFINE V == Rec \cup {Unseen}
<1>1. V \in SUBSET Nat /\ t \in V /\ e \in [Series -> V] /\ b \in Seq(Point)
  BY FrameType DEF EncState, Unseen
<1> HIDE DEF V
<1>2. EncodeFrame(e, b, t).enc \in [Series -> V] /\ EncodeFrame(e, b, t).out \in Seq(Coded)
  BY <1>1, FramePoints
<1> QED
  BY <1>2 DEF EncState, V

(* No step changes the shape of the state. *)
LEMMA ShapeStep ==
  ASSUME Shape, LimitInv, CountInv, [Next]_vars
  PROVE  Shape'
<1> USE DEF Shape
<1>0. None \notin Conn /\ None = 0 /\ Conn \subseteq Nat \ {0} /\ Conn = 1 .. MaxConn /\ MaxConn \in Nat
      /\ MaxRetries \in Nat /\ MaxFault \in Nat
  BY TransportAssumption DEF Conn, None
<1>1. CASE ExportBegin
  <2>0. Cardinality(acked) \in Nat
    BY FS_CardinalityType DEF CountInv
  <2>1. rec' \in Rec /\ big' \in BOOLEAN /\ batch' \in Batch
    <3>1. CASE rec = None
      <4>1. /\ Cardinality(acked) < MaxRecord /\ rec' = Cardinality(acked) + 1
            /\ batch' \in Batch /\ big' \in {FALSE, Oversize}
        BY <1>1, <3>1 DEF ExportBegin
      <4>2. rec' \in Rec
        BY <4>1, <2>0, TransportAssumption DEF Rec
      <4>3. big' \in BOOLEAN
        BY <4>1, TransportAssumption, Zenon
      <4> QED
        BY <4>1, <4>2, <4>3
    <3>2. CASE rec # None
      BY <1>1, <3>2 DEF ExportBegin, TypeInv
    <3> QED
      BY <3>1, <3>2
  <2>2. rec' # None
    BY <2>1, FrameType DEF None
  <2>3. TypeInv'
    BY <1>0, <1>1, <2>1 DEF TypeInv, ExportBegin, server, history
  <2> QED
    BY <1>1, <2>2, <2>3 DEF TypeInv, WireInv, PlaceInv, ExportBegin, server, history
<1>2. CASE CheckConnected
  <2>1. TypeInv'
    BY <1>2 DEF TypeInv, CheckConnected, server, history
  <2> QED
    BY <1>2, <2>1 DEF TypeInv, WireInv, PlaceInv, CheckConnected, Connected, server, history
<1>3. CASE Dial
  <2>0. nconn + 1 \in Conn /\ nconn + 1 # None /\ nconn + 1 > nconn /\ nconn \in Nat
    BY <1>0, <1>3 DEF Dial, TypeInv
  <2>1. TypeInv'
    BY <1>0, <1>3, <2>0 DEF TypeInv, Dial, history
  <2>2. WireInv'
    <3>1. /\ wire' = wire /\ cut' = cut /\ conn' = nconn + 1 /\ nconn' = nconn + 1
          /\ stream' = None /\ srv' = [srv EXCEPT ![nconn + 1] = "hello"]
      BY <1>3 DEF Dial
    <3>2. \A c \in Conn : c > nconn + 1 => c > nconn /\ c # nconn + 1
      BY <1>0, <2>0
    <3>3. /\ \A c \in Conn : c > nconn' => wire'[c] = << >> /\ cut'[c] = {} /\ srv'[c] = "none"
          /\ wire'[conn'] = << >>
      BY <2>0, <3>1, <3>2 DEF TypeInv, WireInv
    <3>4. \A c \in Conn : srv'[c] = "hello" => wire'[c] = << >>
      BY <2>0, <3>1 DEF TypeInv, WireInv
    <3> QED
      BY <3>1, <3>3, <3>4 DEF WireInv
  <2>3. PlaceInv'
    BY <1>0, <1>3, <2>0 DEF TypeInv, WireInv, PlaceInv, Dial, history
  <2> QED
    BY <2>1, <2>2, <2>3
<1>4. CASE DialFail
  <2>1. TypeInv'
    BY <1>0, <1>4 DEF TypeInv, DialFail, NextAttempt, Fault, server, history
  <2> QED
    BY <1>4, <2>1 DEF TypeInv, WireInv, PlaceInv, DialFail, NextAttempt, server, history
<1>5. CASE HandshakeOk
  <2>1. TypeInv'
    BY <1>5, FrameType DEF TypeInv, HandshakeOk, server, history
  <2> QED
    BY <1>5, <2>1 DEF TypeInv, WireInv, PlaceInv, HandshakeOk, server, history
<1>6. CASE HandshakeFail
  <2>1. TypeInv'
    BY <1>0, <1>6 DEF TypeInv, HandshakeFail, NextAttempt, Fault, Hangup, server, history
  <2> QED
    BY <1>6, <2>1 DEF TypeInv, WireInv, PlaceInv, HandshakeFail, NextAttempt, server, history
<1>7. CASE Encode
  <2> DEFINE e == EncodeFrame(enc, batch, rec)
  <2>1. e.enc \in EncState /\ e.out \in Seq(Coded)
    BY <1>7, EncodeType DEF TypeInv, PlaceInv, Encode
  <2>2. enc' = e.enc /\ frame' = [rec |-> rec, big |-> big, pts |-> e.out]
    BY <1>7 DEF Encode
  <2> HIDE DEF e
  <2>3. frame' \in Frame
    BY <1>7, <2>1, <2>2, FrameType DEF TypeInv, PlaceInv, Encode
  <2>4. frame'.rec = rec
    BY <2>2
  <2>5. TypeInv'
    BY <1>7, <2>1, <2>2, <2>3 DEF TypeInv, Encode, server, history
  <2> QED
    BY <1>7, <2>4, <2>5 DEF TypeInv, WireInv, PlaceInv, Encode, server, history
<1>8. CASE GetStream
  <2>1. CASE Usable
    <3>1. TypeInv'
      BY <1>8, <2>1 DEF TypeInv, GetStream, server, history
    <3> QED
      BY <1>8, <2>1, <3>1 DEF TypeInv, WireInv, PlaceInv, GetStream, Usable, server, history
  <2>2. CASE ~Usable
    <3>1. conn \in Conn /\ stream = None /\ wire[conn] = << >>
      BY <1>8, <2>2 DEF TypeInv, WireInv, PlaceInv, LimitInv, GetStream, Usable
    <3> DEFINE v == Append(wire[conn], << >>)
    <3>2. v \in Seq(Seq(Frame)) /\ Len(v) = 1 /\ v # << >>
      BY <3>1
    <3>3. stream' = 1 /\ wire' = [wire EXCEPT ![conn] = v]
      BY <1>8, <2>2, <3>1 DEF GetStream
    <3> HIDE DEF v
    <3>4. /\ wire' \in [Conn -> Seq(Seq(Frame))]
          /\ Len(wire'[conn]) = 1 /\ wire'[conn] # << >>
          /\ \A c \in Conn : c # conn => wire'[c] = wire[c]
      BY <3>1, <3>2, <3>3 DEF TypeInv
    <3>5. TypeInv'
      BY <1>8, <3>3, <3>4 DEF TypeInv, GetStream, server, history
    <3>6. WireInv'
      <4>1. conn' = conn /\ nconn' = nconn /\ srv' = srv /\ cut' = cut
        BY <1>8 DEF GetStream, server
      <4>2. srv[conn] # "none" /\ srv[conn] # "hello" /\ ~(conn > nconn)
        BY <1>8, <1>0, <3>1 DEF GetStream, PlaceInv, WireInv, TypeInv
      <4>3. ASSUME NEW c \in Conn
            PROVE  /\ Len(wire'[c]) <= 1
                   /\ c > nconn => wire'[c] = << >> /\ cut[c] = {} /\ srv[c] = "none"
                   /\ srv[c] = "hello" => wire'[c] = << >>
                   /\ wire'[c] = << >> => cut[c] = {}
        <5>1. CASE c = conn
          <6>1. Len(wire'[c]) <= 1
            BY <5>1, <3>4
          <6>2. ~(c > nconn) /\ srv[c] # "hello" /\ wire'[c] # << >>
            BY <5>1, <3>4, <4>2
          <6> QED
            BY <6>1, <6>2
        <5>2. CASE c # conn
          BY <5>2, <3>4 DEF WireInv
        <5> QED
          BY <5>1, <5>2
      <4> QED
        <5>1. conn' # None => conn' = nconn'
          BY <4>1 DEF WireInv
        <5>2. stream' # None /\ conn' # None /\ Len(wire'[conn']) = 1
          BY <4>1, <3>1, <3>3, <3>4, <1>0
        <5> QED
          BY <4>1, <4>3, <5>1, <5>2 DEF WireInv
    <3>7. PlaceInv'
      BY <1>8, <3>1, <3>3 DEF TypeInv, PlaceInv, GetStream, server, history, None
    <3> QED
      BY <3>5, <3>6, <3>7
  <2> QED
    BY <2>1, <2>2
<1>9. CASE WriteOk
  <2>1. /\ wire' \in [Conn -> Seq(Seq(Frame))]
        /\ \A c \in Conn : c # conn => wire'[c] = wire[c]
        /\ Len(wire'[conn]) = 1 /\ wire[conn] # << >> /\ wire'[conn] # << >>
        /\ conn \in Conn /\ stream # None /\ rec \in Rec /\ Len(wire[conn]) = 1
    BY <1>9, PutEffect, SMTT(60) DEF WriteOk, TypeInv, WireInv, PlaceInv
  <2>2. TypeInv'
    <3>1. acked' \in SUBSET Rec
      BY <1>9, <2>1 DEF TypeInv, WriteOk
    <3>4. big' \in BOOLEAN
      BY <1>9, Zenon DEF WriteOk
    <3>5. attempt' = 0 /\ rec' = None /\ xpc' = "idle"
      BY <1>9 DEF WriteOk
    <3>2. big' \in BOOLEAN /\ attempt' \in 0 .. MaxRetries /\ rec' = None /\ xpc' = "idle"
      BY <1>0, <3>4, <3>5
    <3>3. UNCHANGED <<enc, conn, stream, nconn, up, server, faults>>
      BY <1>9 DEF WriteOk
    <3> QED
      BY <2>1, <3>1, <3>2, <3>3 DEF TypeInv, server
  <2>3. WireInv'
    BY <1>9, <2>1, ZenonT(60) DEF WireInv, WriteOk, server
  <2> QED
    BY <1>9, <2>2, <2>3 DEF TypeInv, PlaceInv, WriteOk, server
<1>10. CASE WriteBlock
  <2>1. /\ wire' \in [Conn -> Seq(Seq(Frame))]
        /\ \A c \in Conn : c # conn => wire'[c] = wire[c]
        /\ Len(wire'[conn]) = 1 /\ wire[conn] # << >> /\ wire'[conn] # << >>
        /\ conn \in Conn /\ stream # None /\ Len(wire[conn]) = 1
    BY <1>10, PutEffect, SMTT(60) DEF WriteBlock, TypeInv, WireInv, PlaceInv
  <2>2. TypeInv'
    BY <1>10, <2>1 DEF TypeInv, WriteBlock, server, history
  <2>3. WireInv'
    BY <1>10, <2>1 DEF WireInv, WriteBlock, server
  <2> QED
    BY <1>10, <2>2, <2>3 DEF TypeInv, PlaceInv, WriteBlock, server
<1>11. CASE SendFail
  <2>1. /\ wire' \in [Conn -> Seq(Seq(Frame))]
        /\ \A c \in Conn : wire'[c] = wire[c] \/
             (Len(wire'[c]) = 1 /\ wire[c] # << >> /\ wire'[c] # << >>)
    <3>1. CASE wire' = wire
      BY <3>1 DEF TypeInv
    <3>2. CASE xpc = "write" /\ wire' = Put
      <4>1. conn \in Conn
        BY <3>2 DEF TypeInv, PlaceInv
      <4>2. /\ Put \in [Conn -> Seq(Seq(Frame))] /\ \A c \in Conn : c # conn => Put[c] = wire[c]
            /\ Len(Put[conn]) = 1 /\ wire[conn] # << >>
        BY <3>2, PutEffect
      <4>3. Put[conn] # << >>
        <5>1. Len(<< >>) = 0
          OBVIOUS
        <5>2. 0 # 1
          OBVIOUS
        <5> QED
          BY <4>2, <5>1, <5>2, Zenon
      <4> QED
        BY <3>2, <4>1, <4>2, <4>3
    <3> QED
      BY <1>11, <3>1, <3>2 DEF SendFail
  <2>2. TypeInv'
    <3>1. up' \in [Conn -> BOOLEAN]
      BY <1>11 DEF SendFail, Hangup, TypeInv
    <3>2. attempt' \in 0 .. MaxRetries /\ xpc' \in {"idle", "check"}
      BY <1>0, <1>11 DEF SendFail, NextAttempt, TypeInv
    <3>3. enc' \in EncState /\ conn' = None /\ stream' = None
      BY <1>11, FrameType DEF SendFail
    <3>4. UNCHANGED <<rec, batch, big, nconn, server, faults, history>>
      BY <1>11 DEF SendFail, NextAttempt
    <3> QED
      BY <2>1, <3>1, <3>2, <3>3, <3>4 DEF TypeInv, server, history
  <2>3. WireInv'
    <3>1. conn' = None /\ stream' = None /\ nconn' = nconn /\ srv' = srv /\ cut' = cut
      BY <1>11 DEF SendFail, server
    <3>2. ASSUME NEW c \in Conn
          PROVE  Len(wire'[c]) <= 1 /\ (wire'[c] = << >> <=> wire[c] = << >>)
      <4>1. CASE wire'[c] = wire[c]
        BY <4>1 DEF WireInv
      <4>2. CASE Len(wire'[c]) = 1 /\ wire[c] # << >> /\ wire'[c] # << >>
        BY <4>2
      <4> QED
        BY <2>1, <4>1, <4>2
    <3> QED
      BY <3>1, <3>2 DEF WireInv
  <2> QED
    BY <1>11, <2>2, <2>3 DEF TypeInv, PlaceInv, SendFail, NextAttempt, server
<1>12. CASE AgentClose
  <2>1. TypeInv'
    BY <1>12 DEF TypeInv, AgentClose, Hangup, server, history
  <2> QED
    BY <1>12, <2>1 DEF TypeInv, WireInv, PlaceInv, AgentClose, server
<1>13. CASE Closed \/ UNCHANGED vars
  BY <1>13 DEF TypeInv, WireInv, PlaceInv, Closed, vars, client, server, history
<1>14. ASSUME NEW c \in Conn, Accept(c)
       PROVE  Shape'
  <2>1. /\ srv' = [srv EXCEPT ![c] = "serving"] /\ dec' = [dec EXCEPT ![c] = Fresh]
        /\ srv[c] = "hello"
    BY <1>14 DEF Accept
  <2>2. Fresh \in [Series -> Int]
    BY DEF Fresh, Unseen
  <2>3. TypeInv'
    BY <1>14, <2>1, <2>2 DEF TypeInv, Accept, client, history
  <2>4. WireInv'
    BY <1>14, <2>1 DEF TypeInv, WireInv, Accept, client
  <2>5. PlaceInv'
    BY <1>14, <2>1 DEF TypeInv, PlaceInv, Accept, client
  <2> QED
    BY <2>3, <2>4, <2>5
<1>15. ASSUME NEW c \in Conn, ServerGone(c)
       PROVE  Shape'
  <2> DEFINE v == [k \in DOMAIN wire[c] |-> << >>]
  <2>1. v \in Seq(Seq(Frame)) /\ Len(v) = Len(wire[c]) /\ (v = << >> <=> wire[c] = << >>)
    <3>1. wire[c] \in Seq(Seq(Frame))
      BY DEF TypeInv
    <3>2. DOMAIN wire[c] = 1 .. Len(wire[c]) /\ Len(wire[c]) \in Nat
      BY <3>1
    <3>3. << >> \in Seq(Frame)
      OBVIOUS
    <3>4. v \in Seq(Seq(Frame)) /\ Len(v) = Len(wire[c])
      BY <3>2, <3>3, IsASeq
    <3> HIDE DEF v
    <3> QED
      BY <3>1, <3>4
  <2>2. srv' = [srv EXCEPT ![c] = "closed"] /\ wire' = [wire EXCEPT ![c] = v]
        /\ srv[c] \in {"hello", "serving"} /\ faults' \in 0 .. MaxFault
    BY <1>0, <1>15 DEF ServerGone, Fault, TypeInv
  <2> HIDE DEF v
  <2>3. /\ wire' \in [Conn -> Seq(Seq(Frame))]
        /\ \A o \in Conn : Len(wire'[o]) = Len(wire[o]) /\ (wire'[o] = << >> <=> wire[o] = << >>)
    BY <2>1, <2>2 DEF TypeInv
  <2>4. TypeInv'
    BY <1>15, <2>2, <2>3 DEF TypeInv, ServerGone, client, history
  <2>5. WireInv'
    BY <1>15, <2>2, <2>3 DEF TypeInv, WireInv, ServerGone, client
  <2>6. PlaceInv'
    BY <1>15, <2>2 DEF TypeInv, PlaceInv, ServerGone, client
  <2> QED
    BY <2>4, <2>5, <2>6
<1>16. ASSUME NEW c \in Conn, ClientLost(c) \/ ClientNotices(c)
       PROVE  Shape'
  <2>1. TypeInv'
    <3>1. up' \in [Conn -> BOOLEAN]
      BY <1>16 DEF ClientLost, ClientNotices, TypeInv
    <3>2. faults' \in 0 .. MaxFault
      BY <1>0, <1>16 DEF ClientLost, ClientNotices, Fault, TypeInv
    <3>3. UNCHANGED <<client, nconn, server, wire, history>>
      BY <1>16 DEF ClientLost, ClientNotices
    <3> QED
      BY <3>1, <3>2, <3>3 DEF TypeInv, client, server, history
  <2> QED
    BY <1>16, <2>1 DEF WireInv, PlaceInv, ClientLost, ClientNotices, client, server
<1>17. ASSUME NEW c \in Conn, NEW k \in DOMAIN wire[c], HandleFrame(c, k)
       PROVE  Shape'
  <2> DEFINE q == wire[c][k]
             d == DecodeFrame(dec[c], Head(q).pts)
  <2>1. wire[c] \in Seq(Seq(Frame)) /\ dec[c] \in [Series -> Int]
    BY DEF TypeInv
  <2>2. q \in Seq(Frame) /\ q # << >> /\ srv[c] = "serving"
    BY <2>1, <1>17, SMTT(60) DEF HandleFrame, Readable
  <2>3. d.dec \in [Series -> Int]
    <3>1. Head(q) \in Frame
      BY <2>2
    <3> QED
      BY <2>1, <3>1, DecodeType
  <2>4. Tail(q) \in Seq(Frame)
    BY <2>2
  <2>5. wire' = [wire EXCEPT ![c][k] = Tail(q)] /\ dec' = [dec EXCEPT ![c] = d.dec]
    BY <1>17 DEF HandleFrame
  <2>6. srv' = srv \/ srv' = [srv EXCEPT ![c] = "closed"]
    BY <1>17 DEF HandleFrame
  <2>7. client' = client /\ cut' = cut /\ nconn' = nconn /\ up' = up /\ faults' = faults /\ acked' = acked
    BY <1>17 DEF HandleFrame
  <2> HIDE DEF q, d
  <2>8. /\ wire' \in [Conn -> Seq(Seq(Frame))]
        /\ \A o \in Conn : Len(wire'[o]) = Len(wire[o]) /\ (wire'[o] = << >> <=> wire[o] = << >>)
    <3>1. /\ wire' \in [Conn -> Seq(Seq(Frame))] /\ Len(wire[c]) = 1
          /\ \A o \in Conn : o # c => wire'[o] = wire[o]
          /\ Len(wire'[c]) = 1
      BY <2>4, <2>5, StreamUpdate
    <3>2. wire[c] # << >> /\ wire'[c] # << >>
      BY <3>1
    <3> QED
      BY <3>1, <3>2
  <2>9. TypeInv'
    BY <2>3, <2>5, <2>6, <2>7, <2>8 DEF TypeInv, client
  <2>10. WireInv'
    BY <2>2, <2>6, <2>7, <2>8 DEF TypeInv, WireInv, client
  <2>11. PlaceInv'
    BY <2>2, <2>5, <2>6, <2>7 DEF TypeInv, WireInv, PlaceInv, client
  <2> QED
    BY <2>9, <2>10, <2>11
<1>18. ASSUME NEW c \in Conn, NEW k \in DOMAIN wire[c], HandleOversize(c, k)
       PROVE  Shape'
  <2> DEFINE q == << >>
  <2>1. q \in Seq(Frame)
    OBVIOUS
  <2>2. wire' = [wire EXCEPT ![c][k] = q] /\ cut' = [cut EXCEPT ![c] = @ \cup {k}]
    BY <1>18 DEF HandleOversize
  <2>3. /\ wire' \in [Conn -> Seq(Seq(Frame))] /\ Len(wire[c]) = 1
        /\ \A o \in Conn : o # c => wire'[o] = wire[o]
        /\ Len(wire'[c]) = 1 /\ k = 1
    <3> HIDE DEF q
    <3> QED
      BY <2>1, <2>2, StreamUpdate
  <2>4. wire[c] # << >> /\ wire'[c] # << >>
    BY <2>3
  <2>5. TypeInv'
    BY <1>18, <2>2, <2>3 DEF TypeInv, HandleOversize, client, history
  <2>6. WireInv'
    <3>1. \A o \in Conn : o # c => cut'[o] = cut[o]
      BY <2>2 DEF TypeInv
    <3> QED
      BY <1>18, <2>3, <2>4, <3>1 DEF WireInv, HandleOversize, client
  <2>7. PlaceInv'
    BY <1>18, <2>3 DEF PlaceInv, HandleOversize, client
  <2> QED
    BY <2>5, <2>6, <2>7
<1> QED
  BY <1>1, <1>2, <1>3, <1>4, <1>5, <1>6, <1>7, <1>8, <1>9, <1>10, <1>11, <1>12,
     <1>13, <1>14, <1>15, <1>16, <1>17, <1>18 DEF Next, Exporter, Handle

-----------------------------------------------------------------------------
(* What a step does to the queue of a connection. *)
LEMMA QueueType ==
  ASSUME Shape, NEW c \in Conn
  PROVE  Queue(c) \in Seq(Frame) /\ (wire[c] # << >> => Queue(c) = wire[c][1] /\ Len(wire[c]) = 1)
<1>1. wire[c] \in Seq(Seq(Frame)) /\ Len(wire[c]) <= 1
  BY DEF Shape, TypeInv, WireInv
<1>2. CASE wire[c] = << >>
  <2>1. << >> \in Seq(Frame)
    OBVIOUS
  <2> QED
    BY <1>2, <2>1 DEF Queue, Frames
<1>3. CASE wire[c] # << >>
  <2>1. Len(wire[c]) = 1
    <3>1. Len(wire[c]) \in Nat /\ Len(wire[c]) # 0
      BY <1>1, <1>3, EmptySeq, LenProperties
    <3>2. \A n \in Nat : n # 0 /\ n <= 1 => n = 1
      OBVIOUS
    <3> QED
      BY <1>1, <3>1, <3>2, Zenon
  <2>2. wire[c][1] \in Seq(Frame)
    BY <1>1, <2>1
  <2> QED
    BY <1>3, <2>1, <2>2 DEF Queue, Frames
<1> QED
  BY <1>2, <1>3

(* The server's handling of a frame: it is decoded, and the rest of the    *)
(* queue replays as before.                                                *)
LEMMA HandleFrameEffect ==
  ASSUME IInv, NEW c \in Conn, NEW k \in DOMAIN wire[c], HandleFrame(c, k)
  PROVE  /\ srv' = srv /\ resyncs' = resyncs /\ cut' = cut
         /\ client' = client /\ nconn' = nconn /\ acked' = acked
         /\ \A o \in Conn : o # c => wire'[o] = wire[o] /\ dec'[o] = dec[o]
         /\ wire[c] # << >> /\ wire'[c] # << >> /\ wire[c][1] # << >>
         /\ wire'[c][1] = Tail(wire[c][1])
         /\ \A x \in EncState : Replays(dec[c], Queue(c), x) => Replays(dec'[c], Queue(c)', x)
         /\ KindsKept => Faithful'
         /\ received \subseteq received' /\ \E r \in received' : r.rec = Head(wire[c][1]).rec
<1> DEFINE q == wire[c][k]
           g == Head(q)
           d == DecodeFrame(dec[c], g.pts)
<1>0. Shape
  BY DEF IInv
<1>1. /\ wire[c] \in Seq(Seq(Frame)) /\ dec[c] \in [Series -> Int]
      /\ dec \in [Conn -> [Series -> Int]]
  BY DEF IInv, Shape, TypeInv
<1>2. q \in Seq(Frame) /\ q # << >> /\ srv[c] = "serving"
  BY <1>1, SMTT(60) DEF HandleFrame, Readable
<1>3. Tail(q) \in Seq(Frame) /\ wire' = [wire EXCEPT ![c][k] = Tail(q)]
  BY <1>2, SMTT(60) DEF HandleFrame
<1>4. dec' = [dec EXCEPT ![c] = d.dec]
  BY DEF HandleFrame
<1>5. /\ client' = client /\ nconn' = nconn /\ acked' = acked /\ cut' = cut
      /\ IF d.ok THEN /\ received' = received \cup {[rec |-> g.rec, pts |-> d.out]}
                      /\ UNCHANGED <<srv, resyncs>>
                 ELSE /\ srv' = [srv EXCEPT ![c] = "closed"]
                      /\ resyncs' = resyncs + 1
                      /\ UNCHANGED received
  BY DEF HandleFrame
<1> HIDE DEF q, d, g
<1>6. /\ k = 1 /\ Len(wire[c]) = 1
      /\ \A o \in Conn : o # c => wire'[o] = wire[o]
      /\ Len(wire'[c]) = 1 /\ wire'[c][1] = Tail(q)
  BY <1>0, <1>3, StreamUpdate DEF Shape
<1>7. wire[c] # << >> /\ wire'[c] # << >>
  BY <1>6
<1>8. Queue(c) = q /\ Queue(c)' = Tail(q)
  BY <1>6, <1>7 DEF Queue, Frames, q
<1>9. ASSUME NEW x \in EncState, Replays(dec[c], q, x)
      PROVE  /\ d.ok = TRUE /\ Replays(d.dec, Tail(q), x)
             /\ KindsKept => \A i \in DOMAIN d.out : d.out[i].time = g.rec
  BY <1>1, <1>2, <1>9, ReplayHead DEF d, g
<1>10. \E x \in EncState : Replays(dec[c], q, x)
  BY <1>2, <1>8 DEF IInv, SyncInv
<1>11. d.ok = TRUE /\ (KindsKept => \A i \in DOMAIN d.out : d.out[i].time = g.rec)
  BY <1>9, <1>10
<1>12. srv' = srv /\ resyncs' = resyncs
       /\ received' = received \cup {[rec |-> g.rec, pts |-> d.out]}
  BY <1>5, <1>11
<1>13. ASSUME KindsKept
       PROVE  Faithful'
  <2>1. \A r \in received : \A i \in DOMAIN r.pts : r.pts[i].time = r.rec
    BY <1>13 DEF IInv, HistoryInv, Faithful
  <2>2. \A r \in received' : \A i \in DOMAIN r.pts : r.pts[i].time = r.rec
    BY <2>1, <1>11, <1>12, <1>13
  <2> QED
    BY <2>2 DEF Faithful
<1>14. dec'[c] = d.dec /\ \A o \in Conn : o # c => dec'[o] = dec[o]
  BY <1>1, <1>4
<1>15. \A x \in EncState : Replays(dec[c], Queue(c), x) => Replays(dec'[c], Queue(c)', x)
  BY <1>8, <1>9, <1>14
<1> QED
  <2>1. received \subseteq received' /\ \E r \in received' : r.rec = g.rec
    <3>1. [rec |-> g.rec, pts |-> d.out] \in received' /\ received \subseteq received'
      BY <1>12, Zenon
    <3>2. [rec |-> g.rec, pts |-> d.out].rec = g.rec
      OBVIOUS
    <3> QED
      BY <3>1, <3>2, Zenon
  <2>2. wire[c][1] = q /\ g = Head(wire[c][1])
    <3>1. wire[c][1] = q
      BY <1>6 DEF q
    <3> QED
      BY <3>1, Zenon DEF g
  <2>3. wire[c][1] # << >> /\ wire'[c][1] = Tail(wire[c][1])
    BY <1>2, <1>6, <2>2
  <2> QED
    BY <1>5, <1>6, <1>7, <1>12, <1>13, <1>14, <1>15, <2>1, <2>2, <2>3, Zenon

(* A cancelled stream or an oversize frame stays with the Write that is    *)
(* blocked on it.                                                          *)
LEMMA LimitStep ==
  ASSUME IInv, [Next]_vars
  PROVE  LimitInv'
<1> USE DEF IInv, Shape
<1>0. None \notin Conn /\ None = 0
  BY TransportAssumption DEF Conn, None
<1>1. CASE ExportBegin \/ CheckConnected \/ DialFail \/ HandshakeOk \/ Encode
  <2>1. xpc # "blocked" /\ conn' = conn /\ cut' = cut /\ wire' = wire
    BY <1>1 DEF ExportBegin, CheckConnected, DialFail, HandshakeOk, Encode, server
  <2> QED
    BY <2>1 DEF LimitInv
<1>2. CASE HandshakeFail \/ SendFail \/ AgentClose
  BY <1>2 DEF LimitInv, HandshakeFail, SendFail, AgentClose
<1>3. CASE Dial
  <2>1. nconn + 1 \in Conn /\ nconn + 1 > nconn
    BY <1>3, TransportAssumption DEF Dial, TypeInv, Conn
  <2> QED
    BY <1>3, <2>1 DEF LimitInv, Dial, WireInv
<1>4. CASE GetStream
  <2>1. xpc # "blocked" /\ conn' = conn /\ cut' = cut /\ conn \in Conn
    BY <1>4 DEF GetStream, server, TypeInv, PlaceInv
  <2>2. CASE Usable
    BY <1>4, <2>1, <2>2 DEF LimitInv, GetStream
  <2>3. CASE ~Usable
    <3>1. wire[conn] = << >>
      BY <1>4, <2>1, <2>3 DEF TypeInv, WireInv, PlaceInv, LimitInv, GetStream, Usable
    <3>2. wire'[conn] = Append(<< >>, << >>)
      BY <1>4, <2>1, <2>3, <3>1 DEF GetStream, TypeInv
    <3>3. DOMAIN (wire'[conn][1]) = {}
      BY <3>2
    <3> QED
      BY <2>1, <3>3 DEF LimitInv
  <2> QED
    BY <2>2, <2>3
<1>5. CASE WriteOk
  <2>1. conn \in Conn /\ conn' = conn /\ cut' = cut /\ cut[conn] = {} /\ ~frame.big /\ wire' = Put
        /\ frame \in Frame
    BY <1>5 DEF WriteOk, TypeInv, PlaceInv, LimitInv, server
  <2>2. wire[conn] # << >> /\ Put[conn][1] \in {wire[conn][1], Append(wire[conn][1], frame)}
    BY <1>5, PutEffect DEF WriteOk
  <2>3. wire[conn][1] \in Seq(Frame) /\ \A i \in DOMAIN wire[conn][1] : ~wire[conn][1][i].big
    <3>1. Queue(conn) \in Seq(Frame) /\ Queue(conn) = wire[conn][1]
      BY <2>1, <2>2, QueueType
    <3>2. \A i \in DOMAIN wire[conn][1] : ~wire[conn][1][i].big
      <4>1. conn # None /\ xpc # "blocked"
        BY <1>0, <1>5, <2>1 DEF WriteOk
      <4> QED
        BY <4>1, <2>2 DEF LimitInv
    <3> QED
      BY <3>1, <3>2
  <2> DEFINE p == wire[conn][1]
  <2> HIDE DEF p
  <2>4. \A i \in DOMAIN Append(p, frame) : ~Append(p, frame)[i].big
    <3>1. p \in Seq(Frame) /\ \A i \in DOMAIN p : ~p[i].big
      BY <2>3 DEF p
    <3>2. ASSUME NEW i \in DOMAIN Append(p, frame)
          PROVE  ~Append(p, frame)[i].big
      <4>1. i \in 1 .. Len(p) + 1
        BY <3>1
      <4>2. CASE i = Len(p) + 1
        <5>1. Append(p, frame)[i] = frame
          BY <3>1, <4>2
        <5> QED
          BY <2>1, <5>1
      <4>3. CASE i # Len(p) + 1
        <5>1. i \in DOMAIN p /\ Append(p, frame)[i] = p[i]
          BY <3>1, <4>1, <4>3
        <5> QED
          BY <3>1, <5>1
      <4> QED
        BY <4>2, <4>3
    <3> QED
      BY <3>2
  <2>5. wire'[conn][1] = p \/ wire'[conn][1] = Append(p, frame)
    BY <2>1, <2>2 DEF p
  <2>6. \A i \in DOMAIN wire'[conn][1] : ~wire'[conn][1][i].big
    BY <2>3, <2>4, <2>5 DEF p
  <2> QED
    BY <2>1, <2>6 DEF LimitInv
<1>6. CASE WriteBlock
  BY <1>6 DEF WriteBlock, LimitInv
<1>7. CASE Closed \/ UNCHANGED vars
  BY <1>7 DEF LimitInv, Closed, vars, client, server
<1>8. ASSUME NEW c \in Conn, Accept(c) \/ ClientLost(c) \/ ClientNotices(c)
      PROVE  LimitInv'
  BY <1>8 DEF LimitInv, Accept, ClientLost, ClientNotices, client, server
<1>9. ASSUME NEW c \in Conn, ServerGone(c)
      PROVE  LimitInv'
  <2>1. conn' = conn /\ cut' = cut /\ xpc' = xpc
        /\ wire' = [wire EXCEPT ![c] = [k \in DOMAIN wire[c] |-> << >>]]
    BY <1>9 DEF ServerGone, client
  <2>2. CASE conn # c
    BY <2>1, <2>2 DEF LimitInv, TypeInv
  <2>3. CASE conn = c
    <3>1. wire'[c] = [k \in DOMAIN wire[c] |-> << >>]
      BY <2>1 DEF TypeInv
    <3>2. wire[c] # << >> => 1 \in DOMAIN wire[c]
      BY DEF TypeInv
    <3>3. wire[c] = << >> => wire'[c] = << >>
      BY <3>1
    <3>4. wire[c] # << >> => wire'[c][1] = << >>
      BY <3>1, <3>2
    <3> QED
      BY <2>1, <2>3, <3>3, <3>4 DEF LimitInv
  <2> QED
    BY <2>2, <2>3
<1>10. ASSUME NEW c \in Conn, NEW k \in DOMAIN wire[c], HandleFrame(c, k)
       PROVE  LimitInv'
  <2>1. /\ conn' = conn /\ cut' = cut /\ xpc' = xpc
        /\ \A o \in Conn : o # c => wire'[o] = wire[o]
        /\ wire[c] # << >> /\ wire'[c][1] = Tail(wire[c][1]) /\ wire[c][1] # << >>
    BY <1>10, HandleFrameEffect DEF client
  <2>2. CASE conn # c
    BY <2>1, <2>2 DEF LimitInv, TypeInv
  <2>3. CASE conn = c
    <3> DEFINE p == wire[c][1]
    <3>1. p \in Seq(Frame)
      BY <2>1, QueueType
    <3> HIDE DEF p
    <3>2. ASSUME NEW i \in DOMAIN Tail(p)
          PROVE  i + 1 \in DOMAIN p /\ Tail(p)[i] = p[i + 1]
      BY <2>1, <3>1 DEF p
    <3> QED
      <4>1. SUFFICES ASSUME xpc # "blocked"
                     PROVE  /\ cut[c] = {}
                            /\ \A i \in DOMAIN Tail(p) : ~Tail(p)[i].big
        BY <2>1, <2>3 DEF LimitInv, p
      <4>2. cut[c] = {} /\ \A i \in DOMAIN p : ~p[i].big
        BY <1>0, <2>1, <2>3, <4>1 DEF LimitInv, p
      <4> QED
        BY <3>2, <4>2
  <2> QED
    BY <2>2, <2>3
<1>11. ASSUME NEW c \in Conn, NEW k \in DOMAIN wire[c], HandleOversize(c, k)
       PROVE  LimitInv'
  <2> DEFINE q == << >>
  <2>1. /\ conn' = conn /\ xpc' = xpc /\ cut' = [cut EXCEPT ![c] = @ \cup {k}]
        /\ wire' = [wire EXCEPT ![c][k] = q] /\ wire[c][k] # << >> /\ Head(wire[c][k]).big
        /\ q \in Seq(Frame)
    BY <1>11 DEF HandleOversize, Readable, client
  <2> HIDE DEF q
  <2>2. k = 1 /\ Len(wire[c]) = 1 /\ \A o \in Conn : o # c => wire'[o] = wire[o]
    BY <2>1, StreamUpdate
  <2>3. CASE conn # c
    BY <2>1, <2>2, <2>3 DEF LimitInv, TypeInv
  <2>4. CASE conn = c
    <3>1. wire[c] # << >>
      BY <2>2
    <3>2. wire[c][1] \in Seq(Frame)
      BY <3>1, QueueType
    <3>3. 1 \in DOMAIN wire[c][1] /\ wire[c][1][1].big
      BY <2>1, <2>2, <3>2
    <3>4. xpc = "blocked"
      BY <1>0, <2>4, <3>1, <3>3 DEF LimitInv
    <3> QED
      BY <2>1, <3>4 DEF LimitInv
  <2> QED
    BY <2>3, <2>4
<1> QED
  BY <1>1, <1>2, <1>3, <1>4, <1>5, <1>6, <1>7, <1>8, <1>9, <1>10, <1>11
  DEF Next, Exporter, Handle

(* Encoding does not go ahead of the record's time, and what it encodes is *)
(* what Codes says.                                                        *)
LEMMA EncodeCodes ==
  ASSUME NEW e \in EncState, NEW b \in Batch, NEW t \in Rec,
         \A s \in Series : e[s] <= t,
         NEW f, f.rec = t, f.pts = EncodeFrame(e, b, t).out
  PROVE  /\ Codes(e, f, EncodeFrame(e, b, t).enc)
         /\ \A s \in Series : EncodeFrame(e, b, t).enc[s] <= t
<1> DEFINE V == Rec \cup {Unseen}
           g == EncodeFrame(e, b, t)
<1>1. V \in SUBSET Nat /\ t \in V /\ t # 0 /\ e \in [Series -> V] /\ b \in Seq(Point)
  BY FrameType DEF EncState, Unseen
<1>2. e \in [Series -> Int] /\ Agree(e, e)
  <2>1. e \in [Series -> Nat]
    BY FrameType
  <2> QED
    BY <2>1 DEF Agree
<1>3. Survives(b, t, g, DecodeFrame(e, g.out))
  <2> HIDE DEF V
  <2> QED
    BY <1>1, <1>2, RoundTrip
<1>4. \A s \in Series : g.enc[s] <= t
  <2> HIDE DEF g
  <2> QED
    BY <1>3 DEF Survives
<1>5. g = [enc |-> g.enc, out |-> g.out]
  <2>1. EncodeSteps(e, b, t) \in [0 .. Len(b) -> EncAcc(V)]
    <3> HIDE DEF V
    <3> QED
      BY <1>1, EncodeStepsRun
  <2>2. Len(b) \in 0 .. Len(b)
    BY <1>1
  <2>3. g \in EncAcc(V)
    BY <2>1, <2>2 DEF EncodeFrame
  <2> HIDE DEF g
  <2> QED
    BY <2>3 DEF EncAcc
<1>6. Codes(e, f, g.enc)
  <2> HIDE DEF g
  <2>1. EncodeFrame(e, b, f.rec) = [enc |-> g.enc, out |-> f.pts]
    BY <1>5 DEF g
  <2> QED
    BY <2>1 DEF Codes
<1> QED
  BY <1>4, <1>6

(* Records are exported in order, and the encoder's times keep up with     *)
(* them.                                                                   *)
LEMMA CountStep ==
  ASSUME IInv, [Next]_vars
  PROVE  CountInv'
<1> USE DEF IInv, Shape
<1> DEFINE n == Cardinality(acked)
<1>0. n \in Nat /\ IsFiniteSet(acked) /\ None = 0 /\ Rec \subseteq Nat \ {0}
  BY FS_CardinalityType, FrameType DEF CountInv, None
<1>1. CASE ExportBegin
  <2>1. acked' = acked /\ enc' = enc
    BY <1>1 DEF ExportBegin, history
  <2>2. rec' = n + 1 /\ \A s \in Series : enc[s] <= n + 1
    <3>1. CASE rec = None
      <4>1. rec' = n + 1
        BY <1>1, <3>1 DEF ExportBegin
      <4>2. ASSUME NEW s \in Series
            PROVE  enc[s] <= n + 1
        <5>1. enc[s] <= n
          BY <3>1 DEF CountInv
        <5>2. enc[s] \in Nat
          BY FrameType DEF TypeInv
        <5> QED
          BY <1>0, <5>1, <5>2
      <4> QED
        BY <4>1, <4>2
    <3>2. CASE rec # None
      BY <1>1, <3>2 DEF ExportBegin, CountInv
    <3> QED
      BY <3>1, <3>2
  <2>3. rec' # None
    BY <1>0, <2>2
  <2> HIDE DEF n
  <2>4. Cardinality(acked') = n
    BY <2>1 DEF n
  <2> QED
    BY <1>0, <2>1, <2>2, <2>3, <2>4 DEF CountInv, n
<1>2. CASE HandshakeOk \/ SendFail
  <2>1. acked' = acked /\ enc' = Fresh /\ rec' = rec
    BY <1>2 DEF HandshakeOk, SendFail, NextAttempt, history
  <2>2. \A s \in Series : enc'[s] = 0
    BY <2>1 DEF Fresh, Unseen
  <2>3. rec = None \/ rec \in Nat
    BY <1>0 DEF TypeInv
  <2> QED
    BY <1>0, <2>1, <2>2, <2>3 DEF CountInv
<1>3. CASE Encode
  <2>1. /\ acked' = acked /\ rec' = rec /\ enc' = EncodeFrame(enc, batch, rec).enc
        /\ rec \in Rec /\ rec # None /\ batch \in Batch /\ enc \in EncState
    BY <1>3 DEF Encode, TypeInv, PlaceInv, history
  <2>2. \A s \in Series : enc[s] <= rec
    BY <2>1 DEF CountInv
  <2> DEFINE f == [rec |-> rec, pts |-> EncodeFrame(enc, batch, rec).out]
  <2>3. f.rec = rec /\ f.pts = EncodeFrame(enc, batch, rec).out
    OBVIOUS
  <2> HIDE DEF f
  <2>4. \A s \in Series : enc'[s] <= rec
    BY <2>1, <2>2, <2>3, EncodeCodes
  <2> QED
    BY <2>1, <2>4 DEF CountInv
<1>4. CASE WriteOk
  <2>1. acked' = acked \cup {rec} /\ rec' = None /\ enc' = enc /\ rec \in Rec /\ rec # None
    BY <1>4 DEF WriteOk, TypeInv, PlaceInv
  <2>2. rec = n + 1 /\ \A s \in Series : enc[s] <= rec
    BY <2>1 DEF CountInv
  <2>3. rec \notin acked
    BY <1>0, <2>1, <2>2 DEF CountInv
  <2>4. IsFiniteSet(acked') /\ Cardinality(acked') = n + 1
    BY <1>0, <2>1, <2>3, FS_AddElement
  <2>5. ASSUME NEW r \in Rec
        PROVE  r \in acked' <=> r <= n + 1
    <3>1. r \in acked <=> r <= n
      BY DEF CountInv
    <3>2. r \in Nat
      BY <1>0
    <3> QED
      BY <1>0, <2>1, <2>2, <3>1, <3>2
  <2> HIDE DEF n
  <2> QED
    BY <2>1, <2>2, <2>4, <2>5 DEF CountInv
<1>5. CASE \/ CheckConnected \/ Dial \/ DialFail \/ HandshakeFail \/ GetStream
           \/ WriteBlock \/ AgentClose \/ Closed \/ UNCHANGED vars
  <2>1. acked' = acked /\ enc' = enc /\ rec' = rec
    BY <1>5 DEF CheckConnected, Dial, DialFail, HandshakeFail, GetStream, WriteBlock,
                AgentClose, Closed, vars, client, history, NextAttempt
  <2> QED
    BY <2>1 DEF CountInv
<1>6. ASSUME NEW c \in Conn, Accept(c) \/ ServerGone(c) \/ ClientLost(c) \/ ClientNotices(c)
      PROVE  CountInv'
  <2>1. acked' = acked /\ enc' = enc /\ rec' = rec
    BY <1>6 DEF Accept, ServerGone, ClientLost, ClientNotices, client, history
  <2> QED
    BY <2>1 DEF CountInv
<1>7. ASSUME NEW c \in Conn, NEW k \in DOMAIN wire[c], HandleFrame(c, k) \/ HandleOversize(c, k)
      PROVE  CountInv'
  <2>1. acked' = acked /\ enc' = enc /\ rec' = rec
    BY <1>7 DEF HandleFrame, HandleOversize, client, history
  <2> QED
    BY <2>1 DEF CountInv
<1> QED
  BY <1>1, <1>2, <1>3, <1>4, <1>5, <1>6, <1>7 DEF Next, Exporter, Handle

(* A frame read from a connection in step decodes, and to the times it was *)
(* sent with.                                                              *)
LEMMA HistoryStep ==
  ASSUME IInv, [Next]_vars
  PROVE  HistoryInv'
<1>1. CASE UNCHANGED <<received, resyncs>>
  BY <1>1 DEF IInv, HistoryInv, Faithful
<1>2. ASSUME NEW c \in Conn, NEW k \in DOMAIN wire[c], HandleFrame(c, k)
      PROVE  HistoryInv'
  BY <1>2, HandleFrameEffect DEF IInv, HistoryInv
<1>3. Exporter \/ AgentClose \/ Closed \/ UNCHANGED vars => UNCHANGED <<received, resyncs>>
  BY DEF Exporter, ExportBegin, CheckConnected, Dial, DialFail, HandshakeOk, HandshakeFail,
         Encode, GetStream, WriteOk, WriteBlock, SendFail, AgentClose, Closed, vars, history
<1>4. ASSUME NEW c \in Conn, Accept(c) \/ ServerGone(c) \/ ClientLost(c) \/ ClientNotices(c)
      PROVE  UNCHANGED <<received, resyncs>>
  BY <1>4 DEF Accept, ServerGone, ClientLost, ClientNotices, history
<1>5. ASSUME NEW c \in Conn, NEW k \in DOMAIN wire[c], HandleOversize(c, k)
      PROVE  UNCHANGED <<received, resyncs>>
  BY <1>5 DEF HandleOversize, history
<1> QED
  BY <1>1, <1>2, <1>3, <1>4, <1>5 DEF Next, Handle

(* The two halves of SyncInv. *)
Open(c) == srv[c] = "serving" => \E x \in EncState : Replays(dec[c], Queue(c), x)

Level(c) ==
  srv[c] = "serving" =>
    /\ xpc \in {"idle", "check", "dial", "encode"} => Replays(dec[c], Queue(c), enc)
    /\ xpc \in {"stream", "write"} =>
         \E x \in EncState : Replays(dec[c], Queue(c), x) /\ Codes(x, frame, enc)

(* What Put makes of the queue can be decoded as well. *)
LEMMA PutReplays ==
  ASSUME IInv, xpc = "write", wire' = Put, srv' = srv, dec' = dec
  PROVE  /\ \A c \in Conn : Open(c)'
         /\ srv[conn] = "serving" => Replays(dec[conn], Frames(wire'[conn]), enc)
<1>0. Shape
  BY DEF IInv
<1>1. /\ \A o \in Conn : o # conn => Put[o] = wire[o]
      /\ Len(Put[conn]) = 1 /\ wire[conn] # << >>
      /\ Put[conn][1] \in {wire[conn][1], Append(wire[conn][1], frame)}
      /\ srv[conn] = "serving" /\ cut[conn] = {}
           => Put[conn][1] = Append(wire[conn][1], frame)
  BY <1>0, PutEffect
<1>2. conn \in Conn /\ conn # None /\ frame \in Frame /\ cut[conn] = {} /\ enc \in EncState
  BY <1>0 DEF Shape, TypeInv, PlaceInv, IInv, LimitInv
<1>3. Len(<< >>) = 0 /\ 0 # 1
  OBVIOUS
<1>4. wire'[conn] # << >>
  BY <1>1, <1>3, Zenon
<1>5. ASSUME srv[conn] = "serving"
      PROVE  Replays(dec[conn], Frames(wire'[conn]), enc)
  <2>1. Queue(conn) \in Seq(Frame) /\ Queue(conn) = wire[conn][1]
    BY <1>0, <1>1, <1>2, QueueType
  <2>2. wire'[conn][1] = Append(Queue(conn), frame)
    BY <1>1, <1>2, <1>5, <2>1
  <2>3. Frames(wire'[conn]) = Append(Queue(conn), frame)
    BY <1>4, <2>2 DEF Frames
  <2>4. PICK x \in EncState : Replays(dec[conn], Queue(conn), x) /\ Codes(x, frame, enc)
    BY <1>2, <1>5 DEF IInv, SyncInv
  <2> QED
    BY <1>2, <2>1, <2>3, <2>4, ReplayAppend
<1>6. ASSUME NEW c \in Conn
      PROVE  Open(c)'
  <2>1. CASE c = conn
    BY <1>2, <1>5, <2>1 DEF Open, Queue
  <2>2. CASE c # conn
    BY <1>1, <2>2 DEF Open, Queue, Frames, IInv, SyncInv
  <2> QED
    BY <2>1, <2>2
<1> QED
  BY <1>5, <1>6

(* Every step leaves each open connection decodable to its end. *)
LEMMA SyncStep ==
  ASSUME IInv, [Next]_vars
  PROVE  SyncInv'
<1>a. SUFFICES /\ \A c \in Conn : Open(c)'
               /\ conn' # None => Level(conn)'
  BY DEF SyncInv, Open, Level
<1>b. /\ \A c \in Conn : Open(c)
      /\ conn # None => Level(conn)
      /\ Shape /\ TypeInv /\ WireInv /\ PlaceInv
  BY DEF IInv, SyncInv, Open, Level, Shape
<1>c. None = 0 /\ None \notin Conn
  BY TransportAssumption DEF Conn, None
<1>1. ASSUME UNCHANGED <<wire, dec, srv>>
      PROVE  \A c \in Conn : Open(c)'
  BY <1>b, <1>1 DEF Open, Queue
<1>2. CASE ExportBegin \/ CheckConnected \/ DialFail
  <2>1. /\ UNCHANGED <<wire, dec, srv, enc, conn>>
        /\ xpc \in {"idle", "check", "dial"} /\ xpc' \in {"idle", "check", "dial", "encode"}
    BY <1>2 DEF ExportBegin, CheckConnected, DialFail, NextAttempt, server
  <2> QED
    BY <1>1, <1>b, <2>1 DEF Level, Queue
<1>3. CASE HandshakeOk
  <2>1. /\ UNCHANGED <<wire, dec, srv, conn>> /\ enc' = Fresh /\ xpc' = "encode"
        /\ srv[conn] = "serving" /\ dec[conn] = Fresh /\ wire[conn] = << >>
    BY <1>3, <1>b DEF HandshakeOk, PlaceInv, WireInv, server
  <2>2. Replays(Fresh, << >>, Fresh)
    BY FrameType, ReplayNone
  <2> QED
    BY <1>1, <2>1, <2>2 DEF Level, Queue, Frames
<1>4. CASE HandshakeFail \/ AgentClose \/ (SendFail /\ wire' = wire)
  <2>1. UNCHANGED <<wire, dec, srv>> /\ conn' = None
    BY <1>4 DEF HandshakeFail, AgentClose, SendFail, server
  <2> QED
    BY <1>1, <2>1
<1>5. CASE SendFail /\ wire' # wire
  <2>1. UNCHANGED <<dec, srv>> /\ conn' = None /\ xpc = "write" /\ wire' = Put
    BY <1>5 DEF SendFail, server
  <2> QED
    BY <2>1, PutReplays
<1>6. CASE Dial
  <2>1. /\ UNCHANGED <<wire, dec>> /\ xpc' = "handshake"
        /\ srv' = [srv EXCEPT ![nconn + 1] = "hello"]
    BY <1>6 DEF Dial
  <2>2. \A c \in Conn : Open(c)'
    BY <1>b, <2>1 DEF Open, Queue, TypeInv
  <2> QED
    BY <2>1, <2>2 DEF Level
<1>7. CASE Encode
  <2> DEFINE e == EncodeFrame(enc, batch, rec)
  <2>1. /\ UNCHANGED <<wire, dec, srv, conn>> /\ xpc = "encode" /\ xpc' = "stream"
        /\ enc' = e.enc /\ frame' = [rec |-> rec, big |-> big, pts |-> e.out]
        /\ rec \in Rec /\ rec # None /\ batch \in Batch /\ enc \in EncState
    BY <1>7, <1>b DEF Encode, TypeInv, PlaceInv, server
  <2>2. \A s \in Series : enc[s] <= rec
    BY <2>1 DEF IInv, CountInv
  <2>3. frame'.rec = rec /\ frame'.pts = e.out
    BY <2>1
  <2>4. Codes(enc, frame', enc')
    BY <2>1, <2>2, <2>3, EncodeCodes
  <2> QED
    BY <1>1, <1>b, <2>1, <2>4 DEF Level, Queue
<1>8. CASE GetStream
  <2>1. /\ UNCHANGED <<dec, srv, enc, conn, frame>> /\ xpc = "stream" /\ xpc' = "write"
        /\ conn \in Conn
    BY <1>8, <1>b DEF GetStream, server, TypeInv, PlaceInv
  <2>2. \A c \in Conn : Frames(wire'[c]) = Frames(wire[c])
    <3>1. CASE Usable
      BY <1>8, <3>1 DEF GetStream
    <3>2. CASE ~Usable
      <4>1. wire[conn] = << >>
        <5>1. conn # None /\ xpc # "blocked"
          BY <1>c, <2>1
        <5>2. cut[conn] = {}
          BY <5>1 DEF IInv, LimitInv
        <5>3. stream = None
          BY <3>2, <5>2 DEF Usable
        <5> QED
          BY <1>b, <5>1, <5>3 DEF WireInv
      <4>2. wire' = [wire EXCEPT ![conn] = Append(<< >>, << >>)]
        BY <1>8, <3>2, <4>1 DEF GetStream
      <4>3. Frames(Append(<< >>, << >>)) = << >> /\ Frames(<< >>) = << >>
        BY DEF Frames
      <4> QED
        BY <1>b, <2>1, <4>1, <4>2, <4>3 DEF TypeInv
    <3> QED
      BY <3>1, <3>2
  <2>3. \A c \in Conn : Queue(c)' = Queue(c)
    BY <2>2 DEF Queue
  <2> QED
    BY <1>b, <2>1, <2>2, <2>3 DEF Open, Level, Queue
<1>9. CASE WriteOk \/ WriteBlock
  <2>1. /\ UNCHANGED <<dec, srv, enc, conn>> /\ wire' = Put /\ xpc = "write"
        /\ xpc' \in {"idle", "blocked"}
    BY <1>9 DEF WriteOk, WriteBlock, server
  <2>2. /\ \A c \in Conn : Open(c)'
        /\ srv[conn] = "serving" => Replays(dec[conn], Frames(wire'[conn]), enc)
    BY <2>1, PutReplays
  <2> QED
    BY <2>1, <2>2 DEF Level, Queue
<1>10. CASE Closed \/ UNCHANGED vars
  <2>1. UNCHANGED <<wire, dec, srv, enc, conn, frame, xpc>>
    BY <1>10 DEF Closed, vars, client, server
  <2> QED
    BY <1>1, <1>b, <2>1 DEF Level, Queue
<1>11. ASSUME NEW c \in Conn, Accept(c)
       PROVE  (\A o \in Conn : Open(o)') /\ (conn' # None => Level(conn)')
  <2>1. /\ UNCHANGED <<wire, enc, conn, frame, xpc>> /\ srv[c] = "hello"
        /\ srv' = [srv EXCEPT ![c] = "serving"] /\ dec' = [dec EXCEPT ![c] = Fresh]
        /\ wire[c] = << >>
    BY <1>11, <1>b DEF Accept, client, WireInv
  <2>2. srv'[c] = "serving" /\ dec'[c] = Fresh
        /\ \A o \in Conn : o # c => srv'[o] = srv[o] /\ dec'[o] = dec[o]
    BY <1>b, <2>1 DEF TypeInv
  <2>3. Replays(Fresh, << >>, Fresh) /\ Fresh \in EncState
    BY FrameType, ReplayNone
  <2>4. Open(c)'
    BY <2>1, <2>2, <2>3 DEF Open, Queue, Frames
  <2>5. \A o \in Conn : Open(o)'
    BY <1>b, <2>1, <2>2, <2>4 DEF Open, Queue
  <2>6. conn = c => xpc = "handshake"
    BY <1>b, <1>c, <2>1 DEF PlaceInv
  <2>7. conn # None => Level(conn)'
    <3>1. CASE conn = c
      BY <2>1, <2>6, <3>1 DEF Level
    <3>2. CASE conn # c
      BY <1>b, <2>1, <2>2, <3>2 DEF Level, Queue, TypeInv
    <3> QED
      BY <3>1, <3>2
  <2> QED
    BY <2>1, <2>5, <2>7
<1>12. ASSUME NEW c \in Conn, ServerGone(c)
       PROVE  (\A o \in Conn : Open(o)') /\ (conn' # None => Level(conn)')
  <2>1. /\ UNCHANGED <<enc, conn, frame, xpc, dec>>
        /\ srv' = [srv EXCEPT ![c] = "closed"]
        /\ wire' = [wire EXCEPT ![c] = [k \in DOMAIN wire[c] |-> << >>]]
    BY <1>12 DEF ServerGone, client
  <2>2. srv'[c] = "closed" /\ \A o \in Conn : o # c => srv'[o] = srv[o] /\ wire'[o] = wire[o]
    BY <1>b, <2>1 DEF TypeInv
  <2>3. \A o \in Conn : Open(o)'
    BY <1>b, <2>1, <2>2 DEF Open, Queue
  <2>4. conn # None => Level(conn)'
    BY <1>b, <2>1, <2>2 DEF Level, Queue, TypeInv
  <2> QED
    BY <2>1, <2>3, <2>4
<1>13. ASSUME NEW c \in Conn, ClientLost(c) \/ ClientNotices(c)
       PROVE  (\A o \in Conn : Open(o)') /\ (conn' # None => Level(conn)')
  <2>1. UNCHANGED <<wire, dec, srv, enc, conn, frame, xpc>>
    BY <1>13 DEF ClientLost, ClientNotices, client, server
  <2> QED
    BY <1>1, <1>b, <2>1 DEF Level, Queue
<1>14. ASSUME NEW c \in Conn, NEW k \in DOMAIN wire[c], HandleFrame(c, k)
       PROVE  (\A o \in Conn : Open(o)') /\ (conn' # None => Level(conn)')
  <2>1. /\ UNCHANGED <<enc, conn, frame, xpc, srv>>
        /\ \A o \in Conn : o # c => wire'[o] = wire[o] /\ dec'[o] = dec[o]
        /\ \A x \in EncState : Replays(dec[c], Queue(c), x) => Replays(dec'[c], Queue(c)', x)
    BY <1>14, HandleFrameEffect DEF client
  <2>2. \A x \in EncState : Replays(dec[c], Frames(wire[c]), x) => Replays(dec'[c], Frames(wire'[c]), x)
    BY <2>1 DEF Queue
  <2>3. \A o \in Conn : Open(o)'
    BY <1>b, <2>1, <2>2 DEF Open, Queue
  <2>4. enc \in EncState /\ conn \in Conn \cup {None}
    BY <1>b DEF TypeInv
  <2>5. conn # None => Level(conn)'
    <3>1. CASE conn = c
      BY <1>b, <1>c, <2>1, <2>2, <2>4, <3>1 DEF Level, Queue
    <3>2. CASE conn # c
      BY <1>b, <2>1, <2>4, <3>2 DEF Level, Queue
    <3> QED
      BY <3>1, <3>2
  <2> QED
    BY <2>1, <2>3, <2>5
<1>15. ASSUME NEW c \in Conn, NEW k \in DOMAIN wire[c], HandleOversize(c, k)
       PROVE  (\A o \in Conn : Open(o)') /\ (conn' # None => Level(conn)')
  <2> DEFINE q == << >>
  <2>1. /\ UNCHANGED <<enc, conn, frame, xpc, srv, dec>>
        /\ wire' = [wire EXCEPT ![c][k] = q] /\ q \in Seq(Frame)
        /\ wire[c][k] # << >> /\ Head(wire[c][k]).big
    BY <1>15 DEF HandleOversize, Readable, client
  <2> HIDE DEF q
  <2>2. /\ k = 1 /\ Len(wire[c]) = 1 /\ \A o \in Conn : o # c => wire'[o] = wire[o]
        /\ wire'[c][1] = q
    BY <1>b, <2>1, StreamUpdate
  <2>3. Frames(wire'[c]) = << >>
    BY <2>2 DEF Frames, q
  <2>4. Replays(dec[c], << >>, Fresh) /\ Fresh \in EncState
    BY FrameType, ReplayNone
  <2>5. \A o \in Conn : Open(o)'
    BY <1>b, <2>1, <2>2, <2>3, <2>4 DEF Open, Queue
  <2>6. conn = c => xpc = "blocked"
    <3>1. wire[c] # << >>
      BY <2>2
    <3>2. wire[c][1] \in Seq(Frame)
      BY <1>b, <3>1, QueueType
    <3>3. 1 \in DOMAIN wire[c][1] /\ wire[c][1][1].big
      BY <2>1, <2>2, <3>2
    <3> QED
      BY <1>c, <3>1, <3>3 DEF IInv, LimitInv
  <2>7. conn # None => Level(conn)'
    <3>1. CASE conn = c
      BY <2>1, <2>6, <3>1 DEF Level
    <3>2. CASE conn # c
      BY <1>b, <2>1, <2>2, <3>2 DEF Level, Queue, TypeInv
    <3> QED
      BY <3>1, <3>2
  <2> QED
    BY <2>1, <2>5, <2>7
<1> QED
  BY <1>2, <1>3, <1>4, <1>5, <1>6, <1>7, <1>8, <1>9, <1>10, <1>11, <1>12, <1>13,
     <1>14, <1>15 DEF Next, Exporter, Handle

(* The first state satisfies the invariant. *)
LEMMA InitIInv == Init => IInv
<1> SUFFICES ASSUME Init
             PROVE  IInv
  OBVIOUS
<1>0. /\ None = 0 /\ None \notin Conn /\ Conn \subseteq Nat \ {0} /\ 1 \in Conn
      /\ Conn = 1 .. MaxConn
      /\ MaxConn \in Nat /\ MaxRetries \in Nat /\ MaxFault \in Nat
  BY TransportAssumption DEF Conn, None
<1>1. PICK n \in {0, 1} : /\ nconn = n /\ conn = n
                          /\ up = [c \in Conn |-> c = n]
                          /\ srv = [c \in Conn |-> IF c = n THEN "serving" ELSE "none"]
  BY DEF Init
<1>2. /\ xpc = "idle" /\ attempt = 0 /\ rec = None /\ enc = Fresh /\ stream = None
      /\ faults = 0 /\ acked = {} /\ received = {} /\ resyncs = 0
      /\ dec = [c \in Conn |-> Fresh]
      /\ wire = [c \in Conn |-> << >>]
      /\ cut = [c \in Conn |-> {}]
  BY DEF Init
<1>3. TypeInv
  <2>1. big \in BOOLEAN
    BY Zenon DEF Init
  <2>2. up \in [Conn -> BOOLEAN]
    BY <1>1, Zenon
  <2>3. srv \in [Conn -> {"none", "hello", "serving", "closed"}]
    BY <1>1
  <2>4. Fresh \in EncState /\ Fresh \in [Series -> Int]
    BY FrameType
  <2>5. dec \in [Conn -> [Series -> Int]]
    BY <1>2, <2>4
  <2>6. wire \in [Conn -> Seq(Seq(Frame))] /\ cut \in [Conn -> SUBSET Nat]
    BY <1>2
  <2>7. conn \in Conn \cup {None} /\ nconn \in 0 .. MaxConn
    BY <1>0, <1>1
  <2>8. attempt \in 0 .. MaxRetries /\ faults \in 0 .. MaxFault
    BY <1>0, <1>2
  <2> QED
    BY <1>2, <2>1, <2>2, <2>3, <2>4, <2>5, <2>6, <2>7, <2>8 DEF TypeInv
<1>4. \A c \in Conn : /\ wire[c] = << >> /\ cut[c] = {} /\ dec[c] = Fresh
                      /\ c = n => srv[c] = "serving"
                      /\ c # n => srv[c] = "none"
  BY <1>1, <1>2
<1>5. WireInv
  <2>1. \A c \in Conn : c > nconn => c # n
    BY <1>0, <1>1
  <2>2. \A c \in Conn : Len(wire[c]) <= 1
    BY <1>4
  <2>3. \A c \in Conn : srv[c] # "hello"
    BY <1>4
  <2>4. conn # None => conn = nconn /\ wire[conn] = << >>
    BY <1>1, <1>3, <1>4 DEF TypeInv
  <2> QED
    BY <1>2, <1>4, <2>1, <2>2, <2>3, <2>4 DEF WireInv
<1>6. PlaceInv
  <2>1. conn # None => srv[conn] = "serving"
    BY <1>1, <1>3, <1>4 DEF TypeInv
  <2> QED
    BY <1>2, <2>1 DEF PlaceInv
<1>7. LimitInv
  BY <1>3, <1>4 DEF LimitInv, TypeInv
<1>8. CountInv
  <2>1. IsFiniteSet(acked) /\ Cardinality(acked) = 0
    BY <1>2, FS_EmptySet
  <2>2. \A r \in Rec : ~(r <= 0)
    BY FrameType
  <2>3. \A s \in Series : enc[s] <= 0
    BY <1>2 DEF Fresh, Unseen
  <2> QED
    BY <1>2, <2>1, <2>2, <2>3 DEF CountInv
<1>9. SyncInv
  <2>1. Replays(Fresh, << >>, Fresh) /\ Fresh \in EncState
    BY FrameType, ReplayNone
  <2>2. \A c \in Conn : Replays(dec[c], Queue(c), Fresh)
    BY <1>4, <2>1 DEF Queue, Frames
  <2>3. conn # None => Replays(dec[conn], Queue(conn), enc)
    BY <1>2, <1>3, <2>2 DEF TypeInv
  <2> QED
    BY <1>2, <2>1, <2>2, <2>3 DEF SyncInv
<1>10. HistoryInv
  BY <1>2 DEF HistoryInv, Faithful
<1> QED
  BY <1>3, <1>5, <1>6, <1>7, <1>8, <1>9, <1>10 DEF IInv, Shape

-----------------------------------------------------------------------------
(* The invariant holds in every behaviour. *)
THEOREM Inductive == Spec => []IInv
<1>1. ASSUME IInv, [Next]_vars
      PROVE  IInv'
  <2>1. Shape'
    BY <1>1, ShapeStep DEF IInv
  <2>2. LimitInv'
    BY <1>1, LimitStep
  <2>3. CountInv'
    BY <1>1, CountStep
  <2>4. SyncInv'
    BY <1>1, SyncStep
  <2>5. HistoryInv'
    BY <1>1, HistoryStep
  <2> QED
    BY <2>1, <2>2, <2>3, <2>4, <2>5 DEF IInv
<1> QED
  BY InitIInv, <1>1, PTL DEF Spec

(* The variables of client, server and wire keep their types: in           *)
(* particular the client's stream is always one of its connection's.       *)
THEOREM TypeCorrect == Spec => []TypeOK
<1>1. ASSUME TypeInv, WireInv
      PROVE  TypeOK
  <2>1. enc \in [Series -> Rec \cup {Unseen}] /\ stream \in Nat
    BY <1>1 DEF TypeInv, EncState, None
  <2>2. stream # None => conn # None /\ stream \in DOMAIN wire[conn]
    <3> SUFFICES ASSUME stream # None
                 PROVE  conn # None /\ stream \in DOMAIN wire[conn]
      OBVIOUS
    <3>1. conn # None /\ Len(wire[conn]) = 1 /\ stream = 1
      BY <1>1 DEF TypeInv, WireInv
    <3>2. wire[conn] \in Seq(Seq(Frame))
      BY <1>1, <3>1 DEF TypeInv
    <3> QED
      BY <3>1, <3>2
  <2>3. DOMAIN wire = Conn /\ \A c \in Conn : wire[c] \in Seq(Seq(Frame))
    BY <1>1 DEF TypeInv
  <2>4. big \in BOOLEAN /\ up \in [Conn -> BOOLEAN]
    BY <1>1, Zenon DEF TypeInv
  <2> QED
    BY <1>1, <2>1, <2>2, <2>3, <2>4 DEF TypeInv, TypeOK
<1> QED
  BY Inductive, <1>1, PTL DEF IInv, Shape

(* The server never meets a difference to a series it has not seen, so it  *)
(* never closes a connection to force a resync: the encoder's reset in     *)
(* ExportBatch and the decoder of handleConnection stay in step through    *)
(* every reconnect, retry and lost frame.                                  *)
THEOREM NeverResyncs == Spec => []NoResync
<1>1. IInv => NoResync
  BY DEF IInv, HistoryInv, NoResync
<1> QED
  BY Inductive, <1>1, PTL

(* getDataStream opens at most one stream on a connection: the frames are  *)
(* decoded in the order in which they were encoded.                        *)
THEOREM OneStream == Spec => []SingleStream
<1>1. IInv => SingleStream
  BY DEF IInv, Shape, WireInv, SingleStream
<1> QED
  BY Inductive, <1>1, PTL

(* Every point the server decodes carries the timestamp it was encoded     *)
(* from, when no series comes in both kinds or the cap is out of reach.    *)
THEOREM DecodedAsSent ==
  ASSUME KindsKept
  PROVE  Spec => []Faithful
<1>1. IInv => Faithful
  BY DEF IInv, HistoryInv
<1> QED
  BY Inductive, <1>1, PTL

-----------------------------------------------------------------------------
(* Where an acknowledged batch can be lost.  A Write that returned nil has *)
(* only handed its frame to QUIC; what the server has not read goes when   *)
(* an end of the connection does.                                          *)

(* No fault so far, and the agent has not closed its transport. *)
Calm == faults = 0 /\ xpc # "closed"

Reached(r) ==
  \/ \E d \in received : d.rec = r
  \/ \E c \in Conn : \E i \in DOMAIN Queue(c) : Queue(c)[i].rec = r

(* Unread frames are on the client's connection only, and both its ends    *)
(* live.                                                                   *)
LiveInv ==
  /\ \A c \in Conn : c # conn => Queue(c) = << >>
  /\ conn # None => up[conn] = TRUE /\ srv[conn] # "closed"
  /\ xpc = "dial" => conn = None

(* A frame over the limit is the last one, and not of an acknowledged      *)
(* batch: cancelling its stream drops nothing else.                        *)
LastInv ==
  conn # None =>
    /\ cut[conn] # {} => Queue(conn) = << >>
    /\ \A i \in DOMAIN Queue(conn) :
         Queue(conn)[i].big => i = Len(Queue(conn)) /\ Queue(conn)[i].rec = rec

CalmInv == Calm => LiveInv /\ LastInv /\ \A r \in acked : Reached(r)

(* Faults stay, and so does a closed transport. *)
LEMMA CalmBefore ==
  ASSUME IInv, [Next]_vars, Calm'
  PROVE  Calm /\ faults' = faults
<1>1. faults \in Nat /\ (faults' = faults \/ faults' = faults + 1)
  <2>1. faults \in Nat
    BY TransportAssumption DEF IInv, Shape, TypeInv
  <2>2. faults' = faults \/ faults' = faults + 1
    <3>1. Exporter \/ AgentClose \/ Closed \/ UNCHANGED vars => faults' = faults \/ faults' = faults + 1
      BY DEF Exporter, ExportBegin, CheckConnected, Dial, DialFail, HandshakeOk, HandshakeFail,
             Encode, GetStream, WriteOk, WriteBlock, SendFail, AgentClose, Closed, vars, Fault
    <3>2. ASSUME NEW c \in Conn, Accept(c) \/ ServerGone(c) \/ ClientLost(c) \/ ClientNotices(c)
          PROVE  faults' = faults \/ faults' = faults + 1
      BY <3>2 DEF Accept, ServerGone, ClientLost, ClientNotices, Fault
    <3>3. ASSUME NEW c \in Conn, NEW k \in DOMAIN wire[c], HandleFrame(c, k) \/ HandleOversize(c, k)
          PROVE  faults' = faults
      BY <3>3 DEF HandleFrame, HandleOversize
    <3> QED
      BY <3>1, <3>2, <3>3 DEF Next, Handle
  <2> QED
    BY <2>1, <2>2
<1>2. faults' = faults /\ faults = 0
  BY <1>1 DEF Calm
<1>3. xpc = "closed" => xpc' = "closed"
  <2>1. Exporter \/ AgentClose \/ Closed \/ UNCHANGED vars => (xpc = "closed" => xpc' = "closed")
    BY DEF Exporter, ExportBegin, CheckConnected, Dial, DialFail, HandshakeOk, HandshakeFail,
           Encode, GetStream, WriteOk, WriteBlock, SendFail, AgentClose, Closed, vars, client
  <2>2. ASSUME NEW c \in Conn, Accept(c) \/ ServerGone(c) \/ ClientLost(c) \/ ClientNotices(c)
        PROVE  xpc' = xpc
    BY <2>2 DEF Accept, ServerGone, ClientLost, ClientNotices, client
  <2>3. ASSUME NEW c \in Conn, NEW k \in DOMAIN wire[c], HandleFrame(c, k) \/ HandleOversize(c, k)
        PROVE  xpc' = xpc
    BY <2>3 DEF HandleFrame, HandleOversize, client
  <2> QED
    BY <2>1, <2>2, <2>3 DEF Next, Handle
<1> QED
  BY <1>2, <1>3 DEF Calm

(* A record stays reached when no frame leaves a queue undecoded. *)
LEMMA StaysReached ==
  ASSUME received \subseteq received', NEW r, Reached(r),
         \A c \in Conn : \A i \in DOMAIN Queue(c) : Queue(c)[i].rec = r =>
            \/ \E d \in received' : d.rec = r
            \/ \E o \in Conn : \E j \in DOMAIN Queue(o)' : Queue(o)'[j].rec = r
  PROVE  Reached(r)'
<1>1. CASE \E d \in received : d.rec = r
  BY <1>1, Zenon DEF Reached
<1>2. CASE \E c \in Conn : \E i \in DOMAIN Queue(c) : Queue(c)[i].rec = r
  BY <1>2, Zenon DEF Reached
<1> QED
  BY <1>1, <1>2, Zenon DEF Reached

(* Every step of a calm behaviour keeps the unread frames where the server *)
(* can read them.                                                          *)
LEMMA CalmStep ==
  ASSUME IInv, CalmInv, [Next]_vars
  PROVE  CalmInv'
<1> SUFFICES ASSUME Calm'
             PROVE  LiveInv' /\ LastInv' /\ \A r \in acked' : Reached(r)'
  BY DEF CalmInv
<1>0. None \notin Conn /\ None = 0
  BY TransportAssumption DEF Conn, None
<1>1. Calm /\ faults' = faults /\ faults \in Nat
  <2>1. faults \in Nat
    BY TransportAssumption DEF IInv, Shape, TypeInv
  <2> QED
    BY <2>1, CalmBefore
<1>2. ~Fault
  BY <1>1 DEF Fault
<1>3. LiveInv /\ LastInv /\ \A r \in acked : Reached(r)
  BY <1>1 DEF CalmInv
<1>4. Shape /\ LimitInv /\ conn \in Conn \cup {None}
  BY DEF IInv, Shape, TypeInv
<1>5. CASE /\ \A c \in Conn : Queue(c)' = Queue(c)
           /\ conn' = conn /\ cut' = cut /\ acked' = acked /\ received' = received
           /\ conn # None => up'[conn] = up[conn] /\ srv'[conn] # "closed"
           /\ xpc' = "dial" => conn = None
           /\ rec' = rec \/ xpc # "blocked"
  <2>1. LiveInv'
    BY <1>3, <1>5, Zenon DEF LiveInv
  <2>2. conn # None /\ xpc # "blocked" => \A i \in DOMAIN Queue(conn) : ~Queue(conn)[i].big
    <3> SUFFICES ASSUME conn # None, xpc # "blocked", NEW i \in DOMAIN Queue(conn)
                 PROVE  ~Queue(conn)[i].big
      OBVIOUS
    <3>1. CASE wire[conn] = << >>
      <4>1. Queue(conn) = << >>
        BY <3>1 DEF Queue, Frames
      <4> QED
        BY <4>1
    <3>2. CASE wire[conn] # << >>
      <4>1. Queue(conn) = wire[conn][1]
        BY <3>2 DEF Queue, Frames
      <4> QED
        BY <1>4, <3>2, <4>1 DEF LimitInv
    <3> QED
      BY <3>1, <3>2
  <2>3. LastInv'
    <3> SUFFICES ASSUME conn # None
                 PROVE  /\ cut[conn] # {} => Queue(conn) = << >>
                        /\ \A i \in DOMAIN Queue(conn) :
                             Queue(conn)[i].big => i = Len(Queue(conn)) /\ Queue(conn)[i].rec = rec'
      BY <1>4, <1>5, Zenon DEF LastInv
    <3> QED
      BY <1>3, <1>5, <2>2, Zenon DEF LastInv
  <2>4. ASSUME NEW r \in acked
        PROVE  Reached(r)'
    <3>1. Reached(r) /\ received \subseteq received'
      BY <1>3, <1>5, <2>4
    <3>2. ASSUME NEW c \in Conn, NEW i \in DOMAIN Queue(c), Queue(c)[i].rec = r
          PROVE  \E o \in Conn : \E j \in DOMAIN Queue(o)' : Queue(o)'[j].rec = r
      BY <1>5, <3>2, Zenon
    <3> QED
      BY <3>1, <3>2, StaysReached
  <2> QED
    BY <1>5, <2>1, <2>3, <2>4
<1>6. CASE wire' = wire /\ conn' = conn /\ cut' = cut /\ acked' = acked /\ received' = received
           /\ UNCHANGED <<up, srv>> /\ (xpc' = "dial" => conn = None) /\ (rec' = rec \/ xpc # "blocked")
  <2>1. \A c \in Conn : Queue(c)' = Queue(c)
    BY <1>6 DEF Queue
  <2> QED
    BY <1>3, <1>5, <1>6, <2>1 DEF LiveInv
<1>7. CASE ExportBegin \/ CheckConnected \/ DialFail \/ HandshakeOk \/ Encode
  <2>1. /\ wire' = wire /\ conn' = conn /\ cut' = cut /\ acked' = acked /\ received' = received
        /\ UNCHANGED <<up, srv>> /\ (rec' = rec \/ xpc # "blocked")
    BY <1>7 DEF ExportBegin, CheckConnected, DialFail, NextAttempt, HandshakeOk, Encode, server, history
  <2>2. xpc' = "dial" => conn = None
    <3>1. conn # None => Connected
      BY <1>3 DEF LiveInv, Connected
    <3> QED
      BY <1>7, <3>1 DEF ExportBegin, CheckConnected, DialFail, NextAttempt, HandshakeOk, Encode
  <2> QED
    BY <1>6, <2>1, <2>2
<1>8. CASE GetStream
  <2>1. /\ conn' = conn /\ cut' = cut /\ acked' = acked /\ received' = received /\ rec' = rec
        /\ UNCHANGED <<up, srv>> /\ xpc' = "write" /\ xpc = "stream"
        /\ IF Usable THEN wire' = wire ELSE wire' = [wire EXCEPT ![conn] = Append(@, << >>)]
    BY <1>8 DEF GetStream, server, history
  <2>2. conn # None /\ conn \in Conn /\ wire \in [Conn -> Seq(Seq(Frame))]
    BY <1>4, <2>1 DEF Shape, PlaceInv, TypeInv
  <2>3. ASSUME ~Usable
        PROVE  \A c \in Conn : Queue(c)' = Queue(c)
    <3>1. cut[conn] = {}
      BY <1>4, <2>1, <2>2 DEF LimitInv
    <3>2. wire[conn] = << >>
      BY <1>4, <2>2, <2>3, <3>1 DEF Usable, Shape, WireInv
    <3>3. wire'[conn] = << << >> >> /\ \A c \in Conn : c # conn => wire'[c] = wire[c]
      BY <2>1, <2>2, <2>3, <3>2
    <3>4. Queue(conn) = << >> /\ Queue(conn)' = << >>
      BY <2>1, <3>2, <3>3 DEF Queue, Frames
    <3>5. ASSUME NEW c \in Conn, c # conn
          PROVE  Queue(c)' = Queue(c)
      BY <3>3, <3>5 DEF Queue
    <3> QED
      BY <2>1, <3>4, <3>5
  <2>4. \A c \in Conn : Queue(c)' = Queue(c)
    BY <2>1, <2>3 DEF Queue
  <2> QED
    BY <1>3, <1>5, <2>1, <2>4 DEF LiveInv
<1>9. CASE Closed \/ UNCHANGED vars
  <2>1. UNCHANGED vars
    BY <1>9 DEF Closed
  <2> QED
    BY <1>3, <1>6, <2>1 DEF vars, client, server, history, LiveInv
<1>10. ASSUME NEW c \in Conn, Accept(c) \/ ClientLost(c) \/ ClientNotices(c)
       PROVE  LiveInv' /\ LastInv' /\ \A r \in acked' : Reached(r)'
  <2>1. /\ wire' = wire /\ conn' = conn /\ cut' = cut /\ acked' = acked /\ received' = received
        /\ xpc' = xpc /\ rec' = rec
    BY <1>10 DEF Accept, ClientLost, ClientNotices, client, server, history
  <2>2. ~ClientLost(c)
    BY <1>2 DEF ClientLost
  <2>3. CASE Accept(c)
    <3>1. up' = up /\ srv' = [srv EXCEPT ![c] = "serving"] /\ srv \in [Conn -> {"none", "hello", "serving", "closed"}]
      BY <1>4, <2>3 DEF Accept, Shape, TypeInv
    <3>2. conn # None => srv'[conn] # "closed"
      BY <1>3, <1>4, <3>1 DEF LiveInv
    <3>3. \A o \in Conn : Queue(o)' = Queue(o)
      BY <2>1 DEF Queue
    <3> QED
      BY <1>3, <1>5, <2>1, <3>1, <3>2, <3>3 DEF LiveInv
  <2>4. CASE ClientNotices(c)
    <3>1. srv' = srv /\ up' = [up EXCEPT ![c] = FALSE] /\ srv[c] = "closed" /\ up \in [Conn -> BOOLEAN]
      BY <1>4, <2>4, Zenon DEF ClientNotices, server, Shape, TypeInv
    <3>2. conn # c
      BY <1>0, <1>3, <3>1 DEF LiveInv
    <3>3. conn # None => up'[conn] = up[conn]
      BY <1>4, <3>1, <3>2
    <3>4. \A o \in Conn : Queue(o)' = Queue(o)
      BY <2>1 DEF Queue
    <3> QED
      BY <1>3, <1>5, <2>1, <3>1, <3>3, <3>4 DEF LiveInv
  <2> QED
    BY <1>10, <2>2, <2>3, <2>4
<1>11. ASSUME NEW c \in Conn, ServerGone(c)
       PROVE  LiveInv' /\ LastInv' /\ \A r \in acked' : Reached(r)'
  <2>1. /\ ~up[c] /\ UNCHANGED <<up, cut, acked, received, conn, xpc, rec>>
        /\ srv' = [srv EXCEPT ![c] = "closed"]
        /\ wire' = [wire EXCEPT ![c] = [k \in DOMAIN wire[c] |-> << >>]]
    BY <1>2, <1>11 DEF ServerGone, client, history
  <2>2. c # conn
    BY <1>0, <1>3, <2>1 DEF LiveInv
  <2>3. wire \in [Conn -> Seq(Seq(Frame))] /\ srv \in [Conn -> {"none", "hello", "serving", "closed"}]
    BY <1>4 DEF Shape, TypeInv
  <2>4. wire'[c] = [k \in DOMAIN wire[c] |-> << >>] /\ \A o \in Conn : o # c => wire'[o] = wire[o]
    BY <2>1, <2>3
  <2>5. Queue(c)' = << >>
    <3>1. wire'[c] # << >> => 1 \in DOMAIN wire[c]
      BY <2>3, <2>4
    <3> QED
      BY <2>4, <3>1 DEF Queue, Frames
  <2>6. \A o \in Conn : Queue(o)' = Queue(o)
    <3>1. Queue(c) = << >>
      BY <1>3, <2>2 DEF LiveInv
    <3>2. ASSUME NEW o \in Conn, o # c
          PROVE  Queue(o)' = Queue(o)
      BY <2>4, <3>2 DEF Queue
    <3> QED
      BY <2>5, <3>1, <3>2
  <2>7. conn # None => srv'[conn] # "closed"
    BY <1>3, <1>4, <2>1, <2>2, <2>3 DEF LiveInv
  <2> QED
    BY <1>3, <1>5, <2>1, <2>6, <2>7 DEF LiveInv
<1>12. CASE Dial
  <2>1. /\ conn = None /\ conn' = nconn + 1 /\ up' = [up EXCEPT ![nconn + 1] = TRUE]
        /\ srv' = [srv EXCEPT ![nconn + 1] = "hello"] /\ xpc' = "handshake"
        /\ wire' = wire /\ cut' = cut /\ acked' = acked /\ received' = received
    BY <1>3, <1>12 DEF Dial, LiveInv, history
  <2>2. nconn + 1 \in Conn
    BY <1>4, <1>12, TransportAssumption DEF Dial, Shape, TypeInv, Conn
  <2>3. \A c \in Conn : Queue(c) = << >> /\ Queue(c)' = << >>
    BY <1>0, <1>3, <2>1 DEF LiveInv, Queue
  <2>4. up'[nconn + 1] = TRUE /\ srv'[nconn + 1] = "hello"
    BY <1>4, <2>1, <2>2 DEF Shape, TypeInv
  <2>5. LiveInv'
    BY <2>1, <2>3, <2>4 DEF LiveInv
  <2>6. LastInv'
    <3>1. \A c \in Conn : Frames(wire'[c]) = << >>
      BY <2>3 DEF Queue
    <3>2. Frames(wire'[conn']) = << >>
      BY <2>1, <2>2, <3>1
    <3>3. Queue(conn)' = << >>
      BY <3>2 DEF Queue
    <3> QED
      BY <3>3 DEF LastInv
  <2>7. ASSUME NEW r \in acked
        PROVE  Reached(r)'
    BY <1>3, <2>1, <2>3 DEF Reached
  <2> QED
    BY <2>1, <2>5, <2>6, <2>7
<1>13. ~HandshakeFail /\ ~AgentClose
  <2>1. ~HandshakeFail
    <3> SUFFICES ASSUME HandshakeFail
                 PROVE  FALSE
      OBVIOUS
    <3>1. xpc = "handshake" /\ ~up[conn]
      BY <1>2 DEF HandshakeFail
    <3>2. conn # None
      BY <1>4, <3>1 DEF Shape, PlaceInv
    <3> QED
      BY <1>3, <3>1, <3>2 DEF LiveInv
  <2> QED
    BY <2>1 DEF AgentClose, Calm
<1>14. CASE SendFail
  <2>1. /\ xpc \in {"stream", "write", "blocked"} /\ conn # None /\ conn \in Conn
        /\ xpc # "stream" /\ ~Usable
    <3>1. xpc \in {"stream", "write", "blocked"} /\ (~up[conn] \/ (xpc # "stream" /\ ~Usable))
      BY <1>14 DEF SendFail
    <3>2. conn # None
      BY <1>4, <3>1 DEF Shape, PlaceInv
    <3> QED
      BY <1>3, <1>4, <3>1, <3>2 DEF LiveInv
  <2>2. cut[conn] # {}
    BY <1>4, <2>1 DEF Usable, Shape, PlaceInv
  <2>3. xpc = "blocked"
    BY <1>4, <2>1, <2>2 DEF LimitInv
  <2>4. /\ wire' = wire /\ conn' = None /\ acked' = acked /\ received' = received
        /\ xpc' # "dial"
    BY <1>14, <2>3 DEF SendFail, NextAttempt, history
  <2>5. \A c \in Conn : Queue(c) = << >> /\ Queue(c)' = << >>
    BY <1>3, <2>1, <2>2, <2>4 DEF LiveInv, LastInv, Queue
  <2>6. LiveInv' /\ LastInv'
    BY <2>4, <2>5 DEF LiveInv, LastInv
  <2>7. ASSUME NEW r \in acked
        PROVE  Reached(r)'
    BY <1>3, <2>4, <2>5 DEF Reached
  <2> QED
    BY <2>4, <2>6, <2>7
<1>15. CASE WriteOk \/ WriteBlock
  <2>1. /\ xpc = "write" /\ wire' = Put /\ conn' = conn /\ cut' = cut /\ received' = received
        /\ UNCHANGED <<up, srv>> /\ xpc' # "dial"
    BY <1>15 DEF WriteOk, WriteBlock, server, history
  <2>2. \/ acked' = acked \cup {rec} /\ ~frame.big
        \/ acked' = acked /\ rec' = rec
    BY <1>15 DEF WriteOk, WriteBlock, history
  <2>3. conn # None /\ conn \in Conn /\ frame \in Frame /\ frame.rec = rec
    BY <1>4, <2>1 DEF Shape, TypeInv, PlaceInv
  <2>4. srv[conn] = "serving" /\ cut[conn] = {}
    <3>1. srv[conn] \in {"serving", "closed"}
      BY <1>4, <2>1, <2>3 DEF Shape, PlaceInv
    <3> QED
      BY <1>3, <1>4, <2>1, <2>3, <3>1 DEF LiveInv, LimitInv
  <2> DEFINE p == wire[conn][1]
  <2>5. /\ wire[conn] # << >> /\ Len(wire'[conn]) = 1 /\ wire'[conn][1] = Append(p, frame)
        /\ \A o \in Conn : o # conn => wire'[o] = wire[o]
    BY <1>4, <2>1, <2>4, PutEffect
  <2>6. p \in Seq(Frame) /\ Queue(conn) = p
    BY <1>4, <2>3, <2>5, QueueType
  <2>7. \A i \in DOMAIN p : ~p[i].big
    BY <1>4, <2>1, <2>3, <2>5 DEF LimitInv
  <2> HIDE DEF p
  <2>8. Frames(wire'[conn]) = Append(p, frame)
    <3>1. wire'[conn] # << >>
      BY <2>5
    <3> QED
      BY <2>5, <3>1 DEF Frames
  <2>9. ASSUME NEW i \in DOMAIN Append(p, frame)
        PROVE  \/ i = Len(Append(p, frame)) /\ Append(p, frame)[i] = frame
               \/ i \in DOMAIN p /\ Append(p, frame)[i] = p[i]
    BY <2>6, <2>3
  <2>10. /\ \A i \in DOMAIN p : i \in DOMAIN Append(p, frame) /\ Append(p, frame)[i] = p[i]
         /\ \E i \in DOMAIN Append(p, frame) : Append(p, frame)[i] = frame
    <3>1. \A i \in DOMAIN p : i \in DOMAIN Append(p, frame) /\ Append(p, frame)[i] = p[i]
      BY <2>3, <2>6
    <3>2. Len(p) + 1 \in DOMAIN Append(p, frame) /\ Append(p, frame)[Len(p) + 1] = frame
      BY <2>3, <2>6
    <3> QED
      BY <3>1, <3>2
  <2>11. \A o \in Conn : o # conn => Queue(o)' = Queue(o)
    BY <2>5 DEF Queue
  <2>12. LiveInv'
    BY <1>3, <2>1, <2>11 DEF LiveInv
  <2>13. LastInv'
    <3>1. ASSUME NEW i \in DOMAIN Append(p, frame), Append(p, frame)[i].big
          PROVE  i = Len(Append(p, frame)) /\ Append(p, frame)[i].rec = rec'
      BY <2>2, <2>3, <2>7, <2>9, <3>1
    <3>2. Queue(conn)' = Append(p, frame) /\ cut'[conn'] = {}
      BY <2>1, <2>4, <2>8 DEF Queue
    <3> QED
      BY <3>1, <3>2 DEF LastInv
  <2>14. ASSUME NEW r \in acked'
         PROVE  Reached(r)'
    <3>1. CASE r \in acked
      <4>1. ASSUME NEW c \in Conn, NEW i \in DOMAIN Queue(c), Queue(c)[i].rec = r
            PROVE  \E o \in Conn : \E j \in DOMAIN Queue(o)' : Queue(o)'[j].rec = r
        <5>1. CASE c # conn
          BY <2>11, <4>1, <5>1, Zenon
        <5>2. CASE c = conn
          <6>1. i \in DOMAIN p /\ p[i].rec = r
            BY <2>6, <4>1, <5>2
          <6>2. i \in DOMAIN Append(p, frame) /\ Append(p, frame)[i].rec = r
            BY <2>10, <6>1
          <6> QED
            BY <2>3, <2>8, <6>2 DEF Queue
        <5> QED
          BY <5>1, <5>2
      <4>2. Reached(r) /\ received \subseteq received'
        BY <1>3, <2>1, <3>1
      <4> QED
        BY <4>1, <4>2, StaysReached
    <3>2. CASE r \notin acked
      <4>1. r = frame.rec
        BY <2>2, <2>3, <2>14, <3>2
      <4>2. \E i \in DOMAIN Append(p, frame) : Append(p, frame)[i].rec = r
        BY <2>10, <4>1
      <4>3. \E i \in DOMAIN Frames(wire'[conn]) : Frames(wire'[conn])[i].rec = r
        BY <2>8, <4>2
      <4> QED
        BY <2>3, <4>3 DEF Reached, Queue
    <3> QED
      BY <3>1, <3>2
  <2> QED
    BY <2>12, <2>13, <2>14
<1>16. ASSUME NEW c \in Conn, NEW k \in DOMAIN wire[c], HandleFrame(c, k)
       PROVE  LiveInv' /\ LastInv' /\ \A r \in acked' : Reached(r)'
  <2> DEFINE p == wire[c][1]
  <2>1. /\ client' = client /\ acked' = acked /\ cut' = cut /\ srv' = srv /\ up' = up
        /\ \A o \in Conn : o # c => wire'[o] = wire[o]
        /\ wire[c] # << >> /\ wire'[c] # << >> /\ p # << >> /\ wire'[c][1] = Tail(p)
        /\ received \subseteq received' /\ \E r \in received' : r.rec = Head(p).rec
    <3>1. up' = up
      BY <1>16 DEF HandleFrame
    <3> QED
      BY <1>16, <3>1, HandleFrameEffect
  <2>2. conn' = conn /\ rec' = rec /\ xpc' = xpc
    BY <2>1 DEF client
  <2>3. p \in Seq(Frame) /\ Queue(c) = p
    BY <1>4, <2>1, QueueType
  <2> HIDE DEF p
  <2>4. Frames(wire'[c]) = Tail(p)
    BY <2>1 DEF Frames
  <2>5. c = conn /\ conn # None
    BY <1>0, <1>3, <2>1, <2>3 DEF LiveInv
  <2>6. \A o \in Conn : o # c => Queue(o)' = Queue(o)
    BY <2>1 DEF Queue
  <2>7. LiveInv'
    BY <1>3, <2>1, <2>2, <2>5, <2>6 DEF LiveInv
  <2>8. Len(p) \in Nat \ {0} /\ Len(Tail(p)) = Len(p) - 1
    BY <2>1, <2>3
  <2>9. ASSUME NEW i \in DOMAIN Tail(p)
        PROVE  i \in Nat /\ i + 1 \in DOMAIN p /\ Tail(p)[i] = p[i + 1]
    BY <2>1, <2>3
  <2>10. ASSUME NEW i \in DOMAIN p
         PROVE  p[i] = Head(p) \/ \E j \in DOMAIN Tail(p) : Tail(p)[j] = p[i]
    <3>1. i \in 1 .. Len(p)
      BY <2>3
    <3>2. CASE i = 1
      BY <2>1, <2>3, <3>2
    <3>3. CASE i # 1
      <4>1. i - 1 \in DOMAIN Tail(p) /\ Tail(p)[i - 1] = p[i]
        BY <2>1, <2>3, <2>8, <3>1, <3>3
      <4> QED
        BY <4>1
    <3> QED
      BY <3>2, <3>3
  <2>11. LastInv'
    <3>1. Queue(conn)' = Tail(p) /\ cut'[conn'] = cut[conn] /\ Queue(conn) = p
      BY <2>1, <2>2, <2>3, <2>4, <2>5 DEF Queue
    <3>2. cut[conn] = {}
      BY <1>3, <2>1, <2>5, <3>1 DEF LastInv
    <3>3. ASSUME NEW i \in DOMAIN Tail(p), Tail(p)[i].big
          PROVE  i = Len(Tail(p)) /\ Tail(p)[i].rec = rec'
      <4>1. i + 1 = Len(p) /\ p[i + 1].rec = rec
        BY <1>3, <2>5, <2>9, <3>1, <3>3 DEF LastInv
      <4> QED
        BY <2>2, <2>8, <2>9, <4>1
    <3> QED
      BY <3>1, <3>2, <3>3 DEF LastInv
  <2>12. ASSUME NEW r \in acked
         PROVE  Reached(r)'
    <3>1. ASSUME NEW o \in Conn, NEW i \in DOMAIN Queue(o), Queue(o)[i].rec = r
          PROVE  \/ \E d \in received' : d.rec = r
                 \/ \E n \in Conn : \E j \in DOMAIN Queue(n)' : Queue(n)'[j].rec = r
      <4>1. CASE o # c
        BY <2>6, <3>1, <4>1, Zenon
      <4>2. CASE o = c
        <5>1. i \in DOMAIN p /\ p[i].rec = r
          BY <2>3, <3>1, <4>2
        <5>2. CASE p[i] = Head(p)
          BY <2>1, <5>1, <5>2
        <5>3. CASE \E j \in DOMAIN Tail(p) : Tail(p)[j] = p[i]
          BY <2>4, <5>1, <5>3 DEF Queue
        <5> QED
          BY <2>10, <5>1, <5>2, <5>3
      <4> QED
        BY <4>1, <4>2
    <3> QED
      BY <1>3, <2>1, <3>1, StaysReached
  <2> QED
    BY <2>1, <2>7, <2>11, <2>12
<1>17. ASSUME NEW c \in Conn, NEW k \in DOMAIN wire[c], HandleOversize(c, k)
       PROVE  LiveInv' /\ LastInv' /\ \A r \in acked' : Reached(r)'
  <2> DEFINE q == << >>
             p == wire[c][1]
  <2>1. /\ client' = client /\ acked' = acked /\ received' = received /\ UNCHANGED <<up, srv>>
        /\ wire' = [wire EXCEPT ![c][k] = q] /\ wire[c][k] # << >> /\ Head(wire[c][k]).big
        /\ q \in Seq(Frame)
    BY <1>17 DEF HandleOversize, Readable, history
  <2> HIDE DEF q
  <2>2. /\ k = 1 /\ Len(wire[c]) = 1 /\ Len(wire'[c]) = 1 /\ wire'[c][1] = q
        /\ \A o \in Conn : o # c => wire'[o] = wire[o]
    BY <1>4, <2>1, StreamUpdate DEF Shape
  <2>3. wire[c] # << >> /\ wire'[c] # << >>
    BY <2>2
  <2>4. conn' = conn /\ rec' = rec /\ xpc' = xpc
    BY <2>1 DEF client
  <2>5. p \in Seq(Frame) /\ Queue(c) = p
    BY <1>4, <2>3, QueueType
  <2>6. p # << >> /\ Head(p).big
    BY <2>1, <2>2
  <2> HIDE DEF p
  <2>7. Frames(wire'[c]) = << >>
    BY <2>2, <2>3 DEF Frames, q
  <2>8. c = conn /\ conn # None
    BY <1>0, <1>3, <2>5, <2>6 DEF LiveInv
  <2>9. \A o \in Conn : o # c => Queue(o)' = Queue(o)
    BY <2>2 DEF Queue
  <2>10. LiveInv'
    BY <1>3, <2>1, <2>4, <2>8, <2>9 DEF LiveInv
  <2>11. LastInv'
    <3>1. Queue(conn)' = << >>
      BY <2>4, <2>7, <2>8 DEF Queue
    <3> QED
      BY <3>1 DEF LastInv
  <2>12. \A i \in DOMAIN p : p[i].rec = rec
    <3>1. 1 \in DOMAIN p /\ p[1] = Head(p) /\ Len(p) \in Nat /\ DOMAIN p = 1 .. Len(p)
      BY <2>5, <2>6
    <3>2. 1 = Len(p) /\ p[1].rec = rec
      BY <1>3, <2>5, <2>6, <2>8, <3>1 DEF LastInv
    <3>3. \A i \in 1 .. 1 : i = 1
      OBVIOUS
    <3> QED
      BY <3>1, <3>2, <3>3, Zenon
  <2>13. rec \notin acked
    <3>1. rec \in Rec
      <4>1. \E i \in DOMAIN p : p[i].rec \in Rec
        <5>1. 1 \in DOMAIN p /\ p[1] \in Frame
          BY <2>5, <2>6
        <5> QED
          BY <5>1 DEF Frame
      <4> QED
        BY <2>12, <4>1
    <3>2. Cardinality(acked) \in Nat /\ rec # None
      <4>1. IsFiniteSet(acked)
        BY DEF IInv, CountInv
      <4> QED
        BY <3>1, <4>1, TransportAssumption, FS_CardinalityType DEF Rec, None
    <3> QED
      BY <3>1, <3>2 DEF IInv, CountInv
  <2>14. ASSUME NEW r \in acked
         PROVE  Reached(r)'
    <3>1. ASSUME NEW o \in Conn, NEW i \in DOMAIN Queue(o), Queue(o)[i].rec = r
          PROVE  \E n \in Conn : \E j \in DOMAIN Queue(n)' : Queue(n)'[j].rec = r
      <4>1. o # c
        BY <2>5, <2>12, <2>13, <2>14, <3>1
      <4> QED
        BY <2>9, <3>1, <4>1, Zenon
    <3> QED
      BY <1>3, <2>1, <3>1, StaysReached
  <2> QED
    BY <2>1, <2>10, <2>11, <2>14
<1> QED
  BY <1>7, <1>8, <1>9, <1>10, <1>11, <1>12, <1>13, <1>14, <1>15, <1>16, <1>17
     DEF Next, Exporter, Handle

(* While no fault has occurred and the agent has not closed its transport, *)
(* every batch for which ExportBatch returned nil has been decoded by the  *)
(* server or waits on the connection for it: SendRaw's early nil loses a   *)
(* batch only with an end of the connection.  The frame of a later batch   *)
(* that is over the server's limit, its cancelled stream, the retry and    *)
(* the reconnect that follow take no acknowledged batch with them.         *)
THEOREM LostOnlyByFault ==
  Spec => [](faults = 0 /\ xpc # "closed" => NothingLost)
<1>1. Init => CalmInv
  <2> SUFFICES ASSUME Init
               PROVE  CalmInv
    OBVIOUS
  <2>1. \A c \in Conn : wire[c] = << >> /\ cut[c] = {}
    BY DEF Init
  <2>2. \A c \in Conn : Queue(c) = << >>
    BY <2>1 DEF Queue, Frames
  <2>3. conn # None => conn \in Conn /\ up[conn] = TRUE /\ srv[conn] = "serving"
    <3>1. PICK d \in {0, 1} : /\ conn = d /\ up = [c \in Conn |-> c = d]
                              /\ srv = [c \in Conn |-> IF c = d THEN "serving" ELSE "none"]
      BY DEF Init
    <3>2. conn # None => conn \in Conn
      BY <3>1, TransportAssumption DEF Conn, None
    <3>3. conn \in Conn => up[conn] = TRUE /\ srv[conn] = "serving"
      BY <3>1
    <3> QED
      BY <3>2, <3>3
  <2>4. acked = {} /\ xpc = "idle"
    BY DEF Init
  <2>5. LiveInv
    BY <2>2, <2>3, <2>4 DEF LiveInv
  <2>6. LastInv
    BY <2>2, <2>3 DEF LastInv
  <2> QED
    BY <2>4, <2>5, <2>6 DEF CalmInv
<1>2. IInv /\ CalmInv /\ [Next]_vars => CalmInv'
  BY CalmStep
<1>3. IInv /\ CalmInv => (faults = 0 /\ xpc # "closed" => NothingLost)
  <2> SUFFICES ASSUME IInv, CalmInv, Calm, NEW r \in acked
               PROVE  \/ \E d \in received : d.rec = r
                      \/ \E c \in Conn : \E k \in DOMAIN wire[c] : \E i \in DOMAIN wire[c][k] :
                           wire[c][k][i].rec = r
    BY DEF NothingLost, Calm
  <2>1. Reached(r)
    BY DEF CalmInv
  <2>2. ASSUME NEW c \in Conn, NEW i \in DOMAIN Queue(c), Queue(c)[i].rec = r
        PROVE  \E k \in DOMAIN wire[c] : \E n \in DOMAIN wire[c][k] : wire[c][k][n].rec = r
    <3>1. wire[c] \in Seq(Seq(Frame))
      BY DEF IInv, Shape, TypeInv
    <3>2. wire[c] # << >>
      <4>1. wire[c] = << >> => Queue(c) = << >>
        BY DEF Queue, Frames
      <4> QED
        BY <2>2, <4>1
    <3>3. 1 \in DOMAIN wire[c] /\ Queue(c) = wire[c][1]
      BY <3>1, <3>2 DEF Queue, Frames
    <3> QED
      BY <2>2, <3>3
  <2> QED
    BY <2>1, <2>2, Zenon DEF Reached
<1> QED
  BY Inductive, <1>1, <1>2, <1>3, PTL DEF Spec
=============================================================================
