---------------------------- MODULE PipelineProofs ----------------------------
(***************************************************************************)
(* Proofs about Pipeline, for any names, modes, sizes of batch, queue and  *)
(* channel, and any number of events and failures of the sink.             *)
(***************************************************************************)
EXTENDS Pipeline, DataInduction, SequenceTheorems

-----------------------------------------------------------------------------
(* What FlattenSeq does: f lays out the first m sequences of q one behind  *)
(* the other, the entry at p being entry col[p] of sequence row[p].        *)
Laid(f, q, m) ==
  \E row, col \in [DOMAIN f -> Nat] :
    /\ \A p \in DOMAIN f : /\ row[p] \in 1 .. m /\ col[p] \in DOMAIN q[row[p]]
                           /\ f[p] = q[row[p]][col[p]]
    /\ \A p, r \in DOMAIN f : p < r => row[p] < row[r] \/ (row[p] = row[r] /\ col[p] < col[r])
    /\ \A i \in 1 .. m : \A k \in DOMAIN q[i] : \E p \in DOMAIN f : row[p] = i /\ col[p] = k

(* One more sequence at the end. *)
LEMMA LaidStep ==
  ASSUME NEW S, NEW q \in Seq(Seq(S)), NEW m \in Nat, m + 1 \in 1 .. Len(q),
         NEW f \in Seq(S), Laid(f, q, m)
  PROVE  f \o q[m + 1] \in Seq(S) /\ Laid(f \o q[m + 1], q, m + 1)
<1> DEFINE v == q[m + 1]
           g == f \o v
<1>0. v \in Seq(S)
  OBVIOUS
<1>1. PICK row, col \in [DOMAIN f -> Nat] :
        /\ \A p \in DOMAIN f : /\ row[p] \in 1 .. m /\ col[p] \in DOMAIN q[row[p]]
                               /\ f[p] = q[row[p]][col[p]]
        /\ \A p, r \in DOMAIN f : p < r => row[p] < row[r] \/ (row[p] = row[r] /\ col[p] < col[r])
        /\ \A i \in 1 .. m : \A k \in DOMAIN q[i] : \E p \in DOMAIN f : row[p] = i /\ col[p] = k
  BY DEF Laid
<1> DEFINE n == Len(f)
           R == [p \in DOMAIN g |-> IF p \in DOMAIN f THEN row[p] ELSE m + 1]
           C == [p \in DOMAIN g |-> IF p \in DOMAIN f THEN col[p] ELSE p - n]
<1>2. /\ g \in Seq(S) /\ Len(g) = n + Len(v) /\ n \in Nat /\ Len(v) \in Nat
      /\ DOMAIN g = 1 .. n + Len(v) /\ DOMAIN f = 1 .. n /\ DOMAIN v = 1 .. Len(v)
      /\ \A p \in 1 .. n : g[p] = f[p]
      /\ \A p \in DOMAIN g : p \notin DOMAIN f => p - n \in DOMAIN v /\ g[p] = v[p - n]
  BY <1>0
<1> HIDE DEF g, v
<1>3. R \in [DOMAIN g -> Nat] /\ C \in [DOMAIN g -> Nat]
  BY <1>2
<1>4. ASSUME NEW p \in DOMAIN g
      PROVE  R[p] \in 1 .. m + 1 /\ C[p] \in DOMAIN q[R[p]] /\ g[p] = q[R[p]][C[p]]
  <2>1. CASE p \in DOMAIN f
    BY <1>1, <1>2, <2>1, SMTT(60)
  <2>2. CASE p \notin DOMAIN f
    BY <1>2, <2>2, SMTT(60) DEF v
  <2> QED
    BY <2>1, <2>2
<1>5. ASSUME NEW p \in DOMAIN g, NEW r \in DOMAIN g, p < r
      PROVE  R[p] < R[r] \/ (R[p] = R[r] /\ C[p] < C[r])
  <2>1. CASE r \in DOMAIN f
    <3>1. p \in DOMAIN f
      BY <1>2, <1>5, <2>1
    <3>2. R[p] = row[p] /\ R[r] = row[r] /\ C[p] = col[p] /\ C[r] = col[r]
      BY <2>1, <3>1
    <3> HIDE DEF R, C
    <3>3. row[p] < row[r] \/ (row[p] = row[r] /\ col[p] < col[r])
      BY <1>1, <1>5, <2>1, <3>1
    <3> QED
      BY <3>2, <3>3
  <2>2. CASE r \notin DOMAIN f /\ p \in DOMAIN f
    BY <1>1, <1>2, <2>2, SMTT(60)
  <2>3. CASE r \notin DOMAIN f /\ p \notin DOMAIN f
    BY <1>2, <1>5, <2>3
  <2> QED
    BY <2>1, <2>2, <2>3
<1>6. ASSUME NEW i \in 1 .. m + 1, NEW k \in DOMAIN q[i]
      PROVE  \E p \in DOMAIN g : R[p] = i /\ C[p] = k
  <2>1. CASE i \in 1 .. m
    <3>1. PICK p \in DOMAIN f : row[p] = i /\ col[p] = k
      BY <1>1, <2>1
    <3> QED
      BY <1>2, <3>1
  <2>2. CASE i = m + 1
    <3>1. k \in DOMAIN v
      BY <2>2 DEF v
    <3>2. n + k \in DOMAIN g /\ n + k \notin DOMAIN f /\ (n + k) - n = k
      BY <1>2, <3>1, SMTT(60)
    <3>3. R[n + k] = m + 1 /\ C[n + k] = k
      BY <3>2
    <3> QED
      BY <2>2, <3>2, <3>3
  <2> QED
    BY <2>1, <2>2
<1> HIDE DEF R, C
<1>7. Laid(g, q, m + 1)
  <2> DEFINE P(r, c) ==
               /\ \A p \in DOMAIN g : /\ r[p] \in 1 .. m + 1 /\ c[p] \in DOMAIN q[r[p]]
                                      /\ g[p] = q[r[p]][c[p]]
               /\ \A p, z \in DOMAIN g : p < z => r[p] < r[z] \/ (r[p] = r[z] /\ c[p] < c[z])
               /\ \A i \in 1 .. m + 1 :
                    \A k \in DOMAIN q[i] : \E p \in DOMAIN g : r[p] = i /\ c[p] = k
  <2>1. P(R, C)
    BY <1>4, <1>5, <1>6, Zenon
  <2>2. (\E r, c \in [DOMAIN g -> Nat] : P(r, c)) => Laid(g, q, m + 1)
    BY Zenon DEF Laid
  <2> HIDE DEF P
  <2> QED
    BY <1>3, <2>1, <2>2, Zenon
<1> QED
  BY <1>2, <1>7 DEF g, v

(* FlattenSeq lays out all its sequences. *)
LEMMA Flatten ==
  ASSUME NEW S, NEW q \in Seq(Seq(S))
  PROVE  FlattenSeq(q) \in Seq(S) /\ Laid(FlattenSeq(q), q, Len(q))
<1>1. CASE Len(q) = 0
  <2>1. FlattenSeq(q) = << >> /\ Len(q) = 0
    BY <1>1 DEF FlattenSeq
  <2>2. << >> \in [DOMAIN << >> -> Nat] /\ DOMAIN << >> = {} /\ 1 .. 0 = {}
    OBVIOUS
  <2>3. Laid(<< >>, q, 0)
    BY <2>2 DEF Laid
  <2> QED
    BY <2>1, <2>3
<1>2. CASE Len(q) # 0
  <2> DEFINE D == Seq(S)
             n == Len(q) - 1
             G(h) == [i \in 1 .. Len(q) |-> IF i = 1 THEN q[i] ELSE h[i - 1] \o q[i]]
             F == [i \in Nat |-> [a \in D |-> IF i \in 1 .. n THEN a \o q[i + 1] ELSE a]]
             f == CHOOSE h : h = G(h)
  <2>1. n \in Nat /\ q[1] \in D /\ \A i \in 1 .. n : q[i + 1] \in D /\ i + 1 \in 1 .. Len(q)
    BY <1>2
  <2>2. F \in [Nat -> [D -> D]]
    BY <2>1
  <2>3. PICK g \in [0 .. n -> D] : Runs(g, n, q[1], F)
    <3> HIDE DEF D, F, n
    <3> QED
      BY <2>1, <2>2, Recursion, Zenon
  <2> DEFINE h == [i \in 1 .. Len(q) |-> g[i - 1]]
  <2>4. ASSUME NEW i \in 1 .. Len(q), i # 1
        PROVE  h[i] = h[i - 1] \o q[i]
    <3>1. i - 1 \in 1 .. n /\ i - 1 \in 1 .. Len(q) /\ (i - 1) - 1 \in 0 .. n /\ (i - 1) + 1 = i
          /\ i - 1 \in Nat
      BY <2>4
    <3>2. g[i - 1] = F[i - 1][g[(i - 1) - 1]]
      BY <2>3, <3>1 DEF Runs
    <3>3. g[(i - 1) - 1] \in D
      BY <3>1
    <3>4. F[i - 1][g[(i - 1) - 1]] = g[(i - 1) - 1] \o q[i]
      BY <3>1, <3>3
    <3> QED
      BY <3>1, <3>2, <3>4
  <2>5. h[1] = q[1]
    BY <1>2, <2>3 DEF Runs
  <2>6. h = G(h)
    BY <2>4, <2>5
  <2>7. f = G(f)
    BY <2>6, Zenon
  <2>8. FlattenSeq(q) = f[Len(q)]
    BY <1>2 DEF FlattenSeq
  <2> HIDE DEF f, F
  <2> DEFINE T == {i \in 0 .. n : f[i + 1] \in Seq(S) /\ Laid(f[i + 1], q, i + 1)}
  <2>9. 0 \in T
    <3>1. f[1] = q[1] /\ q[1] \in Seq(S)
      BY <2>1, <2>7, <1>2
    <3>2. /\ Laid(<< >>, q, 0) /\ << >> \in Seq(S) /\ 0 \in Nat /\ 0 + 1 = 1
          /\ << >> \o q[1] = q[1] /\ 1 \in 1 .. Len(q)
      <4>1. << >> \in [DOMAIN << >> -> Nat] /\ DOMAIN << >> = {} /\ 1 .. 0 = {}
        OBVIOUS
      <4> QED
        BY <3>1, <4>1, <1>2, ConcatEmptySeq, SMTT(60) DEF Laid
    <3>3. Laid(<< >> \o q[0 + 1], q, 0 + 1)
      BY <3>2, LaidStep
    <3> QED
      BY <2>1, <3>1, <3>2, <3>3
  <2>10. ASSUME NEW i \in 1 .. n, i - 1 \in T
         PROVE  i \in T
    <3>0. i \in Nat /\ i + 1 \in 1 .. Len(q) /\ (i - 1) + 1 = i /\ (i + 1) - 1 = i /\ i + 1 # 1
          /\ i \in 0 .. n
      BY <2>1
    <3>1. f[i] \in Seq(S) /\ Laid(f[i], q, i) /\ i \in Nat /\ i + 1 \in 1 .. Len(q)
      BY <2>10, <3>0
    <3>2. f[i + 1] = f[i] \o q[i + 1]
      BY <2>7, <3>0
    <3>3. f[i] \o q[i + 1] \in Seq(S) /\ Laid(f[i] \o q[i + 1], q, i + 1)
      BY <3>1, LaidStep
    <3> QED
      BY <3>0, <3>2, <3>3
  <2>11. 0 .. n \subseteq T
    <3> HIDE DEF T, n
    <3> QED
      BY <2>1, <2>9, <2>10, Upward
  <2>12. n \in T /\ n + 1 = Len(q)
    <3>1. n \in 0 .. n /\ n + 1 = Len(q)
      BY <2>1
    <3> HIDE DEF T
    <3> QED
      BY <2>11, <3>1
  <2> QED
    BY <2>8, <2>12
<1> QED
  BY <1>1, <1>2

-----------------------------------------------------------------------------
(* Sequences of metrics. *)

Kind == {"gauge", "sum", "histogram"}

(* The metric stands for the event; one of that name in q does. *)
Has(v, e) == \E k \in DOMAIN v : v[k] = e
Holds(m, e) == Has(m.events, e)
In(q, n, e) == \E a \in DOMAIN q : q[a].name = n /\ Holds(q[a], e)

(* One series per name and kind, as the aggregator's map has. *)
Keyed(q) == \A a, b \in DOMAIN q : q[a].name = q[b].name /\ q[a].kind = q[b].kind => a = b

(* The kind of a metric follows from its name, by K. *)
Kinded(q, K) == \A a \in DOMAIN q : q[a].kind = K[q[a].name]

(* An event behind a later one of its name stands in front of that one,    *)
(* too, in the same metric.                                                *)
Sorted(v) == \A i, j \in DOMAIN v : i < j /\ v[j] < v[i] => \E k \in 1 .. i - 1 : v[k] = v[j]
SortedPair(u, v) ==
  \A i \in DOMAIN u, j \in DOMAIN v : v[j] < u[i] => \E k \in 1 .. i - 1 : u[k] = v[j]
Tidy(q) ==
  /\ \A a \in DOMAIN q : Sorted(q[a].events)
  /\ \A a, b \in DOMAIN q : a < b /\ q[a].name = q[b].name => SortedPair(q[a].events, q[b].events)

(* An event of q older than one of the name in p is in p as well. *)
Precedes(p, q) ==
  \A n \in Name : \A x, y \in Event : In(p, n, x) /\ In(q, n, y) /\ y < x => In(p, n, y)

(* No event stands anywhere twice. *)
Inj(v) == \A i, j \in DOMAIN v : v[i] = v[j] => i = j
Single(q) ==
  /\ \A a \in DOMAIN q : Inj(q[a].events)
  /\ \A a, b \in DOMAIN q : \A e \in Event : Holds(q[a], e) /\ Holds(q[b], e) => a = b

(* Members of a sequence of metrics. *)
LEMMA ItemType ==
  /\ \A q \in Seq(Item) : /\ DOMAIN q = 1 .. Len(q) /\ Len(q) \in Nat
                          /\ \A a \in DOMAIN q : q[a] \in Item
  /\ \A m \in Item : /\ m.name \in Name /\ m.kind \in Kind /\ m.events \in Seq(Event)
                     /\ DOMAIN m.events = 1 .. Len(m.events) /\ Len(m.events) \in Nat
                     /\ \A k \in DOMAIN m.events : m.events[k] \in Event
                     /\ m = [name |-> m.name, kind |-> m.kind, events |-> m.events]
<1>1. \A q \in Seq(Item) : /\ DOMAIN q = 1 .. Len(q) /\ Len(q) \in Nat
                          /\ \A a \in DOMAIN q : q[a] \in Item
  OBVIOUS
<1>2. \A v \in Seq(Event) : /\ DOMAIN v = 1 .. Len(v) /\ Len(v) \in Nat
                           /\ \A k \in DOMAIN v : v[k] \in Event
  OBVIOUS
<1>3. \A m \in Item : m.name \in Name /\ m.kind \in Kind /\ m.events \in Seq(Event)
                      /\ m = [name |-> m.name, kind |-> m.kind, events |-> m.events]
  BY DEF Item, Kind
<1> QED
  BY <1>1, <1>2, <1>3

(* Entries of two sequences one behind the other. *)
LEMMA Concat ==
  ASSUME NEW S, NEW u \in Seq(S), NEW v \in Seq(S)
  PROVE  /\ u \o v \in Seq(S)
         /\ \A k \in DOMAIN u : k \in DOMAIN (u \o v) /\ (u \o v)[k] = u[k]
         /\ \A k \in DOMAIN v : Len(u) + k \in DOMAIN (u \o v) /\ (u \o v)[Len(u) + k] = v[k]
         /\ \A k \in DOMAIN (u \o v) :
              k \in DOMAIN u \/ (k - Len(u) \in DOMAIN v /\ k = Len(u) + (k - Len(u)))
OBVIOUS

(* The entries of both. *)
LEMMA ConcatHas ==
  ASSUME NEW S, NEW u \in Seq(S), NEW v \in Seq(S), NEW e
  PROVE  Has(u \o v, e) <=> Has(u, e) \/ Has(v, e)
<1> DEFINE w == u \o v
<1>1. /\ \A k \in DOMAIN u : k \in DOMAIN w /\ w[k] = u[k]
      /\ \A k \in DOMAIN v : Len(u) + k \in DOMAIN w /\ w[Len(u) + k] = v[k]
      /\ \A k \in DOMAIN w :
           k \in DOMAIN u \/ (k - Len(u) \in DOMAIN v /\ k = Len(u) + (k - Len(u)))
  BY Concat
<1> HIDE DEF w
<1>2. ASSUME NEW k \in DOMAIN v, v[k] = e
      PROVE  \E i \in DOMAIN w : w[i] = e
  BY <1>1, <1>2
<1>3. ASSUME NEW k \in DOMAIN u, u[k] = e
      PROVE  \E i \in DOMAIN w : w[i] = e
  BY <1>1, <1>3
<1>4. ASSUME NEW k \in DOMAIN w, w[k] = e
      PROVE  (\E i \in DOMAIN u : u[i] = e) \/ (\E i \in DOMAIN v : v[i] = e)
  <2>1. CASE k \in DOMAIN u
    BY <1>1, <1>4, <2>1
  <2>2. CASE k - Len(u) \in DOMAIN v /\ k = Len(u) + (k - Len(u))
    <3>1. v[k - Len(u)] = e
      BY <1>1, <1>4, <2>2
    <3> QED
      BY <2>2, <3>1
  <2> QED
    BY <1>1, <2>1, <2>2
<1> QED
  BY <1>2, <1>3, <1>4 DEF w, Has

-----------------------------------------------------------------------------
(* What Add does to series r: it extends the series of m's key, or appends *)
(* m as a new one.                                                         *)
Extended(series, m, r, a) ==
  /\ series[a].name = m.name /\ series[a].kind = m.kind
  /\ DOMAIN r = DOMAIN series
  /\ r[a].name = series[a].name /\ r[a].kind = series[a].kind
  /\ r[a].events = series[a].events \o m.events
  /\ \A b \in DOMAIN series : b # a => r[b] = series[b]

Appended(series, m, r) ==
  /\ \A a \in DOMAIN series : ~(series[a].name = m.name /\ series[a].kind = m.kind)
  /\ r = Append(series, m)

(* Add keeps one series per key. *)
LEMMA AddCases ==
  ASSUME NEW series \in Seq(Item), Keyed(series), NEW m \in Item
  PROVE  /\ Add(series, m) \in Seq(Item)
         /\ Keyed(Add(series, m))
         /\ \/ \E a \in DOMAIN series : Extended(series, m, Add(series, m), a)
            \/ Appended(series, m, Add(series, m))
<1> DEFINE r == Add(series, m)
<1>1. CASE \E a \in DOMAIN series : series[a].name = m.name /\ series[a].kind = m.kind
  <2>1. PICK a \in DOMAIN series : series[a].name = m.name /\ series[a].kind = m.kind
    BY <1>1
  <2> DEFINE x == [series[a] EXCEPT !.events = @ \o m.events]
  <2>2. r = [i \in DOMAIN series |->
          IF series[i].name = m.name /\ series[i].kind = m.kind
          THEN [series[i] EXCEPT !.events = @ \o m.events] ELSE series[i]]
    BY <1>1 DEF Add
  <2>3. \A b \in DOMAIN series : (series[b].name = m.name /\ series[b].kind = m.kind) <=> b = a
    BY <2>1 DEF Keyed
  <2> HIDE DEF r
  <2>4. DOMAIN r = DOMAIN series /\ r[a] = x /\ \A b \in DOMAIN series : b # a => r[b] = series[b]
    BY <2>1, <2>2, <2>3
  <2>5. /\ x \in Item /\ x.name = series[a].name /\ x.kind = series[a].kind
        /\ x.events = series[a].events \o m.events
    <3>1. series[a] \in Item /\ series[a].events \in Seq(Event) /\ m.events \in Seq(Event)
      BY ItemType
    <3>2. series[a].events \o m.events \in Seq(Event)
      BY <3>1
    <3> QED
      BY <3>1, <3>2 DEF Item
  <2> HIDE DEF x
  <2>6. r \in Seq(Item)
    <3>1. \A b \in DOMAIN series : r[b] \in Item
      BY <2>4, <2>5
    <3>2. r = [b \in DOMAIN series |-> r[b]]
      BY <2>2, <2>4
    <3>3. DOMAIN series = 1 .. Len(series) /\ Len(series) \in Nat
      OBVIOUS
    <3> QED
      BY <3>1, <3>2, <3>3, IsASeq
  <2>7. Keyed(r)
    BY <2>4, <2>5 DEF Keyed
  <2>8. Extended(series, m, r, a)
    BY <2>1, <2>4, <2>5 DEF Extended
  <2> QED
    BY <2>6, <2>7, <2>8 DEF r
<1>2. CASE ~ \E a \in DOMAIN series : series[a].name = m.name /\ series[a].kind = m.kind
  <2>1. r = Append(series, m)
    BY <1>2 DEF Add
  <2> HIDE DEF r
  <2>2. r \in Seq(Item) /\ DOMAIN r = 1 .. Len(series) + 1 /\ r[Len(series) + 1] = m
        /\ \A b \in DOMAIN series : r[b] = series[b] /\ b \in 1 .. Len(series)
        /\ DOMAIN series = 1 .. Len(series)
    BY <2>1
  <2>3. Keyed(r)
    BY <1>2, <2>2 DEF Keyed
  <2> QED
    BY <1>2, <2>1, <2>2, <2>3 DEF Appended, r
<1> QED
  BY <1>1, <1>2

(* Where an event of the result comes from. *)
LEMMA AddIn ==
  ASSUME NEW series \in Seq(Item), Keyed(series), NEW m \in Item, NEW n, NEW e
  PROVE  In(Add(series, m), n, e) <=> In(series, n, e) \/ (m.name = n /\ Holds(m, e))
<1> DEFINE r == Add(series, m)
<1> HIDE DEF r
<1>1. ASSUME NEW a \in DOMAIN series, Extended(series, m, r, a)
      PROVE  In(r, n, e) <=> In(series, n, e) \/ (m.name = n /\ Holds(m, e))
  <2>1. r[a].name = series[a].name /\ r[a].events = series[a].events \o m.events
        /\ series[a].events \in Seq(Event) /\ m.events \in Seq(Event)
    <3>1. series[a] \in Item /\ series[a].events \in Seq(Event) /\ m.events \in Seq(Event)
      BY ItemType
    <3> QED
      BY <1>1, <3>1 DEF Extended, Item
  <2>2. Holds(r[a], e) <=> Holds(series[a], e) \/ Holds(m, e)
    <3>1. Has(series[a].events \o m.events, e) <=> Has(series[a].events, e) \/ Has(m.events, e)
      BY <2>1, ConcatHas
    <3> QED
      BY <2>1, <3>1 DEF Holds
  <2> QED
    BY <1>1, <2>1, <2>2 DEF In, Extended
<1>2. ASSUME Appended(series, m, r)
      PROVE  In(r, n, e) <=> In(series, n, e) \/ (m.name = n /\ Holds(m, e))
  <2>1. /\ DOMAIN r = 1 .. Len(series) + 1 /\ r[Len(series) + 1] = m
        /\ DOMAIN series = 1 .. Len(series) /\ Len(series) \in Nat
        /\ \A b \in DOMAIN series : r[b] = series[b]
    BY <1>2 DEF Appended
  <2>2. \A b \in DOMAIN r : b \in DOMAIN series \/ b = Len(series) + 1
    BY <2>1
  <2>3. \A b \in DOMAIN series : b \in DOMAIN r
    BY <2>1
  <2>4. Len(series) + 1 \in DOMAIN r
    BY <2>1
  <2> QED
    BY <2>1, <2>2, <2>3, <2>4, Zenon DEF In
<1> QED
  BY <1>1, <1>2, AddCases DEF r

(* An event of v older than one of u is in front of it in u. *)
LEMMA PairSorted ==
  ASSUME NEW u \in Seq(Event), NEW v \in Seq(Event), Sorted(u),
         \A x, y \in Event : Has(u, x) /\ Has(v, y) /\ y < x => Has(u, y)
  PROVE  SortedPair(u, v)
<1> SUFFICES ASSUME NEW i \in DOMAIN u, NEW j \in DOMAIN v, v[j] < u[i]
             PROVE  \E k \in 1 .. i - 1 : u[k] = v[j]
  BY DEF SortedPair
<1>1. Event \subseteq Nat /\ DOMAIN u = 1 .. Len(u) /\ Len(u) \in Nat
  BY PipelineAssumption, SMTT(60) DEF Event
<1>2. u[i] \in Event /\ v[j] \in Event
  OBVIOUS
<1>3. Has(u, v[j])
  BY <1>2 DEF Has
<1>4. PICK k \in DOMAIN u : u[k] = v[j]
  BY <1>3 DEF Has
<1>5. CASE k < i
  BY <1>1, <1>4, <1>5
<1>6. CASE i < k
  <2>1. u[k] < u[i]
    BY <1>4
  <2> QED
    BY <1>4, <1>6, <2>1 DEF Sorted
<1>7. k # i
  <2>1. \A x, y \in Nat : y < x => x # y
    OBVIOUS
  <2>2. u[i] # v[j]
    BY <1>1, <1>2, <2>1, Zenon
  <2> QED
    BY <1>4, <2>2
<1> QED
  BY <1>1, <1>5, <1>6, <1>7

(* Sorted sequences one behind the other. *)
LEMMA SortedConcat ==
  ASSUME NEW u \in Seq(Event), NEW v \in Seq(Event), Sorted(u), Sorted(v), SortedPair(u, v)
  PROVE  Sorted(u \o v)
<1> DEFINE w == u \o v
<1>1. /\ \A k \in DOMAIN u : k \in DOMAIN w /\ w[k] = u[k]
      /\ \A k \in DOMAIN v : Len(u) + k \in DOMAIN w /\ w[Len(u) + k] = v[k]
      /\ \A k \in DOMAIN w :
           k \in DOMAIN u \/ (k - Len(u) \in DOMAIN v /\ k = Len(u) + (k - Len(u)))
  BY Concat
<1>2. /\ DOMAIN u = 1 .. Len(u) /\ Len(u) \in Nat /\ DOMAIN v = 1 .. Len(v) /\ Len(v) \in Nat
      /\ DOMAIN w \subseteq Nat
  OBVIOUS
<1> HIDE DEF w
<1> SUFFICES ASSUME NEW i \in DOMAIN w, NEW j \in DOMAIN w, i < j, w[j] < w[i]
             PROVE  \E k \in 1 .. i - 1 : w[k] = w[j]
  BY DEF Sorted, w
<1>3. CASE i \in DOMAIN u /\ j \in DOMAIN u
  <2>1. PICK k \in 1 .. i - 1 : u[k] = u[j]
    BY <1>1, <1>3 DEF Sorted
  <2>2. k \in DOMAIN u
    BY <1>2, <1>3
  <2> QED
    BY <1>1, <1>3, <2>1, <2>2
<1>4. CASE i \in DOMAIN u /\ j \notin DOMAIN u
  <2>1. j - Len(u) \in DOMAIN v /\ w[j] = v[j - Len(u)]
    BY <1>1, <1>4
  <2>2. PICK k \in 1 .. i - 1 : u[k] = v[j - Len(u)]
    BY <1>1, <1>4, <2>1 DEF SortedPair
  <2>3. k \in DOMAIN u
    BY <1>2, <1>4
  <2> QED
    BY <1>1, <2>1, <2>2, <2>3
<1>5. CASE i \notin DOMAIN u /\ j \notin DOMAIN u
  <2> DEFINE x == i - Len(u)
             y == j - Len(u)
  <2>1. /\ x \in DOMAIN v /\ y \in DOMAIN v /\ w[i] = v[x] /\ w[j] = v[y]
    BY <1>1, <1>5
  <2>2. x < y /\ x \in Nat
    BY <1>2, <2>1
  <2>3. PICK k \in 1 .. x - 1 : v[k] = v[y]
    <3> HIDE DEF x, y
    <3> QED
      BY <2>1, <2>2 DEF Sorted
  <2>4. k \in DOMAIN v /\ Len(u) + k \in 1 .. i - 1
    BY <1>2, <2>1
  <2>5. w[Len(u) + k] = w[j]
    BY <1>1, <2>1, <2>3, <2>4
  <2> QED
    BY <2>4, <2>5
<1>6. ~(i \notin DOMAIN u /\ j \in DOMAIN u)
  BY <1>1, <1>2
<1> QED
  BY <1>3, <1>4, <1>5, <1>6

(* Sequences without an entry in common, one behind the other. *)
LEMMA InjConcat ==
  ASSUME NEW S, NEW u \in Seq(S), NEW v \in Seq(S), Inj(u), Inj(v),
         \A e \in S : ~(Has(u, e) /\ Has(v, e))
  PROVE  Inj(u \o v)
<1> DEFINE w == u \o v
<1>1. /\ \A k \in DOMAIN u : k \in DOMAIN w /\ w[k] = u[k] /\ u[k] \in S /\ Has(u, u[k])
      /\ \A k \in DOMAIN v : /\ Len(u) + k \in DOMAIN w /\ w[Len(u) + k] = v[k]
                             /\ v[k] \in S /\ Has(v, v[k])
      /\ \A k \in DOMAIN w :
           k \in DOMAIN u \/ (k - Len(u) \in DOMAIN v /\ k = Len(u) + (k - Len(u)))
  BY Concat DEF Has
<1> HIDE DEF w
<1> SUFFICES ASSUME NEW i \in DOMAIN w, NEW j \in DOMAIN w, w[i] = w[j]
             PROVE  i = j
  BY DEF Inj, w
<1>2. ASSUME NEW a \in DOMAIN w, NEW b \in DOMAIN w, a \in DOMAIN u, b \notin DOMAIN u, w[a] = w[b]
      PROVE  FALSE
  <2>1. b - Len(u) \in DOMAIN v /\ w[b] = v[b - Len(u)]
    BY <1>1, <1>2
  <2> QED
    BY <1>1, <1>2, <2>1
<1>3. CASE i \in DOMAIN u /\ j \in DOMAIN u
  BY <1>1, <1>3 DEF Inj
<1>4. CASE i \notin DOMAIN u /\ j \notin DOMAIN u
  <2>1. /\ i - Len(u) \in DOMAIN v /\ w[i] = v[i - Len(u)] /\ i = Len(u) + (i - Len(u))
        /\ j - Len(u) \in DOMAIN v /\ w[j] = v[j - Len(u)] /\ j = Len(u) + (j - Len(u))
    BY <1>1, <1>4
  <2>2. i - Len(u) = j - Len(u)
    BY <2>1 DEF Inj
  <2> QED
    BY <2>1, <2>2
<1> QED
  BY <1>2, <1>3, <1>4

-----------------------------------------------------------------------------
(* Metrics of one name that follow from their kind are one series. *)
LEMMA OneSeries ==
  ASSUME NEW q, Keyed(q), NEW K, Kinded(q, K)
  PROVE  \A a, b \in DOMAIN q : q[a].name = q[b].name => a = b
BY DEF Keyed, Kinded

(* Add keeps the kinds, and the order when m comes behind the series. *)
LEMMA AddTidy ==
  ASSUME NEW series \in Seq(Item), Keyed(series), NEW m \in Item,
         NEW K, Kinded(series, K), m.kind = K[m.name]
  PROVE  /\ Kinded(Add(series, m), K)
         /\ /\ Tidy(series) /\ Sorted(m.events)
            /\ \A x, y \in Event : In(series, m.name, x) /\ Holds(m, y) /\ y < x => In(series, m.name, y)
            => Tidy(Add(series, m))
<1> DEFINE r == Add(series, m)
<1> HIDE DEF r
<1>0. /\ r \in Seq(Item) /\ Keyed(r)
      /\ \/ \E a \in DOMAIN series : Extended(series, m, r, a)
         \/ Appended(series, m, r)
  BY AddCases DEF r
<1>1. Kinded(r, K)
  <2>1. ASSUME NEW a \in DOMAIN series, Extended(series, m, r, a)
        PROVE  Kinded(r, K)
    <3>1. r[a].name = series[a].name /\ r[a].kind = series[a].kind
      BY <2>1, ItemType DEF Extended
    <3> QED
      BY <2>1, <3>1 DEF Kinded, Extended
  <2>2. ASSUME Appended(series, m, r)
        PROVE  Kinded(r, K)
    BY <2>2 DEF Kinded, Appended
  <2> QED
    BY <1>0, <2>1, <2>2
<1>2. ASSUME Tidy(series), Sorted(m.events),
             \A x, y \in Event : In(series, m.name, x) /\ Holds(m, y) /\ y < x => In(series, m.name, y)
      PROVE  Tidy(r)
  <2>1. SUFFICES \A a \in DOMAIN r : Sorted(r[a].events)
    <3>1. \A a, b \in DOMAIN r : a < b => a # b
      BY <1>0
    <3> QED
      BY <1>0, <1>1, <2>1, <3>1, OneSeries, Zenon DEF Tidy
  <2>2. ASSUME NEW a \in DOMAIN series, Extended(series, m, r, a)
        PROVE  \A b \in DOMAIN r : Sorted(r[b].events)
    <3> DEFINE u == series[a].events
               v == m.events
    <3>1. r[a].events = u \o v /\ u \in Seq(Event) /\ v \in Seq(Event)
      BY <2>2, ItemType DEF Extended
    <3>2. ASSUME NEW x \in Event, NEW y \in Event, Has(u, x), Has(v, y), y < x
          PROVE  Has(u, y)
      <4>1. In(series, m.name, x) /\ Holds(m, y)
        BY <2>2, <3>2 DEF In, Holds, Extended
      <4>2. In(series, m.name, y)
        BY <1>2, <3>2, <4>1
      <4>3. PICK b \in DOMAIN series : series[b].name = m.name /\ Holds(series[b], y)
        BY <4>2 DEF In
      <4>4. b = a
        BY <2>2, <4>3, OneSeries DEF Extended
      <4> QED
        BY <4>3, <4>4 DEF Holds
    <3>3. Sorted(u) /\ Sorted(v)
      BY <1>2 DEF Tidy
    <3> HIDE DEF u, v
    <3>4. Sorted(r[a].events)
      BY <3>1, <3>2, <3>3, PairSorted, SortedConcat
    <3> QED
      BY <1>2, <2>2, <3>4 DEF Extended, Tidy
  <2>3. ASSUME Appended(series, m, r)
        PROVE  \A b \in DOMAIN r : Sorted(r[b].events)
    <3>1. \A b \in DOMAIN r : (b \in DOMAIN series /\ r[b] = series[b]) \/ r[b] = m
      BY <2>3 DEF Appended
    <3> QED
      BY <1>2, <3>1 DEF Tidy
  <2> QED
    BY <1>0, <2>2, <2>3
<1> QED
  BY <1>1, <1>2 DEF r

(* Add keeps the events apart. *)
LEMMA AddSingle ==
  ASSUME NEW series \in Seq(Item), Keyed(series), NEW m \in Item, Single(series), Inj(m.events),
         \A n, e : In(series, n, e) => ~Holds(m, e)
  PROVE  Single(Add(series, m))
<1> DEFINE r == Add(series, m)
<1> HIDE DEF r
<1>0. /\ r \in Seq(Item)
      /\ \/ \E a \in DOMAIN series : Extended(series, m, r, a)
         \/ Appended(series, m, r)
  BY AddCases DEF r
<1>1. \A a \in DOMAIN series : \A e : Holds(series[a], e) => ~Holds(m, e)
  BY DEF In
<1>2. ASSUME NEW a \in DOMAIN series, Extended(series, m, r, a)
      PROVE  Single(r)
  <2> DEFINE u == series[a].events
             v == m.events
  <2>1. r[a].events = u \o v /\ u \in Seq(Event) /\ v \in Seq(Event)
    BY <1>2, ItemType DEF Extended
  <2>2. \A e : Holds(series[a], e) <=> Has(u, e)
    BY DEF Holds
  <2>3. \A e : Holds(m, e) <=> Has(v, e)
    BY DEF Holds
  <2>4. Inj(u) /\ Inj(v)
    BY DEF Single
  <2> HIDE DEF u, v
  <2>5. Inj(u \o v)
    BY <1>1, <2>1, <2>2, <2>3, <2>4, InjConcat
  <2>6. \A e : Holds(r[a], e) <=> Holds(series[a], e) \/ Holds(m, e)
    <3>1. \A e : Has(u \o v, e) <=> Has(u, e) \/ Has(v, e)
      BY <2>1, ConcatHas
    <3> QED
      BY <2>1, <2>2, <2>3, <3>1 DEF Holds
  <2>7. \A b \in DOMAIN r : Inj(r[b].events)
    BY <1>2, <2>1, <2>5 DEF Extended, Single
  <2>8. ASSUME NEW b \in DOMAIN r, NEW c \in DOMAIN r, NEW e \in Event, Holds(r[b], e), Holds(r[c], e)
        PROVE  b = c
    <3>1. b \in DOMAIN series /\ c \in DOMAIN series
      BY <1>2 DEF Extended
    <3>2. CASE b # a /\ c # a
      <4>1. Holds(series[b], e) /\ Holds(series[c], e)
        BY <1>2, <2>8, <3>1, <3>2 DEF Extended
      <4> QED
        BY <3>1, <4>1 DEF Single
    <3>3. CASE b # a /\ c = a
      <4>1. Holds(series[b], e) /\ ~Holds(m, e)
        BY <1>1, <1>2, <2>8, <3>1, <3>3 DEF Extended
      <4>2. Holds(series[a], e)
        BY <2>6, <2>8, <3>3, <4>1
      <4> QED
        BY <3>1, <3>3, <4>1, <4>2 DEF Single
    <3>4. CASE b = a /\ c # a
      <4>1. Holds(series[c], e) /\ ~Holds(m, e)
        BY <1>1, <1>2, <2>8, <3>1, <3>4 DEF Extended
      <4>2. Holds(series[a], e)
        BY <2>6, <2>8, <3>4, <4>1
      <4> QED
        BY <3>1, <3>4, <4>1, <4>2 DEF Single
    <3> QED
      BY <3>2, <3>3, <3>4
  <2> QED
    BY <2>7, <2>8 DEF Single
<1>3. ASSUME Appended(series, m, r)
      PROVE  Single(r)
  <2>1. \A b \in DOMAIN r : (b \in DOMAIN series /\ r[b] = series[b])
                              \/ (b = Len(series) + 1 /\ r[b] = m)
    BY <1>3 DEF Appended
  <2>2. \A b \in DOMAIN r : Inj(r[b].events)
    BY <2>1 DEF Single
  <2>3. ASSUME NEW b \in DOMAIN r, NEW c \in DOMAIN r, NEW e \in Event, Holds(r[b], e), Holds(r[c], e)
        PROVE  b = c
    BY <1>1, <2>1, <2>3 DEF Single
  <2> QED
    BY <2>2, <2>3 DEF Single
<1> QED
  BY <1>0, <1>2, <1>3 DEF r

-----------------------------------------------------------------------------
(* The contents of an aggregator. *)
Serieses == {q \in Seq(Item) : Keyed(q)}

(* The windows f that AddAll goes through. *)
Gathers(f, series, items) ==
  /\ f \in [0 .. Len(items) -> Serieses]
  /\ f[0] = series
  /\ \A i \in 1 .. Len(items) : f[i] = Add(f[i - 1], items[i])
  /\ AddAll(series, items) = f[Len(items)]

(* AddAll is a run of Add. *)
LEMMA AddAllRun ==
  ASSUME NEW series \in Serieses, NEW items \in Seq(Item)
  PROVE  \E f : Gathers(f, series, items)
<1> DEFINE D == Serieses
           n == Len(items)
           G(h) == [i \in 0 .. Len(items) |-> IF i = 0 THEN series ELSE Add(h[i - 1], items[i])]
           F == [i \in Nat |-> [a \in D |-> IF i \in 1 .. n THEN Add(a, items[i]) ELSE a]]
           f == CHOOSE h : h = G(h)
<1>1. n \in Nat /\ \A i \in 1 .. n : items[i] \in Item
  OBVIOUS
<1>2. F \in [Nat -> [D -> D]]
  <2>1. ASSUME NEW i \in 1 .. n, NEW a \in D
        PROVE  Add(a, items[i]) \in D
    BY <1>1, AddCases DEF Serieses
  <2> QED
    BY <2>1
<1>3. PICK g \in [0 .. n -> D] : Runs(g, n, series, F)
  <2> HIDE DEF D, F, n
  <2>1. series \in D
    BY DEF D
  <2> QED
    BY <1>1, <1>2, <2>1, Recursion, Zenon
<1>4. ASSUME NEW i \in 1 .. n
      PROVE  g[i] = Add(g[i - 1], items[i])
  <2>1. i - 1 \in 0 .. n /\ i \in Nat
    OBVIOUS
  <2>2. g[i - 1] \in D
    BY <2>1
  <2>3. g[i] = F[i][g[i - 1]]
    BY <1>3 DEF Runs
  <2> QED
    BY <2>1, <2>2, <2>3
<1>5. g = G(g)
  BY <1>4, <1>3 DEF Runs
<1>6. f = G(f)
  BY <1>5, Zenon
<1>7. AddAll(series, items) = f[Len(items)]
  BY DEF AddAll
<1> HIDE DEF f, D, F
<1>8. f[0] = series /\ \A i \in 1 .. n : f[i] = Add(f[i - 1], items[i])
  BY <1>1, <1>6
<1>9. f \in [0 .. n -> D]
  <2> DEFINE S == {i \in 0 .. n : f[i] = g[i]}
  <2>1. 0 \in S
    BY <1>1, <1>3, <1>8 DEF Runs
  <2>2. \A i \in 1 .. n : i - 1 \in S => i \in S
    BY <1>4, <1>8
  <2>3. 0 .. n \subseteq S
    <3> HIDE DEF S
    <3> QED
      BY <1>1, <2>1, <2>2, Upward
  <2>4. \A i \in 0 .. n : f[i] = g[i]
    BY <2>3
  <2>5. f = [i \in 0 .. n |-> f[i]]
    BY <1>6
  <2> QED
    BY <2>4, <2>5
<1> QED
  BY <1>7, <1>8, <1>9 DEF Gathers, D

(* The events of the first i metrics of q. *)
InTo(q, i, n, e) == \E b \in DOMAIN q : b <= i /\ q[b].name = n /\ Holds(q[b], e)

(* At every stage the window holds the events of the series and of the     *)
(* metrics so far.                                                         *)
LEMMA GatherIn ==
  ASSUME NEW series \in Serieses, NEW items \in Seq(Item), NEW f, Gathers(f, series, items),
         NEW i \in 0 .. Len(items), NEW n, NEW e
  PROVE  In(f[i], n, e) <=> In(series, n, e) \/ InTo(items, i, n, e)
<1> DEFINE T == {k \in 0 .. Len(items) : In(f[k], n, e) <=> In(series, n, e) \/ InTo(items, k, n, e)}
<1>1. 0 \in T
  <2>1. f[0] = series /\ 0 \in 0 .. Len(items)
    BY DEF Gathers
  <2>2. ~InTo(items, 0, n, e)
    BY DEF InTo
  <2> QED
    BY <2>1, <2>2
<1>2. ASSUME NEW k \in 1 .. Len(items), k - 1 \in T
      PROVE  k \in T
  <2>1. /\ f[k] = Add(f[k - 1], items[k]) /\ f[k - 1] \in Seq(Item) /\ Keyed(f[k - 1])
        /\ items[k] \in Item
    BY DEF Gathers, Serieses
  <2>2. In(f[k], n, e) <=> In(f[k - 1], n, e) \/ (items[k].name = n /\ Holds(items[k], e))
    BY <2>1, AddIn
  <2>3. InTo(items, k, n, e) <=> InTo(items, k - 1, n, e) \/ (items[k].name = n /\ Holds(items[k], e))
    <3>1. \A b \in DOMAIN items : b <= k <=> b <= k - 1 \/ b = k
      OBVIOUS
    <3>2. k \in DOMAIN items
      OBVIOUS
    <3> QED
      BY <3>1, <3>2 DEF InTo
  <2>4. In(f[k - 1], n, e) <=> In(series, n, e) \/ InTo(items, k - 1, n, e)
    BY <1>2
  <2>5. k \in 0 .. Len(items)
    OBVIOUS
  <2> QED
    BY <2>2, <2>3, <2>4, <2>5
<1>3. 0 .. Len(items) \subseteq T
  <2> HIDE DEF T
  <2>1. Len(items) \in Nat
    OBVIOUS
  <2> QED
    BY <1>1, <1>2, <2>1, Upward
<1> QED
  BY <1>3

(* AddAll keeps every event under its name. *)
LEMMA AddAllIn ==
  ASSUME NEW series \in Serieses, NEW items \in Seq(Item)
  PROVE  /\ AddAll(series, items) \in Serieses
         /\ \A n, e : In(AddAll(series, items), n, e) <=> In(series, n, e) \/ In(items, n, e)
<1>1. PICK f : Gathers(f, series, items)
  BY AddAllRun
<1>2. Len(items) \in 0 .. Len(items) /\ \A b \in DOMAIN items : b <= Len(items)
  OBVIOUS
<1>3. \A n, e : InTo(items, Len(items), n, e) <=> In(items, n, e)
  BY <1>2 DEF InTo, In
<1>4. AddAll(series, items) = f[Len(items)] /\ f[Len(items)] \in Serieses
  BY <1>1, <1>2 DEF Gathers
<1>5. \A n, e : In(f[Len(items)], n, e) <=> In(series, n, e) \/ InTo(items, Len(items), n, e)
  BY <1>1, <1>2, GatherIn
<1> QED
  BY <1>3, <1>4, <1>5

(* A window stays in order when a batch in order comes behind it. *)
LEMMA AddAllTidy ==
  ASSUME NEW series \in Serieses, NEW items \in Seq(Item), NEW K,
         Kinded(series, K), Kinded(items, K)
  PROVE  /\ Kinded(AddAll(series, items), K)
         /\ Tidy(series) /\ Tidy(items) /\ Precedes(series, items) => Tidy(AddAll(series, items))
<1>1. PICK f : Gathers(f, series, items)
  BY AddAllRun
<1> DEFINE Ordered == Tidy(series) /\ Tidy(items) /\ Precedes(series, items)
           T == {k \in 0 .. Len(items) : Kinded(f[k], K) /\ (Ordered => Tidy(f[k]))}
<1>2. 0 \in T
  BY <1>1 DEF Gathers
<1>3. ASSUME NEW k \in 1 .. Len(items), k - 1 \in T
      PROVE  k \in T
  <2> DEFINE g == f[k - 1]
             m == items[k]
  <2>1. /\ f[k] = Add(g, m) /\ g \in Seq(Item) /\ Keyed(g) /\ m \in Item /\ k \in DOMAIN items
        /\ k - 1 \in 0 .. Len(items) /\ k \in 0 .. Len(items)
    BY <1>1 DEF Gathers, Serieses
  <2>2. Kinded(g, K) /\ m.kind = K[m.name] /\ (Ordered => Tidy(g))
    BY <1>3, <2>1 DEF Kinded
  <2>3. ASSUME Ordered, NEW x \in Event, NEW y \in Event, In(g, m.name, x), Holds(m, y), y < x
        PROVE  In(g, m.name, y)
    <3>0. \A e : In(g, m.name, e) <=> In(series, m.name, e) \/ InTo(items, k - 1, m.name, e)
      BY <1>1, <2>1, GatherIn
    <3>1. m.name \in Name /\ In(items, m.name, y)
      BY <2>1, <2>3, ItemType DEF In
    <3>2. CASE In(series, m.name, x)
      <4>1. In(series, m.name, y)
        BY <2>3, <3>1, <3>2 DEF Precedes
      <4> QED
        BY <3>0, <4>1
    <3>3. CASE InTo(items, k - 1, m.name, x)
      <4>1. PICK b \in DOMAIN items : b <= k - 1 /\ items[b].name = m.name /\ Holds(items[b], x)
        BY <3>3 DEF InTo
      <4>2. b < k /\ SortedPair(items[b].events, m.events)
        BY <2>1, <2>3, <4>1 DEF Tidy
      <4>3. PICK i \in DOMAIN items[b].events : items[b].events[i] = x
        BY <4>1 DEF Holds, Has
      <4>4. PICK j \in DOMAIN m.events : m.events[j] = y
        BY <2>3 DEF Holds, Has
      <4>5. PICK h \in 1 .. i - 1 : items[b].events[h] = y
        BY <2>3, <4>2, <4>3, <4>4 DEF SortedPair
      <4>6. h \in DOMAIN items[b].events
        BY <4>1, <4>3, <4>5, ItemType
      <4>7. InTo(items, k - 1, m.name, y)
        BY <4>1, <4>5, <4>6 DEF InTo, Holds, Has
      <4> QED
        BY <3>0, <4>7
    <3> QED
      BY <2>3, <3>0, <3>2, <3>3
  <2>4. Ordered => Sorted(m.events)
    BY <2>1 DEF Tidy
  <2> HIDE DEF g, m, Ordered
  <2>5. Kinded(Add(g, m), K) /\ (Ordered => Tidy(Add(g, m)))
    BY <2>1, <2>2, <2>3, <2>4, AddTidy
  <2> QED
    BY <2>1, <2>5
<1>4. 0 .. Len(items) \subseteq T
  <2> HIDE DEF T
  <2>1. Len(items) \in Nat
    OBVIOUS
  <2> QED
    BY <1>2, <1>3, <2>1, Upward
<1>5. Len(items) \in 0 .. Len(items) /\ AddAll(series, items) = f[Len(items)]
  BY <1>1 DEF Gathers
<1> QED
  BY <1>4, <1>5

(* A window and a batch without common events give a window without        *)
(* repetitions.                                                            *)
LEMMA AddAllSingle ==
  ASSUME NEW series \in Serieses, NEW items \in Seq(Item), Single(series), Single(items),
         \A n, o, e : In(series, n, e) => ~In(items, o, e)
  PROVE  Single(AddAll(series, items))
<1>1. PICK f : Gathers(f, series, items)
  BY AddAllRun
<1> DEFINE T == {k \in 0 .. Len(items) : Single(f[k])}
<1>2. 0 \in T
  BY <1>1 DEF Gathers
<1>3. ASSUME NEW k \in 1 .. Len(items), k - 1 \in T
      PROVE  k \in T
  <2> DEFINE g == f[k - 1]
             m == items[k]
  <2>1. /\ f[k] = Add(g, m) /\ g \in Seq(Item) /\ Keyed(g) /\ m \in Item /\ k \in DOMAIN items
        /\ k - 1 \in 0 .. Len(items) /\ k \in 0 .. Len(items)
    BY <1>1 DEF Gathers, Serieses
  <2>2. Single(g) /\ Inj(m.events)
    BY <1>3, <2>1 DEF Single
  <2>3. ASSUME NEW n, NEW e, In(g, n, e), Holds(m, e)
        PROVE  FALSE
    <3>0. In(g, n, e) <=> In(series, n, e) \/ InTo(items, k - 1, n, e)
      BY <1>1, <2>1, GatherIn
    <3>1. In(items, m.name, e) /\ e \in Event
      <4>1. e \in Event
        BY <2>1, <2>3, ItemType DEF Holds, Has
      <4> QED
        BY <2>1, <2>3, <4>1 DEF In
    <3>2. InTo(items, k - 1, n, e)
      BY <2>3, <3>0, <3>1
    <3>3. PICK b \in DOMAIN items : b <= k - 1 /\ Holds(items[b], e)
      BY <3>2 DEF InTo
    <3>4. b = k
      BY <2>1, <2>3, <3>1, <3>3 DEF Single
    <3> QED
      BY <3>3, <3>4
  <2> HIDE DEF g, m
  <2>4. Single(Add(g, m))
    BY <2>1, <2>2, <2>3, AddSingle
  <2> QED
    BY <2>1, <2>4
<1>4. 0 .. Len(items) \subseteq T
  <2> HIDE DEF T
  <2>1. Len(items) \in Nat
    OBVIOUS
  <2> QED
    BY <1>2, <1>3, <2>1, Upward
<1>5. Len(items) \in 0 .. Len(items) /\ AddAll(series, items) = f[Len(items)]
  BY <1>1 DEF Gathers
<1> QED
  BY <1>4, <1>5

-----------------------------------------------------------------------------
(* Merging.  Place a, i of q is entry i of metric a. *)
Earlier(a, i, b, j) == a < b \/ (a = b /\ i < j)
Mate(q, a, b) == b \in DOMAIN q /\ b >= a /\ q[b].name = q[a].name /\ q[b].kind = q[a].kind

(* v lists the places of the metrics that merge with metric a, in order.   *)
Gathered(v, q, a, row, col) ==
  /\ \A p \in DOMAIN v : /\ Mate(q, a, row[p]) /\ col[p] \in DOMAIN q[row[p]].events
                         /\ v[p] = q[row[p]].events[col[p]]
  /\ \A p, r \in DOMAIN v : p < r => Earlier(row[p], col[p], row[r], col[r])
  /\ \A b \in DOMAIN q : Mate(q, a, b) =>
       \A k \in DOMAIN q[b].events : \E p \in DOMAIN v : row[p] = b /\ col[p] = k

(* mergeDataPoints gathers the metrics of one name and kind. *)
LEMMA AbsorbedGathers ==
  ASSUME NEW q \in Seq(Item), NEW a \in DOMAIN q
  PROVE  /\ Absorbed(q, a) \in Seq(Event)
         /\ \E row, col \in [DOMAIN Absorbed(q, a) -> Nat] : Gathered(Absorbed(q, a), q, a, row, col)
<1> DEFINE w == [j \in DOMAIN q |->
                   IF j >= a /\ q[j].name = q[a].name /\ q[j].kind = q[a].kind
                   THEN q[j].events ELSE << >>]
           v == Absorbed(q, a)
<1>1. DOMAIN q = 1 .. Len(q) /\ Len(q) \in Nat /\ \A b \in DOMAIN q : q[b].events \in Seq(Event)
  BY ItemType
<1>2. w \in Seq(Seq(Event)) /\ Len(w) = Len(q)
  <2>1. \A b \in DOMAIN q : w[b] \in Seq(Event)
    BY <1>1
  <2>2. w = [b \in 1 .. Len(q) |-> w[b]]
    BY <1>1
  <2> HIDE DEF w
  <2> QED
    BY <1>1, <2>1, <2>2, IsASeq
<1>3. v = FlattenSeq(w)
  BY DEF Absorbed
<1>4. /\ \A b \in DOMAIN q : Mate(q, a, b) => w[b] = q[b].events
      /\ \A b \in DOMAIN q : ~Mate(q, a, b) => DOMAIN w[b] = {}
  BY DEF Mate
<1> HIDE DEF w, v
<1>5. v \in Seq(Event) /\ Laid(v, w, Len(q))
  BY <1>2, <1>3, Flatten
<1>6. PICK row, col \in [DOMAIN v -> Nat] :
        /\ \A p \in DOMAIN v : /\ row[p] \in 1 .. Len(q) /\ col[p] \in DOMAIN w[row[p]]
                               /\ v[p] = w[row[p]][col[p]]
        /\ \A p, r \in DOMAIN v : p < r => row[p] < row[r] \/ (row[p] = row[r] /\ col[p] < col[r])
        /\ \A i \in 1 .. Len(q) : \A k \in DOMAIN w[i] : \E p \in DOMAIN v : row[p] = i /\ col[p] = k
  BY <1>5 DEF Laid
<1>7. ASSUME NEW p \in DOMAIN v
      PROVE  /\ Mate(q, a, row[p]) /\ col[p] \in DOMAIN q[row[p]].events
             /\ v[p] = q[row[p]].events[col[p]]
  BY <1>1, <1>4, <1>6, SMTT(60)
<1>8. \A p, r \in DOMAIN v : p < r => Earlier(row[p], col[p], row[r], col[r])
  BY <1>6 DEF Earlier
<1>9. ASSUME NEW b \in DOMAIN q, Mate(q, a, b), NEW k \in DOMAIN q[b].events
      PROVE  \E p \in DOMAIN v : row[p] = b /\ col[p] = k
  <2>1. w[b] = q[b].events /\ b \in 1 .. Len(q)
    BY <1>1, <1>4, <1>9
  <2>2. k \in DOMAIN w[b]
    BY <2>1
  <2> QED
    BY <1>6, <2>1, <2>2
<1>10. Gathered(v, q, a, row, col)
  BY <1>7, <1>8, <1>9 DEF Gathered
<1> QED
  BY <1>5, <1>10 DEF v

(* c lists places of q: of each name in order, of a metric all or none,    *)
(* and all of the first metric of a name.                                  *)
Listed(c, q, row, col) ==
  /\ \A p \in DOMAIN c : /\ row[p] \in DOMAIN q /\ col[p] \in DOMAIN q[row[p]].events
                         /\ c[p] = q[row[p]].events[col[p]]
  /\ \A p, r \in DOMAIN c : p < r /\ q[row[p]].name = q[row[r]].name =>
                              Earlier(row[p], col[p], row[r], col[r])
  /\ \A p \in DOMAIN c : \A k \in DOMAIN q[row[p]].events :
       \E r \in DOMAIN c : row[r] = row[p] /\ col[r] = k
  /\ \A a \in DOMAIN q : IsFirst(q, a) =>
       \A k \in DOMAIN q[a].events : \E p \in DOMAIN c : row[p] = a /\ col[p] = k

(* A name has one first metric. *)
LEMMA FirstUnique ==
  ASSUME NEW q \in Seq(Item), NEW a \in DOMAIN q, NEW b \in DOMAIN q,
         IsFirst(q, a), IsFirst(q, b), q[a].name = q[b].name
  PROVE  a = b
<1>1. a \in Nat /\ b \in Nat /\ a >= 1 /\ b >= 1
  OBVIOUS
<1>2. ~(a < b)
  <2>1. a < b => a \in 1 .. b - 1
    BY <1>1
  <2> QED
    BY <2>1 DEF IsFirst
<1>3. ~(b < a)
  <2>1. b < a => b \in 1 .. a - 1
    BY <1>1
  <2> QED
    BY <2>1 DEF IsFirst
<1> QED
  BY <1>1, <1>2, <1>3

(* The request lists the places of the metrics that merge. *)
LEMMA ContentLists ==
  ASSUME NEW q \in Seq(Item)
  PROVE  /\ Content(q) \in Seq(Event)
         /\ \E row, col \in [DOMAIN Content(q) -> Nat] : Listed(Content(q), q, row, col)
<1> DEFINE w == [a \in DOMAIN q |-> IF IsFirst(q, a) THEN Absorbed(q, a) ELSE << >>]
           c == Content(q)
<1>1. DOMAIN q = 1 .. Len(q) /\ Len(q) \in Nat
  BY ItemType
<1>2. w \in Seq(Seq(Event)) /\ Len(w) = Len(q)
  <2>1. \A b \in DOMAIN q : w[b] \in Seq(Event)
    BY AbsorbedGathers
  <2>2. w = [b \in 1 .. Len(q) |-> w[b]]
    BY <1>1
  <2> HIDE DEF w
  <2> QED
    BY <1>1, <2>1, <2>2, IsASeq
<1>3. c = FlattenSeq(w)
  BY DEF Content
<1>4. /\ \A b \in DOMAIN q : IsFirst(q, b) => w[b] = Absorbed(q, b)
      /\ \A b \in DOMAIN q : ~IsFirst(q, b) => DOMAIN w[b] = {}
  OBVIOUS
<1> HIDE DEF w, c
<1>5. c \in Seq(Event) /\ Laid(c, w, Len(q))
  BY <1>2, <1>3, Flatten
<1>6. PICK R, C \in [DOMAIN c -> Nat] :
        /\ \A p \in DOMAIN c : /\ R[p] \in 1 .. Len(q) /\ C[p] \in DOMAIN w[R[p]]
                               /\ c[p] = w[R[p]][C[p]]
        /\ \A p, r \in DOMAIN c : p < r => R[p] < R[r] \/ (R[p] = R[r] /\ C[p] < C[r])
        /\ \A i \in 1 .. Len(q) : \A k \in DOMAIN w[i] : \E p \in DOMAIN c : R[p] = i /\ C[p] = k
  BY <1>5 DEF Laid
<1>7. \A a \in DOMAIN q : \E row, col \in [DOMAIN Absorbed(q, a) -> Nat] :
                            Gathered(Absorbed(q, a), q, a, row, col)
  BY AbsorbedGathers
<1> DEFINE r(a) == CHOOSE x \in [DOMAIN Absorbed(q, a) -> Nat] :
                     \E y \in [DOMAIN Absorbed(q, a) -> Nat] : Gathered(Absorbed(q, a), q, a, x, y)
           s(a) == CHOOSE y \in [DOMAIN Absorbed(q, a) -> Nat] :
                     Gathered(Absorbed(q, a), q, a, r(a), y)
<1>8. ASSUME NEW a \in DOMAIN q
      PROVE  /\ r(a) \in [DOMAIN Absorbed(q, a) -> Nat] /\ s(a) \in [DOMAIN Absorbed(q, a) -> Nat]
             /\ Gathered(Absorbed(q, a), q, a, r(a), s(a))
  <2>1. /\ r(a) \in [DOMAIN Absorbed(q, a) -> Nat]
        /\ \E y \in [DOMAIN Absorbed(q, a) -> Nat] : Gathered(Absorbed(q, a), q, a, r(a), y)
    BY <1>7, Zenon
  <2> HIDE DEF r
  <2> QED
    BY <2>1, Zenon
<1> HIDE DEF r, s
<1> DEFINE row == [p \in DOMAIN c |-> r(R[p])[C[p]]]
           col == [p \in DOMAIN c |-> s(R[p])[C[p]]]
<1>9. ASSUME NEW p \in DOMAIN c
      PROVE  /\ R[p] \in DOMAIN q /\ IsFirst(q, R[p]) /\ C[p] \in DOMAIN Absorbed(q, R[p])
             /\ c[p] = Absorbed(q, R[p])[C[p]]
             /\ Gathered(Absorbed(q, R[p]), q, R[p], r(R[p]), s(R[p]))
             /\ row[p] = r(R[p])[C[p]] /\ col[p] = s(R[p])[C[p]]
             /\ row[p] \in Nat /\ col[p] \in Nat
  <2>1. R[p] \in DOMAIN q /\ IsFirst(q, R[p])
    BY <1>1, <1>4, <1>6
  <2>2. w[R[p]] = Absorbed(q, R[p])
    BY <1>4, <2>1
  <2>3. C[p] \in DOMAIN Absorbed(q, R[p]) /\ c[p] = Absorbed(q, R[p])[C[p]]
    BY <1>6, <2>2
  <2>4. row[p] = r(R[p])[C[p]] /\ col[p] = s(R[p])[C[p]]
    OBVIOUS
  <2> HIDE DEF row, col
  <2> QED
    BY <1>8, <2>1, <2>3, <2>4
<1>10. row \in [DOMAIN c -> Nat] /\ col \in [DOMAIN c -> Nat]
  BY <1>9
<1> HIDE DEF row, col
<1>11. ASSUME NEW p \in DOMAIN c
       PROVE  /\ row[p] \in DOMAIN q /\ col[p] \in DOMAIN q[row[p]].events
              /\ c[p] = q[row[p]].events[col[p]]
              /\ Mate(q, R[p], row[p])
  BY <1>9 DEF Gathered, Mate
<1>12. ASSUME NEW p \in DOMAIN c, NEW z \in DOMAIN c, p < z, q[row[p]].name = q[row[z]].name
       PROVE  Earlier(row[p], col[p], row[z], col[z])
  <2>1. q[R[p]].name = q[R[z]].name
    BY <1>11, <1>12 DEF Mate
  <2>2. R[p] = R[z]
    BY <1>9, <2>1, FirstUnique
  <2>3. C[p] < C[z]
    <3>1. R[p] \in Nat /\ R[z] \in Nat
      OBVIOUS
    <3> QED
      BY <1>6, <1>12, <2>2, <3>1
  <2> QED
    BY <1>9, <2>2, <2>3 DEF Gathered
<1>13. ASSUME NEW a \in DOMAIN q, IsFirst(q, a), NEW b \in DOMAIN q, Mate(q, a, b),
              NEW k \in DOMAIN q[b].events
       PROVE  \E p \in DOMAIN c : row[p] = b /\ col[p] = k
  <2>1. PICK x \in DOMAIN Absorbed(q, a) : r(a)[x] = b /\ s(a)[x] = k
    BY <1>8, <1>13 DEF Gathered
  <2>2. PICK p \in DOMAIN c : R[p] = a /\ C[p] = x
    <3>1. x \in DOMAIN w[a] /\ a \in 1 .. Len(q)
      BY <1>1, <1>4, <1>13, <2>1
    <3> QED
      BY <1>6, <3>1
  <2> QED
    BY <1>9, <2>1, <2>2
<1>14. ASSUME NEW p \in DOMAIN c, NEW k \in DOMAIN q[row[p]].events
       PROVE  \E z \in DOMAIN c : row[z] = row[p] /\ col[z] = k
  <2>1. R[p] \in DOMAIN q /\ IsFirst(q, R[p])
    BY <1>9
  <2>2. row[p] \in DOMAIN q /\ Mate(q, R[p], row[p])
    BY <1>11
  <2> QED
    BY <1>13, <2>1, <2>2, ZenonT(60)
<1>15. ASSUME NEW a \in DOMAIN q, IsFirst(q, a), NEW k \in DOMAIN q[a].events
       PROVE  \E p \in DOMAIN c : row[p] = a /\ col[p] = k
  <2>1. Mate(q, a, a)
    BY <1>1 DEF Mate
  <2> QED
    BY <1>13, <1>15, <2>1
<1>16. Listed(c, q, row, col)
  BY <1>11, <1>12, <1>14, <1>15 DEF Listed
<1> QED
  BY <1>5, <1>10, <1>16 DEF c

(* One metric per name. *)
OneName(q) == \A a, b \in DOMAIN q : q[a].name = q[b].name => a = b

(* What the request holds: events of q, all of them when no two metrics    *)
(* have one name, none twice when q has none twice, and in order when q is *)
(* in order.                                                               *)
LEMMA ContentFacts ==
  ASSUME NEW q \in Seq(Item)
  PROVE  /\ Content(q) \in Seq(Event)
         /\ \A e : Has(Content(q), e) => \E n \in Name : In(q, n, e)
         /\ OneName(q) => \A n, e : In(q, n, e) => Has(Content(q), e)
         /\ Single(q) => Inj(Content(q))
<1> DEFINE c == Content(q)
<1> HIDE DEF c
<1>1. c \in Seq(Event) /\ \E row, col \in [DOMAIN c -> Nat] : Listed(c, q, row, col)
  BY ContentLists DEF c
<1>2. PICK row, col \in [DOMAIN c -> Nat] : Listed(c, q, row, col)
  BY <1>1
<1>3. \A p \in DOMAIN c : /\ row[p] \in DOMAIN q /\ col[p] \in DOMAIN q[row[p]].events
                          /\ c[p] = q[row[p]].events[col[p]]
  BY <1>2 DEF Listed
<1>4. ASSUME NEW e, Has(c, e)
      PROVE  \E n \in Name : In(q, n, e)
  <2>1. PICK p \in DOMAIN c : c[p] = e
    BY <1>4 DEF Has
  <2>2. q[row[p]].name \in Name /\ Holds(q[row[p]], e)
    BY <1>3, <2>1, ItemType DEF Holds, Has
  <2> QED
    BY <1>3, <2>2 DEF In
<1>5. ASSUME OneName(q), NEW n, NEW e, In(q, n, e)
      PROVE  Has(c, e)
  <2>1. PICK a \in DOMAIN q : Holds(q[a], e)
    BY <1>5 DEF In
  <2>2. IsFirst(q, a)
    <3>1. \A j \in 1 .. a - 1 : j \in DOMAIN q /\ j # a
      BY <2>1, ItemType
    <3> QED
      BY <1>5, <3>1 DEF IsFirst, OneName
  <2>3. PICK k \in DOMAIN q[a].events : q[a].events[k] = e
    BY <2>1 DEF Holds, Has
  <2>4. PICK p \in DOMAIN c : row[p] = a /\ col[p] = k
    BY <1>2, <2>2 DEF Listed
  <2> QED
    BY <1>3, <2>3, <2>4 DEF Has
<1>6. ASSUME Single(q), NEW p \in DOMAIN c, NEW r \in DOMAIN c, c[p] = c[r]
      PROVE  p = r
  <2>1. c[p] \in Event /\ Holds(q[row[p]], c[p]) /\ Holds(q[row[r]], c[p])
    <3>1. c[p] \in Event
      BY <1>1
    <3>2. /\ row[p] \in DOMAIN q /\ col[p] \in DOMAIN q[row[p]].events
          /\ q[row[p]].events[col[p]] = c[p]
          /\ row[r] \in DOMAIN q /\ col[r] \in DOMAIN q[row[r]].events
          /\ q[row[r]].events[col[r]] = c[p]
      BY <1>3, <1>6
    <3> QED
      BY <3>1, <3>2 DEF Holds, Has
  <2>2. row[p] = row[r]
    BY <1>3, <1>6, <2>1 DEF Single
  <2>3. col[p] = col[r]
    BY <1>3, <1>6, <2>2 DEF Single, Inj
  <2>4. p \in Nat /\ r \in Nat
    BY <1>1
  <2>5. ~(p < r)
    <3>1. p < r => Earlier(row[p], col[p], row[r], col[r])
      BY <1>2, <2>2 DEF Listed
    <3>2. row[p] \in Nat /\ col[p] \in Nat
      BY <1>2
    <3> QED
      BY <2>2, <2>3, <3>1, <3>2 DEF Earlier
  <2>6. ~(r < p)
    <3>1. r < p => Earlier(row[r], col[r], row[p], col[p])
      BY <1>2, <2>2 DEF Listed
    <3>2. row[p] \in Nat /\ col[p] \in Nat
      BY <1>2
    <3> QED
      BY <2>2, <2>3, <3>1, <3>2 DEF Earlier
  <2> QED
    BY <2>4, <2>5, <2>6
<1> QED
  BY <1>1, <1>4, <1>5, <1>6, Zenon DEF c, Inj

(* The places of a sequence in order. *)
LEMMA TidyPlaces ==
  ASSUME NEW q \in Seq(Item), Tidy(q), NEW a \in DOMAIN q, NEW b \in DOMAIN q,
         NEW i \in DOMAIN q[a].events, NEW j \in DOMAIN q[b].events,
         q[a].name = q[b].name, Earlier(a, i, b, j), q[b].events[j] < q[a].events[i]
  PROVE  \E k \in 1 .. i - 1 : q[a].events[k] = q[b].events[j]
<1>1. CASE a < b
  BY <1>1 DEF Tidy, SortedPair
<1>2. CASE a = b /\ i < j
  <2>1. Sorted(q[a].events)
    BY DEF Tidy
  <2> HIDE DEF Tidy
  <2> QED
    BY <1>2, <2>1 DEF Sorted
<1> QED
  BY <1>1, <1>2 DEF Earlier

(* Events of one name, in the request of a batch in order. *)
LEMMA ContentOrder ==
  ASSUME NEW q \in Seq(Item), Tidy(q), NEW name,
         \A a \in DOMAIN q : \A k \in DOMAIN q[a].events : name[q[a].events[k]] = q[a].name,
         NEW p \in DOMAIN Content(q), NEW r \in DOMAIN Content(q), p < r,
         name[Content(q)[p]] = name[Content(q)[r]], Content(q)[r] < Content(q)[p]
  PROVE  \E z \in 1 .. p - 1 : Content(q)[z] = Content(q)[r]
<1> DEFINE c == Content(q)
<1> HIDE DEF c
<1>1. c \in Seq(Event) /\ \E row, col \in [DOMAIN c -> Nat] : Listed(c, q, row, col)
  BY ContentLists DEF c
<1>2. PICK row, col \in [DOMAIN c -> Nat] : Listed(c, q, row, col)
  BY <1>1
<1>3. \A x \in DOMAIN c : /\ row[x] \in DOMAIN q /\ col[x] \in DOMAIN q[row[x]].events
                          /\ c[x] = q[row[x]].events[col[x]]
  BY <1>2 DEF Listed
<1>4. p \in DOMAIN c /\ r \in DOMAIN c /\ p \in Nat /\ name[c[p]] = name[c[r]] /\ c[r] < c[p]
  BY <1>1 DEF c
<1> DEFINE a == row[p]
           i == col[p]
           b == row[r]
           j == col[r]
<1>5. /\ a \in DOMAIN q /\ b \in DOMAIN q /\ i \in DOMAIN q[a].events /\ j \in DOMAIN q[b].events
      /\ c[p] = q[a].events[i] /\ c[r] = q[b].events[j]
  BY <1>3, <1>4
<1>6. q[a].name = q[b].name
  <2> HIDE DEF a, b, i, j
  <2> QED
    BY <1>4, <1>5
<1>7. Earlier(a, i, b, j)
  BY <1>2, <1>4, <1>6 DEF Listed
<1>8. PICK k \in 1 .. i - 1 : q[a].events[k] = q[b].events[j]
  <2> HIDE DEF a, b, i, j
  <2> QED
    BY <1>4, <1>5, <1>6, <1>7, TidyPlaces
<1>9. k \in DOMAIN q[a].events /\ k < i /\ i \in Nat
  <2> HIDE DEF a, i
  <2> DEFINE n == Len(q[a].events)
  <2>1. q[a] \in Item
    BY <1>5, ItemType
  <2>2. DOMAIN q[a].events = 1 .. n /\ n \in Nat
    BY <2>1, ItemType
  <2> HIDE DEF n
  <2>3. i \in 1 .. n
    BY <1>5, <2>2
  <2> QED
    BY <2>2, <2>3
<1>10. PICK z \in DOMAIN c : row[z] = a /\ col[z] = k
  BY <1>2, <1>4, <1>9 DEF Listed
<1>11. c[z] = c[r]
  BY <1>3, <1>5, <1>8, <1>10
<1>12. z < p
  <2>1. z \in Nat /\ z >= 1
    BY <1>1, SMTT(60)
  <2>2. ~(p < z)
    <3>1. p < z => Earlier(a, i, a, k)
      BY <1>2, <1>4, <1>10 DEF Listed
    <3>2. a \in Nat
      BY <1>4
    <3> HIDE DEF a, i
    <3> QED
      BY <1>9, <3>1, <3>2 DEF Earlier
  <2>3. z # p
    BY <1>9, <1>10
  <2> QED
    BY <1>4, <2>1, <2>2, <2>3
<1>13. z \in 1 .. p - 1
  <2>1. z \in Nat /\ z >= 1
    BY <1>1, SMTT(60)
  <2> QED
    BY <1>4, <1>12, <2>1
<1> QED
  BY <1>11, <1>13 DEF c

-----------------------------------------------------------------------------
(* r has the names and events of q. *)
Same(q, r) ==
  DOMAIN r = DOMAIN q /\ \A a \in DOMAIN q : r[a].name = q[a].name /\ r[a].events = q[a].events

(* Only kinds tell them apart. *)
LEMMA SameFacts ==
  ASSUME NEW q, NEW r, Same(q, r)
  PROVE  /\ \A n, e : In(r, n, e) <=> In(q, n, e)
         /\ Tidy(q) => Tidy(r)
         /\ Single(q) => Single(r)
         /\ OneName(q) => OneName(r)
<1>1. \A n, e : In(r, n, e) <=> In(q, n, e)
  BY DEF Same, In, Holds
<1>2. Tidy(q) => Tidy(r)
  BY DEF Same, Tidy
<1>3. Single(q) => Single(r)
  BY DEF Same, Single, Holds
<1>4. OneName(q) => OneName(r)
  BY DEF Same, OneName
<1> QED
  BY <1>1, <1>2, <1>3, <1>4

(* The kinds of the summaries. *)
Summary(K) == [n \in Name |-> IF K[n] = "gauge" THEN "histogram" ELSE K[n]]

(* Flush changes nothing but the kinds. *)
LEMMA FlushFacts ==
  ASSUME NEW q \in Seq(Item)
  PROVE  /\ Flush(q) \in Seq(Item)
         /\ Same(q, Flush(q))
         /\ Flush(q) = << >> <=> q = << >>
         /\ \A K : Kinded(q, K) => Kinded(Flush(q), Summary(K))
<1> DEFINE r == Flush(q)
<1>1. \A m \in Item : /\ Build(m) \in Item /\ Build(m).name = m.name /\ Build(m).events = m.events
                      /\ Build(m).kind = IF m.kind = "gauge" THEN "histogram" ELSE m.kind
  BY DEF Build, Item
<1>2. /\ DOMAIN r = DOMAIN q /\ \A a \in DOMAIN q : r[a] = Build(q[a])
      /\ r = [a \in DOMAIN q |-> r[a]]
  BY DEF Flush
<1>3. DOMAIN q = 1 .. Len(q) /\ Len(q) \in Nat /\ \A a \in DOMAIN q : q[a] \in Item
  OBVIOUS
<1> HIDE DEF r
<1>4. r \in Seq(Item) /\ Len(r) = Len(q)
  BY <1>1, <1>2, <1>3, IsASeq
<1>5. Same(q, r)
  BY <1>1, <1>2, <1>3 DEF Same
<1>6. r = << >> <=> q = << >>
  BY <1>4, EmptySeq
<1>7. ASSUME NEW K, Kinded(q, K)
      PROVE  Kinded(r, Summary(K))
  <2>1. \A a \in DOMAIN q : q[a].name \in Name
    BY ItemType
  <2> QED
    BY <1>1, <1>2, <1>3, <1>7, <2>1 DEF Kinded, Summary
<1> QED
  BY <1>4, <1>5, <1>6, <1>7 DEF r

(* Batches one behind the other. *)
LEMMA JoinFacts ==
  ASSUME NEW p \in Seq(Item), NEW q \in Seq(Item)
  PROVE  /\ p \o q \in Seq(Item)
         /\ \A n, e : In(p \o q, n, e) <=> In(p, n, e) \/ In(q, n, e)
         /\ OneName(p) /\ Tidy(p) /\ Tidy(q) /\ Precedes(p, q) => Tidy(p \o q)
         /\ Single(p) /\ Single(q) /\ (\A n, o, e : In(p, n, e) => ~In(q, o, e)) => Single(p \o q)
<1> DEFINE w == p \o q
<1>1. /\ w \in Seq(Item)
      /\ \A k \in DOMAIN p : k \in DOMAIN w /\ w[k] = p[k]
      /\ \A k \in DOMAIN q : Len(p) + k \in DOMAIN w /\ w[Len(p) + k] = q[k]
      /\ \A k \in DOMAIN w :
           k \in DOMAIN p \/ (k - Len(p) \in DOMAIN q /\ k = Len(p) + (k - Len(p)))
  BY Concat
<1>2. /\ DOMAIN p = 1 .. Len(p) /\ Len(p) \in Nat /\ DOMAIN q = 1 .. Len(q) /\ Len(q) \in Nat
      /\ DOMAIN w \subseteq Nat
  BY ItemType
<1> HIDE DEF w
<1>3. \A k \in DOMAIN w : \/ k \in DOMAIN p /\ w[k] = p[k]
                          \/ k \notin DOMAIN p /\ k - Len(p) \in DOMAIN q /\ w[k] = q[k - Len(p)]
  <2> TAKE k \in DOMAIN w
  <2>1. CASE k \in DOMAIN p
    BY <1>1, <2>1
  <2>2. CASE k \notin DOMAIN p
    BY <1>1, <2>2
  <2> QED
    BY <2>1, <2>2
<1>4. ASSUME NEW n, NEW e
      PROVE  In(w, n, e) <=> In(p, n, e) \/ In(q, n, e)
  <2>1. In(w, n, e) => In(p, n, e) \/ In(q, n, e)
    BY <1>3 DEF In
  <2>2. In(p, n, e) => In(w, n, e)
    BY <1>1 DEF In
  <2>3. ASSUME In(q, n, e) PROVE In(w, n, e)
    <3>1. PICK k \in DOMAIN q : q[k].name = n /\ Holds(q[k], e)
      BY <2>3 DEF In
    <3>2. Len(p) + k \in DOMAIN w /\ w[Len(p) + k] = q[k]
      BY <1>1
    <3> QED
      BY <3>1, <3>2 DEF In
  <2> QED
    BY <2>1, <2>2, <2>3
<1>5. ASSUME OneName(p), Tidy(p), Tidy(q), Precedes(p, q)
      PROVE  Tidy(w)
  <2>1. \A a \in DOMAIN w : Sorted(w[a].events)
    BY <1>3, <1>5 DEF Tidy
  <2>2. ASSUME NEW a \in DOMAIN w, NEW b \in DOMAIN w, a < b, w[a].name = w[b].name
        PROVE  SortedPair(w[a].events, w[b].events)
    <3>1. CASE a \in DOMAIN p /\ b \in DOMAIN p
      <4>1. w[a] = p[a] /\ w[b] = p[b]
        BY <1>3, <3>1
      <4> QED
        BY <1>5, <2>2, <3>1, <4>1 DEF Tidy
    <3>2. CASE a \notin DOMAIN p /\ b \notin DOMAIN p
      <4>1. /\ a - Len(p) \in DOMAIN q /\ w[a] = q[a - Len(p)]
            /\ b - Len(p) \in DOMAIN q /\ w[b] = q[b - Len(p)]
        BY <1>3, <3>2
      <4>2. a - Len(p) < b - Len(p)
        BY <1>2, <2>2
      <4> QED
        BY <1>5, <2>2, <4>1, <4>2 DEF Tidy
    <3>3. CASE a \in DOMAIN p /\ b \notin DOMAIN p
      <4> DEFINE d == b - Len(p)
                 u == p[a].events
                 v == q[d].events
      <4>1. w[a] = p[a] /\ d \in DOMAIN q /\ w[b] = q[d]
        BY <1>3, <3>3
      <4> HIDE DEF d
      <4>2. u \in Seq(Event) /\ v \in Seq(Event) /\ p[a].name \in Name /\ q[d].name = p[a].name
        BY <2>2, <3>3, <4>1, ItemType
      <4>3. Sorted(u)
        BY <1>5, <3>3 DEF Tidy
      <4>4. ASSUME NEW x \in Event, NEW y \in Event, Has(u, x), Has(v, y), y < x
            PROVE  Has(u, y)
        <5>1. In(p, p[a].name, x) /\ In(q, p[a].name, y)
          BY <3>3, <4>1, <4>2, <4>4 DEF In, Holds
        <5>2. In(p, p[a].name, y)
          BY <1>5, <4>2, <4>4, <5>1 DEF Precedes
        <5>3. PICK z \in DOMAIN p : p[z].name = p[a].name /\ Holds(p[z], y)
          BY <5>2 DEF In
        <5>4. z = a
          BY <1>5, <3>3, <5>3 DEF OneName
        <5> QED
          BY <5>3, <5>4 DEF Holds
      <4> HIDE DEF u, v
      <4>5. SortedPair(u, v)
        BY <4>2, <4>3, <4>4, PairSorted
      <4> QED
        BY <4>1, <4>5 DEF u, v
    <3>4. ~(a \notin DOMAIN p /\ b \in DOMAIN p)
      <4>1. a \in Nat /\ b \in Nat
        BY <1>2
      <4>2. a \notin DOMAIN p => a > Len(p)
        BY <1>1, <1>2
      <4> QED
        BY <1>2, <2>2, <4>1, <4>2
    <3> QED
      BY <3>1, <3>2, <3>3, <3>4
  <2> QED
    BY <2>1, <2>2 DEF Tidy
<1>6. ASSUME Single(p), Single(q), \A n, o, e : In(p, n, e) => ~In(q, o, e)
      PROVE  Single(w)
  <2>1. \A a \in DOMAIN w : Inj(w[a].events)
    BY <1>3, <1>6 DEF Single
  <2>2. ASSUME NEW a \in DOMAIN p, NEW b \in DOMAIN q, NEW e, Holds(p[a], e), Holds(q[b], e)
        PROVE  FALSE
    <3>1. In(p, p[a].name, e) /\ In(q, q[b].name, e)
      BY <2>2 DEF In
    <3> QED
      BY <1>6, <3>1
  <2>3. ASSUME NEW a \in DOMAIN w, NEW b \in DOMAIN w, NEW e \in Event, Holds(w[a], e), Holds(w[b], e)
        PROVE  a = b
    <3>1. CASE a \in DOMAIN p /\ b \in DOMAIN p
      <4>1. w[a] = p[a] /\ w[b] = p[b]
        BY <1>3, <3>1
      <4> QED
        BY <1>6, <2>3, <3>1, <4>1 DEF Single
    <3>2. CASE a \notin DOMAIN p /\ b \notin DOMAIN p
      <4>1. /\ a - Len(p) \in DOMAIN q /\ w[a] = q[a - Len(p)]
            /\ b - Len(p) \in DOMAIN q /\ w[b] = q[b - Len(p)]
        BY <1>3, <3>2
      <4>2. a - Len(p) = b - Len(p)
        BY <1>6, <2>3, <4>1 DEF Single
      <4> QED
        BY <1>2, <4>2
    <3>3. CASE a \in DOMAIN p /\ b \notin DOMAIN p
      <4>1. w[a] = p[a] /\ b - Len(p) \in DOMAIN q /\ w[b] = q[b - Len(p)]
        BY <1>3, <3>3
      <4> QED
        BY <2>2, <2>3, <3>3, <4>1
    <3>4. CASE a \notin DOMAIN p /\ b \in DOMAIN p
      <4>1. w[b] = p[b] /\ a - Len(p) \in DOMAIN q /\ w[a] = q[a - Len(p)]
        BY <1>3, <3>4
      <4> QED
        BY <2>2, <2>3, <3>4, <4>1
    <3> QED
      BY <3>1, <3>2, <3>3, <3>4
  <2> QED
    BY <2>1, <2>3 DEF Single
<1> QED
  BY <1>1, <1>4, <1>5, <1>6 DEF w

(* The end of a batch. *)
LEMMA SuffixFacts ==
  ASSUME NEW q \in Seq(Item), NEW d \in 0 .. Len(q)
  PROVE  LET r == SubSeq(q, d + 1, Len(q))
         IN /\ r \in Seq(Item) /\ Len(r) = Len(q) - d
            /\ \A a \in DOMAIN r : d + a \in DOMAIN q /\ r[a] = q[d + a]
            /\ \A n, e : In(r, n, e) => In(q, n, e)
            /\ Tidy(q) => Tidy(r)
            /\ Single(q) => Single(r)
            /\ \A K : Kinded(q, K) => Kinded(r, K)
<1> DEFINE r == SubSeq(q, d + 1, Len(q))
<1>1. /\ r \in Seq(Item) /\ Len(r) = Len(q) - d /\ DOMAIN r \subseteq Nat
      /\ \A a \in DOMAIN r : d + a \in DOMAIN q /\ r[a] = q[d + a]
  BY SMTT(60)
<1> HIDE DEF r
<1>2. \A n, e : In(r, n, e) => In(q, n, e)
  BY <1>1 DEF In
<1>3. ASSUME Tidy(q)
      PROVE  Tidy(r)
  <2>1. \A a \in DOMAIN r : Sorted(r[a].events)
    BY <1>1, <1>3 DEF Tidy
  <2>2. ASSUME NEW a \in DOMAIN r, NEW b \in DOMAIN r, a < b, r[a].name = r[b].name
        PROVE  SortedPair(r[a].events, r[b].events)
    <3>1. d + a < d + b
      BY <1>1, <2>2
    <3> QED
      BY <1>1, <1>3, <2>2, <3>1 DEF Tidy
  <2> QED
    BY <2>1, <2>2 DEF Tidy
<1>4. ASSUME Single(q)
      PROVE  Single(r)
  <2>1. \A a \in DOMAIN r : Inj(r[a].events)
    BY <1>1, <1>4 DEF Single
  <2>2. ASSUME NEW a \in DOMAIN r, NEW b \in DOMAIN r, NEW e \in Event, Holds(r[a], e), Holds(r[b], e)
        PROVE  a = b
    <3>1. d + a = d + b
      BY <1>1, <1>4, <2>2 DEF Single
    <3> QED
      BY <1>1, <3>1
  <2> QED
    BY <2>1, <2>2 DEF Single
<1>5. \A K : Kinded(q, K) => Kinded(r, K)
  BY <1>1 DEF Kinded
<1> QED
  BY <1>1, <1>2, <1>3, <1>4, <1>5 DEF r

(* EventsOf forgets the names. *)
LEMMA EventsIn ==
  ASSUME NEW q \in Seq(Item)
  PROVE  /\ \A e : e \in EventsOf(q) <=> \E n \in Name : In(q, n, e)
         /\ EventsOf(q) \subseteq Event
         /\ \A n, e : In(q, n, e) => n \in Name /\ e \in Event
<1>1. \A a \in DOMAIN q : /\ q[a].name \in Name
                          /\ \A e : e \in ToSet(q[a].events) <=> Holds(q[a], e)
                          /\ \A e : Holds(q[a], e) => e \in Event
  <2> TAKE a \in DOMAIN q
  <2>1. q[a].name \in Name /\ \A k \in DOMAIN q[a].events : q[a].events[k] \in Event
    BY ItemType
  <2> QED
    BY <2>1 DEF ToSet, Holds, Has
<1>2. \A e : e \in EventsOf(q) <=> \E a \in DOMAIN q : Holds(q[a], e)
  <2>1. \A e : e \in EventsOf(q) <=> \E a \in DOMAIN q : e \in ToSet(q[a].events)
    BY DEF EventsOf
  <2> QED
    BY <1>1, <2>1
<1>3. \A n, e : In(q, n, e) => n \in Name /\ e \in Event
  BY <1>1 DEF In
<1>4. \A e : e \in EventsOf(q) <=> \E n \in Name : In(q, n, e)
  BY <1>1, <1>2 DEF In
<1> QED
  BY <1>3, <1>4

(* What the batcher keeps and drops. *)
LEMMA NewestFacts ==
  ASSUME NEW q \in Seq(Item)
  PROVE  /\ Newest(q) \in Seq(Item) /\ Len(Newest(q)) <= MaxPending
         /\ \A n, e : In(Newest(q), n, e) => In(q, n, e)
         /\ \A n, e : In(q, n, e) => e \in EventsOf(Newest(q)) \/ e \in Overflow(q)
         /\ Overflow(q) \subseteq EventsOf(q)
         /\ Tidy(q) => Tidy(Newest(q))
         /\ Single(q) => Single(Newest(q))
         /\ \A K : Kinded(q, K) => Kinded(Newest(q), K)
         /\ q # << >> => Newest(q) # << >>
<1>0. MaxPending \in Nat \ {0}
  BY PipelineAssumption
<1>1. PICK d \in 0 .. Len(q) : /\ Newest(q) = SubSeq(q, d + 1, Len(q))
                               /\ Len(q) - d <= MaxPending
                               /\ d # 0 => Len(q) - d = MaxPending
  <2>1. CASE Len(q) > MaxPending
    <3> DEFINE d == Len(q) - MaxPending
    <3>1. d \in 0 .. Len(q) /\ Len(q) - d = MaxPending /\ Len(q) - MaxPending + 1 = d + 1
      BY <1>0, <2>1
    <3>2. Newest(q) = SubSeq(q, Len(q) - MaxPending + 1, Len(q))
      BY <2>1 DEF Newest
    <3>3. Newest(q) = SubSeq(q, d + 1, Len(q)) /\ Len(q) - d <= MaxPending
      BY <1>0, <3>1, <3>2
    <3> HIDE DEF d
    <3> QED
      BY <3>1, <3>3
  <2>2. CASE ~(Len(q) > MaxPending)
    <3>1. Newest(q) = SubSeq(q, 0 + 1, Len(q)) /\ 0 \in 0 .. Len(q) /\ Len(q) - 0 <= MaxPending
      BY <1>0, <2>2, SubSeqFull DEF Newest
    <3> QED
      BY <3>1
  <2> QED
    BY <2>1, <2>2
<1>2. /\ Newest(q) \in Seq(Item) /\ Len(Newest(q)) = Len(q) - d
      /\ \A n, e : In(Newest(q), n, e) => In(q, n, e)
      /\ Tidy(q) => Tidy(Newest(q))
      /\ Single(q) => Single(Newest(q))
      /\ \A K : Kinded(q, K) => Kinded(Newest(q), K)
      /\ \A a \in DOMAIN Newest(q) : d + a \in DOMAIN q /\ Newest(q)[a] = q[d + a]
  BY <1>1, SuffixFacts
<1>3. q # << >> => Newest(q) # << >>
  <2>1. q # << >> => Len(q) # 0
    BY EmptySeq
  <2>2. Newest(q) = << >> => Len(Newest(q)) = 0
    OBVIOUS
  <2> QED
    BY <1>0, <1>1, <1>2, <2>1, <2>2
<1> DEFINE o == SubSeq(q, 1, d)
<1>4. /\ o \in Seq(Item) /\ Len(o) = d /\ \A a \in 1 .. d : a \in DOMAIN q /\ o[a] = q[a]
      /\ DOMAIN o = 1 .. d
  OBVIOUS
<1>5. Overflow(q) = EventsOf(o) \ EventsOf(Newest(q))
  BY <1>2 DEF Overflow
<1> HIDE DEF o
<1>6. \A n, e : In(o, n, e) => In(q, n, e)
  BY <1>4 DEF In
<1>7. EventsOf(o) \subseteq EventsOf(q)
  BY <1>4, <1>6, EventsIn
<1>8. ASSUME NEW n, NEW e, In(q, n, e)
      PROVE  e \in EventsOf(Newest(q)) \/ e \in EventsOf(o)
  <2>1. PICK a \in DOMAIN q : q[a].name = n /\ Holds(q[a], e)
    BY <1>8 DEF In
  <2>2. CASE a \in 1 .. d
    <3>1. In(o, n, e)
      BY <1>4, <2>1, <2>2 DEF In
    <3> QED
      BY <1>4, <3>1, EventsIn
  <2>3. CASE a \notin 1 .. d
    <3>1. a - d \in DOMAIN Newest(q) /\ d + (a - d) = a
      BY <1>2, <2>3
    <3>2. Newest(q)[a - d] = q[a]
      BY <1>2, <3>1
    <3>3. In(Newest(q), n, e)
      BY <2>1, <3>1, <3>2 DEF In
    <3> QED
      BY <1>2, <3>3, EventsIn
  <2> QED
    BY <2>2, <2>3
<1> QED
  BY <1>1, <1>2, <1>3, <1>5, <1>7, <1>8

(* A metric that gathers others of a batch in order is itself in order. *)
LEMMA GatheredSorted ==
  ASSUME NEW q \in Seq(Item), NEW a \in DOMAIN q, NEW d \in Nat, d < a,
         Tidy(SubSeq(q, d + 1, Len(q)))
  PROVE  Sorted(Absorbed(q, a))
<1> DEFINE v == Absorbed(q, a)
           r == SubSeq(q, d + 1, Len(q))
<1> HIDE DEF v
<1>0. a \in Nat /\ a <= Len(q) /\ d \in 0 .. Len(q)
  BY ItemType
<1>1. v \in Seq(Event) /\ \E row, col \in [DOMAIN v -> Nat] : Gathered(v, q, a, row, col)
  BY AbsorbedGathers DEF v
<1>2. PICK row, col \in [DOMAIN v -> Nat] : Gathered(v, q, a, row, col)
  BY <1>1
<1>3. r \in Seq(Item) /\ DOMAIN r = 1 .. Len(q) - d /\ \A b \in DOMAIN r : r[b] = q[d + b]
  BY <1>0
<1> HIDE DEF r
<1>4. SUFFICES ASSUME NEW i \in DOMAIN v, NEW j \in DOMAIN v, i < j, v[j] < v[i]
               PROVE  \E z \in 1 .. i - 1 : v[z] = v[j]
  BY DEF Sorted, v
<1> DEFINE b == row[i]
           k == col[i]
           c == row[j]
           l == col[j]
<1>5. /\ Mate(q, a, b) /\ k \in DOMAIN q[b].events /\ v[i] = q[b].events[k]
      /\ Mate(q, a, c) /\ l \in DOMAIN q[c].events /\ v[j] = q[c].events[l]
      /\ Earlier(b, k, c, l)
  BY <1>2, <1>4 DEF Gathered
<1> HIDE DEF b, k, c, l
<1>6. b \in DOMAIN q /\ c \in DOMAIN q /\ b >= a /\ c >= a /\ q[b].name = q[c].name
  BY <1>5 DEF Mate
<1>7. /\ b - d \in DOMAIN r /\ c - d \in DOMAIN r /\ d + (b - d) = b /\ d + (c - d) = c
      /\ Earlier(b - d, k, c - d, l)
  <2>1. b \in Nat /\ c \in Nat /\ b <= Len(q) /\ c <= Len(q) /\ Len(q) \in Nat
    BY <1>6, ItemType, SMTT(60)
  <2>2. b - d \in 1 .. Len(q) - d /\ c - d \in 1 .. Len(q) - d /\ d + (b - d) = b /\ d + (c - d) = c
    BY <1>0, <1>6, <2>1, SMTT(60)
  <2>3. /\ b < c => b - d < c - d
        /\ b = c => b - d = c - d
    BY <2>1
  <2>4. Earlier(b - d, k, c - d, l)
    BY <1>5, <2>3, Zenon DEF Earlier
  <2> QED
    BY <1>3, <2>2, <2>4
<1>8. r[b - d] = q[b] /\ r[c - d] = q[c]
  BY <1>3, <1>7
<1>9. PICK h \in 1 .. k - 1 : q[b].events[h] = v[j]
  <2>1. Tidy(r)
    BY DEF r
  <2>2. /\ k \in DOMAIN r[b - d].events /\ l \in DOMAIN r[c - d].events
        /\ r[b - d].name = r[c - d].name /\ r[c - d].events[l] < r[b - d].events[k]
    BY <1>4, <1>5, <1>6, <1>8
  <2>3. \E h \in 1 .. k - 1 : r[b - d].events[h] = r[c - d].events[l]
    BY <1>3, <1>7, <2>1, <2>2, TidyPlaces
  <2> QED
    BY <1>5, <1>8, <2>3
<1>10. h \in DOMAIN q[b].events /\ h < k /\ k \in Nat
  <2>1. q[b] \in Item
    BY <1>6, ItemType
  <2>2. DOMAIN q[b].events = 1 .. Len(q[b].events) /\ Len(q[b].events) \in Nat
    BY <2>1, ItemType
  <2>3. k \in 1 .. Len(q[b].events) /\ h \in 1 .. k - 1
    BY <1>5, <2>2
  <2> DEFINE n == Len(q[b].events)
  <2> HIDE DEF b, n
  <2>4. n \in Nat /\ k \in 1 .. n
    BY <2>2, <2>3 DEF n
  <2>5. h \in 1 .. n /\ h < k /\ k \in Nat
    BY <2>3, <2>4
  <2> QED
    BY <2>2, <2>5 DEF n
<1>11. PICK z \in DOMAIN v : row[z] = b /\ col[z] = h
  BY <1>2, <1>5, <1>6, <1>10 DEF Gathered
<1>12. v[z] = v[j]
  <2>1. v[z] = q[row[z]].events[col[z]]
    BY <1>2, <1>11 DEF Gathered
  <2> QED
    BY <1>9, <1>11, <2>1
<1>13. z \in Nat /\ z >= 1 /\ i \in Nat
  <2>1. v \in Seq(Event)
    BY <1>1
  <2>2. DOMAIN v = 1 .. Len(v) /\ Len(v) \in Nat
    BY <2>1
  <2> QED
    BY <2>2, SMTT(60)
<1>14. ~(i < z)
  <2>1. i < z => Earlier(b, k, b, h)
    BY <1>2, <1>11 DEF Gathered, b, k
  <2>2. DOMAIN q = 1 .. Len(q) /\ Len(q) \in Nat
    BY ItemType
  <2>3. b \in Nat
    BY <1>6, <2>2
  <2>4. h \in Nat /\ ~(k < h) /\ ~(b < b)
    BY <1>10, <2>3
  <2> QED
    BY <2>1, <2>4, Zenon DEF Earlier
<1>15. z # i
  BY <1>10, <1>11 DEF k
<1>16. z \in 1 .. i - 1
  BY <1>13, <1>14, <1>15
<1> QED
  BY <1>12, <1>16

(* What is requeued of batch q behind the rest p of the window, after      *)
(* merging: events of q under their names, in order if q is.               *)
Again(p, q) == SubSeq(Merged(p \o q), Len(p \o q) - Len(q) + 1, Len(p \o q))

(* What batcher.requeue puts back after a failed store holds nothing that was *)
(* not in the batch, in its kinds and with one item per name and kind.     *)
LEMMA AgainFacts ==
  ASSUME NEW p \in Seq(Item), NEW q \in Seq(Item)
  PROVE  /\ Again(p, q) \in Seq(Item)
         /\ \A n, e : In(Again(p, q), n, e) => In(q, n, e)
         /\ \A K : Kinded(q, K) => Kinded(Again(p, q), K)
         /\ \A K : Kinded(q, K) /\ Tidy(q) => Tidy(Again(p, q))
<1> DEFINE w == p \o q
           d == Len(p)
           m == Merged(w)
           r == Again(p, q)
<1>1. /\ w \in Seq(Item) /\ DOMAIN w = 1 .. Len(w) /\ Len(w) = d + Len(q) /\ d \in Nat /\ Len(q) \in Nat
      /\ DOMAIN q = 1 .. Len(q)
      /\ \A a \in DOMAIN q : d + a \in DOMAIN w /\ w[d + a] = q[a]
      /\ q = SubSeq(w, d + 1, Len(w))
  BY SubSeqOfConcat2, SubSeqFull, ConcatProperties
<1> HIDE DEF w
<1>2. ASSUME NEW a \in DOMAIN w
      PROVE  /\ m[a] \in Item /\ m[a].name = w[a].name /\ m[a].kind = w[a].kind
             /\ IsFirst(w, a) => m[a].events = Absorbed(w, a)
             /\ ~IsFirst(w, a) => m[a] = w[a]
  <2>1. w[a] \in Item /\ Absorbed(w, a) \in Seq(Event)
    BY <1>1, AbsorbedGathers, ItemType
  <2>2. m[a] = IF IsFirst(w, a) THEN [w[a] EXCEPT !.events = Absorbed(w, a)] ELSE w[a]
    BY DEF Merged
  <2> HIDE DEF m
  <2> QED
    BY <2>1, <2>2 DEF Item
<1>3. m \in Seq(Item) /\ Len(m) = Len(w) /\ DOMAIN m = DOMAIN w
  <2>1. m = [a \in 1 .. Len(w) |-> m[a]] /\ DOMAIN m = DOMAIN w
    BY <1>1 DEF Merged
  <2> HIDE DEF m
  <2>2. \A a \in 1 .. Len(w) : m[a] \in Item
    BY <1>1, <1>2
  <2>3. Len(w) \in Nat
    BY <1>1
  <2>4. m \in Seq(Item) 
    BY <2>1, <2>2, <2>3, IsASeq
  <2>5. Len(m) = Len(w)
    BY <1>1, <2>1, <2>3, <2>4
  <2> QED
    BY <2>1, <2>4, <2>5
<1> HIDE DEF m
<1>4. r = SubSeq(m, d + 1, Len(w))
  <2>1. Len(w) - Len(q) + 1 = d + 1
    BY <1>1
  <2> QED
    BY <2>1 DEF Again, m, w
<1> HIDE DEF r
<1>5. /\ r \in Seq(Item) /\ DOMAIN r = DOMAIN q
      /\ \A a \in DOMAIN r : r[a] = m[d + a] /\ d + a \in DOMAIN w /\ d < d + a
  BY <1>1, <1>3, <1>4, SMTT(60)
<1>6. ASSUME NEW a \in DOMAIN q
      PROVE  /\ r[a].name = q[a].name /\ r[a].kind = q[a].kind
             /\ IsFirst(w, d + a) => r[a].events = Absorbed(w, d + a)
             /\ ~IsFirst(w, d + a) => r[a] = q[a]
  <2>1. a \in DOMAIN r /\ r[a] = m[d + a] /\ d + a \in DOMAIN w
    BY <1>5
  <2>2. w[d + a] = q[a]
    BY <1>1, <2>1
  <2> QED
    BY <1>2, <2>1, <2>2, Zenon
<1>7. ASSUME NEW a \in DOMAIN q, NEW e, Holds(r[a], e)
      PROVE  In(q, q[a].name, e)
  <2>1. CASE ~IsFirst(w, d + a)
    BY <1>6, <1>7, <2>1 DEF In
  <2>2. CASE IsFirst(w, d + a)
    <3> DEFINE v == Absorbed(w, d + a)
    <3>1. r[a].events = v
      BY <1>6, <2>2
    <3>2. \E row, col \in [DOMAIN v -> Nat] : Gathered(v, w, d + a, row, col)
      BY <1>1, AbsorbedGathers
    <3> HIDE DEF v
    <3>3. PICK i \in DOMAIN v : v[i] = e
      BY <1>7, <3>1 DEF Holds, Has
    <3>0. PICK row, col \in [DOMAIN v -> Nat] : Gathered(v, w, d + a, row, col)
      BY <3>2
    <3> DEFINE b == row[i]
               k == col[i]
    <3>4. Mate(w, d + a, b) /\ k \in DOMAIN w[b].events /\ w[b].events[k] = e
      BY <3>0, <3>3 DEF Gathered
    <3> HIDE DEF b, k
    <3>5. b - d \in DOMAIN q /\ d + (b - d) = b
      BY <1>1, <3>4 DEF Mate
    <3>6. w[b] = q[b - d] /\ w[d + a] = q[a]
      BY <1>1, <3>5
    <3> QED
      BY <3>4, <3>5, <3>6 DEF In, Holds, Has, Mate
  <2> QED
    BY <2>1, <2>2
<1>8. ASSUME NEW n, NEW e, In(r, n, e)
      PROVE  In(q, n, e)
  <2>1. PICK a \in DOMAIN r : r[a].name = n /\ Holds(r[a], e)
    BY <1>8 DEF In
  <2>2. a \in DOMAIN q /\ q[a].name = n
    BY <1>5, <1>6, <2>1
  <2> QED
    BY <1>7, <2>1, <2>2
<1>9. \A K : Kinded(q, K) => Kinded(r, K)
  BY <1>5, <1>6 DEF Kinded
<1>10. ASSUME NEW K, Kinded(q, K), Tidy(q)
       PROVE  Tidy(r)
  <2>1. ASSUME NEW a \in DOMAIN r
        PROVE  Sorted(r[a].events)
    <3>1. CASE ~IsFirst(w, d + a)
      BY <1>5, <1>6, <1>10, <3>1 DEF Tidy
    <3>2. CASE IsFirst(w, d + a)
      <4>1. Sorted(Absorbed(w, d + a))
        BY <1>1, <1>5, <1>10, GatheredSorted
      <4> QED
        BY <1>5, <1>6, <3>2, <4>1
    <3> QED
      BY <3>1, <3>2
  <2>2. ASSUME NEW a \in DOMAIN r, NEW b \in DOMAIN r, a < b, r[a].name = r[b].name
        PROVE  SortedPair(r[a].events, r[b].events)
    <3>1. /\ a \in DOMAIN q /\ b \in DOMAIN q /\ q[a].name = q[b].name /\ q[a].kind = q[b].kind
          /\ w[d + a] = q[a] /\ w[d + b] = q[b] /\ d + a \in DOMAIN w /\ d + b \in DOMAIN w
          /\ d + a \in 1 .. (d + b) - 1
      <4>1. a \in DOMAIN q /\ b \in DOMAIN q
        BY <1>5, <2>2
      <4>2. q[a].name = q[b].name
        BY <1>6, <2>2, <4>1
      <4>3. q[a].kind = q[b].kind
        BY <1>10, <4>1, <4>2 DEF Kinded
      <4>4. a \in Nat /\ b \in Nat /\ a >= 1
        BY <1>1, <4>1
      <4>5. d + a \in 1 .. (d + b) - 1
        BY <1>1, <2>2, <4>4
      <4> QED
        BY <1>1, <4>1, <4>2, <4>3, <4>5
    <3>2. r[b] = q[b]
      <4>1. ~IsFirst(w, d + b)
        BY <3>1 DEF IsFirst
      <4> QED
        BY <1>6, <3>1, <4>1
    <3>3. CASE ~IsFirst(w, d + a)
      BY <1>6, <1>10, <2>2, <3>1, <3>2, <3>3 DEF Tidy
    <3>4. CASE IsFirst(w, d + a)
      <4> DEFINE u == Absorbed(w, d + a)
                 v == q[b].events
      <4>1. r[a].events = u /\ Sorted(u) /\ u \in Seq(Event) /\ v \in Seq(Event)
        BY <1>1, <1>6, <2>1, <3>1, <3>4, AbsorbedGathers, ItemType
      <4>2. \E row, col \in [DOMAIN u -> Nat] : Gathered(u, w, d + a, row, col)
        BY <1>1, <3>1, AbsorbedGathers
      <4>3. Mate(w, d + a, d + b)
        BY <1>1, <3>1, SMTT(60) DEF Mate
      <4> HIDE DEF u
      <4>4. ASSUME NEW y, Has(v, y)
            PROVE  Has(u, y)
        <5>1. PICK k \in DOMAIN w[d + b].events : w[d + b].events[k] = y
          BY <3>1, <4>4 DEF Has
        <5>2. PICK row, col \in [DOMAIN u -> Nat] : Gathered(u, w, d + a, row, col)
          BY <4>2
        <5>3. PICK z \in DOMAIN u : row[z] = d + b /\ col[z] = k
          BY <3>1, <4>3, <5>2 DEF Gathered
        <5>4. u[z] = y
          BY <5>1, <5>2, <5>3 DEF Gathered
        <5> QED
          BY <5>4 DEF Has
      <4> HIDE DEF v
      <4>5. SortedPair(u, v)
        BY <4>1, <4>4, PairSorted
      <4> QED
        BY <3>2, <4>1, <4>5 DEF v
    <3> QED
      BY <3>3, <3>4
  <2> QED
    BY <2>1, <2>2 DEF Tidy
<1> QED
  BY <1>5, <1>8, <1>9, <1>10 DEF r

-----------------------------------------------------------------------------
(* The empty batch. *)
LEMMA EmptyFacts ==
  /\ << >> \in Seq(Item) /\ << >> \in Serieses
  /\ \A n, e : ~In(<< >>, n, e)
  /\ Tidy(<< >>) /\ Single(<< >>) /\ OneName(<< >>)
  /\ \A K : Kinded(<< >>, K)
  /\ \A q : Precedes(<< >>, q) /\ Precedes(q, << >>)
  /\ \A q \in Seq(Item) : << >> \o q = q /\ q \o << >> = q
<1>1. << >> \in Seq(Item) /\ DOMAIN << >> = {}
  OBVIOUS
<1>2. \A n, e : ~In(<< >>, n, e)
  BY <1>1 DEF In
<1>3. Tidy(<< >>) /\ Single(<< >>) /\ OneName(<< >>) /\ (\A K : Kinded(<< >>, K)) /\ Keyed(<< >>)
  BY <1>1 DEF Tidy, Single, OneName, Kinded, Keyed
<1>4. \A q : Precedes(<< >>, q) /\ Precedes(q, << >>)
  BY <1>2 DEF Precedes
<1>5. \A q \in Seq(Item) : << >> \o q = q /\ q \o << >> = q
  OBVIOUS
<1> QED
  BY <1>1, <1>2, <1>3, <1>4, <1>5 DEF Serieses

(* What sampling.Process makes of the window and a batch: what it hands on *)
(* and what is left in the window.                                         *)
Outcome(thru, series, items, out, left) ==
  \/ thru /\ out = Flush(series) \o items /\ left = << >>
  \/ ~thru /\ out = Flush(AddAll(series, items)) /\ left = << >>
  \/ ~thru /\ out = << >> /\ left = AddAll(series, items)
  \/ ~thru /\ out = Flush(series) \o Flush(AddAll(<< >>, items)) /\ left = << >>
  \/ ~thru /\ out = Flush(series) /\ left = AddAll(<< >>, items)

Windows == {"none", "summary", "degraded"}

(* Sampling.Process, over every mode and window, passes the batch through or *)
(* puts it into a window whose content comes out whole.                    *)
LEMMA ProcessCases ==
  ASSUME mode \in Modes, window \in Windows, force \in BOOLEAN, agg \in Serieses,
         NEW items \in Seq(Item), NEW due \in BOOLEAN
  PROVE  /\ Outcome(EffectiveWindow = "none", agg, items, Process(items, due).out, Process(items, due).agg)
         /\ Process(items, due).window \in Windows
         /\ Process(items, due).force \in BOOLEAN
<1> DEFINE w       == EffectiveWindow
           full    == AddAll(IF window = w THEN agg ELSE << >>, items)
           elapsed == due /\ full # << >>
           fire    == elapsed \/ force
<1>1. w \in Windows
  BY PipelineAssumption DEF EffectiveWindow, Windows
<1>2. /\ agg \in Seq(Item) /\ Flush(agg) \in Seq(Item)
      /\ full \in Seq(Item) /\ Flush(full) \in Seq(Item)
  <2>1. (IF window = w THEN agg ELSE << >>) \in Serieses
    BY EmptyFacts
  <2>2. full \in Serieses
    <3> HIDE DEF w
    <3> QED
      BY <2>1, AddAllIn
  <2> HIDE DEF full
  <2>3. agg \in Seq(Item) /\ full \in Seq(Item)
    BY <2>2 DEF Serieses
  <2> QED
    BY <2>3, FlushFacts
<1>3. CASE w = "none"
  <2>1. Process(items, due) = [out |-> PassThrough(items), agg |-> << >>, window |-> window, force |-> force]
    BY <1>3 DEF Process
  <2>2. /\ Process(items, due).out = Flush(agg) \o items /\ Process(items, due).agg = << >>
        /\ Process(items, due).window = window /\ Process(items, due).force = force
    BY <2>1 DEF PassThrough
  <2> QED
    BY <1>3, <2>2 DEF Outcome
<1>4. CASE w # "none"
  <2>1. Process(items, due) =
          [out    |-> Carried(w) \o (IF fire THEN Flush(full) ELSE << >>),
           agg    |-> Left(fire, full),
           window |-> w,
           force  |-> force /\ elapsed]
    BY <1>4 DEF Process
  <2> HIDE DEF full, elapsed, fire, w
  <2>2. /\ Process(items, due).out = Carried(w) \o (IF fire THEN Flush(full) ELSE << >>)
        /\ Process(items, due).agg = Left(fire, full)
        /\ Process(items, due).window = w /\ Process(items, due).force = (force /\ elapsed)
    BY <2>1
  <2>3. Process(items, due).force \in BOOLEAN
    <3>1. (force /\ elapsed) \in BOOLEAN
      BY Zenon DEF elapsed
    <3> QED
      BY <2>2, <3>1, Zenon
  <2>4. CASE window = w
    <3>1. full = AddAll(agg, items) /\ Carried(w) = << >>
      BY <2>4 DEF full, Carried
    <3>2. CASE fire
      <4>1. Process(items, due).out = Flush(full) /\ Process(items, due).agg = << >>
        BY <1>2, <2>2, <3>1, <3>2, EmptyFacts DEF Left
      <4> QED
        BY <1>1, <1>4, <2>2, <2>3, <3>1, <4>1, Zenon DEF Outcome, w
    <3>3. CASE ~fire
      <4>1. Process(items, due).out = << >> /\ Process(items, due).agg = full
        BY <1>2, <2>2, <3>1, <3>3, EmptyFacts DEF Left
      <4> QED
        BY <1>1, <1>4, <2>2, <2>3, <3>1, <4>1, Zenon DEF Outcome, w
    <3> QED
      BY <3>2, <3>3
  <2>5. CASE window # w
    <3>1. full = AddAll(<< >>, items) /\ Carried(w) = Flush(agg)
      BY <2>5 DEF full, Carried
    <3>2. CASE fire
      <4>1. Process(items, due).out = Flush(agg) \o Flush(full) /\ Process(items, due).agg = << >>
        BY <1>2, <2>2, <3>1, <3>2 DEF Left
      <4> QED
        BY <1>1, <1>4, <2>2, <2>3, <3>1, <4>1, Zenon DEF Outcome, w
    <3>3. CASE ~fire
      <4>1. Process(items, due).out = Flush(agg) /\ Process(items, due).agg = full
        BY <1>2, <2>2, <3>1, <3>3, EmptyFacts DEF Left
      <4> QED
        BY <1>1, <1>4, <2>2, <2>3, <3>1, <4>1, Zenon DEF Outcome, w
    <3> QED
      BY <3>2, <3>3
  <2> QED
    BY <2>4, <2>5
<1> QED
  BY <1>3, <1>4

(* Nothing is lost or invented in the sampling stage. *)
LEMMA OutcomeFacts ==
  ASSUME NEW series \in Serieses, NEW items \in Seq(Item), NEW thru, NEW out, NEW left,
         Outcome(thru, series, items, out, left)
  PROVE  /\ out \in Seq(Item) /\ left \in Serieses /\ left \in Seq(Item)
         /\ \A n, e : In(out, n, e) \/ In(left, n, e) <=> In(series, n, e) \/ In(items, n, e)
<1> DEFINE full == AddAll(series, items)
           only == AddAll(<< >>, items)
<1>1. /\ full \in Serieses
      /\ \A n, e : In(full, n, e) <=> In(series, n, e) \/ In(items, n, e)
  BY AddAllIn
<1>2. /\ only \in Serieses
      /\ \A n, e : In(only, n, e) <=> In(items, n, e)
  BY AddAllIn, EmptyFacts
<1>3. << >> \in Serieses /\ << >> \in Seq(Item) /\ \A n, e : ~In(<< >>, n, e)
  BY EmptyFacts
<1>4. \A q \in Serieses : /\ q \in Seq(Item) /\ Flush(q) \in Seq(Item)
                          /\ \A n, e : In(Flush(q), n, e) <=> In(q, n, e)
  BY FlushFacts, SameFacts DEF Serieses
<1>5. \A p, q \in Seq(Item) : /\ p \o q \in Seq(Item)
                              /\ \A n, e : In(p \o q, n, e) <=> In(p, n, e) \/ In(q, n, e)
  BY JoinFacts
<1> HIDE DEF full, only
<1>6. CASE thru /\ out = Flush(series) \o items /\ left = << >>
  BY <1>3, <1>4, <1>5, <1>6
<1>7. CASE ~thru /\ out = Flush(full) /\ left = << >>
  BY <1>1, <1>3, <1>4, <1>7
<1>8. CASE ~thru /\ out = << >> /\ left = full
  BY <1>1, <1>3, <1>4, <1>8
<1>9. CASE ~thru /\ out = Flush(series) \o Flush(only) /\ left = << >>
  <2>1. Flush(series) \in Seq(Item) /\ Flush(only) \in Seq(Item)
    BY <1>2, <1>4
  <2> QED
    BY <1>2, <1>3, <1>4, <1>5, <1>9, <2>1
<1>10. CASE ~thru /\ out = Flush(series) /\ left = only
  BY <1>2, <1>3, <1>4, <1>10
<1> QED
  BY <1>6, <1>7, <1>8, <1>9, <1>10 DEF Outcome, full, only

(* The batch stands behind the window, both in order and of the kinds K. *)
Queued(K, series, items) ==
  /\ Kinded(series, K) /\ Kinded(items, K)
  /\ Tidy(series) /\ Tidy(items) /\ Precedes(series, items)

(* The sampling stage hands on the metrics in order, and leaves a window   *)
(* that is behind what it hands on and in front of the batch.              *)
LEMMA OutcomeOrder ==
  ASSUME NEW series \in Serieses, NEW items \in Seq(Item), NEW thru, NEW out, NEW left,
         Outcome(thru, series, items, out, left), NEW K, Queued(K, series, items)
  PROVE  /\ Tidy(out) /\ Tidy(left) /\ Kinded(left, K)
         /\ Precedes(out, left) /\ Precedes(left, items)
         /\ left # << >> => OneName(out)
<1> DEFINE full == AddAll(series, items)
           only == AddAll(<< >>, items)
           first == Flush(series)
<1>1. /\ full \in Seq(Item) /\ Kinded(full, K) /\ Tidy(full)
      /\ \A n, e : In(full, n, e) <=> In(series, n, e) \/ In(items, n, e)
  BY AddAllIn, AddAllTidy DEF Queued, Serieses
<1>2. /\ only \in Seq(Item) /\ Kinded(only, K) /\ Tidy(only)
      /\ \A n, e : In(only, n, e) <=> In(items, n, e)
  <2>1. << >> \in Serieses /\ Kinded(<< >>, K) /\ Tidy(<< >>) /\ Precedes(<< >>, items)
        /\ \A n, e : ~In(<< >>, n, e)
    BY EmptyFacts
  <2> QED
    BY <2>1, AddAllIn, AddAllTidy DEF Queued, Serieses
<1>3. /\ first \in Seq(Item) /\ Tidy(first) /\ OneName(first)
      /\ \A n, e : In(first, n, e) <=> In(series, n, e)
  <2>1. series \in Seq(Item) /\ Keyed(series) /\ Tidy(series) /\ Kinded(series, K)
    BY DEF Serieses, Queued
  <2>2. OneName(series)
    BY <2>1, OneSeries DEF OneName
  <2>3. first \in Seq(Item) /\ Same(series, first)
    BY <2>1, FlushFacts
  <2> QED
    BY <2>1, <2>2, <2>3, SameFacts
<1>4. ASSUME NEW q \in Seq(Item), Tidy(q)
      PROVE  /\ Flush(q) \in Seq(Item) /\ Tidy(Flush(q))
             /\ \A n, e : In(Flush(q), n, e) <=> In(q, n, e)
  BY <1>4, FlushFacts, SameFacts
<1>5. ASSUME NEW q \in Seq(Item), Tidy(q), \A n, e : In(q, n, e) <=> In(items, n, e)
      PROVE  Tidy(first \o q) /\ Precedes(first, q)
  <2>1. Precedes(first, q)
    BY <1>3, <1>5 DEF Precedes, Queued
  <2> QED
    BY <1>3, <1>5, <2>1, JoinFacts
<1>6. /\ Tidy(<< >>) /\ Kinded(<< >>, K) /\ OneName(<< >>)
      /\ \A q : Precedes(<< >>, q) /\ Precedes(q, << >>)
  BY EmptyFacts
<1> HIDE DEF full, only, first
<1>7. CASE thru /\ out = first \o items /\ left = << >>
  <2>1. Tidy(out)
    BY <1>5, <1>7 DEF Queued
  <2> QED
    BY <1>6, <1>7, <2>1
<1>8. CASE ~thru /\ out = Flush(full) /\ left = << >>
  BY <1>1, <1>4, <1>6, <1>8
<1>9. CASE ~thru /\ out = << >> /\ left = full
  <2>1. Precedes(full, items)
    BY <1>1 DEF Precedes
  <2> QED
    BY <1>1, <1>6, <1>9, <2>1
<1>10. CASE ~thru /\ out = first \o Flush(only) /\ left = << >>
  <2>1. /\ Flush(only) \in Seq(Item) /\ Tidy(Flush(only))
        /\ \A n, e : In(Flush(only), n, e) <=> In(items, n, e)
    BY <1>2, <1>4
  <2>2. Tidy(out)
    BY <1>5, <1>10, <2>1
  <2> QED
    BY <1>6, <1>10, <2>2
<1>11. CASE ~thru /\ out = first /\ left = only
  <2>1. Precedes(only, items)
    BY <1>2 DEF Precedes
  <2>2. Precedes(first, only)
    BY <1>2, <1>5
  <2> QED
    BY <1>2, <1>3, <1>11, <2>1, <2>2
<1> QED
  BY <1>7, <1>8, <1>9, <1>10, <1>11 DEF Outcome, full, only, first

(* Window and batch have no event twice. *)
Apart(p, q) == \A n, o, e : In(p, n, e) => ~In(q, o, e)
Alone(series, items) == Single(series) /\ Single(items) /\ Apart(series, items)

(* Neither has what the sampling stage makes of them. *)
LEMMA OutcomeOnce ==
  ASSUME NEW series \in Serieses, NEW items \in Seq(Item), NEW thru, NEW out, NEW left,
         Outcome(thru, series, items, out, left), Alone(series, items)
  PROVE  Alone(left, out)
<1> DEFINE full == AddAll(series, items)
           only == AddAll(<< >>, items)
           first == Flush(series)
<1>1. full \in Seq(Item) /\ Single(full)
  BY AddAllIn, AddAllSingle DEF Alone, Apart, Serieses
<1>2. only \in Seq(Item) /\ Single(only) /\ \A n, e : In(only, n, e) <=> In(items, n, e)
  <2>1. << >> \in Serieses /\ Single(<< >>) /\ \A n, e : ~In(<< >>, n, e)
    BY EmptyFacts
  <2> QED
    BY <2>1, AddAllIn, AddAllSingle DEF Alone, Serieses
<1>3. \A q \in Seq(Item) : Single(q) =>
        Flush(q) \in Seq(Item) /\ Single(Flush(q)) /\ \A n, e : In(Flush(q), n, e) <=> In(q, n, e)
  BY FlushFacts, SameFacts
<1>4. first \in Seq(Item) /\ Single(first) /\ \A n, e : In(first, n, e) <=> In(series, n, e)
  BY <1>3 DEF Alone, Serieses
<1>5. ASSUME NEW q \in Seq(Item), Single(q), \A n, e : In(q, n, e) <=> In(items, n, e)
      PROVE  Single(first \o q)
  <2>1. \A n, o, e : In(first, n, e) => ~In(q, o, e)
    BY <1>4, <1>5 DEF Alone, Apart
  <2> QED
    BY <1>4, <1>5, <2>1, JoinFacts
<1>6. Single(<< >>) /\ \A q : Apart(<< >>, q) /\ Apart(q, << >>)
  BY EmptyFacts DEF Apart
<1> HIDE DEF full, only, first
<1>7. CASE thru /\ out = first \o items /\ left = << >>
  BY <1>5, <1>6, <1>7 DEF Alone
<1>8. CASE ~thru /\ out = Flush(full) /\ left = << >>
  BY <1>1, <1>3, <1>6, <1>8 DEF Alone
<1>9. CASE ~thru /\ out = << >> /\ left = full
  BY <1>1, <1>6, <1>9 DEF Alone
<1>10. CASE ~thru /\ out = first \o Flush(only) /\ left = << >>
  <2>1. /\ Flush(only) \in Seq(Item) /\ Single(Flush(only))
        /\ \A n, e : In(Flush(only), n, e) <=> In(items, n, e)
    BY <1>2, <1>3
  <2> QED
    BY <1>5, <1>6, <1>10, <2>1 DEF Alone
<1>11. CASE ~thru /\ out = first /\ left = only
  BY <1>2, <1>4, <1>11 DEF Alone, Apart
<1> QED
  BY <1>7, <1>8, <1>9, <1>10, <1>11 DEF Outcome, full, only, first

-----------------------------------------------------------------------------
(* The ways emit can end: nothing to hand on, a request that is dropped,   *)
(* or a sink that takes the request (Store) or fails.                      *)
Kept(rest, l) == pending' = rest /\ lost' = l /\ stored' = stored /\ fails' = fails

Requeued(again, out, rest, l) ==
  /\ fails < MaxFail /\ fails' = fails + 1
  /\ pending' = Newest(again \o rest)
  /\ lost' = Losing(Losing(l, "overflow", Overflow(again \o rest)), "sink",
                    EventsOf(out) \ (EventsOf(again) \cup EventsOf(agg')))
  /\ stored' = stored

Emitted(items, rest, l) ==
  \/ items = << >> /\ agg' = agg /\ Kept(rest, l)
  \/ \E thru, out :
       /\ Outcome(thru, agg, items, out, agg')
       /\ \/ Kept(rest, l) /\ out = << >>
          \/ Kept(rest, Losing(l, "marshal", EventsOf(out)))
          \/ Store(out, rest, l)
          \/ \E again \in {items, Again(Flush(agg), items)} : Requeued(again, out, rest, l)

(* Pipeline.emit, over every outcome of Process and of the sink, stores what *)
(* comes out, requeues it, or keeps it in the window.                      *)
LEMMA EmitCases ==
  ASSUME mode \in Modes, window \in Windows, force \in BOOLEAN, agg \in Serieses,
         NEW items \in Seq(Item), NEW rest, NEW l, Emit(items, rest, l)
  PROVE  window' \in Windows /\ force' \in BOOLEAN /\ Emitted(items, rest, l)
<1>1. CASE items = << >>
  <2>1. /\ pending' = rest /\ lost' = l /\ window' = window /\ agg' = agg /\ force' = force
        /\ stored' = stored /\ fails' = fails
    BY <1>1 DEF Emit, sampling
  <2>2. window' \in Windows /\ force' \in BOOLEAN
    BY <2>1, Zenon
  <2> QED
    BY <1>1, <2>1, <2>2, Zenon DEF Emitted, Kept
<1>2. CASE items # << >>
  <2>1. PICK due \in BOOLEAN :
          LET p == Process(items, due)
          IN /\ window' = p.window /\ agg' = p.agg /\ force' = p.force
             /\ IF p.out = << >>
                  THEN pending' = rest /\ lost' = l /\ UNCHANGED <<stored, fails>>
                  ELSE \/ Discard(p.out, rest, l) \/ Store(p.out, rest, l)
                       \/ Refuse(items, p.out, p.agg, rest, l)
    BY <1>2, Zenon DEF Emit
  <2> DEFINE p == Process(items, due)
             thru == EffectiveWindow = "none"
  <2>2. Outcome(thru, agg, items, p.out, p.agg) /\ p.window \in Windows /\ p.force \in BOOLEAN
    BY ProcessCases, Zenon
  <2>3. /\ window' = p.window /\ agg' = p.agg /\ force' = p.force
        /\ IF p.out = << >>
             THEN pending' = rest /\ lost' = l /\ UNCHANGED <<stored, fails>>
             ELSE \/ Discard(p.out, rest, l) \/ Store(p.out, rest, l)
                  \/ Refuse(items, p.out, p.agg, rest, l)
    BY <2>1, Zenon
  <2> HIDE DEF p
  <2>4. window' \in Windows /\ force' \in BOOLEAN /\ Outcome(thru, agg, items, p.out, agg')
    BY <2>2, <2>3, Zenon
  <2>5. CASE p.out = << >>
    <3>1. Kept(rest, l)
      BY <2>3, <2>5 DEF Kept
    <3> QED
      BY <2>4, <2>5, <3>1, Zenon DEF Emitted
  <2>6. CASE Store(p.out, rest, l)
    BY <2>4, <2>6, Zenon DEF Emitted
  <2>7. CASE Refuse(items, p.out, p.agg, rest, l)
    <3> DEFINE again == IF EffectiveWindow = "none"
                        THEN SubSeq(Merged(p.out), Len(p.out) - Len(items) + 1, Len(p.out))
                        ELSE items
    <3>1. again \in {items, Again(Flush(agg), items)}
      <4>1. thru => p.out = Flush(agg) \o items
        BY <2>4, Zenon DEF Outcome
      <4> QED
        BY <4>1 DEF Again
    <3>2. Requeued(again, p.out, rest, l)
      BY <2>3, <2>7 DEF Refuse, Requeued, Requeue
    <3> HIDE DEF again
    <3> QED
      BY <2>4, <3>1, <3>2, Zenon DEF Emitted
  <2>8. CASE Discard(p.out, rest, l)
    <3>1. Kept(rest, Losing(l, "marshal", EventsOf(p.out)))
      BY <2>8 DEF Discard, Kept
    <3> QED
      BY <2>4, <3>1, Zenon DEF Emitted
  <2> QED
    BY <2>3, <2>5, <2>6, <2>7, <2>8
<1> QED
  BY <1>1, <1>2

(* Where an event is. *)
Found(e, s, p, g, l) == Has(s, e) \/ e \in EventsOf(p) \/ e \in EventsOf(g) \/ \E c \in Cause : e \in l[c]

Losses == [Cause -> SUBSET Event]

(* Adding to the losses. *)
LEMMA LosingFacts ==
  ASSUME NEW l \in Losses, NEW c \in Cause, NEW E \in SUBSET Event
  PROVE  /\ Losing(l, c, E) \in Losses
         /\ \A e \in E : \E d \in Cause : e \in Losing(l, c, E)[d]
         /\ \A e : (\E d \in Cause : e \in l[d]) => \E d \in Cause : e \in Losing(l, c, E)[d]
<1> DEFINE m == Losing(l, c, E)
<1>1. m \in Losses /\ m[c] = l[c] \cup E /\ \A d \in Cause : d # c => m[d] = l[d]
  BY DEF Losing, Losses
<1> HIDE DEF m
<1> QED
  BY <1>1 DEF m

(* What emit makes of the state, whatever the sink says: nothing is        *)
(* invented, and nothing vanishes.                                         *)
LEMMA EmitFacts ==
  ASSUME agg \in Serieses, NEW items \in Seq(Item), NEW rest \in Seq(Item), Len(rest) <= MaxPending,
         stored \in Seq(Event), NEW l \in Losses, fails \in 0 .. MaxFail,
         Emitted(items, rest, l)
  PROVE  /\ pending' \in Seq(Item) /\ Len(pending') <= MaxPending /\ agg' \in Serieses
         /\ stored' \in Seq(Event) /\ lost' \in Losses /\ fails' \in 0 .. MaxFail
         /\ \A n, e : In(pending', n, e) => In(items, n, e) \/ In(rest, n, e)
         /\ \A n, e : In(agg', n, e) => In(agg, n, e) \/ In(items, n, e)
         /\ \A e : Has(stored', e) => Has(stored, e) \/ \E n \in Name : In(agg, n, e) \/ In(items, n, e)
         /\ \A e : Found(e, stored, items, agg, l) \/ e \in EventsOf(rest)
                     => Found(e, stored', pending', agg', lost')
         /\ fails' = 0 => fails = 0 /\ pending' = rest
<1>0. MaxFail \in Nat /\ agg \in Seq(Item)
  BY PipelineAssumption DEF Serieses
<1>1. CASE items = << >> /\ agg' = agg /\ Kept(rest, l)
  <2>1. pending' = rest /\ lost' = l /\ stored' = stored /\ fails' = fails /\ agg' = agg /\ items = << >>
    BY <1>1 DEF Kept
  <2>2. EventsOf(items) = {}
    BY <2>1 DEF EventsOf
  <2> QED
    BY <2>1, <2>2 DEF Found
<1>2. ASSUME NEW thru, NEW out, Outcome(thru, agg, items, out, agg')
      PROVE  /\ out \in Seq(Item) /\ agg' \in Serieses /\ agg' \in Seq(Item)
             /\ \A n, e : In(out, n, e) => In(agg, n, e) \/ In(items, n, e)
             /\ \A n, e : In(agg', n, e) => In(agg, n, e) \/ In(items, n, e)
             /\ \A e : e \in EventsOf(items) \/ e \in EventsOf(agg) => e \in EventsOf(out) \/ e \in EventsOf(agg')
  <2>1. /\ out \in Seq(Item) /\ agg' \in Serieses /\ agg' \in Seq(Item)
        /\ \A n, e : In(out, n, e) \/ In(agg', n, e) <=> In(agg, n, e) \/ In(items, n, e)
    BY <1>2, OutcomeFacts
  <2>2. \A e : e \in EventsOf(items) \/ e \in EventsOf(agg) => e \in EventsOf(out) \/ e \in EventsOf(agg')
    BY <1>0, <2>1, EventsIn
  <2> QED
    BY <2>1, <2>2
<1>3. ASSUME NEW thru, NEW out, Outcome(thru, agg, items, out, agg'), Kept(rest, l), out = << >>
      PROVE  /\ pending' = rest /\ lost' = l /\ stored' = stored /\ fails' = fails
             /\ \A e : Found(e, stored, items, agg, l) \/ e \in EventsOf(rest)
                     => Found(e, stored', pending', agg', lost')
  <2>1. pending' = rest /\ lost' = l /\ stored' = stored /\ fails' = fails /\ EventsOf(out) = {}
    BY <1>3 DEF Kept, EventsOf
  <2> QED
    BY <1>2, <1>3, <2>1 DEF Found
<1>4. ASSUME NEW thru, NEW out, Outcome(thru, agg, items, out, agg'), Store(out, rest, l)
      PROVE  /\ pending' = rest /\ lost' \in Losses /\ stored' \in Seq(Event) /\ fails' = fails
             /\ \A e : Has(stored', e) => Has(stored, e) \/ \E n \in Name : In(agg, n, e) \/ In(items, n, e)
             /\ \A e : Found(e, stored, items, agg, l) \/ e \in EventsOf(rest)
                     => Found(e, stored', pending', agg', lost')
  <2> DEFINE c == Content(out)
             E == EventsOf(out) \ ToSet(c)
  <2>1. /\ stored' = stored \o c /\ lost' = Losing(l, "merge", E)
        /\ pending' = rest /\ fails' = fails
    BY <1>4 DEF Store
  <2>2. out \in Seq(Item) /\ EventsOf(out) \subseteq Event /\ E \in SUBSET Event
    BY <1>2, <1>4, EventsIn
  <2>3. c \in Seq(Event) /\ \A e : Has(c, e) => \E n \in Name : In(out, n, e)
    BY <2>2, ContentFacts
  <2>4. \A e : e \in ToSet(c) => Has(c, e)
    BY DEF ToSet, Has
  <2> HIDE DEF c
  <2>5. stored' \in Seq(Event) /\ \A e : Has(stored', e) <=> Has(stored, e) \/ Has(c, e)
    BY <2>1, <2>3, ConcatHas
  <2>6. /\ lost' \in Losses /\ \A e \in E : \E d \in Cause : e \in lost'[d]
        /\ \A e : (\E d \in Cause : e \in l[d]) => \E d \in Cause : e \in lost'[d]
    <3>1. "merge" \in Cause
      BY DEF Cause
    <3> HIDE DEF E
    <3> QED
      BY <2>1, <2>2, <3>1, LosingFacts
  <2>7. \A e : e \in EventsOf(out) => Has(stored', e) \/ \E d \in Cause : e \in lost'[d]
    BY <2>4, <2>5, <2>6
  <2>8. ASSUME NEW e, Found(e, stored, items, agg, l) \/ e \in EventsOf(rest)
        PROVE  Found(e, stored', pending', agg', lost')
    BY <1>2, <1>4, <2>1, <2>5, <2>6, <2>7, <2>8 DEF Found
  <2>9. \A e : Has(stored', e) => Has(stored, e) \/ \E n \in Name : In(agg, n, e) \/ In(items, n, e)
    BY <1>2, <1>4, <2>3, <2>5
  <2> QED
    BY <2>1, <2>5, <2>6, <2>8, <2>9
<1>5. ASSUME NEW thru, NEW out, Outcome(thru, agg, items, out, agg'),
             NEW again \in {items, Again(Flush(agg), items)}, Requeued(again, out, rest, l)
      PROVE  /\ pending' \in Seq(Item) /\ Len(pending') <= MaxPending
             /\ lost' \in Losses /\ stored' = stored /\ fails' = fails + 1 /\ fails < MaxFail
             /\ \A n, e : In(pending', n, e) => In(items, n, e) \/ In(rest, n, e)
             /\ \A e : Found(e, stored, items, agg, l) \/ e \in EventsOf(rest)
                     => Found(e, stored', pending', agg', lost')
  <2> DEFINE q == again \o rest
             gone == EventsOf(out) \ (EventsOf(again) \cup EventsOf(agg'))
             m == Losing(l, "overflow", Overflow(q))
  <2>1. /\ pending' = Newest(q) /\ lost' = Losing(m, "sink", gone) /\ stored' = stored
        /\ fails' = fails + 1 /\ fails < MaxFail
    BY <1>5 DEF Requeued
  <2>2. again \in Seq(Item) /\ \A n, e : In(again, n, e) => In(items, n, e)
    <3>1. Flush(agg) \in Seq(Item)
      BY <1>0, FlushFacts
    <3> QED
      BY <3>1, AgainFacts
  <2>3. q \in Seq(Item) /\ \A n, e : In(q, n, e) <=> In(again, n, e) \/ In(rest, n, e)
    BY <2>2, JoinFacts
  <2> HIDE DEF q
  <2>4. /\ pending' \in Seq(Item) /\ Len(pending') <= MaxPending
        /\ \A n, e : In(pending', n, e) => In(q, n, e)
        /\ \A n, e : In(q, n, e) => e \in EventsOf(pending') \/ e \in Overflow(q)
        /\ Overflow(q) \subseteq EventsOf(q)
    BY <2>1, <2>3, NewestFacts
  <2>5. Overflow(q) \in SUBSET Event /\ gone \in SUBSET Event
    BY <1>2, <1>5, <2>3, <2>4, EventsIn
  <2>6. /\ "overflow" \in Cause /\ "sink" \in Cause
    BY DEF Cause
  <2>7. /\ m \in Losses /\ \A e \in Overflow(q) : \E d \in Cause : e \in m[d]
        /\ \A e : (\E d \in Cause : e \in l[d]) => \E d \in Cause : e \in m[d]
    BY <2>5, <2>6, LosingFacts
  <2> HIDE DEF m
  <2>8. /\ lost' \in Losses /\ \A e \in gone : \E d \in Cause : e \in lost'[d]
        /\ \A e : (\E d \in Cause : e \in m[d]) => \E d \in Cause : e \in lost'[d]
    <3> HIDE DEF gone
    <3> QED
      BY <2>1, <2>5, <2>6, <2>7, LosingFacts
  <2>9. \A e : e \in EventsOf(again) \/ e \in EventsOf(rest)
                 => e \in EventsOf(pending') \/ \E d \in Cause : e \in lost'[d]
    <3>1. \A e : e \in EventsOf(again) \/ e \in EventsOf(rest) => \E n \in Name : In(q, n, e)
      BY <2>2, <2>3, EventsIn
    <3> QED
      BY <2>4, <2>7, <2>8, <3>1
  <2>10. \A e : e \in EventsOf(out)
           => e \in EventsOf(pending') \/ e \in EventsOf(agg') \/ \E d \in Cause : e \in lost'[d]
    BY <2>8, <2>9
  <2>11. \A e : Found(e, stored, items, agg, l) \/ e \in EventsOf(rest)
                     => Found(e, stored', pending', agg', lost')
    BY <1>2, <1>5, <2>1, <2>7, <2>8, <2>9, <2>10 DEF Found
  <2> QED
    BY <2>1, <2>2, <2>3, <2>4, <2>8, <2>11
<1>9. ASSUME NEW thru, NEW out, Outcome(thru, agg, items, out, agg'),
             Kept(rest, Losing(l, "marshal", EventsOf(out)))
      PROVE  /\ pending' = rest /\ lost' \in Losses /\ stored' = stored /\ fails' = fails
             /\ \A e : Found(e, stored, items, agg, l) \/ e \in EventsOf(rest)
                     => Found(e, stored', pending', agg', lost')
  <2> DEFINE E == EventsOf(out)
  <2>1. pending' = rest /\ lost' = Losing(l, "marshal", E) /\ stored' = stored /\ fails' = fails
    BY <1>9 DEF Kept
  <2>2. E \in SUBSET Event /\ "marshal" \in Cause
    BY <1>2, <1>9, EventsIn DEF Cause
  <2> HIDE DEF E
  <2>3. /\ lost' \in Losses /\ \A e \in E : \E d \in Cause : e \in lost'[d]
        /\ \A e : (\E d \in Cause : e \in l[d]) => \E d \in Cause : e \in lost'[d]
    BY <2>1, <2>2, LosingFacts
  <2>4. ASSUME NEW e, Found(e, stored, items, agg, l) \/ e \in EventsOf(rest)
        PROVE  Found(e, stored', pending', agg', lost')
    BY <1>2, <1>9, <2>1, <2>3, <2>4 DEF Found, E
  <2> QED
    BY <2>1, <2>3, <2>4
<1>6. ASSUME NEW thru, NEW out, Outcome(thru, agg, items, out, agg'),
             \/ (Kept(rest, l) /\ out = << >>) \/ Store(out, rest, l)
             \/ Kept(rest, Losing(l, "marshal", EventsOf(out)))
      PROVE  /\ pending' = rest /\ lost' \in Losses /\ stored' \in Seq(Event) /\ fails' = fails
             /\ \A e : Has(stored', e) => Has(stored, e) \/ \E n \in Name : In(agg, n, e) \/ In(items, n, e)
             /\ \A e : Found(e, stored, items, agg, l) \/ e \in EventsOf(rest)
                     => Found(e, stored', pending', agg', lost')
  BY <1>3, <1>4, <1>6, <1>9
<1>7. CASE \E thru, out : Outcome(thru, agg, items, out, agg')
                          /\ \/ (Kept(rest, l) /\ out = << >>) \/ Store(out, rest, l)
                             \/ Kept(rest, Losing(l, "marshal", EventsOf(out)))
  BY <1>2, <1>6, <1>7
<1>8. CASE \E thru, out : /\ Outcome(thru, agg, items, out, agg')
                          /\ \E again \in {items, Again(Flush(agg), items)} : Requeued(again, out, rest, l)
  <2>1. PICK thru, out : /\ Outcome(thru, agg, items, out, agg')
                         /\ \E again \in {items, Again(Flush(agg), items)} : Requeued(again, out, rest, l)
    BY <1>8
  <2>2. PICK again \in {items, Again(Flush(agg), items)} : Requeued(again, out, rest, l)
    BY <2>1
  <2>3. fails' \in 0 .. MaxFail /\ fails' # 0
    BY <1>0, <1>5, <2>1, <2>2
  <2> QED
    BY <1>2, <1>5, <2>1, <2>2, <2>3
<1> QED
  BY <1>1, <1>7, <1>8 DEF Emitted

-----------------------------------------------------------------------------
(* Events stand under their names. *)
Own(q, names) == \A n, e : In(q, n, e) => names[e] = n

(* An event of q older than a stored one of its name is stored as well. *)
Behind(q, s, names) ==
  \A n, y : In(q, n, y) => \A i \in DOMAIN s : names[s[i]] = n /\ y < s[i] => Has(s, y)

(* InOrder, of a sequence and names. *)
Ordered(s, names) ==
  \A j \in DOMAIN s : \A i \in 1 .. j - 1 :
    names[s[i]] = names[s[j]] /\ s[j] < s[i] => \E k \in 1 .. i - 1 : s[k] = s[j]

(* A request in order behind a log in order. *)
LEMMA StoreOrder ==
  ASSUME NEW s \in Seq(Event), NEW q \in Seq(Item), NEW names,
         Ordered(s, names), Tidy(q), Own(q, names), Behind(q, s, names)
  PROVE  Ordered(s \o Content(q), names)
<1> DEFINE c == Content(q)
           v == s \o c
<1>0. Event \subseteq Nat
  BY PipelineAssumption DEF Event
<1>1. c \in Seq(Event) /\ \A e : Has(c, e) => \E n \in Name : In(q, n, e)
  BY ContentFacts
<1>2. \A i, j \in DOMAIN c : i < j /\ names[c[i]] = names[c[j]] /\ c[j] < c[i]
                               => \E k \in 1 .. i - 1 : c[k] = c[j]
  <2>1. \A a \in DOMAIN q : \A k \in DOMAIN q[a].events : names[q[a].events[k]] = q[a].name
    BY DEF Own, In, Holds, Has
  <2> QED
    BY <2>1, ContentOrder
<1> HIDE DEF c
<1>3. /\ \A k \in DOMAIN s : k \in DOMAIN v /\ v[k] = s[k]
      /\ \A k \in DOMAIN c : Len(s) + k \in DOMAIN v /\ v[Len(s) + k] = c[k]
      /\ \A k \in DOMAIN v : k \in DOMAIN s \/ (k - Len(s) \in DOMAIN c /\ k = Len(s) + (k - Len(s)))
      /\ v \in Seq(Event)
  BY <1>1, Concat
<1>4. /\ DOMAIN s = 1 .. Len(s) /\ Len(s) \in Nat /\ DOMAIN c = 1 .. Len(c) /\ Len(c) \in Nat
      /\ DOMAIN v = 1 .. Len(v) /\ Len(v) \in Nat
  BY <1>1, <1>3
<1> HIDE DEF v
<1> SUFFICES ASSUME NEW j \in DOMAIN v, NEW i \in 1 .. j - 1, names[v[i]] = names[v[j]], v[j] < v[i]
             PROVE  \E k \in 1 .. i - 1 : v[k] = v[j]
  BY DEF Ordered, v, c
<1>5. i \in DOMAIN v /\ i \in Nat /\ j \in Nat /\ i < j
  BY <1>4
<1>6. CASE j \in DOMAIN s
  <2>1. i \in DOMAIN s
    BY <1>4, <1>5, <1>6
  <2>2. v[i] = s[i] /\ v[j] = s[j]
    BY <1>3, <1>6, <2>1
  <2>3. PICK k \in 1 .. i - 1 : s[k] = s[j]
    BY <1>6, <2>2 DEF Ordered
  <2>4. k \in DOMAIN s
    BY <1>4, <2>1
  <2> QED
    BY <1>3, <2>2, <2>3, <2>4
<1>7. CASE j \notin DOMAIN s /\ i \notin DOMAIN s
  <2> DEFINE x == i - Len(s)
             y == j - Len(s)
  <2>1. x \in DOMAIN c /\ y \in DOMAIN c /\ i = Len(s) + x /\ j = Len(s) + y /\ x < y
    BY <1>3, <1>4, <1>5, <1>7
  <2>2. v[i] = c[x] /\ v[j] = c[y]
    BY <1>3, <2>1
  <2> HIDE DEF x, y
  <2>3. PICK k \in 1 .. x - 1 : c[k] = c[y]
    BY <1>2, <2>1, <2>2
  <2>4. k \in DOMAIN c /\ Len(s) + k \in 1 .. i - 1
    BY <1>4, <2>1, SMTT(60)
  <2>5. v[Len(s) + k] = v[j]
    BY <1>3, <2>2, <2>3, <2>4
  <2> QED
    BY <2>4, <2>5
<1>8. CASE j \notin DOMAIN s /\ i \in DOMAIN s
  <2> DEFINE y == j - Len(s)
  <2>1. y \in DOMAIN c /\ j = Len(s) + y
    BY <1>3, <1>8
  <2>2. v[i] = s[i] /\ v[j] = c[y]
    BY <1>3, <1>8, <2>1
  <2> HIDE DEF y
  <2>3. Has(c, c[y])
    BY <2>1 DEF Has
  <2>4. PICK n \in Name : In(q, n, c[y])
    BY <1>1, <2>3
  <2>5. names[c[y]] = n
    BY <2>4 DEF Own
  <2>6. Has(s, c[y])
    BY <1>8, <2>2, <2>4, <2>5 DEF Behind
  <2>7. PICK k \in DOMAIN s : s[k] = c[y]
    BY <2>6 DEF Has
  <2>8. CASE k < i
    <3>1. k \in 1 .. i - 1 /\ v[k] = v[j]
      BY <1>3, <1>4, <1>5, <2>2, <2>7, <2>8
    <3> QED
      BY <3>1
  <2>9. CASE k > i
    <3>1. i \in 1 .. k - 1
      BY <1>4, <1>8, <2>9
    <3>2. names[s[i]] = names[s[k]] /\ s[k] < s[i]
      BY <2>2, <2>7
    <3>3. PICK z \in 1 .. i - 1 : s[z] = s[k]
      BY <3>1, <3>2 DEF Ordered
    <3>4. z \in DOMAIN s
      BY <1>4, <1>8
    <3>5. v[z] = v[j]
      BY <1>3, <2>2, <2>7, <3>3, <3>4
    <3> QED
      BY <3>5
  <2>10. k # i
    <3> DEFINE x == s[i]
               z == c[y]
    <3>1. x \in Event
      BY <1>8
    <3>2. z < x
      BY <2>2
    <3>3. z \in Event
      BY <1>1, <2>1
    <3> HIDE DEF x, z
    <3>4. x # z
      BY <1>0, <3>1, <3>2, <3>3
    <3> QED
      BY <2>7, <3>4 DEF x, z
  <2> QED
    BY <1>4, <1>5, <2>8, <2>9, <2>10
<1> QED
  BY <1>6, <1>7, <1>8

(* The window and the batch stand in order behind what is stored. *)
InLine(K, series, items, s, names) ==
  /\ Queued(K, series, items)
  /\ Behind(series, s, names) /\ Behind(items, s, names)

(* emit keeps the order, in the log and in what is still to come, however  *)
(* it ends.                                                                *)
LEMMA EmitOrder ==
  ASSUME agg \in Serieses, NEW items \in Seq(Item), NEW rest \in Seq(Item), stored \in Seq(Event),
         NEW l, Emitted(items, rest, l), NEW names, NEW K,
         InLine(K, agg, items, stored, names), Ordered(stored, names),
         Own(agg, names), Own(items, names)
  PROVE  /\ Ordered(stored', names)
         /\ rest = << >> => InLine(K, agg', pending', stored', names)
<1>1. CASE items = << >> /\ agg' = agg /\ Kept(rest, l)
  <2>1. pending' = rest /\ stored' = stored /\ agg' = agg /\ items = << >>
    BY <1>1 DEF Kept
  <2> QED
    BY <2>1
<1>2. ASSUME NEW thru, NEW out, Outcome(thru, agg, items, out, agg')
      PROVE  /\ out \in Seq(Item) /\ agg' \in Seq(Item) /\ Tidy(out) /\ Own(out, names)
             /\ Behind(out, stored, names) /\ Behind(agg', stored, names)
             /\ Tidy(agg') /\ Kinded(agg', K) /\ Precedes(out, agg') /\ Precedes(agg', items)
             /\ agg' # << >> => OneName(out)
  <2>1. /\ out \in Seq(Item) /\ agg' \in Seq(Item)
        /\ \A n, e : In(out, n, e) \/ In(agg', n, e) <=> In(agg, n, e) \/ In(items, n, e)
    BY <1>2, OutcomeFacts
  <2>2. Own(out, names)
    BY <2>1 DEF Own
  <2>3. Behind(out, stored, names) /\ Behind(agg', stored, names)
    BY <2>1 DEF Behind, InLine
  <2> QED
    BY <1>2, <2>1, <2>2, <2>3, OutcomeOrder DEF InLine
<1>3. Tidy(<< >>) /\ Kinded(<< >>, K) /\ Behind(<< >>, stored', names) /\ \A q : Precedes(q, << >>)
  BY EmptyFacts DEF Behind
<1>4. ASSUME NEW thru, NEW out, NEW m, Outcome(thru, agg, items, out, agg'), Kept(rest, m)
      PROVE  Ordered(stored', names) /\ (rest = << >> => InLine(K, agg', pending', stored', names))
  <2>1. pending' = rest /\ stored' = stored
    BY <1>4 DEF Kept
  <2> QED
    BY <1>2, <1>3, <1>4, <2>1 DEF InLine, Queued
<1>5. ASSUME NEW thru, NEW out, Outcome(thru, agg, items, out, agg'), Store(out, rest, l)
      PROVE  Ordered(stored', names) /\ (rest = << >> => InLine(K, agg', pending', stored', names))
  <2> DEFINE c == Content(out)
  <2>1. pending' = rest /\ stored' = stored \o c
    BY <1>5 DEF Store
  <2>2. Ordered(stored \o c, names)
    BY <1>2, <1>5, StoreOrder
  <2>3. /\ c \in Seq(Event) /\ \A e : Has(c, e) => \E n \in Name : In(out, n, e)
        /\ agg' # << >> => \A n, e : In(out, n, e) => Has(c, e)
    BY <1>2, <1>5, ContentFacts
  <2> HIDE DEF c
  <2>4. \A e : Has(stored', e) <=> Has(stored, e) \/ Has(c, e)
    BY <2>1, <2>3, ConcatHas
  <2>5. Behind(agg', stored', names)
    <3> SUFFICES ASSUME NEW n, NEW y, In(agg', n, y),
                        NEW i \in DOMAIN stored', names[stored'[i]] = n, y < stored'[i]
                 PROVE  Has(stored', y)
      BY DEF Behind
    <3> DEFINE x == stored'[i]
    <3>1. Has(stored, x) \/ Has(c, x)
      <4>1. Has(stored', x)
        BY DEF Has
      <4> QED
        BY <2>4, <4>1
    <3>2. agg' # << >> /\ n \in Name /\ y \in Event
      BY <1>2, <1>5, EmptyFacts, EventsIn
    <3> HIDE DEF x
    <3>3. names[x] = n /\ y < x
      BY DEF x
    <3>4. CASE Has(stored, x)
      <4>1. PICK k \in DOMAIN stored : stored[k] = x
        BY <3>4 DEF Has
      <4>2. Has(stored, y)
        BY <1>2, <1>5, <3>3, <4>1 DEF Behind
      <4> QED
        BY <2>4, <4>2
    <3>5. CASE Has(c, x)
      <4>1. PICK o \in Name : In(out, o, x)
        BY <2>3, <3>5
      <4>2. o = n /\ x \in Event
        BY <1>2, <1>5, <3>3, <4>1, EventsIn DEF Own
      <4>3. In(out, n, y)
        BY <1>2, <1>5, <3>2, <3>3, <4>1, <4>2 DEF Precedes
      <4> QED
        BY <2>3, <2>4, <3>2, <4>3
    <3> QED
      BY <3>1, <3>4, <3>5
  <2> QED
    BY <1>2, <1>3, <1>5, <2>1, <2>2, <2>5 DEF InLine, Queued
<1>6. ASSUME NEW thru, NEW out, Outcome(thru, agg, items, out, agg'),
             NEW again \in {items, Again(Flush(agg), items)}, Requeued(again, out, rest, l)
      PROVE  Ordered(stored', names) /\ (rest = << >> => InLine(K, agg', pending', stored', names))
  <2>1. pending' = Newest(again \o rest) /\ stored' = stored
    BY <1>6 DEF Requeued
  <2>2. /\ again \in Seq(Item) /\ \A n, e : In(again, n, e) => In(items, n, e)
        /\ Kinded(again, K) /\ Tidy(again)
    <3>1. Flush(agg) \in Seq(Item)
      BY FlushFacts DEF Serieses
    <3>2. Kinded(items, K) /\ Tidy(items)
      BY DEF InLine, Queued
    <3> QED
      BY <3>1, <3>2, AgainFacts
  <2>3. ASSUME rest = << >>
        PROVE  InLine(K, agg', pending', stored', names)
    <3>1. pending' = Newest(again)
      BY <2>1, <2>2, <2>3, EmptyFacts
    <3>2. /\ pending' \in Seq(Item) /\ Kinded(pending', K) /\ Tidy(pending')
          /\ \A n, e : In(pending', n, e) => In(items, n, e)
      BY <2>2, <3>1, NewestFacts
    <3>3. Precedes(agg', pending')
      BY <1>2, <1>6, <3>2 DEF Precedes
    <3>4. Behind(pending', stored', names)
      BY <2>1, <3>2 DEF Behind, InLine
    <3> QED
      BY <1>2, <1>6, <2>1, <3>2, <3>3, <3>4 DEF InLine, Queued
  <2> QED
    BY <2>1, <2>3
<1> QED
  BY <1>1, <1>4, <1>5, <1>6 DEF Emitted

(* The window and the batch have no event twice, nor one that is stored. *)
Fresh(series, items, s) ==
  /\ Alone(series, items) /\ Inj(s)
  /\ \A n, e : In(series, n, e) \/ In(items, n, e) => ~Has(s, e)

(* emit keeps that as long as the sink does not fail. *)
LEMMA EmitOnce ==
  ASSUME agg \in Serieses, NEW items \in Seq(Item), stored \in Seq(Event), fails \in Nat,
         NEW l, Emitted(items, << >>, l), Fresh(agg, items, stored), fails' = 0
  PROVE  Fresh(agg', << >>, stored')
<1>0. Single(<< >>) /\ \A n, e : ~In(<< >>, n, e)
  BY EmptyFacts
<1>1. CASE items = << >> /\ agg' = agg /\ Kept(<< >>, l)
  <2>1. stored' = stored /\ agg' = agg /\ items = << >>
    BY <1>1 DEF Kept
  <2> QED
    BY <2>1
<1>2. ASSUME NEW thru, NEW out, Outcome(thru, agg, items, out, agg')
      PROVE  /\ out \in Seq(Item) /\ Single(agg') /\ Single(out) /\ Apart(agg', out)
             /\ \A n, e : In(out, n, e) \/ In(agg', n, e) => ~Has(stored, e)
  <2>1. /\ out \in Seq(Item)
        /\ \A n, e : In(out, n, e) \/ In(agg', n, e) <=> In(agg, n, e) \/ In(items, n, e)
    BY <1>2, OutcomeFacts
  <2>2. Alone(agg', out)
    BY <1>2, OutcomeOnce DEF Fresh
  <2> QED
    BY <2>1, <2>2 DEF Fresh, Alone
<1>3. ASSUME NEW thru, NEW out, NEW m, Outcome(thru, agg, items, out, agg'), Kept(<< >>, m)
      PROVE  Fresh(agg', << >>, stored')
  <2>1. stored' = stored
    BY <1>3 DEF Kept
  <2> QED
    BY <1>0, <1>2, <1>3, <2>1 DEF Fresh, Alone, Apart
<1>4. ASSUME NEW thru, NEW out, Outcome(thru, agg, items, out, agg'), Store(out, << >>, l)
      PROVE  Fresh(agg', << >>, stored')
  <2> DEFINE c == Content(out)
  <2>1. stored' = stored \o c
    BY <1>4 DEF Store
  <2>2. c \in Seq(Event) /\ Inj(c) /\ \A e : Has(c, e) => \E n \in Name : In(out, n, e)
    BY <1>2, <1>4, ContentFacts
  <2> HIDE DEF c
  <2>3. \A e : Has(stored', e) <=> Has(stored, e) \/ Has(c, e)
    BY <2>1, <2>2, ConcatHas
  <2>4. \A e \in Event : ~(Has(stored, e) /\ Has(c, e))
    BY <1>2, <1>4, <2>2
  <2>5. Inj(stored')
    <3>1. Inj(stored)
      BY DEF Fresh
    <3> QED
      BY <2>1, <2>2, <2>4, <3>1, InjConcat
  <2>6. \A n, e : In(agg', n, e) => ~Has(stored', e)
    BY <1>2, <1>4, <2>2, <2>3 DEF Apart
  <2> QED
    BY <1>0, <1>2, <1>4, <2>5, <2>6 DEF Fresh, Alone, Apart
<1>5. ASSUME NEW again, NEW out, Requeued(again, out, << >>, l)
      PROVE  FALSE
  BY <1>5 DEF Requeued
<1> QED
  BY <1>1, <1>3, <1>4, <1>5 DEF Emitted

-----------------------------------------------------------------------------
(* The events of q are among the first t, under their names. *)
Owns(q, names, t) == Own(q, names) /\ \A n, e : In(q, n, e) => e <= t
Upto(s, t) == \A i \in DOMAIN s : s[i] <= t

(* The state emit starts from, and the one it leaves, with t events taken. *)
Ready(items, rest, l, t, K) ==
  /\ items \in Seq(Item) /\ rest \in Seq(Item) /\ Len(rest) <= MaxPending /\ l \in Losses
  /\ Owns(items, named, t) /\ Owns(rest, named, t) /\ Owns(agg, named, t) /\ Upto(stored, t)
  /\ InLine(K, agg, items, stored, named) /\ Ordered(stored, named)
  /\ \A e \in 1 .. t : Found(e, stored, items, agg, l) \/ e \in EventsOf(rest)
  /\ fails = 0 => rest = << >> /\ Fresh(agg, items, stored)

Sent(t) ==
  /\ pending' \in Seq(Item) /\ Len(pending') <= MaxPending /\ agg' \in Serieses
  /\ stored' \in Seq(Event) /\ lost' \in Losses /\ fails' \in 0 .. MaxFail
  /\ window' \in Windows /\ force' \in BOOLEAN
  /\ Owns(pending', named, t) /\ Owns(agg', named, t) /\ Upto(stored', t)
  /\ Ordered(stored', named)
  /\ \A e \in 1 .. t : Found(e, stored', pending', agg', lost')
  /\ fails' = 0 => Fresh(agg', pending', stored')

(* After emit everything that was ready to go is stored, in the window, back *)
(* in the batcher or named as lost, still in the order received.           *)
LEMMA EmitSent ==
  ASSUME TypeOK, Keyed(agg), NEW items, NEW rest, NEW l, NEW t \in Nat, NEW K,
         Ready(items, rest, l, t, K), Emit(items, rest, l)
  PROVE  /\ Sent(t)
         /\ rest = << >> => InLine(K, agg', pending', stored', named)
         /\ fails' = 0 => pending' = << >>
<1>1. /\ mode \in Modes /\ window \in Windows /\ force \in BOOLEAN /\ agg \in Serieses
      /\ stored \in Seq(Event) /\ fails \in 0 .. MaxFail /\ fails \in Nat
  <2>1. mode \in Modes /\ window \in Windows /\ agg \in Serieses
        /\ stored \in Seq(Event) /\ fails \in 0 .. MaxFail /\ fails \in Nat
    BY PipelineAssumption DEF TypeOK, Windows, Serieses
  <2>2. force \in BOOLEAN
    BY Zenon DEF TypeOK
  <2> QED
    BY <2>1, <2>2, Zenon
<1>2. /\ items \in Seq(Item) /\ rest \in Seq(Item) /\ Len(rest) <= MaxPending /\ l \in Losses
      /\ Owns(items, named, t) /\ Owns(rest, named, t) /\ Owns(agg, named, t) /\ Upto(stored, t)
      /\ InLine(K, agg, items, stored, named) /\ Ordered(stored, named)
  BY DEF Ready
<1>3. window' \in Windows /\ force' \in BOOLEAN /\ Emitted(items, rest, l)
  BY <1>1, <1>2, EmitCases, Zenon
<1>4. /\ pending' \in Seq(Item) /\ Len(pending') <= MaxPending /\ agg' \in Serieses
      /\ stored' \in Seq(Event) /\ lost' \in Losses /\ fails' \in 0 .. MaxFail
      /\ \A n, e : In(pending', n, e) => In(items, n, e) \/ In(rest, n, e)
      /\ \A n, e : In(agg', n, e) => In(agg, n, e) \/ In(items, n, e)
      /\ \A e : Has(stored', e) => Has(stored, e) \/ \E n \in Name : In(agg, n, e) \/ In(items, n, e)
      /\ \A e : Found(e, stored, items, agg, l) \/ e \in EventsOf(rest)
                  => Found(e, stored', pending', agg', lost')
      /\ fails' = 0 => fails = 0 /\ pending' = rest
  BY <1>1, <1>2, <1>3, EmitFacts
<1>5. Owns(pending', named, t) /\ Owns(agg', named, t)
  BY <1>2, <1>4 DEF Owns, Own
<1>6. Upto(stored', t)
  <2>1. \A e : Has(stored', e) => e <= t
    BY <1>2, <1>4 DEF Owns, Upto, Has
  <2> QED
    BY <2>1 DEF Has, Upto
<1>7. \A e \in 1 .. t : Found(e, stored', pending', agg', lost')
  BY <1>4 DEF Ready
<1>8. /\ Ordered(stored', named)
      /\ rest = << >> => InLine(K, agg', pending', stored', named)
  BY <1>1, <1>2, <1>3, EmitOrder DEF Owns
<1>9. ASSUME fails' = 0
      PROVE  Fresh(agg', pending', stored') /\ pending' = << >>
  <2>1. rest = << >> /\ Fresh(agg, items, stored) /\ pending' = << >>
    BY <1>4, <1>9 DEF Ready
  <2> QED
    BY <1>1, <1>2, <1>3, <1>9, <2>1, EmitOnce
<1>10. Sent(t)
  BY <1>3, <1>4, <1>5, <1>6, <1>7, <1>8, <1>9, Zenon DEF Sent
<1> QED
  BY <1>8, <1>9, <1>10

(* One more event behind all the others. *)
LEMMA AppendFacts ==
  ASSUME NEW q \in Seq(Item), NEW t \in Nat, \A n, e : In(q, n, e) => e <= t,
         NEW m \in Item, m.events = <<t + 1>>
  PROVE  LET r == Append(q, m)
         IN /\ r \in Seq(Item) /\ r # << >>
            /\ \A n, e : In(r, n, e) <=> In(q, n, e) \/ (n = m.name /\ e = t + 1)
            /\ \A K : Kinded(q, K) /\ m.kind = K[m.name] => Kinded(r, K)
            /\ Tidy(q) => Tidy(r)
            /\ Single(q) => Single(r)
<1> DEFINE r == Append(q, m)
           z == Len(q) + 1
<1>1. /\ r \in Seq(Item) /\ DOMAIN r = 1 .. z /\ r[z] = m /\ DOMAIN q = 1 .. Len(q) /\ Len(q) \in Nat
      /\ \A a \in DOMAIN q : a \in DOMAIN r /\ r[a] = q[a] /\ a # z
      /\ \A a \in DOMAIN r : a = z \/ a \in DOMAIN q
      /\ z \in DOMAIN r /\ r # << >>
  OBVIOUS
<1>2. \A e : Holds(m, e) <=> e = t + 1
  BY DEF Holds, Has
<1>3. \A a \in DOMAIN q : \A e : Holds(q[a], e) => e <= t /\ e \in Nat
  <2>1. \A a \in DOMAIN q : \A e : Holds(q[a], e) => In(q, q[a].name, e)
    BY DEF In
  <2>2. \A n, e : In(q, n, e) => e \in Event
    BY EventsIn
  <2>3. Event \subseteq Nat
    BY PipelineAssumption DEF Event
  <2> QED
    BY <2>1, <2>2, <2>3
<1> HIDE DEF r, z
<1>4. ASSUME NEW n, NEW e
      PROVE  In(r, n, e) <=> In(q, n, e) \/ (n = m.name /\ e = t + 1)
  BY <1>1, <1>2 DEF In
<1>5. \A K : Kinded(q, K) /\ m.kind = K[m.name] => Kinded(r, K)
  BY <1>1 DEF Kinded
<1>6. ASSUME Tidy(q)
      PROVE  Tidy(r)
  <2>1. Sorted(m.events)
    BY DEF Sorted
  <2>2. \A a \in DOMAIN r : Sorted(r[a].events)
    BY <1>1, <1>6, <2>1 DEF Tidy
  <2>3. ASSUME NEW a \in DOMAIN r, NEW b \in DOMAIN r, a < b, r[a].name = r[b].name
        PROVE  SortedPair(r[a].events, r[b].events)
    <3>1. CASE b \in DOMAIN q
      <4>1. a \in DOMAIN q
        BY <1>1, <2>3, <3>1
      <4> QED
        BY <1>1, <1>6, <2>3, <3>1, <4>1 DEF Tidy
    <3>2. CASE b = z
      <4>1. a \in DOMAIN q
        BY <1>1, <2>3, <3>2
      <4>2. \A i \in DOMAIN q[a].events : q[a].events[i] <= t /\ q[a].events[i] \in Nat
        BY <1>3, <4>1 DEF Holds, Has
      <4>3. \A j \in DOMAIN m.events : m.events[j] = t + 1
        OBVIOUS
      <4>4. \A i \in DOMAIN q[a].events, j \in DOMAIN m.events : ~(m.events[j] < q[a].events[i])
        BY <4>2, <4>3
      <4>5. SortedPair(q[a].events, m.events)
        BY <4>4, Zenon DEF SortedPair
      <4> QED
        BY <1>1, <3>2, <4>1, <4>5
    <3> QED
      BY <1>1, <3>1, <3>2
  <2> QED
    BY <2>2, <2>3 DEF Tidy
<1>7. ASSUME Single(q)
      PROVE  Single(r)
  <2>1. Inj(m.events)
    BY DEF Inj
  <2>2. \A a \in DOMAIN r : Inj(r[a].events)
    BY <1>1, <1>7, <2>1 DEF Single
  <2>3. \A a \in DOMAIN q : \A e : ~(Holds(q[a], e) /\ Holds(m, e))
    BY <1>2, <1>3
  <2>4. ASSUME NEW a \in DOMAIN r, NEW b \in DOMAIN r, NEW e \in Event, Holds(r[a], e), Holds(r[b], e)
        PROVE  a = b
    BY <1>1, <1>7, <2>3, <2>4 DEF Single
  <2> QED
    BY <2>2, <2>4 DEF Single
<1> QED
  BY <1>1, <1>4, <1>5, <1>6, <1>7 DEF r

(* Names beyond the first t do not matter. *)
LEMMA Renamed ==
  ASSUME NEW t \in Nat, NEW f, NEW g, \A e \in 1 .. t : f[e] = g[e]
  PROVE  /\ \A q \in Seq(Item) : Owns(q, f, t) => Owns(q, g, t)
         /\ \A s \in Seq(Event) : Upto(s, t) =>
              /\ Ordered(s, f) => Ordered(s, g)
              /\ \A K, p, q : InLine(K, p, q, s, f) => InLine(K, p, q, s, g)
<1>0. \A e \in Event : e <= t => f[e] = g[e]
  BY PipelineAssumption DEF Event
<1>1. ASSUME NEW q \in Seq(Item), Owns(q, f, t)
      PROVE  Owns(q, g, t)
  <2>1. \A n, e : In(q, n, e) => e \in Event
    BY EventsIn
  <2> QED
    BY <1>0, <1>1, <2>1 DEF Owns, Own
<1>2. ASSUME NEW s \in Seq(Event), Upto(s, t)
      PROVE  \A i \in DOMAIN s : f[s[i]] = g[s[i]]
  <2>1. \A i \in DOMAIN s : s[i] \in Event
    OBVIOUS
  <2> QED
    BY <1>0, <1>2, <2>1 DEF Upto
<1>3. ASSUME NEW s \in Seq(Event), Upto(s, t), Ordered(s, f)
      PROVE  Ordered(s, g)
  <2>1. \A j \in DOMAIN s : \A i \in 1 .. j - 1 : i \in DOMAIN s
    OBVIOUS
  <2> QED
    BY <1>2, <1>3, <2>1 DEF Ordered
<1>4. ASSUME NEW s \in Seq(Event), Upto(s, t), NEW q, Behind(q, s, f)
      PROVE  Behind(q, s, g)
  BY <1>2, <1>4 DEF Behind
<1> QED
  BY <1>1, <1>3, <1>4 DEF InLine

-----------------------------------------------------------------------------
(* The kinds of converted events. *)
Natural == [n \in Name |-> IF n \in Gauges THEN "gauge" ELSE "sum"]

Running == pc \in {"run", "flush", "sample"}

(* The channel holds the events behind the last one taken. *)
Channel ==
  /\ chan \in Seq(Event) /\ Len(named) <= MaxEvent /\ taken + Len(chan) = Len(named)
  /\ \A i \in DOMAIN chan : chan[i] = taken + i

(* emitTail has its window to itself. *)
Tails == (pc # "emit" => tail = << >>) /\ (pc = "emit" => agg = << >>)

Owners ==
  /\ Owns(pending, named, taken) /\ Owns(agg, named, taken) /\ Owns(tail, named, taken)
  /\ Upto(stored, taken)

(* While Run goes on the batcher stands behind the window, and both behind *)
(* the log; in emitTail the tail does.                                     *)
Lines ==
  /\ Running => InLine(Natural, agg, pending, stored, named)
  /\ pc = "emit" => InLine(Summary(Natural), agg, tail, stored, named)

Onces ==
  fails = 0 => /\ Inj(stored)
               /\ Running => Fresh(agg, pending, stored)
               /\ pc = "emit" => Fresh(agg, tail, stored)

Drains == pc \in {"sample", "emit", "done"} /\ fails = 0 => pending = << >>

Conserves == \A e \in 1 .. taken : Found(e, stored, pending, agg, lost) \/ e \in EventsOf(tail)

(* The inductive invariant. *)
Flows ==
  /\ TypeOK /\ Keyed(agg) /\ Channel /\ Tails /\ Owners
  /\ Lines /\ Ordered(stored, named) /\ Onces /\ Drains /\ Conserves

(* Booleans of the type invariant, for a prover each. *)
LEMMA TypeFacts ==
  ASSUME TypeOK, Keyed(agg)
  PROVE  /\ pending \in Seq(Item) /\ Len(pending) <= MaxPending /\ agg \in Seq(Item) /\ agg \in Serieses
         /\ tail \in Seq(Item) /\ stored \in Seq(Event) /\ lost \in Losses /\ fails \in 0 .. MaxFail
         /\ named \in Seq(Name) /\ taken \in Nat /\ taken <= Len(named) /\ Len(named) \in Nat
         /\ window \in Windows
BY DEF TypeOK, Serieses, Losses, Windows

(* What emit starts from while Run goes on. *)
LEMMA RunningReady ==
  ASSUME Flows, Running
  PROVE  Ready(pending, << >>, lost, taken, Natural)
<1>1. /\ pending \in Seq(Item) /\ lost \in Losses /\ tail = << >> /\ << >> \in Seq(Item)
      /\ Len(<< >>) <= MaxPending /\ EventsOf(tail) = {}
  <2>1. tail = << >>
    BY DEF Flows, Tails, Running
  <2>2. EventsOf(<< >>) = {}
    BY DEF EventsOf
  <2>3. pending \in Seq(Item) /\ lost \in Losses
    BY TypeFacts DEF Flows
  <2>4. Len(<< >>) <= MaxPending
    BY PipelineAssumption
  <2> QED
    BY <2>1, <2>2, <2>3, <2>4, EmptyFacts
<1>2. Owns(<< >>, named, taken)
  BY EmptyFacts DEF Owns, Own
<1> QED
  BY <1>1, <1>2 DEF Flows, Owners, Lines, Onces, Conserves, Ready

(* What emit leaves is the invariant again, where Run goes on. *)
LEMMA SentFlows ==
  ASSUME Flows, Sent(taken'), taken' \in 0 .. Len(named),
         mode' = mode, closed' = closed, stop' = stop, degraded' = degraded, named' = named,
         tail' = tail, tail = << >>, Len(chan') <= ChanCap, Channel',
         pc' \in {"run", "flush", "sample"}, InLine(Natural, agg', pending', stored', named),
         pc' = "sample" /\ fails' = 0 => pending' = << >>
  PROVE  Flows'
<1>1. /\ pending' \in Seq(Item) /\ Len(pending') <= MaxPending /\ agg' \in Seq(Item) /\ Keyed(agg')
      /\ stored' \in Seq(Event) /\ lost' \in Losses /\ fails' \in 0 .. MaxFail
      /\ window' \in Windows
  BY DEF Sent, Serieses
<1>2. {closed', stop', force', degraded'} \subseteq BOOLEAN
  <2>1. force' \in BOOLEAN
    BY Zenon DEF Sent
  <2>2. {closed, stop, degraded} \subseteq BOOLEAN
    BY Zenon DEF Flows, TypeOK
  <2> QED
    BY <2>1, <2>2, Zenon
<1>3. TypeOK'
  <2>1. mode \in Modes /\ tail \in Seq(Item) /\ named \in Seq(Name)
    BY DEF Flows, TypeOK
  <2>2. pc' \in {"run", "flush", "sample", "emit", "done"}
    OBVIOUS
  <2> QED
    BY <1>1, <1>2, <2>1, <2>2, Zenon DEF TypeOK, Losses, Windows
<1>4. Tails' /\ Running' /\ pc' # "emit"
  BY DEF Tails, Running
<1>5. Owns(<< >>, named, taken') /\ EventsOf(<< >>) = {}
  BY EmptyFacts DEF Owns, Own, EventsOf
<1>6. Owners' /\ Lines' /\ Ordered(stored', named') /\ Onces' /\ Conserves'
  BY <1>4, <1>5 DEF Owners, Lines, Onces, Conserves, Sent, Fresh
<1>7. Drains'
  BY DEF Drains
<1> QED
  BY <1>1, <1>3, <1>4, <1>6, <1>7 DEF Flows

(* The batcher takes the next event. *)
LEMMA Batched ==
  ASSUME Flows, Running, chan # << >>
  PROVE  LET more  == Append(pending, Convert(Head(chan)))
             l     == Losing(lost, "overflow", Overflow(more))
         IN /\ Head(chan) = taken + 1 /\ taken + 1 \in 0 .. Len(named)
            /\ Ready(Newest(more), << >>, l, taken + 1, Natural)
            /\ Len(Newest(more)) <= MaxPending
<1> DEFINE z == taken + 1
           m == Convert(z)
           more == Append(pending, m)
           q == Newest(more)
           l == Losing(lost, "overflow", Overflow(more))
<1>1. /\ pending \in Seq(Item) /\ agg \in Seq(Item) /\ stored \in Seq(Event) /\ lost \in Losses
      /\ named \in Seq(Name) /\ taken \in Nat /\ Len(named) \in Nat
  BY TypeFacts DEF Flows
<1>2. Head(chan) = z /\ z \in 1 .. Len(named) /\ z \in Event /\ named[z] \in Name
  <2>1. chan \in Seq(Event) /\ Len(chan) # 0 /\ Len(chan) \in Nat /\ Head(chan) = chan[1] /\ 1 \in DOMAIN chan
    BY EmptySeq DEF Flows, Channel
  <2>2. chan[1] = taken + 1 /\ taken + Len(chan) = Len(named) /\ Len(named) <= MaxEvent
    BY <2>1 DEF Flows, Channel
  <2>3. z \in 1 .. Len(named) /\ z \in Event
    <3>1. MaxEvent \in Nat
      BY PipelineAssumption
    <3>2. Len(chan) >= 1
      BY <2>1
    <3> QED
      BY <1>1, <2>1, <2>2, <3>1, <3>2 DEF Event
  <2> QED
    BY <1>1, <2>1, <2>2, <2>3
<1>3. m \in Item /\ m.name = named[z] /\ m.kind = Natural[m.name] /\ m.events = <<z>>
  <2>1. <<z>> \in Seq(Event)
    BY <1>2
  <2> QED
    BY <1>2, <2>1 DEF Convert, Item, Natural
<1> HIDE DEF m
<1>4. Ready(pending, << >>, lost, taken, Natural)
  BY RunningReady
<1>5. \A n, e : In(pending, n, e) => e <= taken /\ named[e] = n
  BY <1>4 DEF Ready, Owns, Own
<1>6. /\ more \in Seq(Item)
      /\ \A n, e : In(more, n, e) <=> In(pending, n, e) \/ (n = m.name /\ e = z)
      /\ \A K : Kinded(pending, K) /\ m.kind = K[m.name] => Kinded(more, K)
      /\ Tidy(pending) => Tidy(more)
      /\ Single(pending) => Single(more)
  BY <1>1, <1>3, <1>5, AppendFacts
<1> HIDE DEF more
<1>7. /\ q \in Seq(Item) /\ Len(q) <= MaxPending
      /\ \A n, e : In(q, n, e) => In(more, n, e)
      /\ \A n, e : In(more, n, e) => e \in EventsOf(q) \/ e \in Overflow(more)
      /\ Overflow(more) \subseteq EventsOf(more)
      /\ Tidy(more) => Tidy(q)
      /\ Single(more) => Single(q)
      /\ \A K : Kinded(more, K) => Kinded(q, K)
  BY <1>6, NewestFacts
<1> HIDE DEF q
<1>8. \A n, e : In(q, n, e) => In(pending, n, e) \/ (n = named[z] /\ e = z)
  BY <1>3, <1>6, <1>7
<1>9. /\ l \in Losses /\ \A e \in Overflow(more) : \E c \in Cause : e \in l[c]
      /\ \A e : (\E c \in Cause : e \in lost[c]) => \E c \in Cause : e \in l[c]
  <2>1. "overflow" \in Cause /\ Overflow(more) \in SUBSET Event
    BY <1>6, <1>7, EventsIn DEF Cause
  <2> QED
    BY <1>1, <2>1, LosingFacts
<1> HIDE DEF l
<1>10. Event \subseteq Nat /\ (\A n, e : In(agg, n, e) => e \in Event) /\ \A i \in DOMAIN stored : stored[i] \in Event
  BY <1>1, EventsIn, PipelineAssumption, SMTT(60) DEF Event
<1>11. /\ \A n, e : In(agg, n, e) => e <= taken /\ e \in Nat /\ named[e] = n
       /\ \A i \in DOMAIN stored : stored[i] <= taken /\ stored[i] \in Nat
  BY <1>4, <1>10 DEF Ready, Owns, Own, Upto
<1>12. Owns(q, named, z) /\ Owns(agg, named, z) /\ Owns(<< >>, named, z) /\ Upto(stored, z)
  <2>1. z <= z /\ \A n, e : In(pending, n, e) => e <= z
    <3>1. \A n, e : In(pending, n, e) => e \in Event
      BY <1>1, EventsIn
    <3>2. ASSUME NEW n, NEW e, In(pending, n, e)
          PROVE  e <= z
      <4>1. e \in Nat /\ e <= taken
        BY <1>5, <1>10, <3>1, <3>2
      <4> QED
        BY <1>1, <4>1
    <3>3. z <= z
      BY <1>1
    <3> QED
      BY <3>2, <3>3
  <2>2. Owns(q, named, z)
    BY <1>5, <1>8, <2>1 DEF Owns, Own
  <2>3. (\A n, e : In(agg, n, e) => e <= z) /\ \A i \in DOMAIN stored : stored[i] <= z
    BY <1>1, <1>11
  <2> QED
    BY <1>11, <2>2, <2>3, EmptyFacts DEF Owns, Own, Upto
<1>13. InLine(Natural, agg, q, stored, named)
  <2>0. InLine(Natural, agg, pending, stored, named)
    BY <1>4 DEF Ready
  <2>1. Kinded(q, Natural) /\ Tidy(q) /\ Kinded(agg, Natural) /\ Tidy(agg)
    BY <1>3, <1>6, <1>7, <2>0 DEF InLine, Queued
  <2>2. Precedes(agg, q)
    <3> SUFFICES ASSUME NEW n \in Name, NEW x \in Event, NEW y \in Event, In(agg, n, x), In(q, n, y), y < x
                 PROVE  In(agg, n, y)
      BY DEF Precedes
    <3>1. y # z
      BY <1>1, <1>11
    <3>2. In(pending, n, y)
      BY <1>8, <3>1
    <3> QED
      BY <2>0, <3>2 DEF InLine, Queued, Precedes
  <2>3. Behind(q, stored, named)
    <3> SUFFICES ASSUME NEW n, NEW y, In(q, n, y),
                        NEW i \in DOMAIN stored, named[stored[i]] = n, y < stored[i]
                 PROVE  Has(stored, y)
      BY DEF Behind
    <3>1. y # z
      BY <1>1, <1>11
    <3>2. In(pending, n, y)
      BY <1>8, <3>1
    <3> QED
      BY <2>0, <3>2 DEF InLine, Behind
  <2> QED
    BY <2>0, <2>1, <2>2, <2>3 DEF InLine, Queued
<1>14. ASSUME NEW e \in 1 .. z
       PROVE  Found(e, stored, q, agg, l)
  <2>1. e = z \/ e \in 1 .. taken
    BY <1>1
  <2>2. e \in EventsOf(pending) \/ e = z => Found(e, stored, q, agg, l)
    <3>1. e \in EventsOf(pending) \/ e = z => \E n : In(more, n, e)
      BY <1>1, <1>6, EventsIn
    <3> QED
      BY <1>7, <1>9, <3>1 DEF Found
  <2>3. e \in 1 .. taken => Found(e, stored, pending, agg, lost)
    <3>1. EventsOf(<< >>) = {}
      BY DEF EventsOf
    <3> QED
      BY <1>4, <3>1 DEF Ready
  <2> QED
    BY <1>9, <2>1, <2>2, <2>3 DEF Found
<1>15. ASSUME fails = 0
       PROVE  Fresh(agg, q, stored)
  <2>1. Fresh(agg, pending, stored)
    BY <1>4, <1>15 DEF Ready
  <2>2. (\A n : ~In(agg, n, z)) /\ ~Has(stored, z)
    BY <1>1, <1>11 DEF Has
  <2>3. Apart(agg, q)
    BY <1>8, <2>1, <2>2 DEF Fresh, Alone, Apart
  <2>4. Single(q)
    BY <1>6, <1>7, <2>1 DEF Fresh, Alone
  <2>5. \A n, e : In(agg, n, e) \/ In(q, n, e) => ~Has(stored, e)
    BY <1>8, <2>1, <2>2 DEF Fresh
  <2> QED
    BY <2>1, <2>3, <2>4, <2>5 DEF Fresh, Alone
<1>16. Ready(q, << >>, l, z, Natural)
  <2>1. Len(<< >>) <= MaxPending /\ << >> \in Seq(Item) /\ Ordered(stored, named)
    BY <1>4 DEF Ready
  <2> QED
    BY <1>7, <1>9, <1>12, <1>13, <1>14, <1>15, <2>1 DEF Ready
<1> QED
  BY <1>1, <1>2, <1>7, <1>16 DEF q, l, more, m

-----------------------------------------------------------------------------
(* The channel after a send and after a receive. *)
LEMMA SendChannel ==
  ASSUME Flows, Send
  PROVE  Channel' /\ named' \in Seq(Name) /\ taken' \in 0 .. Len(named')
         /\ \A e \in 1 .. taken : named'[e] = named[e]
<1>1. named \in Seq(Name) /\ taken \in Nat /\ Len(named) \in Nat /\ taken <= Len(named)
  BY TypeFacts DEF Flows
<1>2. /\ chan \in Seq(Event) /\ Len(chan) \in Nat /\ taken + Len(chan) = Len(named)
      /\ \A i \in DOMAIN chan : chan[i] = taken + i
  BY DEF Flows, Channel
<1>3. PICK n \in Name : named' = Append(named, n)
  BY DEF Send
<1>4. chan' = Append(chan, Len(named')) /\ taken' = taken /\ Len(named) < MaxEvent
  BY DEF Send
<1>5. /\ named' \in Seq(Name) /\ Len(named') = Len(named) + 1
      /\ \A e \in 1 .. taken : named'[e] = named[e]
  BY <1>1, <1>3
<1> DEFINE z == Len(named) + 1
<1>6. z \in Event /\ z = taken + (Len(chan) + 1)
  BY <1>1, <1>2, <1>4, PipelineAssumption, SMTT(60) DEF Event
<1>7. /\ chan' \in Seq(Event) /\ Len(chan') = Len(chan) + 1 /\ DOMAIN chan' = 1 .. Len(chan) + 1
      /\ chan'[Len(chan) + 1] = z
      /\ \A i \in DOMAIN chan : chan'[i] = chan[i]
      /\ DOMAIN chan = 1 .. Len(chan)
  <2> HIDE DEF z
  <2>1. chan' = Append(chan, z)
    BY <1>4, <1>5 DEF z
  <2> QED
    BY <1>2, <1>6, <2>1
<1>8. \A i \in DOMAIN chan' : chan'[i] = taken' + i
  BY <1>2, <1>4, <1>6, <1>7
<1>9. Len(named') <= MaxEvent /\ taken' + Len(chan') = Len(named') /\ taken' \in 0 .. Len(named')
  BY <1>1, <1>2, <1>4, <1>5, <1>7, PipelineAssumption, SMTT(60)
<1> QED
  BY <1>5, <1>7, <1>8, <1>9 DEF Channel

(* Taking an event from the channel leaves the rest numbered on from it. *)
LEMMA ReceiveChannel ==
  ASSUME Flows, Receive
  PROVE  Channel' /\ Len(chan') <= ChanCap
<1>1. chan # << >> /\ chan' = Tail(chan) /\ taken' = Head(chan) /\ named' = named
  BY DEF Receive
<1>2. /\ chan \in Seq(Event) /\ taken + Len(chan) = Len(named) /\ Len(named) <= MaxEvent
      /\ \A i \in DOMAIN chan : chan[i] = taken + i
      /\ Len(chan) <= ChanCap
  BY DEF Flows, Channel, TypeOK
<1>3. taken \in Nat /\ Len(named) \in Nat /\ ChanCap \in Nat
  BY TypeFacts, PipelineAssumption DEF Flows
<1>4. Len(chan) \in Nat /\ Len(chan) # 0 /\ Head(chan) = chan[1] /\ 1 \in DOMAIN chan
  BY <1>1, <1>2, EmptySeq
<1>5. taken' = taken + 1
  BY <1>1, <1>2, <1>4
<1>6. /\ chan' \in Seq(Event) /\ Len(chan') = Len(chan) - 1 /\ DOMAIN chan' = 1 .. Len(chan) - 1
      /\ \A i \in DOMAIN chan' : chan'[i] = chan[i + 1] /\ i + 1 \in DOMAIN chan
  BY <1>1, <1>2, <1>4
<1>7. \A i \in DOMAIN chan' : chan'[i] = taken' + i
  BY <1>2, <1>3, <1>5, <1>6
<1>8. taken' + Len(chan') = Len(named') /\ Len(chan') <= ChanCap
  BY <1>1, <1>2, <1>3, <1>4, <1>5, <1>6
<1> QED
  BY <1>1, <1>2, <1>6, <1>7, <1>8 DEF Channel

(* The plugins, Core.Run and the consumer do not disturb the pipeline. *)
LEMMA SendFlows ==
  ASSUME Flows, Send
  PROVE  Flows'
<1>1. /\ Len(chan) < ChanCap /\ chan' = Append(chan, Len(named')) /\ mode' = mode /\ closed' = closed
      /\ stop' = stop /\ pc' = pc /\ pending' = pending /\ window' = window /\ agg' = agg
      /\ force' = force /\ tail' = tail /\ degraded' = degraded /\ taken' = taken
      /\ stored' = stored /\ lost' = lost /\ fails' = fails
  BY DEF Send, sampling, history
<1>2. /\ Channel' /\ named' \in Seq(Name) /\ taken' \in 0 .. Len(named')
      /\ \A e \in 1 .. taken : named'[e] = named[e]
  BY SendChannel
<1>3. Len(chan') <= ChanCap
  <2>1. chan \in Seq(Event)
    BY DEF Flows, Channel
  <2> QED
    BY <1>1, <2>1, PipelineAssumption
<1>4. TypeOK'
  <2>1. {closed', stop', force', degraded'} \subseteq BOOLEAN
    BY <1>1, Zenon DEF Flows, TypeOK
  <2>2. /\ mode \in Modes /\ pc \in {"run", "flush", "sample", "emit", "done"}
        /\ pending \in Seq(Item) /\ Len(pending) <= MaxPending
        /\ agg \in Seq(Item) /\ tail \in Seq(Item) /\ window \in {"none", "summary", "degraded"}
        /\ stored \in Seq(Event) /\ lost \in [Cause -> SUBSET Event] /\ fails \in 0 .. MaxFail
    BY DEF Flows, TypeOK
  <2> QED
    BY <1>1, <1>2, <1>3, <2>1, <2>2, Zenon DEF TypeOK
<1>5. /\ \A q \in Seq(Item) : Owns(q, named, taken) => Owns(q, named', taken)
      /\ Upto(stored, taken) =>
           /\ Ordered(stored, named) => Ordered(stored, named')
           /\ \A K, p, q : InLine(K, p, q, stored, named) => InLine(K, p, q, stored, named')
  <2>1. taken \in Nat /\ stored \in Seq(Event)
    BY TypeFacts DEF Flows
  <2> QED
    BY <1>2, <2>1, Renamed
<1>6. Owners' /\ Lines' /\ Ordered(stored', named')
  <2>1. pending \in Seq(Item) /\ agg \in Seq(Item) /\ tail \in Seq(Item)
    BY TypeFacts DEF Flows
  <2> QED
    BY <1>1, <1>5, <2>1 DEF Flows, Owners, Lines, Running
<1>7. Keyed(agg') /\ Tails' /\ Onces' /\ Drains' /\ Conserves'
  BY <1>1 DEF Flows, Tails, Onces, Drains, Conserves, Running
<1> QED
  BY <1>2, <1>4, <1>6, <1>7 DEF Flows

(* Closing the channel, cancelling Run and the backpressure flag change none *)
(* of what the invariant relates.                                          *)
LEMMA SwitchFlows ==
  ASSUME Flows, CloseEvents \/ Shutdown \/ Backpressure
  PROVE  Flows'
<1>1. /\ chan' = chan /\ named' = named /\ mode' = mode
      /\ pc' = pc /\ pending' = pending /\ window' = window /\ agg' = agg
      /\ force' = force /\ tail' = tail /\ taken' = taken
      /\ stored' = stored /\ lost' = lost /\ fails' = fails
  BY DEF CloseEvents, Shutdown, Backpressure, plugins, sampling, history
<1>2. {closed', stop', force', degraded'} \subseteq BOOLEAN
  <2>1. closed \in BOOLEAN /\ stop \in BOOLEAN /\ force \in BOOLEAN /\ degraded \in BOOLEAN
    BY Zenon DEF Flows, TypeOK
  <2>2. CASE CloseEvents
    <3>1. closed' = TRUE /\ stop' = stop /\ force' = force /\ degraded' = degraded
      BY <2>2 DEF CloseEvents, sampling
    <3> QED
      BY <2>1, <3>1, Zenon
  <2>3. CASE Shutdown
    <3>1. closed' = closed /\ stop' = TRUE /\ force' = force /\ degraded' = degraded
      BY <2>3 DEF Shutdown, sampling, plugins
    <3> QED
      BY <2>1, <3>1, Zenon
  <2>4. CASE Backpressure
    <3>1. closed' = closed /\ stop' = stop /\ force' = force /\ degraded' = ~degraded
      BY <2>4 DEF Backpressure, sampling, plugins
    <3> QED
      BY <2>1, <3>1, Zenon
  <2> QED
    BY <2>2, <2>3, <2>4
<1>3. TypeOK'
  <2>1. /\ mode \in Modes /\ pc \in {"run", "flush", "sample", "emit", "done"} /\ Len(chan) <= ChanCap
        /\ pending \in Seq(Item) /\ Len(pending) <= MaxPending
        /\ agg \in Seq(Item) /\ tail \in Seq(Item) /\ window \in {"none", "summary", "degraded"}
        /\ named \in Seq(Name) /\ taken \in 0 .. Len(named)
        /\ stored \in Seq(Event) /\ lost \in [Cause -> SUBSET Event] /\ fails \in 0 .. MaxFail
    BY DEF Flows, TypeOK
  <2> QED
    BY <1>1, <1>2, <2>1, Zenon DEF TypeOK
<1>4. /\ Keyed(agg') /\ Tails' /\ Onces' /\ Drains' /\ Conserves' /\ Channel'
      /\ Owners' /\ Lines' /\ Ordered(stored', named')
  BY <1>1 DEF Flows, Tails, Onces, Drains, Conserves, Running, Channel, Owners, Lines
<1> QED
  BY <1>3, <1>4 DEF Flows

-----------------------------------------------------------------------------
(* The steps of Pipeline.Run. *)
LEMMA ReceiveFlows ==
  ASSUME Flows, Receive
  PROVE  Flows'
<1> DEFINE more == Append(pending, Convert(Head(chan)))
           q == Newest(more)
           l == Losing(lost, "overflow", Overflow(more))
<1>1. /\ pc = "run" /\ chan # << >> /\ taken' = Head(chan)
      /\ mode' = mode /\ closed' = closed /\ named' = named /\ stop' = stop /\ pc' = pc
      /\ tail' = tail /\ degraded' = degraded
  BY DEF Receive
<1>2. \/ Emit(q, << >>, l)
      \/ /\ pending' = q /\ lost' = l /\ window' = window /\ agg' = agg /\ force' = force
         /\ stored' = stored /\ fails' = fails
  BY DEF Receive, sampling
<1>3. Running /\ tail = << >>
  BY <1>1 DEF Running, Flows, Tails
<1>4. /\ Head(chan) = taken + 1 /\ taken + 1 \in 0 .. Len(named)
      /\ Ready(q, << >>, l, taken + 1, Natural) /\ Len(q) <= MaxPending
  BY <1>1, <1>3, Batched
<1>5. taken' = taken + 1 /\ taken' \in Nat /\ Channel' /\ Len(chan') <= ChanCap
  BY <1>1, <1>4, ReceiveChannel
<1> HIDE DEF q, l
<1>6. Sent(taken') /\ InLine(Natural, agg', pending', stored', named)
  <2>1. CASE Emit(q, << >>, l)
    <3>1. TypeOK /\ Keyed(agg) /\ Ready(q, << >>, l, taken', Natural)
      BY <1>4, <1>5 DEF Flows
    <3> QED
      BY <1>5, <2>1, <3>1, EmitSent
  <2>2. CASE /\ pending' = q /\ lost' = l /\ window' = window /\ agg' = agg /\ force' = force
             /\ stored' = stored /\ fails' = fails
    <3>1. /\ agg \in Serieses /\ stored \in Seq(Event) /\ fails \in 0 .. MaxFail /\ window \in Windows
      BY TypeFacts DEF Flows
    <3>2. force' \in BOOLEAN
      <4>1. force \in BOOLEAN /\ force' = force
        BY <2>2, Zenon DEF Flows, TypeOK
      <4> QED
        BY <4>1, Zenon
    <3>3. EventsOf(<< >>) = {}
      BY DEF EventsOf
    <3>4. /\ q \in Seq(Item) /\ l \in Losses /\ Owns(q, named, taken') /\ Owns(agg, named, taken')
          /\ Upto(stored, taken') /\ InLine(Natural, agg, q, stored, named) /\ Ordered(stored, named)
          /\ \A e \in 1 .. taken' : Found(e, stored, q, agg, l)
          /\ fails = 0 => Fresh(agg, q, stored)
      BY <1>4, <1>5, <3>3 DEF Ready
    <3>5. /\ pending' \in Seq(Item) /\ Len(pending') <= MaxPending /\ agg' \in Serieses
          /\ stored' \in Seq(Event) /\ lost' \in Losses /\ fails' \in 0 .. MaxFail
          /\ window' \in Windows
          /\ Owns(pending', named, taken') /\ Owns(agg', named, taken') /\ Upto(stored', taken')
          /\ Ordered(stored', named)
          /\ \A e \in 1 .. taken' : Found(e, stored', pending', agg', lost')
          /\ fails' = 0 => Fresh(agg', pending', stored')
      BY <1>4, <2>2, <3>1, <3>4
    <3> QED
      BY <2>2, <3>2, <3>4, <3>5, Zenon DEF Sent
  <2> QED
    BY <1>2, <2>1, <2>2
<1> QED
  BY <1>1, <1>3, <1>4, <1>5, <1>6, SentFlows

(* The flush of the batcher, by the ticker or as the first step of emitTail, *)
(* keeps the invariant.                                                    *)
LEMMA TickFlows ==
  ASSUME Flows, Tick \/ FlushBatcher
  PROVE  Flows'
<1>1. /\ Emit(pending, << >>, lost) /\ Running
      /\ (pc' = "run" \/ pc' = "sample")
      /\ mode' = mode /\ closed' = closed /\ named' = named /\ chan' = chan /\ stop' = stop
      /\ tail' = tail /\ degraded' = degraded /\ taken' = taken
  BY DEF Tick, FlushBatcher, plugins, Running
<1>2. Ready(pending, << >>, lost, taken, Natural) /\ TypeOK /\ Keyed(agg) /\ taken \in Nat
      /\ taken \in 0 .. Len(named) /\ tail = << >> /\ Len(chan) <= ChanCap
  BY <1>1, RunningReady, TypeFacts DEF Flows, TypeOK, Tails, Running
<1>3. /\ Sent(taken)
      /\ InLine(Natural, agg', pending', stored', named)
      /\ fails' = 0 => pending' = << >>
  BY <1>1, <1>2, EmitSent
<1>4. Channel' /\ Sent(taken') /\ taken' \in 0 .. Len(named) /\ Len(chan') <= ChanCap
  BY <1>1, <1>2, <1>3 DEF Flows, Channel
<1> QED
  BY <1>1, <1>2, <1>3, <1>4, SentFlows

(* Entering emitTail, which sets force, keeps the invariant. *)
LEMMA EndingFlows ==
  ASSUME Flows, Ending
  PROVE  Flows'
<1>1. /\ chan' = chan /\ named' = named /\ mode' = mode /\ closed' = closed /\ stop' = stop
      /\ pc = "run" /\ pc' = "flush" /\ pending' = pending /\ window' = window /\ agg' = agg
      /\ force' = TRUE /\ tail' = tail /\ taken' = taken /\ degraded' = degraded
      /\ stored' = stored /\ lost' = lost /\ fails' = fails
  BY DEF Ending, plugins, history
<1>2. {closed', stop', force', degraded'} \subseteq BOOLEAN
  BY <1>1, Zenon DEF Flows, TypeOK
<1>3. TypeOK'
  <2>1. /\ mode \in Modes /\ Len(chan) <= ChanCap
        /\ pending \in Seq(Item) /\ Len(pending) <= MaxPending
        /\ agg \in Seq(Item) /\ tail \in Seq(Item) /\ window \in {"none", "summary", "degraded"}
        /\ named \in Seq(Name) /\ taken \in 0 .. Len(named)
        /\ stored \in Seq(Event) /\ lost \in [Cause -> SUBSET Event] /\ fails \in 0 .. MaxFail
    BY DEF Flows, TypeOK
  <2>2. pc' \in {"run", "flush", "sample", "emit", "done"}
    BY <1>1
  <2> QED
    BY <1>1, <1>2, <2>1, <2>2, Zenon DEF TypeOK
<1>4. /\ Keyed(agg') /\ Tails' /\ Onces' /\ Drains' /\ Conserves' /\ Channel'
      /\ Owners' /\ Lines' /\ Ordered(stored', named')
  BY <1>1 DEF Flows, Tails, Onces, Drains, Conserves, Running, Channel, Owners, Lines
<1> QED
  BY <1>3, <1>4 DEF Flows

(* Sampling an empty batch hands on the window or leaves it. *)
LEMMA OutcomeEmpty ==
  ASSUME NEW series \in Serieses, NEW thru, NEW out, NEW left,
         Outcome(thru, series, << >>, out, left)
  PROVE  (out = << >> /\ left = series) \/ (out = Flush(series) /\ left = << >>)
<1>1. ASSUME NEW q \in Serieses
      PROVE  AddAll(q, << >>) = q
  <2>1. PICK f : Gathers(f, q, << >>)
    BY AddAllRun, EmptyFacts
  <2> QED
    BY <2>1 DEF Gathers
<1>2. << >> \in Serieses /\ series \in Seq(Item) /\ Flush(series) \in Seq(Item)
      /\ Flush(<< >>) = << >> /\ Flush(series) \o << >> = Flush(series)
  <2>1. << >> \in Serieses /\ << >> \in Seq(Item) /\ series \in Seq(Item)
    BY EmptyFacts DEF Serieses
  <2>2. Flush(series) \in Seq(Item) /\ Flush(<< >>) = << >>
    BY <2>1, FlushFacts
  <2> QED
    BY <2>1, <2>2, EmptyFacts
<1>3. AddAll(series, << >>) = series /\ AddAll(<< >>, << >>) = << >>
  BY <1>1, <1>2
<1> QED
  BY <1>2, <1>3, Zenon DEF Outcome

(* The forced flush of the window in emitTail keeps the invariant: the window *)
(* moves to the tail.                                                      *)
LEMMA FlushWindowFlows ==
  ASSUME Flows, FlushWindow
  PROVE  Flows'
<1>1. /\ chan' = chan /\ named' = named /\ mode' = mode /\ closed' = closed /\ stop' = stop
      /\ pc = "sample" /\ pending' = pending
      /\ taken' = taken /\ degraded' = degraded
      /\ stored' = stored /\ lost' = lost /\ fails' = fails
  BY DEF FlushWindow, plugins, history
<1>2. PICK due \in BOOLEAN :
        LET p == Process(<< >>, due)
        IN /\ window' = p.window /\ agg' = p.agg /\ force' = p.force
           /\ tail' = p.out
           /\ pc' = IF p.out = << >> THEN "done" ELSE "emit"
  BY Zenon DEF FlushWindow
<1>3. /\ Outcome(EffectiveWindow = "none", agg, << >>, tail', agg')
      /\ window' \in Windows /\ force' \in BOOLEAN
      /\ pc' = IF tail' = << >> THEN "done" ELSE "emit"
  <2> DEFINE p == Process(<< >>, due)
  <2>1. /\ window' = p.window /\ agg' = p.agg /\ force' = p.force
        /\ tail' = p.out
        /\ pc' = IF p.out = << >> THEN "done" ELSE "emit"
    BY <1>2, Zenon
  <2>2. mode \in Modes /\ window \in Windows /\ agg \in Serieses /\ << >> \in Seq(Item)
    BY TypeFacts, EmptyFacts DEF Flows, TypeOK
  <2>3. force \in BOOLEAN
    BY Zenon DEF Flows, TypeOK
  <2>4. /\ Outcome(EffectiveWindow = "none", agg, << >>, p.out, p.agg)
        /\ p.window \in Windows
        /\ p.force \in BOOLEAN
    BY <2>2, <2>3, ProcessCases, Zenon
  <2> HIDE DEF p
  <2> QED
    BY <2>1, <2>4, Zenon
<1>4. /\ agg \in Serieses /\ agg \in Seq(Item) /\ tail = << >> /\ Running /\ taken \in Nat
      /\ Flush(agg) \in Seq(Item) /\ (Flush(agg) = << >> <=> agg = << >>)
      /\ \A n, e : In(Flush(agg), n, e) <=> In(agg, n, e)
  <2>1. agg \in Serieses /\ agg \in Seq(Item) /\ tail = << >> /\ Running /\ taken \in Nat
    BY <1>1, TypeFacts DEF Flows, Tails, Running
  <2> QED
    BY <2>1, FlushFacts, SameFacts
<1>5. \/ tail' = << >> /\ agg' = agg /\ pc' = "done"
      \/ tail' = Flush(agg) /\ agg' = << >> /\ agg # << >> /\ pc' = "emit"
  BY <1>3, <1>4, OutcomeEmpty
<1>6. << >> \in Serieses /\ << >> \in Seq(Item) /\ Keyed(<< >>) /\ EventsOf(<< >>) = {}
      /\ Owns(<< >>, named, taken)
  BY EmptyFacts DEF Serieses, Owns, Own, EventsOf
<1>7. TypeOK'
  <2>1. {closed', stop', force', degraded'} \subseteq BOOLEAN
    BY <1>1, <1>3, Zenon DEF Flows, TypeOK
  <2>2. /\ mode \in Modes /\ Len(chan) <= ChanCap
        /\ pending \in Seq(Item) /\ Len(pending) <= MaxPending
        /\ named \in Seq(Name) /\ taken \in 0 .. Len(named)
        /\ stored \in Seq(Event) /\ lost \in [Cause -> SUBSET Event] /\ fails \in 0 .. MaxFail
    BY DEF Flows, TypeOK
  <2>3. agg' \in Seq(Item) /\ tail' \in Seq(Item) /\ pc' \in {"run", "flush", "sample", "emit", "done"}
    BY <1>4, <1>5, <1>6
  <2> QED
    BY <1>1, <1>3, <2>1, <2>2, <2>3, Zenon DEF TypeOK, Windows
<1>8. Keyed(agg') /\ Tails'
  BY <1>4, <1>5, <1>6 DEF Tails, Serieses
<1>9. Channel'
  BY <1>1 DEF Flows, Channel
<1>10. Owners'
  <2>1. Owns(Flush(agg), named, taken)
    BY <1>4 DEF Flows, Owners, Owns, Own
  <2> QED
    BY <1>1, <1>5, <1>6, <2>1 DEF Flows, Owners
<1>11. Lines' /\ Ordered(stored', named')
  <2>1. InLine(Natural, agg, pending, stored, named) /\ Ordered(stored, named)
    BY <1>4 DEF Flows, Lines
  <2>2. ASSUME pc' = "emit"
        PROVE  InLine(Summary(Natural), agg', tail', stored', named')
    <3>1. tail' = Flush(agg) /\ agg' = << >> /\ stored' = stored /\ named' = named
      BY <1>1, <1>5, <2>2
    <3>2. Kinded(Flush(agg), Summary(Natural)) /\ Tidy(Flush(agg))
      BY <1>4, <2>1, FlushFacts, SameFacts DEF InLine, Queued
    <3>3. Behind(Flush(agg), stored, named)
      BY <1>4, <2>1 DEF InLine, Behind
    <3>4. /\ Kinded(<< >>, Summary(Natural)) /\ Tidy(<< >>) /\ Precedes(<< >>, Flush(agg))
          /\ Behind(<< >>, stored, named)
      BY EmptyFacts DEF Behind
    <3>5. InLine(Summary(Natural), << >>, Flush(agg), stored, named)
      BY <3>2, <3>3, <3>4, Zenon DEF InLine, Queued
    <3> QED
      BY <3>1, <3>5, Zenon
  <2>3. ~Running'
    BY <1>5 DEF Running
  <2> QED
    BY <1>1, <2>1, <2>2, <2>3 DEF Lines
<1>12. Drains'
  BY <1>1, <1>5 DEF Flows, Drains
<1>13. Onces'
  <2>1. fails = 0 => Fresh(agg, pending, stored)
    BY <1>4 DEF Flows, Onces
  <2>2. ASSUME fails = 0
        PROVE  Fresh(<< >>, Flush(agg), stored)
    <3>1. Single(agg) /\ Inj(stored) /\ \A n, e : In(agg, n, e) => ~Has(stored, e)
      BY <2>1, <2>2 DEF Fresh, Alone
    <3>2. Single(Flush(agg))
      BY <1>4, <3>1, FlushFacts, SameFacts
    <3> QED
      BY <1>4, <3>1, <3>2, EmptyFacts DEF Fresh, Alone, Apart
  <2>3. fails = 0 => Inj(stored)
    BY <2>1 DEF Fresh
  <2> QED
    BY <1>1, <1>5, <2>2, <2>3 DEF Onces, Running
<1>14. Conserves'
  <2>1. EventsOf(Flush(agg)) = EventsOf(agg)
    BY <1>4, EventsIn
  <2>2. \A e \in 1 .. taken : Found(e, stored, pending, agg, lost)
    BY <1>4, <1>6 DEF Flows, Conserves
  <2> QED
    BY <1>1, <1>5, <1>6, <2>1, <2>2 DEF Conserves, Found
<1> QED
  BY <1>7, <1>8, <1>9, <1>10, <1>11, <1>12, <1>13, <1>14 DEF Flows

(* Emitting the tail, which may send it through the sampling stage again,  *)
(* keeps the invariant.                                                    *)
LEMMA EmitWindowFlows ==
  ASSUME Flows, EmitWindow
  PROVE  Flows'
<1>1. /\ chan' = chan /\ named' = named /\ mode' = mode /\ closed' = closed /\ stop' = stop
      /\ pc = "emit" /\ pc' = "done" /\ Emit(tail, pending, lost) /\ tail' = << >>
      /\ taken' = taken /\ degraded' = degraded
  BY DEF EmitWindow, plugins
<1>2. /\ tail \in Seq(Item) /\ pending \in Seq(Item) /\ Len(pending) <= MaxPending
      /\ lost \in Losses /\ taken \in Nat /\ TypeOK /\ Keyed(agg)
  BY TypeFacts DEF Flows
<1>3. Ready(tail, pending, lost, taken, Summary(Natural))
  <2>1. \A e \in 1 .. taken : Found(e, stored, tail, agg, lost) \/ e \in EventsOf(pending)
    BY DEF Flows, Conserves, Found
  <2>2. fails = 0 => pending = << >> /\ Fresh(agg, tail, stored)
    BY <1>1 DEF Flows, Drains, Onces
  <2>3. InLine(Summary(Natural), agg, tail, stored, named)
    BY <1>1 DEF Flows, Lines
  <2> QED
    BY <1>2, <2>1, <2>2, <2>3 DEF Ready, Flows, Owners
<1>4. Sent(taken) /\ (fails' = 0 => pending' = << >>)
  BY <1>1, <1>2, <1>3, EmitSent
<1>5. /\ pending' \in Seq(Item) /\ Len(pending') <= MaxPending /\ agg' \in Seq(Item) /\ Keyed(agg')
      /\ stored' \in Seq(Event) /\ lost' \in Losses /\ fails' \in 0 .. MaxFail
      /\ window' \in Windows
  BY <1>4 DEF Sent, Serieses
<1>6. TypeOK'
  <2>1. {closed', stop', force', degraded'} \subseteq BOOLEAN
    <3>1. force' \in BOOLEAN
      BY <1>4, Zenon DEF Sent
    <3> QED
      BY <1>1, <3>1, Zenon DEF Flows, TypeOK
  <2>2. /\ mode \in Modes /\ Len(chan) <= ChanCap
        /\ named \in Seq(Name) /\ taken \in 0 .. Len(named)
    BY DEF Flows, TypeOK
  <2>3. tail' \in Seq(Item) /\ pc' \in {"run", "flush", "sample", "emit", "done"}
    BY <1>1, EmptyFacts
  <2> QED
    BY <1>1, <1>5, <2>1, <2>2, <2>3, Zenon DEF TypeOK, Losses, Windows
<1>7. Tails' /\ Lines' /\ Drains' /\ ~Running'
  BY <1>1, <1>4 DEF Tails, Lines, Running, Drains
<1>8. Channel'
  BY <1>1 DEF Flows, Channel
<1>9. Owns(<< >>, named, taken)
  BY EmptyFacts DEF Owns, Own
<1>10. Owners' /\ Ordered(stored', named') /\ Onces' /\ Conserves'
  BY <1>1, <1>4, <1>7, <1>9 DEF Sent, Owners, Onces, Conserves, Fresh
<1> QED
  BY <1>5, <1>6, <1>7, <1>8, <1>10 DEF Flows

(* The invariant holds at the start. *)
LEMMA InitFlows ==
  ASSUME Init
  PROVE  Flows
<1>1. /\ mode \in Modes /\ chan = << >> /\ pc = "run" /\ pending = << >> /\ window = "none"
      /\ agg = << >> /\ tail = << >> /\ named = << >> /\ taken = 0 /\ stored = << >>
      /\ lost = [c \in Cause |-> {}] /\ fails = 0
  BY DEF Init
<1>2. {closed, stop, force, degraded} \subseteq BOOLEAN
  BY Zenon DEF Init
<1>3. << >> \in Seq(Item) /\ Keyed(<< >>) /\ << >> \in Seq(Event) /\ << >> \in Seq(Name)
      /\ Len(<< >>) = 0 /\ DOMAIN << >> = {} /\ 1 .. 0 = {} /\ 0 \in 0 .. 0
      /\ 0 <= ChanCap /\ 0 <= MaxPending /\ 0 <= MaxEvent /\ 0 \in 0 .. MaxFail /\ 0 + 0 = 0
  BY PipelineAssumption, EmptyFacts DEF Serieses
<1>4. TypeOK
  <2>1. lost \in [Cause -> SUBSET Event]
    BY <1>1
  <2> QED
    BY <1>1, <1>2, <1>3, <2>1, Zenon DEF TypeOK
<1>5. Channel /\ Tails /\ Drains
  BY <1>1, <1>3 DEF Channel, Tails, Drains
<1>6. Owners /\ Ordered(stored, named) /\ Conserves
  BY <1>1, <1>3, EmptyFacts DEF Owners, Owns, Own, Upto, Ordered, Conserves
<1>7. Lines
  BY <1>1, <1>3, EmptyFacts DEF Lines, InLine, Queued, Behind
<1>8. Onces
  BY <1>1, <1>3, EmptyFacts DEF Onces, Fresh, Alone, Apart, Inj, Has
<1> QED
  BY <1>1, <1>3, <1>4, <1>5, <1>6, <1>7, <1>8 DEF Flows

(* Every step of every goroutine keeps the invariant. *)
THEOREM Inductive == Spec => []Flows
<1>1. Init => Flows
  BY InitFlows
<1>2. Flows /\ [Next]_vars => Flows'
  <2> SUFFICES ASSUME Flows, [Next]_vars
               PROVE  Flows'
    OBVIOUS
  <2>1. CASE UNCHANGED vars
    <3>1. /\ chan' = chan /\ named' = named /\ mode' = mode /\ closed' = closed /\ stop' = stop
          /\ pc' = pc /\ pending' = pending /\ window' = window /\ agg' = agg
          /\ force' = force /\ tail' = tail /\ taken' = taken /\ degraded' = degraded
          /\ stored' = stored /\ lost' = lost /\ fails' = fails
      BY <2>1 DEF vars, plugins, sampling, history
    <3>2. /\ TypeOK' /\ Keyed(agg') /\ Tails' /\ Onces' /\ Drains' /\ Conserves' /\ Channel'
          /\ Owners' /\ Lines' /\ Ordered(stored', named')
      BY <3>1 DEF Flows, TypeOK, Tails, Onces, Drains, Conserves, Running, Channel, Owners, Lines
    <3> QED
      BY <3>2 DEF Flows
  <2>2. CASE Done
    BY <2>1, <2>2 DEF Done
  <2> QED
    BY <2>1, <2>2, SendFlows, SwitchFlows, ReceiveFlows, TickFlows, EndingFlows,
       FlushWindowFlows, EmitWindowFlows DEF Next
<1> QED
  BY <1>1, <1>2, PTL DEF Spec

(* Every variable keeps its type: in particular the batcher never holds    *)
(* more than b.maxPending metrics.                                         *)
THEOREM TypeCorrect == Spec => []TypeOK
<1>1. Flows => TypeOK
  BY DEF Flows
<1> QED
  BY <1>1, Inductive, PTL

(* No event taken from the channel vanishes without a named loss, across   *)
(* batching, sampling, merging, requeueing and the tail flush.             *)
THEOREM NothingVanishes == Spec => []Conserved
<1>1. Flows => Conserved
  <2> SUFFICES ASSUME Flows, NEW e \in 1 .. taken
               PROVE  e \in ToSet(stored) \cup EventsOf(pending) \cup EventsOf(agg) \cup EventsOf(tail) \cup Lost
    BY DEF Conserved
  <2>1. Found(e, stored, pending, agg, lost) \/ e \in EventsOf(tail)
    BY DEF Flows, Conserves
  <2>2. Has(stored, e) => e \in ToSet(stored)
    BY DEF Has, ToSet
  <2>3. (\E c \in Cause : e \in lost[c]) => e \in Lost
    BY DEF Lost
  <2> QED
    BY <2>1, <2>2, <2>3 DEF Found
<1> QED
  BY <1>1, Inductive, PTL

(* While the sink has not failed no event is stored twice. *)
THEOREM StoredOnce == Spec => []AtMostOnce
<1>1. Flows => AtMostOnce
  BY DEF Flows, Onces, Inj, AtMostOnce
<1> QED
  BY <1>1, Inductive, PTL

(* The events of one name are first stored in the order they were taken,   *)
(* whatever the sampling mode does, and however often the sink fails.      *)
THEOREM StoredInOrder == Spec => []InOrder
<1>1. Flows => InOrder
  BY DEF Flows, Ordered, InOrder
<1> QED
  BY <1>1, Inductive, PTL

(* A run without failures of the sink ends with an empty batcher. *)
THEOREM EndsDrained == Spec => []Drained
<1>1. Flows => Drained
  BY DEF Flows, Drains, Drained
<1> QED
  BY <1>1, Inductive, PTL
=============================================================================
