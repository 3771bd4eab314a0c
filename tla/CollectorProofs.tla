--------------------------- MODULE CollectorProofs ---------------------------
(***************************************************************************)
(* Proofs about Collector, for any number of CPUs, samples, requests,      *)
(* ticks, handlers and batches.                                            *)
(***************************************************************************)
EXTENDS Collector, DataInduction, FiniteSetTheorems

-----------------------------------------------------------------------------
(* Sums over finite sets.  The per-CPU cells of a map's element, the       *)
(* deltas on their way to the server and those in the handlers' hands are  *)
(* added up with the folds of the community modules.                       *)

(* Induction over the subsets of a finite set: what holds of a set         *)
(* whenever it holds of the set without any one of its elements.           *)
LEMMA SubsetInduction ==
  ASSUME NEW S, IsFiniteSet(S), NEW T,
         \A s \in SUBSET S : (\A x \in s : s \ {x} \in T) => s \in T
  PROVE  SUBSET S \subseteq T
<1> DEFINE n == Cardinality(S)
           Good == {m \in Nat : \A s \in SUBSET S : Cardinality(s) = m => s \in T}
<1>1. n \in Nat
  BY FS_CardinalityType
<1>2. \A s \in SUBSET S : IsFiniteSet(s) /\ Cardinality(s) \in 0 .. n
  BY FS_Subset, FS_CardinalityType
<1>3. 0 \in Good
  <2> SUFFICES ASSUME NEW s \in SUBSET S, Cardinality(s) = 0
               PROVE  s \in T
    OBVIOUS
  <2>1. s = {}
    BY <1>2, FS_EmptySet
  <2> QED
    BY <2>1
<1>4. ASSUME NEW m \in 1 .. n, m - 1 \in Good
      PROVE  m \in Good
  <2> SUFFICES ASSUME NEW s \in SUBSET S, Cardinality(s) = m
               PROVE  s \in T
    OBVIOUS
  <2>1. ASSUME NEW x \in s
        PROVE  s \ {x} \in T
    <3>1. Cardinality(s \ {x}) = m - 1 /\ s \ {x} \in SUBSET S
      BY <1>2, FS_RemoveElement
    <3> QED
      BY <1>4, <3>1
  <2> QED
    BY <2>1
<1>5. 0 .. n \subseteq Good
  <2> HIDE DEF n, Good
  <2> QED
    BY <1>1, <1>3, <1>4, Upward
<1> QED
  BY <1>2, <1>5

Choice(s) == CHOOSE x \in s : TRUE

(* g adds up f over the subsets of S, one chosen element after the other.  *)
Adds(f, S, g) ==
  g = [s \in SUBSET S |-> IF s = {} THEN 0 ELSE f[Choice(s)] + g[s \ {Choice(s)}]]

(* Two such functions agree where what they add agrees. *)
LEMMA AddsAgree ==
  ASSUME NEW S, NEW R, NEW f, NEW h, NEW g, NEW e, Adds(f, S, g), Adds(h, R, e),
         NEW U, U \subseteq S, U \subseteq R, IsFiniteSet(U), \A x \in U : f[x] = h[x]
  PROVE  g[U] = e[U]
<1> DEFINE T == {s \in SUBSET U : g[s] = e[s]}
<1>1. ASSUME NEW s \in SUBSET U, \A x \in s : s \ {x} \in T
      PROVE  s \in T
  <2>1. s \in SUBSET S /\ s \in SUBSET R
    OBVIOUS
  <2>2. CASE s = {}
    <3>1. g[s] = 0
      BY <2>1, <2>2 DEF Adds
    <3>2. e[s] = 0
      BY <2>1, <2>2 DEF Adds
    <3> QED
      BY <3>1, <3>2
  <2>3. CASE s # {}
    <3>1. Choice(s) \in s
      BY <2>3 DEF Choice
    <3>2. g[s] = f[Choice(s)] + g[s \ {Choice(s)}]
      BY <2>1, <2>3 DEF Adds
    <3>3. e[s] = h[Choice(s)] + e[s \ {Choice(s)}]
      BY <2>1, <2>3 DEF Adds
    <3>4. f[Choice(s)] = h[Choice(s)] /\ g[s \ {Choice(s)}] = e[s \ {Choice(s)}]
      BY <1>1, <3>1
    <3> QED
      BY <3>2, <3>3, <3>4
  <2> QED
    BY <2>2, <2>3
<1>2. SUBSET U \subseteq T
  <2> HIDE DEF T
  <2> QED
    BY <1>1, SubsetInduction
<1> QED
  BY <1>2

(* The partial sums of natural numbers are natural numbers. *)
LEMMA AddsNat ==
  ASSUME NEW S, IsFiniteSet(S), NEW f, \A x \in S : f[x] \in Nat, NEW g, Adds(f, S, g)
  PROVE  \A s \in SUBSET S : g[s] \in Nat
<1> DEFINE T == {s \in SUBSET S : g[s] \in Nat}
<1>1. ASSUME NEW s \in SUBSET S, \A x \in s : s \ {x} \in T
      PROVE  s \in T
  <2>1. CASE s = {}
    BY <2>1 DEF Adds
  <2>2. CASE s # {}
    <3>1. Choice(s) \in s
      BY <2>2 DEF Choice
    <3>2. g[s] = f[Choice(s)] + g[s \ {Choice(s)}]
      BY <2>2 DEF Adds
    <3>3. f[Choice(s)] \in Nat /\ g[s \ {Choice(s)}] \in Nat
      BY <1>1, <3>1
    <3> QED
      BY <3>2, <3>3
  <2> QED
    BY <2>1, <2>2
<1>2. SUBSET S \subseteq T
  <2> HIDE DEF T
  <2> QED
    BY <1>1, SubsetInduction
<1> QED
  BY <1>2

(* The order does not matter: any element may be taken first. *)
LEMMA AddsAny ==
  ASSUME NEW S, IsFiniteSet(S), NEW f, \A x \in S : f[x] \in Nat, NEW g, Adds(f, S, g)
  PROVE  \A s \in SUBSET S : \A x \in s : g[s] = f[x] + g[s \ {x}]
<1> DEFINE T == {s \in SUBSET S : \A x \in s : g[s] = f[x] + g[s \ {x}]}
<1>1. ASSUME NEW s \in SUBSET S, \A x \in s : s \ {x} \in T
      PROVE  s \in T
  <2> SUFFICES ASSUME NEW x \in s
               PROVE  g[s] = f[x] + g[s \ {x}]
    OBVIOUS
  <2> DEFINE y == Choice(s)
  <2>1. y \in s
    BY DEF Choice
  <2>2. g[s] = f[y] + g[s \ {y}]
    BY DEF Adds
  <2>3. CASE x = y
    BY <2>2, <2>3
  <2>4. CASE x # y
    <3> HIDE DEF y
    <3>1. g[s \ {y}] = f[x] + g[(s \ {y}) \ {x}]
      BY <1>1, <2>1, <2>4
    <3>2. g[s \ {x}] = f[y] + g[(s \ {x}) \ {y}]
      BY <1>1, <2>1, <2>4
    <3>3. (s \ {y}) \ {x} = (s \ {x}) \ {y}
      OBVIOUS
    <3>4. f[x] \in Nat /\ f[y] \in Nat /\ g[(s \ {x}) \ {y}] \in Nat
      BY <2>1, AddsNat
    <3> QED
      BY <2>2, <3>1, <3>2, <3>3, <3>4
  <2> QED
    BY <2>3, <2>4
<1>2. SUBSET S \subseteq T
  <2> HIDE DEF T
  <2> QED
    BY <1>1, SubsetInduction
<1> QED
  BY <1>2

(* A function that adds up f exists: repeating the defining step as often  *)
(* as S has elements reaches it.                                           *)
LEMMA AddsExist ==
  ASSUME NEW S, IsFiniteSet(S), NEW f \in [S -> Nat]
  PROVE  \E g : Adds(f, S, g)
<1> DEFINE D == [SUBSET S -> Nat]
           Next1(e) == [s \in SUBSET S |-> IF s = {} THEN 0 ELSE f[Choice(s)] + e[s \ {Choice(s)}]]
           F == [i \in Nat |-> [e \in D |-> Next1(e)]]
           zero == [s \in SUBSET S |-> 0]
           n == Cardinality(S)
<1>1. n \in Nat /\ n + 1 \in Nat
  BY FS_CardinalityType
<1>2. \A s \in SUBSET S : s # {} => Choice(s) \in s /\ s \ {Choice(s)} \in SUBSET S
  BY DEF Choice
<1>3. ASSUME NEW e \in D
      PROVE  Next1(e) \in D
  <2>1. ASSUME NEW s \in SUBSET S, s # {}
        PROVE  f[Choice(s)] + e[s \ {Choice(s)}] \in Nat
    <3>1. f[Choice(s)] \in Nat /\ e[s \ {Choice(s)}] \in Nat
      BY <1>2, <2>1
    <3> QED
      BY <3>1
  <2> QED
    BY <2>1
<1>4. F \in [Nat -> [D -> D]]
  <2> HIDE DEF Next1, D
  <2> QED
    BY <1>3
<1>5. zero \in D
  OBVIOUS
<1>6. PICK r \in [0 .. n + 1 -> D] : Runs(r, n + 1, zero, F)
  <2> HIDE DEF D, F, zero, n
  <2> QED
    BY <1>1, <1>4, <1>5, Recursion
<1>7. \A i \in 1 .. n + 1 : r[i] = Next1(r[i - 1])
  <2> SUFFICES ASSUME NEW i \in 1 .. n + 1
               PROVE  r[i] = Next1(r[i - 1])
    OBVIOUS
  <2>1. i \in Nat /\ i - 1 \in 0 .. n + 1
    BY <1>1
  <2>2. r[i - 1] \in D
    BY <2>1
  <2>3. r[i] = F[i][r[i - 1]]
    BY <1>6 DEF Runs
  <2> HIDE DEF D, Next1
  <2> QED
    BY <2>1, <2>2, <2>3
<1>8. r[0] = zero
  BY <1>6 DEF Runs
<1> DEFINE Good == {i \in Nat : i <= n => \A s \in SUBSET S : Cardinality(s) <= i => r[i + 1][s] = r[i][s]}
<1>9. \A s \in SUBSET S : Cardinality(s) \in Nat /\ Cardinality(s) <= n
  BY FS_Subset, FS_CardinalityType
<1>17. \A s \in SUBSET S : Cardinality(s) = 0 => s = {}
  BY FS_Subset, FS_EmptySet
<1>18. \A s \in SUBSET S : s # {} => Cardinality(s \ {Choice(s)}) = Cardinality(s) - 1
  BY <1>2, FS_Subset, FS_RemoveElement
<1>10. 0 \in Good
  <2> SUFFICES ASSUME NEW s \in SUBSET S, Cardinality(s) <= 0
               PROVE  r[0 + 1][s] = r[0][s]
    OBVIOUS
  <2>1. s = {}
    <3>1. Cardinality(s) \in Nat
      BY <1>9
    <3>2. Cardinality(s) = 0
      BY <3>1
    <3> QED
      BY <1>17, <3>2
  <2>2. r[1] = Next1(r[0])
    <3>1. 1 \in 1 .. n + 1 /\ 1 - 1 = 0
      BY <1>1
    <3> HIDE DEF Next1, n
    <3> QED
      BY <1>7, <3>1
  <2>3. r[1][s] = 0
    BY <2>1, <2>2
  <2>4. r[0][s] = 0
    BY <1>8
  <2> QED
    BY <2>3, <2>4
<1>11. ASSUME NEW i \in 1 .. n, i - 1 \in Good
       PROVE  i \in Good
  <2> SUFFICES ASSUME NEW s \in SUBSET S, Cardinality(s) <= i
               PROVE  r[i + 1][s] = r[i][s]
    BY <1>1
  <2>1. r[i + 1] = Next1(r[i]) /\ r[i] = Next1(r[i - 1])
    <3>1. i + 1 \in 1 .. n + 1 /\ i \in 1 .. n + 1 /\ (i + 1) - 1 = i
      BY <1>1
    <3> HIDE DEF Next1, n
    <3> QED
      BY <1>7, <3>1
  <2>2. CASE s = {}
    BY <2>1, <2>2
  <2>3. CASE s # {}
    <3>1. r[i + 1][s] = f[Choice(s)] + r[i][s \ {Choice(s)}]
      BY <2>1, <2>3
    <3>2. r[i][s] = f[Choice(s)] + r[i - 1][s \ {Choice(s)}]
      BY <2>1, <2>3
    <3>3. s \ {Choice(s)} \in SUBSET S /\ Cardinality(s \ {Choice(s)}) <= i - 1
      <4>1. Cardinality(s) \in Nat /\ Cardinality(s \ {Choice(s)}) = Cardinality(s) - 1
        BY <1>9, <1>18, <2>3
      <4> QED
        BY <4>1
    <3>4. r[(i - 1) + 1][s \ {Choice(s)}] = r[i - 1][s \ {Choice(s)}]
      <4>1. i - 1 <= n
        BY <1>1
      <4> QED
        BY <1>11, <3>3, <4>1
    <3>5. (i - 1) + 1 = i
      OBVIOUS
    <3> QED
      BY <3>1, <3>2, <3>4, <3>5
  <2> QED
    BY <2>2, <2>3
<1>12. 0 .. n \subseteq Good
  <2> HIDE DEF n, Good
  <2> QED
    BY <1>1, <1>10, <1>11, Upward
<1>13. \A s \in SUBSET S : r[n + 1][s] = r[n][s]
  <2>1. n \in Good
    BY <1>1, <1>12
  <2>2. \A s \in SUBSET S : Cardinality(s) <= n
    BY <1>9
  <2>3. n <= n
    BY <1>1
  <2> HIDE DEF n
  <2> QED
    BY <2>1, <2>2, <2>3
<1>14. r[n + 1] = Next1(r[n])
  <2>1. n + 1 \in 1 .. n + 1 /\ (n + 1) - 1 = n
    BY <1>1
  <2> HIDE DEF Next1, n
  <2> QED
    BY <1>7, <2>1
<1>15. r[n] = r[n + 1]
  <2>1. r[n] \in D /\ r[n + 1] \in D
    <3>1. n \in 0 .. n + 1 /\ n + 1 \in 0 .. n + 1
      BY <1>1
    <3> HIDE DEF D, n
    <3> QED
      BY <3>1
  <2> QED
    BY <1>13, <2>1
<1>16. Adds(f, S, r[n])
  BY <1>14, <1>15 DEF Adds
<1> QED
  BY <1>16

(* The sum of f over S, as MapThenSumSet of the community modules has it.  *)
Sum(f, S) == MapThenSumSet(LAMBDA c : f[c], S)

(* It is the last of the partial sums. *)
LEMMA SumAdds ==
  ASSUME NEW S, IsFiniteSet(S), NEW f \in [S -> Nat]
  PROVE  \E g : Adds(f, S, g) /\ Sum(f, S) = g[S]
<1>1. PICK g : Adds(f, S, g)
  BY AddsExist
<1>2. \E e : e = [s \in SUBSET S |-> IF s = {} THEN 0 ELSE f[CHOOSE x \in s : TRUE] +
                                     e[s \ {CHOOSE x \in s : TRUE}]]
  BY <1>1 DEF Adds, Choice
<1> QED
  BY <1>2 DEF Adds, Choice, Sum, MapThenSumSet, MapThenFoldSet

(* Whatever adds up f ends with the sum. *)
LEMMA SumIs ==
  ASSUME NEW S, IsFiniteSet(S), NEW f \in [S -> Nat], NEW g, Adds(f, S, g)
  PROVE  g[S] = Sum(f, S)
BY SumAdds, AddsAgree

(* A sum of natural numbers is one, and it is zero if they all are. *)
LEMMA SumNat ==
  ASSUME NEW S, IsFiniteSet(S), NEW f \in [S -> Nat]
  PROVE  Sum(f, S) \in Nat
BY SumAdds, AddsNat

(* The sum over the empty set. *)
LEMMA SumEmpty ==
  ASSUME NEW f \in [{} -> Nat]
  PROVE  Sum(f, {}) = 0
<1>1. IsFiniteSet({})
  BY FS_EmptySet
<1>2. PICK g : Adds(f, {}, g) /\ Sum(f, {}) = g[{}]
  BY <1>1, SumAdds
<1> QED
  BY <1>2 DEF Adds

(* One element's share comes out of the sum. *)
LEMMA SumSplit ==
  ASSUME NEW S, IsFiniteSet(S), NEW f \in [S -> Nat], NEW x \in S,
         NEW h \in [S \ {x} -> Nat], \A y \in S \ {x} : h[y] = f[y]
  PROVE  Sum(f, S) = f[x] + Sum(h, S \ {x})
<1>1. PICK g : Adds(f, S, g) /\ Sum(f, S) = g[S]
  BY SumAdds
<1>2. IsFiniteSet(S \ {x})
  BY FS_RemoveElement
<1>3. PICK e : Adds(h, S \ {x}, e) /\ Sum(h, S \ {x}) = e[S \ {x}]
  BY <1>2, SumAdds
<1>4. g[S] = f[x] + g[S \ {x}]
  BY <1>1, AddsAny
<1>5. g[S \ {x}] = e[S \ {x}]
  BY <1>1, <1>2, <1>3, AddsAgree
<1> QED
  BY <1>1, <1>3, <1>4, <1>5

(* Changing one share changes the sum by as much. *)
LEMMA SumUpdate ==
  ASSUME NEW S, IsFiniteSet(S), NEW f \in [S -> Nat], NEW h \in [S -> Nat],
         NEW x \in S, \A y \in S : y # x => h[y] = f[y]
  PROVE  /\ Sum(h, S) = Sum(f, S) - f[x] + h[x]
         /\ Sum(f, S) >= f[x]
<1> DEFINE r == [y \in S \ {x} |-> f[y]]
<1>1. r \in [S \ {x} -> Nat] /\ \A y \in S \ {x} : r[y] = f[y] /\ r[y] = h[y]
  OBVIOUS
<1>2. IsFiniteSet(S \ {x})
  BY FS_RemoveElement
<1> HIDE DEF r
<1>3. Sum(r, S \ {x}) \in Nat
  BY <1>1, <1>2, SumNat
<1>4. Sum(f, S) = f[x] + Sum(r, S \ {x})
  BY <1>1, SumSplit
<1>5. Sum(h, S) = h[x] + Sum(r, S \ {x})
  BY <1>1, SumSplit
<1>6. f[x] \in Nat /\ h[x] \in Nat
  OBVIOUS
<1> QED
  BY <1>3, <1>4, <1>5, <1>6

(* Nothing adds up to nothing. *)
LEMMA SumZero ==
  ASSUME NEW S, IsFiniteSet(S), NEW f \in [S -> Nat], \A x \in S : f[x] = 0
  PROVE  Sum(f, S) = 0
<1>1. PICK g : Adds(f, S, g) /\ Sum(f, S) = g[S]
  BY SumAdds
<1> DEFINE T == {s \in SUBSET S : g[s] = 0}
<1>2. ASSUME NEW s \in SUBSET S, \A x \in s : s \ {x} \in T
      PROVE  s \in T
  <2>1. CASE s = {}
    BY <1>1, <2>1 DEF Adds
  <2>2. CASE s # {}
    <3>1. Choice(s) \in s
      BY <2>2 DEF Choice
    <3>2. g[s] = f[Choice(s)] + g[s \ {Choice(s)}]
      BY <1>1, <2>2 DEF Adds
    <3> QED
      BY <1>2, <3>1, <3>2
  <2> QED
    BY <2>1, <2>2
<1>3. SUBSET S \subseteq T
  <2> HIDE DEF T
  <2> QED
    BY <1>2, SubsetInduction
<1> QED
  BY <1>1, <1>3

(* A further element at the end of a sequence. *)
LEMMA SumAppend ==
  ASSUME NEW n \in Nat, NEW f \in [1 .. n -> Nat], NEW h \in [1 .. n + 1 -> Nat],
         \A i \in 1 .. n : h[i] = f[i]
  PROVE  Sum(h, 1 .. n + 1) = Sum(f, 1 .. n) + h[n + 1]
<1>1. IsFiniteSet(1 .. n + 1) /\ IsFiniteSet(1 .. n)
  BY FS_Interval
<1>2. n + 1 \in 1 .. n + 1 /\ (1 .. n + 1) \ {n + 1} = 1 .. n
  OBVIOUS
<1>3. Sum(h, 1 .. n + 1) = h[n + 1] + Sum(f, 1 .. n)
  BY <1>1, <1>2, SumSplit
<1>4. Sum(f, 1 .. n) \in Nat /\ h[n + 1] \in Nat
  BY <1>1, <1>2, SumNat
<1> QED
  BY <1>3, <1>4

(* log2_slot: the shift ladder finds the bucket. *)

Pow(i) == 2 ^ i

(* The powers of two up to the last rung. *)
LEMMA PowTable ==
  /\ Pow(0) = 1 /\ Pow(1) = 2 /\ Pow(2) = 4 /\ Pow(3) = 8
  /\ Pow(4) = 16 /\ Pow(5) = 32 /\ Pow(6) = 64 /\ Pow(7) = 128
  /\ Pow(8) = 256 /\ Pow(9) = 512 /\ Pow(10) = 1024 /\ Pow(11) = 2048
  /\ Pow(12) = 4096 /\ Pow(13) = 8192 /\ Pow(14) = 16384 /\ Pow(15) = 32768
  /\ Pow(16) = 65536 /\ Pow(17) = 131072 /\ Pow(18) = 262144 /\ Pow(19) = 524288
  /\ Pow(20) = 1048576 /\ Pow(21) = 2097152 /\ Pow(22) = 4194304 /\ Pow(23) = 8388608
  /\ Pow(24) = 16777216 /\ Pow(25) = 33554432 /\ Pow(26) = 67108864 /\ Pow(27) = 134217728
  /\ Pow(28) = 268435456 /\ Pow(29) = 536870912 /\ Pow(30) = 1073741824 /\ Pow(31) = 2147483648
  /\ Pow(32) = 4294967296
BY SMT DEF Pow

(* Each is twice the one before. *)
LEMMA Doubles ==
  /\ \A r \in 0 .. 31 : Pow(r + 1) = 2 * Pow(r)
  /\ \A r \in 0 .. 32 : Pow(r) \in Nat /\ Pow(r) >= 1
<1>1. ASSUME NEW r \in 0 .. 31
      PROVE  Pow(r + 1) = 2 * Pow(r)
  <2>1. \/ r = 0 \/ r = 1 \/ r = 2 \/ r = 3 \/ r = 4 \/ r = 5 \/ r = 6 \/ r = 7
        \/ r = 8 \/ r = 9 \/ r = 10 \/ r = 11 \/ r = 12 \/ r = 13 \/ r = 14 \/ r = 15
        \/ r = 16 \/ r = 17 \/ r = 18 \/ r = 19 \/ r = 20 \/ r = 21 \/ r = 22 \/ r = 23
        \/ r = 24 \/ r = 25 \/ r = 26 \/ r = 27 \/ r = 28 \/ r = 29 \/ r = 30 \/ r = 31
    OBVIOUS
  <2> QED
    BY <2>1, PowTable, SMT
<1>2. ASSUME NEW r \in 0 .. 32
      PROVE  Pow(r) \in Nat /\ Pow(r) >= 1
  <2>1. \/ r = 0 \/ r = 1 \/ r = 2 \/ r = 3 \/ r = 4 \/ r = 5 \/ r = 6 \/ r = 7
        \/ r = 8 \/ r = 9 \/ r = 10 \/ r = 11 \/ r = 12 \/ r = 13 \/ r = 14 \/ r = 15
        \/ r = 16 \/ r = 17 \/ r = 18 \/ r = 19 \/ r = 20 \/ r = 21 \/ r = 22 \/ r = 23
        \/ r = 24 \/ r = 25 \/ r = 26 \/ r = 27 \/ r = 28 \/ r = 29 \/ r = 30 \/ r = 31
        \/ r = 32
    OBVIOUS
  <2> QED
    BY <2>1, PowTable, SMT
<1> QED
  BY <1>1, <1>2

(* A shift by n bits multiplies by 2 ^ n. *)
LEMMA Powers ==
  ASSUME NEW n \in {2, 4, 8, 16}, NEW r \in 0 .. 32, r + n <= 32
  PROVE  Pow(r + n) = Pow(r) * Pow(n)
<1>1. ASSUME NEW x \in 0 .. 32, x + 2 <= 32
      PROVE  Pow(x + 2) = 4 * Pow(x)
  <2>1. /\ Pow(x + 1) = 2 * Pow(x) /\ Pow((x + 1) + 1) = 2 * Pow(x + 1)
        /\ (x + 1) + 1 = x + 2 /\ Pow(x) \in Nat
    BY <1>1, Doubles
  <2> QED
    BY <2>1
<1>2. ASSUME NEW x \in 0 .. 32, x + 4 <= 32
      PROVE  Pow(x + 4) = 16 * Pow(x)
  <2>1. /\ Pow(x + 2) = 4 * Pow(x) /\ Pow((x + 2) + 2) = 4 * Pow(x + 2)
        /\ (x + 2) + 2 = x + 4 /\ Pow(x) \in Nat
    BY <1>1, <1>2, Doubles
  <2> QED
    BY <2>1
<1>3. ASSUME NEW x \in 0 .. 32, x + 8 <= 32
      PROVE  Pow(x + 8) = 256 * Pow(x)
  <2>1. /\ Pow(x + 4) = 16 * Pow(x) /\ Pow((x + 4) + 4) = 16 * Pow(x + 4)
        /\ (x + 4) + 4 = x + 8 /\ Pow(x) \in Nat
    BY <1>2, <1>3, Doubles
  <2> QED
    BY <2>1
<1>4. ASSUME NEW x \in 0 .. 32, x + 16 <= 32
      PROVE  Pow(x + 16) = 65536 * Pow(x)
  <2>1. /\ Pow(x + 8) = 256 * Pow(x) /\ Pow((x + 8) + 8) = 256 * Pow(x + 8)
        /\ (x + 8) + 8 = x + 16 /\ Pow(x) \in Nat
    BY <1>3, <1>4, Doubles
  <2> QED
    BY <2>1
<1>5. Pow(2) = 4 /\ Pow(4) = 16 /\ Pow(8) = 256 /\ Pow(16) = 65536 /\ Pow(r) \in Nat
  BY Doubles, PowTable
<1>6. CASE n = 2
  BY <1>1, <1>5, <1>6
<1>7. CASE n = 4
  BY <1>2, <1>5, <1>7
<1>8. CASE n = 8
  BY <1>3, <1>5, <1>8
<1>9. CASE n = 16
  BY <1>4, <1>5, <1>9
<1> QED
  BY <1>6, <1>7, <1>8, <1>9

(* Division keeps the bounds of what is left. *)
LEMMA Divided ==
  ASSUME NEW w \in Nat, NEW a \in Nat, NEW p \in Nat, NEW d \in Nat, d > 0, a * p <= w, w < (a + 1) * p
  PROVE  (a \div d) * (p * d) <= w /\ w < ((a \div d) + 1) * (p * d)
<1> DEFINE q == a \div d
<1>1. q \in Nat /\ q * d <= a /\ a < (q + 1) * d
  OBVIOUS
<1> HIDE DEF q
<1>2. (q * d) * p <= a * p
  BY <1>1
<1>3. (a + 1) * p <= ((q + 1) * d) * p
  BY <1>1
<1>4. (q * d) * p = q * (p * d) /\ ((q + 1) * d) * p = (q + 1) * (p * d)
  BY <1>1
<1>5. q * (p * d) <= w /\ w < (q + 1) * (p * d)
  BY <1>1, <1>2, <1>3, <1>4
<1> QED
  BY <1>5 DEF q


(* What is left of w after a shift by acc.r bits. *)
Spans(acc, w) ==
  /\ acc.v \in Nat /\ acc.v >= 1
  /\ acc.v * Pow(acc.r) <= w /\ w < (acc.v + 1) * Pow(acc.r)

(* One rung: with at most twice its width left, at most its width is left; *)
(* a value too long for the ladder is shifted by every rung.               *)
LEMMA Rung ==
  ASSUME NEW w \in Nat, NEW n \in {2, 4, 8, 16}, NEW acc, acc.r \in 0 .. 32, acc.r + n <= 32,
         Spans(acc, w),
         w < Pow(32) => acc.v < Pow(n) * Pow(n),
         w >= Pow(32) => acc.v >= Pow(n) * Pow(n)
  PROVE  LET b == Shifted(acc, n)
         IN /\ Spans(b, w)
            /\ b.r = acc.r \/ b.r = acc.r + n
            /\ w < Pow(32) => b.v < Pow(n)
            /\ w >= Pow(32) => b.v >= Pow(n) /\ b.r = acc.r + n
<1> DEFINE d == Pow(n)
           p == Pow(acc.r)
           b == Shifted(acc, n)
<1>1. d \in Nat /\ d >= 1 /\ p \in Nat /\ Pow(acc.r + n) = p * d
  <2>1. n \in 0 .. 32
    OBVIOUS
  <2>2. \A r \in 0 .. 32 : r + n <= 32 => Pow(r + n) = Pow(r) * Pow(n)
    BY Powers
  <2> QED
    BY <2>1, <2>2, Doubles
<1>2. acc.v \in Nat /\ acc.v >= 1 /\ acc.v * p <= w /\ w < (acc.v + 1) * p
  BY DEF Spans
<1>3. b = IF acc.v >= d THEN [v |-> acc.v \div d, r |-> acc.r + n] ELSE acc
  BY Zenon DEF Shifted, Pow
<1>4. CASE acc.v >= d
  <2> HIDE DEF d, p, b
  <2>1. b.v = acc.v \div d /\ b.r = acc.r + n
    BY <1>3, <1>4
  <2>2. b.v * (p * d) <= w /\ w < (b.v + 1) * (p * d)
    BY <1>1, <1>2, <2>1, Divided
  <2>3. b.v \in Nat /\ b.v >= 1
    BY <1>1, <1>2, <1>4, <2>1
  <2>4. ASSUME acc.v < d * d
        PROVE  b.v < d
    BY <1>1, <1>2, <2>1, <2>4
  <2>5. ASSUME acc.v >= d * d
        PROVE  b.v >= d
    BY <1>1, <1>2, <2>1, <2>5
  <2>6. Spans(b, w)
    BY <1>1, <2>1, <2>2, <2>3 DEF Spans
  <2> QED
    BY <2>1, <2>4, <2>5, <2>6 DEF d, b
<1>5. CASE ~ (acc.v >= d)
  <2>1. b = acc
    <3> HIDE DEF d, b
    <3> QED
      BY <1>3, <1>5
  <2>2. acc.v < d /\ acc.v < d * d
    <3> HIDE DEF d
    <3> QED
      BY <1>1, <1>2, <1>5
  <2>3. ~ (acc.v >= d * d)
    <3> HIDE DEF d
    <3> QED
      BY <1>1, <1>2, <2>2
  <2> QED
    BY <2>1, <2>2, <2>3
<1> QED
  BY <1>4, <1>5

(* The ladder as a function has its four rungs. *)
LEMMA LadderRuns == ASSUME NEW x
  PROVE \E g : /\ g = [i \in 0 .. Len(Ladder) |-> IF i = 0 THEN x ELSE Shifted(g[i - 1], Ladder[i])]
<1> DEFINE a == Shifted(x, 16)
           b == Shifted(a, 8)
           c == Shifted(b, 4)
           d == Shifted(c, 2)
           g == [i \in 0 .. 4 |-> CASE i = 0 -> x [] i = 1 -> a [] i = 2 -> b [] i = 3 -> c [] i = 4 -> d]
<1>1. Len(Ladder) = 4 /\ Ladder[1] = 16 /\ Ladder[2] = 8 /\ Ladder[3] = 4 /\ Ladder[4] = 2
  BY DEF Ladder
<1>2. g[0] = x /\ g[1] = a /\ g[2] = b /\ g[3] = c /\ g[4] = d
  <2> HIDE DEF a, b, c, d
  <2> QED OBVIOUS
<1>3. \A i \in 0 .. 4 : g[i] = IF i = 0 THEN x ELSE Shifted(g[i - 1], Ladder[i])
  <2> SUFFICES ASSUME NEW i \in 0 .. 4 PROVE g[i] = IF i = 0 THEN x ELSE Shifted(g[i - 1], Ladder[i])
    OBVIOUS
  <2> HIDE DEF g
  <2>1. i = 0 \/ i = 1 \/ i = 2 \/ i = 3 \/ i = 4
    OBVIOUS
  <2> QED BY <1>1, <1>2, <2>1
<1>4. g = [i \in 0 .. 4 |-> g[i]]
  OBVIOUS
<1>5. g = [i \in 0 .. Len(Ladder) |-> IF i = 0 THEN x ELSE Shifted(g[i - 1], Ladder[i])]
  <2> HIDE DEF g
  <2> QED BY <1>1, <1>3, <1>4
<1> QED BY <1>5


(* log2_slot with the ladder written out. *)
Left(w) == Shifted(Shifted(Shifted(Shifted([v |-> w, r |-> 0], 16), 8), 4), 2)

Log(w) == Left(w).r + (IF Left(w).v >= 2 THEN 1 ELSE 0)

(* The shifts of log2_slot are those four. *)
LEMMA SlotForm ==
  ASSUME NEW v, NEW cap
  PROVE  log2_slot(v, cap) =
           IF v <= 1 THEN 0 ELSE IF Log(v - 1) + 1 > cap THEN cap ELSE Log(v - 1) + 1
<1> DEFINE x == [v |-> v - 1, r |-> 0]
           g == CHOOSE g : g = [i \in 0 .. Len(Ladder) |->
                                  IF i = 0 THEN x ELSE Shifted(g[i - 1], Ladder[i])]
<1>1. g = [i \in 0 .. Len(Ladder) |-> IF i = 0 THEN x ELSE Shifted(g[i - 1], Ladder[i])]
  <2> HIDE DEF x
  <2> QED
    BY LadderRuns
<1>2. Len(Ladder) = 4 /\ Ladder[1] = 16 /\ Ladder[2] = 8 /\ Ladder[3] = 4 /\ Ladder[4] = 2
  BY DEF Ladder
<1>3. log2_slot(v, cap) =
        LET r == g[Len(Ladder)].r + (IF g[Len(Ladder)].v >= 2 THEN 1 ELSE 0) + 1
        IN IF v <= 1 THEN 0 ELSE IF r > cap THEN cap ELSE r
  BY DEF log2_slot
<1> HIDE DEF g
<1>4. /\ g[0] = x /\ g[1] = Shifted(g[0], 16) /\ g[2] = Shifted(g[1], 8)
      /\ g[3] = Shifted(g[2], 4) /\ g[4] = Shifted(g[3], 2)
  <2> HIDE DEF x
  <2> QED
    BY <1>1, <1>2
<1>5. g[Len(Ladder)] = Left(v - 1)
  BY <1>2, <1>4, Zenon DEF Left
<1> QED
  BY <1>3, <1>5, Zenon DEF Log

(* Where the value lies in [2^k, 2^(k+1)), its bucket is the next one. *)
LEMMA Bucket ==
  ASSUME NEW w \in Nat, NEW k \in 0 .. 31, NEW cap \in {21, 27},
         Pow(k) <= w, k < 31 => w < Pow(k + 1)
  PROVE  LET s == IF k + 1 > cap THEN cap ELSE k + 1
         IN /\ s \in 0 .. cap
            /\ s < cap => w + 1 <= Pow(s)
            /\ s > 0 => w + 1 > Pow(s - 1)
<1>1. CASE k + 1 <= cap
  <2>1. k < 31 /\ (k + 1) - 1 = k /\ Pow(k) \in Nat /\ Pow(k + 1) \in Nat
    BY <1>1, Doubles
  <2> QED
    BY <1>1, <2>1
<1>2. CASE k + 1 > cap
  <2> DEFINE Good == {i \in Nat : i <= 31 => i < cap - 1 \/ Pow(cap - 1) <= Pow(i)}
  <2>1. Pow(cap - 1) \in Nat
    BY Doubles
  <2>2. 0 \in Good
    OBVIOUS
  <2>3. ASSUME NEW i \in 1 .. 31, i - 1 \in Good
        PROVE  i \in Good
    <3>1. Pow(i) = 2 * Pow(i - 1) /\ Pow(i - 1) \in Nat
      BY Doubles
    <3>2. CASE i < cap - 1
      BY <3>2
    <3>3. CASE i = cap - 1
      BY <2>1, <3>3
    <3>4. CASE i > cap - 1
      BY <2>1, <2>3, <3>1, <3>4
    <3> QED
      BY <3>2, <3>3, <3>4
  <2>4. 0 .. 31 \subseteq Good
    <3> HIDE DEF Good
    <3> QED
      BY <2>2, <2>3, Upward
  <2>5. Pow(cap - 1) <= Pow(k) /\ Pow(k) \in Nat
    BY <1>2, <2>4, Doubles
  <2> QED
    BY <1>2, <2>1, <2>5
<1> QED
  BY <1>1, <1>2

(* The ladder takes the logarithm, up to 31. *)
LEMMA LogBounds ==
  ASSUME NEW w \in Nat, w >= 1
  PROVE  /\ Log(w) \in 0 .. 31
         /\ Pow(Log(w)) <= w
         /\ Log(w) < 31 => w < Pow(Log(w) + 1)
<1> DEFINE x == [v |-> w, r |-> 0]
           a == Shifted(x, 16)
           b == Shifted(a, 8)
           c == Shifted(b, 4)
           e == Shifted(c, 2)
           k == Log(w)
<1>1. e = Left(w) /\ k = e.r + (IF e.v >= 2 THEN 1 ELSE 0)
  BY Zenon DEF Left, Log
<1>2. /\ x.r = 0 /\ x.v = w /\ Pow(0) = 1 /\ Pow(2) = 4
      /\ Pow(8) * Pow(8) = Pow(16) /\ Pow(4) * Pow(4) = Pow(8) /\ Pow(2) * Pow(2) = Pow(4)
  BY PowTable
<1>3. Pow(16) * Pow(16) = Pow(32) /\ Pow(32) \in Nat
  <2>1. Pow(16 + 16) = Pow(16) * Pow(16)
    BY Powers
  <2> QED
    BY <2>1, Doubles
<1> HIDE DEF x, k
<1>4. Spans(x, w)
  BY <1>2 DEF Spans
<1>5. /\ Spans(a, w) /\ (a.r = 0 \/ a.r = 16)
      /\ w < Pow(32) => a.v < Pow(16)
      /\ w >= Pow(32) => a.v >= Pow(16) /\ a.r = 16
  BY <1>2, <1>3, <1>4, Rung
<1> HIDE DEF a
<1>6. /\ Spans(b, w) /\ (b.r = 0 \/ b.r = 8 \/ b.r = 16 \/ b.r = 24)
      /\ w < Pow(32) => b.v < Pow(8)
      /\ w >= Pow(32) => b.v >= Pow(8) /\ b.r = 24
  BY <1>2, <1>5, Rung
<1> HIDE DEF b
<1>7. /\ Spans(c, w) /\ c.r \in 0 .. 28
      /\ w < Pow(32) => c.v < Pow(4)
      /\ w >= Pow(32) => c.v >= Pow(4) /\ c.r = 28
  BY <1>2, <1>6, Rung
<1> HIDE DEF c
<1>8. /\ Spans(e, w) /\ e.r \in 0 .. 30
      /\ w < Pow(32) => e.v < 4
      /\ w >= Pow(32) => e.v >= 4 /\ e.r = 30
  BY <1>2, <1>7, Rung
<1> HIDE DEF e
<1>9. /\ e.v \in Nat /\ e.v >= 1 /\ Pow(e.r) \in Nat
      /\ e.v * Pow(e.r) <= w /\ w < (e.v + 1) * Pow(e.r)
  BY <1>8, Doubles DEF Spans
<1>10. Pow(e.r + 1) = 2 * Pow(e.r)
  BY <1>8, Doubles
<1>11. CASE e.v = 1
  <2>1. k = e.r
    BY <1>1, <1>8, <1>11
  <2>2. k \in 0 .. 31 /\ Pow(k) <= w /\ w < Pow(k + 1)
    BY <1>8, <1>9, <1>10, <1>11, <2>1
  <2> QED
    BY <2>2 DEF k
<1>12. CASE e.v >= 2
  <2>1. k = e.r + 1 /\ k \in 0 .. 31
    BY <1>1, <1>8, <1>12
  <2>2. 2 * Pow(e.r) <= e.v * Pow(e.r)
    BY <1>9, <1>12
  <2>3. Pow(k) <= w
    BY <1>9, <1>10, <2>1, <2>2
  <2>4. ASSUME k < 31
        PROVE  w < Pow(k + 1)
    <3>1. Pow(k + 1) = 2 * Pow(k) /\ e.r < 30
      BY <1>8, <2>1, <2>4, Doubles
    <3>2. e.v < 4
      BY <1>3, <1>8, <3>1
    <3>3. (e.v + 1) * Pow(e.r) <= 4 * Pow(e.r)
      BY <1>9, <3>2
    <3> QED
      BY <1>9, <1>10, <2>1, <3>1, <3>3
  <2> QED
    BY <2>1, <2>3, <2>4 DEF k
<1> QED
  BY <1>9, <1>11, <1>12

(* A latency's bucket: the first whose upper bound 2^s is not below it, or *)
(* the last one, for latencies of any size.                                *)
LEMMA SlotBounds ==
  ASSUME NEW v \in Nat, NEW cap \in {21, 27}
  PROVE  LET s == log2_slot(v, cap)
         IN /\ s \in 0 .. cap
            /\ s < cap => v <= Pow(s)
            /\ s > 0 => v > Pow(s - 1)
<1> DEFINE s == log2_slot(v, cap)
<1>1. CASE v <= 1
  <2>1. s = 0 /\ Pow(0) = 1
    BY <1>1, SlotForm, PowTable
  <2> HIDE DEF s
  <2>2. s \in 0 .. cap /\ (s < cap => v <= Pow(s)) /\ (s > 0 => v > Pow(s - 1))
    BY <1>1, <2>1
  <2> QED
    BY <2>2 DEF s
<1>2. CASE v > 1
  <2> DEFINE w == v - 1
             k == Log(v - 1)
  <2>1. w \in Nat /\ w >= 1 /\ w + 1 = v
    BY <1>2
  <2>2. k \in 0 .. 31 /\ Pow(k) <= w /\ (k < 31 => w < Pow(k + 1))
    BY <2>1, LogBounds
  <2>3. s = IF k + 1 > cap THEN cap ELSE k + 1
    BY <1>2, SlotForm
  <2> HIDE DEF s, k, w
  <2>4. s \in 0 .. cap /\ (s < cap => w + 1 <= Pow(s)) /\ (s > 0 => w + 1 > Pow(s - 1))
    BY <2>1, <2>2, <2>3, Bucket
  <2> QED
    BY <2>1, <2>4 DEF s
<1> QED
  BY <1>1, <1>2

-----------------------------------------------------------------------------
(* What the steps change.  The collection paths share no state, so each    *)
(* group of variables is changed by its own actions only.                  *)

(* A step of a program on one CPU. *)
KernelStep(c) == Sample(c) \/ LookUp(c) \/ Opening(c) \/ Opened(c) \/ Closing(c) \/ Closed(c)

(* The latencies are the business of the block and scheduler hooks. *)
LEMMA FlightFrame ==
  ASSUME [Next]_vars
  PROVE  /\ path' = path
         /\ \/ UNCHANGED flightVars
            \/ Attach
            \/ \E r \in Request : Issue(r) \/ Complete(r)
<1>1. CASE UNCHANGED vars
  BY <1>1 DEF vars, kernelVars, flightVars
<1>2. CASE Kernel
  <2>1. ASSUME NEW c \in CPU, KernelStep(c)
        PROVE  path' = path /\ UNCHANGED flightVars
    BY <2>1, Zenon DEF KernelStep, Sample, LookUp, Opening, Opened, Closing, Closed
  <2>2. CASE Drop
    BY <2>2, Zenon DEF Drop
  <2>3. CASE Attach
    BY <2>3, Zenon DEF Attach
  <2>4. ASSUME NEW r \in Request, Issue(r) \/ Complete(r)
        PROVE  path' = path
    BY <2>4, Zenon DEF Issue, Complete
  <2> QED
    BY <1>2, <2>1, <2>2, <2>3, <2>4, Zenon DEF Kernel, KernelNext, KernelStep
<1>3. ASSUME NEW c \in CPU, Count(c)
      PROVE  path' = path /\ UNCHANGED flightVars
  BY <1>3, Zenon DEF Count, Update
<1>4. CASE Tick \/ DrainFail
  BY <1>4, Zenon DEF Tick, DrainFail, kernelVars
<1>5. CASE EmitSum \/ EmitHistogram \/ EmitDrops
  BY <1>5, Zenon DEF EmitSum, EmitHistogram, EmitDrops, EmitEnds, kernelVars
<1>6. ASSUME NEW k \in Key, Visit(k) \/ Clear(k)
      PROVE  path' = path /\ UNCHANGED flightVars
  BY <1>6, Zenon DEF Visit, Clear, kernelVars
<1>7. CASE readDrops \/ SwapDrops
  BY <1>7, Zenon DEF readDrops, SwapDrops, kernelVars
<1>8. CASE DiskIO \/ DiskReset \/ DiskTick
  BY <1>8, Zenon DEF DiskIO, DiskReset, DiskTick, kernelVars
<1>9. CASE Server /\ UNCHANGED <<kernelVars, drainVars, diskVars>>
  BY <1>9, Zenon DEF kernelVars
<1> QED
  BY <1>1, <1>2, <1>3, <1>4, <1>5, <1>6, <1>7, <1>8, <1>9, Zenon DEF Next

-----------------------------------------------------------------------------
(* Latencies. *)

(* A start time is kept only for the latest issue of a request, since an   *)
(* issue that cannot be recorded finds no older entry in its place: the    *)
(* issue hook is attached first, and an entry that is there has room.  An  *)
(* entry outlives its completion only if it was recorded before the        *)
(* completion hook was attached.                                           *)
StartInv ==
  /\ hooks \in 0 .. 2
  /\ life \in [Request -> 0 .. MaxIssue]
  /\ busy \subseteq Request
  /\ start \in [Request -> 0 .. MaxIssue]
  /\ blind \subseteq Request
  /\ \A r \in Request : start[r] # 0 => start[r] = life[r] /\ hooks >= 1
  /\ \A r \in Request : start[r] # 0 /\ (hooks = 1 \/ r \notin busy) => r \in blind

(* The last latency was measured from its own issue, or from a wake-up     *)
(* recorded before the switches were seen, and counted in its bucket.      *)
MeasuredInv ==
  \A m \in measured :
    /\ m.from = m.issue \/ (path.shape = "sched" /\ m.early)
    /\ m.lat \in Latency
    /\ m.slot \in 0 .. LastSlot
    /\ m.slot < LastSlot => m.lat <= Pow(m.slot)
    /\ m.slot > 0 => m.lat > Pow(m.slot - 1)

FlightInv == path \in Path /\ StartInv /\ MeasuredInv

(* It holds of the agent's start. *)
LEMMA FlightInit == Init => FlightInv
<1> SUFFICES ASSUME Init PROVE FlightInv
  OBVIOUS
<1>1. MaxIssue \in Nat
  BY MapAssumption
<1>2. StartInv
  BY <1>1 DEF Init, KernelInit, StartInv
<1> QED
  BY <1>2 DEF Init, KernelInit, FlightInv, MeasuredInv

LEMMA FlightStep ==
  ASSUME FlightInv, [Next]_vars
  PROVE  FlightInv'
<1>1. path' = path /\ path \in Path
  BY FlightFrame DEF FlightInv
<1>2. MaxIssue \in Nat /\ Latency \subseteq Nat
  BY MapAssumption
<1>3. LastSlot' = LastSlot /\ LastSlot \in {21, 27}
  BY <1>1 DEF LastSlot
<1>4. CASE UNCHANGED flightVars
  <2>1. StartInv'
    BY <1>4 DEF FlightInv, StartInv, flightVars
  <2>2. measured' = measured
    BY <1>4 DEF flightVars
  <2>3. MeasuredInv'
    <3> HIDE DEF LastSlot
    <3> QED
      BY <1>1, <1>3, <2>2 DEF FlightInv, MeasuredInv
  <2> QED
    BY <1>1, <2>1, <2>3 DEF FlightInv
<1>5. CASE Attach
  <2>1. StartInv'
    BY <1>5 DEF FlightInv, StartInv, Attach
  <2>2. MeasuredInv'
    BY <1>1, <1>3, <1>5 DEF FlightInv, MeasuredInv, Attach
  <2> QED
    BY <1>1, <2>1, <2>2 DEF FlightInv
<1>6. ASSUME NEW r \in Request, Issue(r)
      PROVE  FlightInv'
  <2>1. /\ life[r] \in 0 .. MaxIssue /\ life[r] < MaxIssue /\ hooks' = hooks /\ hooks \in 0 .. 2
        /\ life' = [life EXCEPT ![r] = @ + 1] /\ start' = Recorded(r)
        /\ busy' \subseteq Request
    BY <1>6 DEF Issue, FlightInv, StartInv
  <2>2. life' \in [Request -> 0 .. MaxIssue] /\ life'[r] = life[r] + 1
    BY <1>2, <2>1 DEF FlightInv, StartInv
  <2>3. start' \in [Request -> 0 .. MaxIssue]
    BY <1>2, <2>1 DEF FlightInv, StartInv, Recorded
  <2>4. ASSUME NEW q \in Request, start'[q] # 0
        PROVE  start'[q] = life'[q] /\ hooks' >= 1
    <3>1. CASE q = r
      <4>1. CASE hooks >= 1 /\ StartRoom(r)
        BY <2>1, <2>2, <3>1, <4>1 DEF Recorded, FlightInv, StartInv
      <4>2. CASE ~ (hooks >= 1 /\ StartRoom(r))
        <5>1. start' = start
          BY <2>1, <4>2 DEF Recorded
        <5>2. start[r] = 0
          BY <2>4, <4>2 DEF StartRoom, FlightInv, StartInv
        <5> QED
          BY <2>4, <3>1, <5>1, <5>2
      <4> QED
        BY <4>1, <4>2
    <3>2. CASE q # r
      <4>1. start'[q] = start[q] /\ life'[q] = life[q]
        BY <2>1, <3>2 DEF Recorded, FlightInv, StartInv
      <4> QED
        BY <2>1, <2>4, <4>1 DEF FlightInv, StartInv
    <3> QED
      BY <3>1, <3>2
  <2>5. MeasuredInv'
    BY <1>1, <1>3, <1>6 DEF FlightInv, MeasuredInv, Issue
  <2>6. /\ blind' \subseteq Request
        /\ \A q \in Request : start'[q] # 0 /\ (hooks' = 1 \/ q \notin busy') => q \in blind'
    <3>1. /\ busy' = busy \cup {r}
          /\ blind' = IF start' = start THEN blind ELSE IF hooks = 1 THEN blind \cup {r} ELSE blind \ {r}
      BY <1>6 DEF Issue
    <3>2. blind' \subseteq Request
      BY <3>1 DEF FlightInv, StartInv
    <3>3. ASSUME NEW q \in Request, start'[q] # 0, hooks = 1 \/ q \notin busy'
          PROVE  q \in blind'
      <4>1. CASE q = r
        <5>1. hooks = 1
          BY <3>1, <3>3, <4>1
        <5>2. CASE start' = start
          BY <3>1, <3>3, <5>1, <5>2 DEF FlightInv, StartInv
        <5>3. CASE start' # start
          BY <3>1, <4>1, <5>1, <5>3
        <5> QED
          BY <5>2, <5>3
      <4>2. CASE q # r
        <5>1. start'[q] = start[q]
          BY <2>1, <4>2 DEF Recorded, FlightInv, StartInv
        <5>2. q \in blind
          BY <3>1, <3>3, <5>1 DEF FlightInv, StartInv
        <5> QED
          BY <3>1, <4>2, <5>2
      <4> QED
        BY <4>1, <4>2
    <3> QED
      BY <2>1, <3>2, <3>3
  <2> QED
    BY <1>1, <2>1, <2>2, <2>3, <2>4, <2>5, <2>6 DEF FlightInv, StartInv
<1>7. ASSUME NEW r \in Request, Complete(r)
      PROVE  FlightInv'
  <2>1. /\ hooks' = hooks /\ life' = life /\ blind' = blind
        /\ busy' = busy \ {r} /\ busy' \subseteq Request
    BY <1>7 DEF Complete, FlightInv, StartInv
  <2>2. CASE hooks = 2 /\ start[r] # 0
    <3>1. start' = [start EXCEPT ![r] = 0]
      BY <1>7, <2>2 DEF Complete
    <3>2. PICK lat \in Latency : measured' = {[from |-> start[r], issue |-> IF r \in busy THEN life[r] ELSE 0,
                                               early |-> r \in blind, lat |-> lat, slot |-> Slot(lat)]}
      BY <1>7, <2>2 DEF Complete
    <3>3. StartInv'
      BY <1>2, <2>1, <3>1 DEF FlightInv, StartInv
    <3>4. lat \in Nat /\ start[r] = life[r]
      BY <1>2, <2>2 DEF FlightInv, StartInv
    <3> DEFINE s == Slot(lat)
    <3>5. s \in 0 .. LastSlot /\ (s < LastSlot => lat <= Pow(s)) /\ (s > 0 => lat > Pow(s - 1))
      <4>1. s = log2_slot(lat, LastSlot)
        BY DEF Slot
      <4> DEFINE cap == LastSlot
      <4> HIDE DEF s, cap
      <4>2. /\ log2_slot(lat, cap) \in 0 .. cap
            /\ log2_slot(lat, cap) < cap => lat <= Pow(log2_slot(lat, cap))
            /\ log2_slot(lat, cap) > 0 => lat > Pow(log2_slot(lat, cap) - 1)
        BY <1>3, <3>4, SlotBounds DEF cap
      <4> QED
        BY <4>1, <4>2 DEF cap
    <3> HIDE DEF s
    <3>6. ASSUME NEW m \in measured'
          PROVE  /\ m.from = m.issue \/ (path'.shape = "sched" /\ m.early)
                 /\ m.lat = lat /\ m.slot = s
      <4>1. /\ m.from = start[r] /\ m.issue = IF r \in busy THEN life[r] ELSE 0
            /\ m.lat = lat /\ m.slot = s
        BY <3>2 DEF s
      <4>2. r \in blind => m.early
        <5> DEFINE at == IF r \in busy THEN life[r] ELSE 0
                   early == r \in blind
        <5>1. measured' = {[from |-> start[r], issue |-> at, early |-> early, lat |-> lat, slot |-> s]}
          BY <3>2 DEF s
        <5> HIDE DEF at, early
        <5>2. m = [from |-> start[r], issue |-> at, early |-> early, lat |-> lat, slot |-> s]
          BY <5>1, Zenon
        <5>3. m.early = early
          BY <5>2, Zenon
        <5> QED
          BY <5>3, Zenon DEF early
      <4>3. CASE r \in busy
        BY <3>4, <4>1, <4>3
      <4>4. CASE r \notin busy
        <5>1. path.shape = "sched" /\ r \in blind
          BY <1>7, <2>2, <4>4 DEF Complete, FlightInv, StartInv
        <5>2. m.early
          BY <4>2, <5>1, Zenon
        <5> QED
          BY <1>1, <4>1, <5>1, <5>2
      <4> QED
        BY <4>3, <4>4
    <3>7. MeasuredInv'
      <4> SUFFICES ASSUME NEW m \in measured'
                   PROVE  /\ m.from = m.issue \/ (path'.shape = "sched" /\ m.early)
                          /\ m.lat \in Latency
                          /\ m.slot \in 0 .. LastSlot'
                          /\ m.slot < LastSlot' => m.lat <= Pow(m.slot)
                          /\ m.slot > 0 => m.lat > Pow(m.slot - 1)
        BY Zenon DEF MeasuredInv
      <4> QED
        BY <1>3, <3>5, <3>6
    <3> QED
      BY <1>1, <3>3, <3>7 DEF FlightInv
  <2>3. CASE ~ (hooks = 2 /\ start[r] # 0)
    <3>1. start' = start /\ measured' = measured
      BY <1>7, <2>3 DEF Complete
    <3>2. StartInv'
      BY <2>1, <2>3, <3>1 DEF FlightInv, StartInv
    <3> QED
      BY <1>1, <1>3, <3>1, <3>2 DEF FlightInv, MeasuredInv
  <2> QED
    BY <2>2, <2>3
<1> QED
  BY <1>4, <1>5, <1>6, <1>7, FlightFrame

(* FlightInv is inductive. *)
LEMMA Flights == Spec => []FlightInv
<1>1. ASSUME FlightInv, [Next]_vars
      PROVE  FlightInv'
  BY <1>1, FlightStep
<1> QED
  BY <1>1, FlightInit, PTL DEF Spec

(* OwnLatency: complete_rq measures every latency from the issue it        *)
(* completes, whenever the hooks were attached and however full the map of *)
(* start times is; on_switch does so for every wake-up recorded after it   *)
(* was attached.                                                           *)
THEOREM MeasuredFromIssue == Spec => []OwnLatency
<1>1. ASSUME FlightInv
      PROVE  OwnLatency
  BY <1>1 DEF FlightInv, MeasuredInv, OwnLatency
<1> QED
  BY <1>1, Flights, PTL

(* BucketBounds: log2_slot counts a latency of any size in the bucket it   *)
(* lies in, or in the last one.                                            *)
THEOREM CountedInBucket == Spec => []BucketBounds
<1>1. ASSUME FlightInv
      PROVE  BucketBounds
  <2>1. \A i : Pow(i) = 2 ^ i
    BY Zenon DEF Pow
  <2> SUFFICES ASSUME NEW m \in measured
               PROVE  /\ m.slot \in 0 .. LastSlot
                      /\ m.slot < LastSlot => m.lat <= 2 ^ m.slot
                      /\ m.slot > 0 => m.lat > 2 ^ (m.slot - 1)
    BY DEF BucketBounds
  <2>2. /\ m.slot \in 0 .. LastSlot
        /\ m.slot < LastSlot => m.lat <= Pow(m.slot)
        /\ m.slot > 0 => m.lat > Pow(m.slot - 1)
    BY <1>1, Zenon DEF FlightInv, MeasuredInv
  <2> QED
    BY <2>2, Zenon DEF Pow
<1> QED
  BY <1>1, Flights, PTL

-----------------------------------------------------------------------------
(* The disk plugin. *)

(* Its counters change with its own actions only. *)
LEMMA DiskFrame ==
  ASSUME [Next]_vars
  PROVE  UNCHANGED diskVars \/ DiskIO \/ DiskReset \/ DiskTick
<1>1. CASE UNCHANGED vars
  BY <1>1 DEF vars, diskVars
<1>2. CASE Kernel
  BY <1>2, Zenon DEF Kernel
<1>3. ASSUME NEW c \in CPU, Count(c)
      PROVE  UNCHANGED diskVars
  BY <1>3, Zenon DEF Count
<1>4. CASE Tick \/ DrainFail
  BY <1>4, Zenon DEF Tick, DrainFail
<1>5. CASE EmitSum \/ EmitHistogram \/ EmitDrops
  BY <1>5, Zenon DEF EmitSum, EmitHistogram, EmitDrops, EmitEnds
<1>6. ASSUME NEW k \in Key, Visit(k) \/ Clear(k)
      PROVE  UNCHANGED diskVars
  BY <1>6, Zenon DEF Visit, Clear
<1>7. CASE readDrops \/ SwapDrops
  BY <1>7, Zenon DEF readDrops, SwapDrops
<1>8. CASE Server /\ UNCHANGED <<kernelVars, drainVars, diskVars>>
  BY <1>8, Zenon
<1> QED
  BY <1>1, <1>2, <1>3, <1>4, <1>5, <1>6, <1>7, <1>8, Zenon DEF Next

(* Until the counter restarts it only grows, so that a delta never wraps.  *)
DiskInv ==
  /\ cur \in Nat /\ base \in Nat /\ diskSent \in Nat
  /\ prev \in Nat \cup {Absent}
  /\ reset \in BOOLEAN
  /\ ~reset => /\ cur >= 1
               /\ cur <= MaxSample \/ cur = 1
               /\ prev # Absent => /\ 1 <= base /\ base <= prev /\ prev <= cur
                                   /\ diskSent = prev - base

(* It holds of the agent's start. *)
LEMMA DiskInit == Init => DiskInv
<1> SUFFICES ASSUME Init PROVE DiskInv
  OBVIOUS
<1>1. reset = FALSE /\ reset \in BOOLEAN
  BY Zenon DEF Init
<1>2. cur = 1 /\ base = 0 /\ diskSent = 0 /\ prev = Absent
  BY DEF Init
<1> QED
  BY <1>1, <1>2 DEF DiskInv

(* Every step keeps it. *)
LEMMA DiskStep ==
  ASSUME DiskInv, [Next]_vars
  PROVE  DiskInv'
<1>1. MaxSample \in Nat /\ Word \in Nat /\ Word > MaxSample /\ Word >= 1
  BY MapAssumption
<1>2. Absent = -1
  BY DEF Absent
<1>3. CASE UNCHANGED diskVars
  BY <1>3 DEF DiskInv, diskVars
<1>4. CASE DiskIO
  <2>1. reset' = reset
    BY <1>4, Zenon DEF DiskIO
  <2>2. reset' \in BOOLEAN
    BY <2>1, Zenon DEF DiskInv
  <2> QED
    BY <1>1, <1>4, <2>1, <2>2 DEF DiskInv, DiskIO
<1>5. CASE DiskReset
  BY <1>5 DEF DiskInv, DiskReset
<1>6. CASE DiskTick
  <2>1. reset' = reset
    BY <1>6, Zenon DEF DiskTick
  <2>2. reset' \in BOOLEAN
    BY <2>1, Zenon DEF DiskInv
  <2>3. /\ cur' = cur /\ cur \in Nat /\ prev' = cur
        /\ base' = IF prev = Absent THEN cur ELSE base
        /\ diskSent' = IF prev = Absent THEN 0 ELSE diskSent + ((cur - prev) % Word)
        /\ base \in Nat /\ diskSent \in Nat /\ prev \in Nat \cup {Absent}
    BY <1>6 DEF DiskInv, DiskTick
  <2>4. CASE prev = Absent
    <3>1. cur' # Absent
      BY <1>2, <2>3
    <3> QED
      BY <1>1, <1>2, <2>1, <2>2, <2>3, <2>4 DEF DiskInv
  <2>5. CASE prev # Absent
    <3>1. prev \in Nat /\ cur - prev \in Int
      BY <2>3, <2>5
    <3>2. (cur - prev) % Word \in Nat
      BY <1>1, <3>1
    <3>3. base' = base /\ diskSent' = diskSent + ((cur - prev) % Word)
      BY <2>3, <2>5
    <3>4. ASSUME ~reset
          PROVE  (cur - prev) % Word = cur - prev
      <4>1. 1 <= prev /\ prev <= cur /\ (cur <= MaxSample \/ cur = 1)
        BY <2>3, <2>5, <3>1, <3>4 DEF DiskInv
      <4> QED
        BY <1>1, <2>3, <3>1, <4>1
    <3> QED
      BY <1>1, <1>2, <2>1, <2>2, <2>3, <2>5, <3>1, <3>2, <3>3, <3>4 DEF DiskInv
  <2> QED
    BY <2>4, <2>5
<1> QED
  BY <1>3, <1>4, <1>5, <1>6, DiskFrame

(* DiskInv is inductive. *)
LEMMA Disks == Spec => []DiskInv
<1>1. ASSUME DiskInv, [Next]_vars
      PROVE  DiskInv'
  BY <1>1, DiskStep
<1> QED
  BY <1>1, DiskInit, PTL DEF Spec

(* DiskExact: the disk plugin's deltas, computed modulo 2^64 and tested    *)
(* for a positive value that always holds, add up to the advance of the    *)
(* kernel's counter.                                                       *)
THEOREM DeltasAddUp == Spec => []DiskExact
<1>1. ASSUME DiskInv
      PROVE  DiskExact
  BY <1>1 DEF DiskInv, DiskExact
<1> QED
  BY <1>1, Disks, PTL

-----------------------------------------------------------------------------
(* The programs. *)

Cell == [there : BOOLEAN, val : [CPU -> Nat]]

Program == [left : {<< >>, <<"count">>, <<"bucket", "count">>},
            ref : {"unset", "none", "live", "dead"}]

(* A program has a pointer only while it has something left to do; only a  *)
(* histogram's has a bucket to do; an opening has a pointer until it is    *)
(* done.                                                                   *)
ProgType ==
  /\ prog \in [CPU -> Program]
  /\ samples \in 0 .. MaxSample
  /\ \A c \in CPU : prog[c].ref # "unset" => prog[c].left # << >>
  /\ path.shape # "histogram" => \A c \in CPU : prog[c].left \in {<< >>, <<"count">>}
  /\ path.map = "gauge" =>
       \A c \in CPU : prog[c].left # << >> => prog[c].ref # "unset"

(* An element's removal only turns live pointers to it into dead ones. *)
LEMMA UnlinkedType ==
  ASSUME prog \in [CPU -> Program], NEW k
  PROVE  /\ Unlinked(k) \in [CPU -> Program]
         /\ \A c \in CPU : /\ Unlinked(k)[c].left = prog[c].left
                           /\ \/ Unlinked(k)[c].ref = prog[c].ref
                              \/ /\ prog[c].ref = "live" /\ Head(prog[c].left) = k
                                 /\ Unlinked(k)[c].ref = "dead"
                           /\ prog[c].ref = "live" /\ Head(prog[c].left) = k =>
                                Unlinked(k)[c].ref = "dead"
<1> DEFINE U == Unlinked(k)
<1>1. ASSUME NEW c \in CPU
      PROVE  /\ U[c] \in Program /\ U[c].left = prog[c].left
             /\ \/ U[c].ref = prog[c].ref
                \/ prog[c].ref = "live" /\ Head(prog[c].left) = k /\ U[c].ref = "dead"
             /\ prog[c].ref = "live" /\ Head(prog[c].left) = k => U[c].ref = "dead"
  <2>1. U[c] = IF prog[c].ref = "live" /\ Head(prog[c].left) = k
               THEN [prog[c] EXCEPT !.ref = "dead"] ELSE prog[c]
    BY DEF Unlinked
  <2>2. prog[c] \in Program
    OBVIOUS
  <2> HIDE DEF U
  <2> QED
    BY <2>1, <2>2 DEF Program
<1>2. U = [c \in CPU |-> U[c]]
  BY DEF Unlinked
<1> HIDE DEF U
<1>3. U \in [CPU -> Program]
  BY <1>1, <1>2
<1> QED
  BY <1>1, <1>3 DEF U

(* Programs start, look up, update and end; an element's removal unlinks  *)
(* them.                                                                   *)
LEMMA ProgFrame ==
  ASSUME [Next]_vars
  PROVE  \/ prog' = prog /\ samples' = samples
         \/ \E c \in CPU : Sample(c) \/ LookUp(c) \/ Opening(c) \/ Opened(c) \/ Count(c)
         \/ Drop
         \/ \E k \in Key : Clear(k)
<1>1. CASE UNCHANGED vars
  BY <1>1 DEF vars, kernelVars, counterVars
<1>2. CASE Kernel
  <2>1. ASSUME NEW c \in CPU, Closing(c) \/ Closed(c)
        PROVE  prog' = prog /\ samples' = samples
    BY <2>1 DEF Closing, Closed, counterVars
  <2>2. CASE Attach
    BY <2>2 DEF Attach, counterVars
  <2>3. ASSUME NEW r \in Request, Issue(r) \/ Complete(r)
        PROVE  prog' = prog /\ samples' = samples
    BY <2>3 DEF Issue, Complete, counterVars
  <2> QED
    BY <1>2, <2>1, <2>2, <2>3, Zenon DEF Kernel, KernelNext
<1>3. CASE Tick \/ DrainFail
  BY <1>3 DEF Tick, DrainFail, kernelVars, counterVars
<1>4. CASE EmitSum \/ EmitHistogram \/ EmitDrops
  BY <1>4 DEF EmitSum, EmitHistogram, EmitDrops, EmitEnds, kernelVars, counterVars
<1>5. ASSUME NEW k \in Key, Visit(k)
      PROVE  prog' = prog /\ samples' = samples
  BY <1>5 DEF Visit, kernelVars, counterVars
<1>6. CASE readDrops \/ SwapDrops
  BY <1>6 DEF readDrops, SwapDrops, kernelVars, counterVars
<1>7. CASE DiskIO \/ DiskReset \/ DiskTick
  BY <1>7 DEF DiskIO, DiskReset, DiskTick, kernelVars, counterVars
<1>8. CASE Server /\ UNCHANGED <<kernelVars, drainVars, diskVars>>
  BY <1>8 DEF kernelVars, counterVars
<1> QED
  BY <1>1, <1>2, <1>3, <1>4, <1>5, <1>6, <1>7, <1>8, Zenon DEF Next

(* The programs' state has its type.                                       *)
LEMMA ProgStep ==
  ASSUME ProgType, [Next]_vars
  PROVE  ProgType'
<1>1. MaxSample \in Nat /\ path' = path
  BY MapAssumption, FlightFrame
<1>2. prog \in [CPU -> Program] /\ samples \in 0 .. MaxSample
  BY DEF ProgType
<1>3. CASE prog' = prog /\ samples' = samples
  BY <1>1, <1>3 DEF ProgType
<1> DEFINE Fits(p) == /\ p \in Program
                      /\ p.ref # "unset" => p.left # << >>
                      /\ path.shape # "histogram" => p.left \in {<< >>, <<"count">>}
                      /\ path.map = "gauge" => (p.left # << >> => p.ref # "unset")
<1>4. \A c \in CPU : Fits(prog[c])
  BY <1>2 DEF ProgType
<1>5. ASSUME prog' \in [CPU -> Program], samples' \in 0 .. MaxSample, \A c \in CPU : Fits(prog'[c])
      PROVE  ProgType'
  BY <1>1, <1>5 DEF ProgType
<1>6. ASSUME NEW c \in CPU, NEW p, Fits(p), prog' = [prog EXCEPT ![c] = p], samples' \in 0 .. MaxSample
      PROVE  ProgType'
  <2>1. p \in Program
    BY <1>6
  <2>2. prog' \in [CPU -> Program]
    BY <1>2, <1>6, <2>1
  <2>3. ASSUME NEW d \in CPU
        PROVE  Fits(prog'[d])
    <3>1. prog'[d] = IF d = c THEN p ELSE prog[d]
      BY <1>2, <1>6
    <3> HIDE DEF Fits
    <3> QED
      BY <1>4, <1>6, <3>1
  <2> HIDE DEF Fits
  <2> QED
    BY <1>5, <1>6, <2>2, <2>3
<1>7. Fits(Idle)
  BY DEF Idle, Program
<1>8. ASSUME NEW k, NEW c \in CPU
      PROVE  Fits(Unlinked(k)[c])
  <2>1. /\ Unlinked(k)[c] \in Program /\ Unlinked(k)[c].left = prog[c].left
        /\ \/ Unlinked(k)[c].ref = prog[c].ref
           \/ prog[c].ref = "live" /\ Unlinked(k)[c].ref = "dead"
    BY <1>2, UnlinkedType
  <2> QED
    BY <1>4, <2>1
<1>9. ASSUME NEW c \in CPU, Sample(c)
      PROVE  ProgType'
  <2>1. Increments \in {<<"count">>, <<"bucket", "count">>} /\ Found(Head(Increments)) \in {"live", "none"}
    BY DEF Increments, Found
  <2>2. Fits([left |-> Increments, ref |-> Found(Head(Increments))])
    <3>1. path.shape # "histogram" => Increments = <<"count">>
      BY DEF Increments
    <3>2. path.map # "gauge"
      BY <1>9 DEF Sample
    <3> QED
      BY <2>1, <3>1, <3>2 DEF Program
  <2>3. samples' \in 0 .. MaxSample
    BY <1>1, <1>2, <1>9 DEF Sample
  <2> HIDE DEF Fits
  <2> QED
    BY <1>6, <1>9, <2>2, <2>3 DEF Sample
<1>10. ASSUME NEW c \in CPU, LookUp(c)
       PROVE  ProgType'
  <2> DEFINE p == [prog[c] EXCEPT !.ref = Found(Head(prog[c].left))]
  <2>1. Found(Head(prog[c].left)) \in {"live", "none"}
    BY DEF Found
  <2>2. prog[c] \in Program /\ prog[c].left # << >>
    BY <1>2, <1>10 DEF LookUp
  <2>3. p \in Program /\ p.left = prog[c].left /\ p.ref # "unset"
    BY <2>1, <2>2 DEF Program
  <2>4. prog' = [prog EXCEPT ![c] = p] /\ samples' = samples
    BY <1>10 DEF LookUp
  <2> HIDE DEF p
  <2>5. Fits(p)
    BY <1>4, <2>2, <2>3
  <2> HIDE DEF Fits
  <2> QED
    BY <1>2, <1>6, <2>4, <2>5
<1>11. ASSUME NEW c \in CPU, Opening(c)
       PROVE  ProgType'
  <2> DEFINE p == [left |-> <<"count">>, ref |-> IF gauge = Absent THEN "none" ELSE "live"]
  <2>1. Fits(p)
    BY DEF Program
  <2>2. samples' \in 0 .. MaxSample
    BY <1>1, <1>2, <1>11 DEF Opening
  <2>3. prog' = [prog EXCEPT ![c] = p]
    BY <1>11 DEF Opening
  <2> HIDE DEF Fits, p
  <2> QED
    BY <1>6, <2>1, <2>2, <2>3
<1>12. ASSUME NEW k, NEW c \in CPU, NEW p, Fits(p), prog' = [Unlinked(k) EXCEPT ![c] = p], samples' = samples
       PROVE  ProgType'
  <2>1. p \in Program /\ Unlinked(k) \in [CPU -> Program]
    BY <1>2, <1>12, UnlinkedType
  <2>2. prog' \in [CPU -> Program]
    BY <1>12, <2>1
  <2>3. ASSUME NEW d \in CPU
        PROVE  Fits(prog'[d])
    <3>1. prog'[d] = IF d = c THEN p ELSE Unlinked(k)[d]
      BY <1>12, <2>1
    <3> HIDE DEF Fits
    <3> QED
      BY <1>8, <1>12, <3>1
  <2> HIDE DEF Fits
  <2> QED
    BY <1>2, <1>5, <1>12, <2>2, <2>3
<1>13. ASSUME NEW c \in CPU, Opened(c)
       PROVE  ProgType'
  <2>1. prog[c] # Idle /\ path.map = "gauge" /\ samples' = samples
    BY <1>13 DEF Opened
  <2>2. prog[c] \in Program /\ prog[c].ref # "unset"
    <3>1. prog[c].left # << >> \/ prog[c].ref # "unset"
      BY <1>2, <2>1 DEF Idle, Program
    <3> QED
      BY <1>2, <2>1, <3>1 DEF ProgType
  <2>3. \/ prog[c].ref = "live" \/ prog[c].ref = "none" \/ prog[c].ref = "dead"
    BY <2>2 DEF Program
  <2>4. prog' = [prog EXCEPT ![c] = Idle] \/ prog' = [Unlinked("count") EXCEPT ![c] = Idle]
    BY <1>13, <2>3 DEF Opened
  <2> HIDE DEF Fits
  <2> QED
    BY <1>2, <1>6, <1>7, <1>12, <2>1, <2>4
<1>14. ASSUME NEW c \in CPU, Count(c)
       PROVE  ProgType'
  <2> DEFINE p == [left |-> Tail(prog[c].left), ref |-> "unset"]
  <2>1. prog[c] \in Program /\ prog[c].left # << >> /\ samples' = samples /\ path.map # "gauge"
    BY <1>2, <1>14 DEF Count, Update
  <2>2. prog[c].left = <<"count">> \/ prog[c].left = <<"bucket", "count">>
    BY <2>1 DEF Program
  <2>3. Tail(prog[c].left) \in {<< >>, <<"count">>}
    <3>1. Tail(<<"count">>) = << >> /\ Tail(<<"bucket", "count">>) = <<"count">>
      OBVIOUS
    <3> QED
      BY <2>2, <3>1
  <2>4. Fits(p)
    BY <2>1, <2>3 DEF Program
  <2>5. prog' = [prog EXCEPT ![c] = p]
          \/ prog' = [Unlinked(Head(prog[c].left)) EXCEPT ![c] = p]
    BY <1>14 DEF Count, Update
  <2> HIDE DEF Fits, p
  <2> QED
    BY <1>2, <1>6, <1>12, <2>1, <2>4, <2>5
<1>15. CASE Drop
  <2>1. prog' = prog /\ samples' \in 0 .. MaxSample
    BY <1>1, <1>2, <1>15 DEF Drop
  <2> HIDE DEF Fits
  <2> QED
    BY <1>2, <1>4, <1>5, <2>1
<1>16. ASSUME NEW k \in Key, Clear(k)
       PROVE  ProgType'
  <2>1. prog' = Unlinked(k) /\ samples' = samples
    BY <1>16 DEF Clear
  <2>2. Unlinked(k) \in [CPU -> Program]
    BY <1>2, UnlinkedType
  <2> HIDE DEF Fits
  <2> QED
    BY <1>2, <1>5, <1>8, <2>1, <2>2
<1> QED
  BY <1>3, <1>9, <1>10, <1>11, <1>13, <1>14, <1>15, <1>16, ProgFrame, Zenon

-----------------------------------------------------------------------------
(* The tick. *)

(* Keys are collected and cleared only on the paths of the counter maps,   *)
(* and none is left when the tick ends.                                    *)
TickInv ==
  /\ path \in Path
  /\ drain \in {"idle", "scan", "take", "emit"}
  /\ visited \in SUBSET Key /\ keys \in SUBSET Key
  /\ drains \in 0 .. MaxDrain
  /\ drain \in {"scan", "take"} => path.map \in {"percpu", "hash"}
  /\ drain = "emit" => path.map = "ring"
  /\ drain \notin {"scan", "take"} => keys = {}
  /\ drain = "scan" => keys \subseteq visited

(* It holds of the agent's start. *)
LEMMA TickInit == Init => TickInv
<1> SUFFICES ASSUME Init PROVE TickInv
  OBVIOUS
<1>1. MaxDrain \in Nat
  BY DrainAssumption
<1> QED
  BY <1>1 DEF Init, KernelInit, TickInv

(* The tick's own variables change with its own actions. *)
LEMMA TickFrame ==
  ASSUME [Next]_vars
  PROVE  \/ UNCHANGED <<drain, visited, keys, drains>>
         \/ Tick \/ DrainFail \/ EmitSum \/ EmitHistogram
         \/ \E k \in Key : Visit(k) \/ Clear(k)
         \/ SwapDrops \/ EmitDrops \/ DiskTick
<1>1. CASE UNCHANGED vars
  BY <1>1, Zenon DEF vars, drainVars
<1>2. CASE Kernel
  BY <1>2, Zenon DEF Kernel, drainVars
<1>3. ASSUME NEW c \in CPU, Count(c)
      PROVE  UNCHANGED <<drain, visited, keys, drains>>
  BY <1>3, Zenon DEF Count
<1>4. CASE readDrops
  BY <1>4, Zenon DEF readDrops
<1>5. CASE DiskIO \/ DiskReset
  BY <1>5, Zenon DEF DiskIO, DiskReset, drainVars
<1>6. CASE Server /\ UNCHANGED <<kernelVars, drainVars, diskVars>>
  BY <1>6, Zenon DEF drainVars
<1> QED
  BY <1>1, <1>2, <1>3, <1>4, <1>5, <1>6, Zenon DEF Next

(* Every step keeps it. *)
LEMMA TickStep ==
  ASSUME TickInv, [Next]_vars
  PROVE  TickInv'
<1>1. MaxDrain \in Nat /\ path' = path
  BY DrainAssumption, FlightFrame
<1>2. CASE UNCHANGED <<drain, visited, keys, drains>>
  BY <1>1, <1>2 DEF TickInv
<1>3. CASE Tick
  BY <1>1, <1>3 DEF TickInv, Tick
<1>4. CASE DrainFail
  BY <1>1, <1>4 DEF TickInv, DrainFail
<1>5. CASE EmitSum \/ EmitHistogram
  BY <1>1, <1>5 DEF TickInv, EmitSum, EmitHistogram, EmitEnds
<1>6. ASSUME NEW k \in Key, Visit(k)
      PROVE  TickInv'
  BY <1>1, <1>6 DEF TickInv, Visit
<1>7. ASSUME NEW k \in Key, Clear(k)
      PROVE  TickInv'
  BY <1>1, <1>7 DEF TickInv, Clear
<1>8. CASE SwapDrops
  BY <1>1, <1>8 DEF TickInv, SwapDrops
<1>9. CASE EmitDrops
  BY <1>1, <1>9 DEF TickInv, EmitDrops, EmitEnds
<1>10. CASE DiskTick
  BY <1>1, <1>10 DEF TickInv, DiskTick
<1> QED
  BY <1>2, <1>3, <1>4, <1>5, <1>6, <1>7, <1>8, <1>9, <1>10, TickFrame, Zenon

-----------------------------------------------------------------------------
(* The established gauge. *)

(* Programs between their lookup and the increment of the gauge. *)
Openers == {c \in CPU : prog[c] # Idle}

(* Decrements between their check and their effect. *)
Closers == {c \in CPU : closing[c] # "no"}

(* Every connection was open before the agent or was opened by a sample;   *)
(* as long as decrements do not overlap, the one under way finds the gauge *)
(* it has checked, or one it no longer acts on.                            *)
GaugeInv ==
  /\ gauge \in {Absent} \cup (0 .. Word - 1)
  /\ conns \in Nat
  /\ closing \in [CPU -> {"no", "sub", "clamp", "none"}]
  /\ raced \in BOOLEAN
  /\ path.map # "gauge" => \A c \in CPU : closing[c] = "no"
  /\ path.map = "gauge" =>
       /\ conns + Cardinality(Openers) <= Older + samples
       /\ Cardinality(Closers) <= conns
       /\ ~raced =>
            /\ gauge <= conns
            /\ \A c, d \in CPU : closing[c] # "no" /\ closing[d] # "no" => c = d
            /\ \A c \in CPU : /\ closing[c] = "sub" => gauge >= 1
                              /\ closing[c] = "none" => gauge + 1 <= conns

(* It holds of the agent's start. *)
LEMMA GaugeInit == Init => GaugeInv
<1> SUFFICES ASSUME Init PROVE GaugeInv
  OBVIOUS
<1>1. Older \in Nat /\ Word \in Nat
  BY MapAssumption
<1>2. raced = FALSE /\ raced \in BOOLEAN
  BY Zenon DEF Init, KernelInit
<1>3. /\ gauge = -1 /\ conns = Older /\ closing = [c \in CPU |-> "no"] /\ samples = 0
      /\ prog = [c \in CPU |-> Idle]
  BY DEF Init, KernelInit, Absent
<1>4. Openers = {} /\ Closers = {}
  BY <1>3 DEF Openers, Closers
<1>5. Cardinality(Openers) = 0 /\ Cardinality(Closers) = 0
  BY <1>4, FS_EmptySet
<1> QED
  BY <1>1, <1>2, <1>3, <1>5 DEF GaugeInv, Absent

(* The gauge, the connections and the decrements change with their own     *)
(* actions, and on their path the programs do too.                         *)
LEMMA GaugeFrame ==
  ASSUME ProgType, TickInv, [Next]_vars
  PROVE  \/ /\ UNCHANGED gaugeVars
            /\ path.map = "gauge" => prog' = prog /\ samples' = samples
         \/ \E c \in CPU : Opening(c) \/ Opened(c) \/ Closing(c) \/ Closed(c)
<1>1. UNCHANGED gaugeVars \/ \E c \in CPU : Opened(c) \/ Closing(c) \/ Closed(c)
  <2>1. CASE UNCHANGED vars
    BY <2>1, Zenon DEF vars, kernelVars
  <2>2. CASE Kernel
    <3>1. ASSUME NEW c \in CPU, Sample(c) \/ LookUp(c) \/ Opening(c)
          PROVE  UNCHANGED gaugeVars
      BY <3>1, Zenon DEF Sample, LookUp, Opening
    <3>2. CASE Drop \/ Attach
      BY <3>2, Zenon DEF Drop, Attach
    <3>3. ASSUME NEW r \in Request, Issue(r) \/ Complete(r)
          PROVE  UNCHANGED gaugeVars
      BY <3>3, Zenon DEF Issue, Complete
    <3> QED
      BY <2>2, <3>1, <3>2, <3>3, Zenon DEF Kernel, KernelNext
  <2>3. ASSUME NEW c \in CPU, Count(c)
        PROVE  UNCHANGED gaugeVars
    BY <2>3, Zenon DEF Count, Update
  <2>4. CASE Tick \/ DrainFail
    BY <2>4, Zenon DEF Tick, DrainFail, kernelVars
  <2>5. CASE EmitSum \/ EmitHistogram \/ EmitDrops
    BY <2>5, Zenon DEF EmitSum, EmitHistogram, EmitDrops, EmitEnds, kernelVars
  <2>6. ASSUME NEW k \in Key, Visit(k) \/ Clear(k)
        PROVE  UNCHANGED gaugeVars
    BY <2>6, Zenon DEF Visit, Clear, kernelVars
  <2>7. CASE readDrops \/ SwapDrops
    BY <2>7, Zenon DEF readDrops, SwapDrops, kernelVars
  <2>8. CASE DiskIO \/ DiskReset \/ DiskTick
    BY <2>8, Zenon DEF DiskIO, DiskReset, DiskTick, kernelVars
  <2>9. CASE Server /\ UNCHANGED <<kernelVars, drainVars, diskVars>>
    BY <2>9, Zenon DEF kernelVars
  <2> QED
    BY <2>1, <2>2, <2>3, <2>4, <2>5, <2>6, <2>7, <2>8, <2>9, Zenon DEF Next
<1>2. ASSUME path.map = "gauge"
      PROVE  (prog' = prog /\ samples' = samples) \/ \E c \in CPU : Opening(c) \/ Opened(c)
  <2>1. ASSUME NEW c \in CPU, Sample(c) \/ LookUp(c) \/ Count(c)
        PROVE  FALSE
    BY <1>2, <2>1 DEF Sample, LookUp, Count, Update, ProgType
  <2>2. ASSUME NEW k \in Key, Clear(k)
        PROVE  FALSE
    BY <1>2, <2>2 DEF Clear, TickInv
  <2>3. ~Drop
    BY <1>2 DEF Drop
  <2> QED
    BY <2>1, <2>2, <2>3, ProgFrame, Zenon
<1> QED
  BY <1>1, <1>2, Zenon

(* A number below the modulus. *)
LEMMA Modulo ==
  ASSUME NEW a \in Nat, NEW b \in Nat, a < b
  PROVE  a % b = a
OBVIOUS

(* Every step keeps it. *)
LEMMA GaugeStep ==
  ASSUME GaugeInv, ProgType, TickInv, [Next]_vars
  PROVE  GaugeInv'
<1>1. /\ Older \in Nat /\ MaxSample \in Nat /\ Word \in Nat /\ Word > Older + MaxSample
      /\ path' = path /\ Absent = -1
  BY MapAssumption, FlightFrame DEF Absent
<1>2. /\ gauge \in {-1} \cup (0 .. Word - 1) /\ conns \in Nat /\ samples \in 0 .. MaxSample
      /\ closing \in [CPU -> {"no", "sub", "clamp", "none"}] /\ prog \in [CPU -> Program]
  BY <1>1 DEF GaugeInv, ProgType
<1>3. gauge \in Int /\ \A x \in Int : x % Word \in 0 .. Word - 1
  BY <1>1, <1>2
<1>4. /\ IsFiniteSet(Openers) /\ Cardinality(Openers) \in Nat
      /\ IsFiniteSet(Closers) /\ Cardinality(Closers) \in Nat
  <2>1. IsFiniteSet(CPU) /\ Openers \subseteq CPU /\ Closers \subseteq CPU
    BY MapAssumption DEF Openers, Closers
  <2> QED
    BY <2>1, FS_Subset, FS_CardinalityType
<1>5. CASE /\ UNCHANGED gaugeVars
           /\ path.map = "gauge" => prog' = prog /\ samples' = samples
  <2>1. raced' = raced /\ raced \in BOOLEAN
    BY <1>5, Zenon DEF gaugeVars, GaugeInv
  <2>2. gauge' = gauge /\ conns' = conns /\ closing' = closing
    BY <1>5 DEF gaugeVars
  <2>3. path.map = "gauge" => Openers' = Openers /\ Closers' = Closers
    BY <1>5, <2>2 DEF Openers, Closers
  <2> QED
    BY <1>1, <1>5, <2>1, <2>2, <2>3 DEF GaugeInv
<1>6. ASSUME NEW c \in CPU, Opening(c)
      PROVE  GaugeInv'
  <2>1. raced' = raced /\ raced \in BOOLEAN
    BY <1>6, Zenon DEF Opening, gaugeVars, GaugeInv
  <2>2. gauge' = gauge /\ conns' = conns /\ closing' = closing
    BY <1>6 DEF Opening, gaugeVars
  <2>3. Closers' = Closers
    BY <2>2 DEF Closers
  <2>4. path.map = "gauge" /\ prog[c] = Idle /\ samples' = samples + 1
    BY <1>6 DEF Opening
  <2>5. Openers' = Openers \cup {c} /\ c \notin Openers
    <3>1. prog'[c] # Idle /\ \A d \in CPU : d # c => prog'[d] = prog[d]
      BY <1>2, <1>6 DEF Opening, Idle
    <3> QED
      BY <2>4, <3>1 DEF Openers
  <2>6. Cardinality(Openers') = Cardinality(Openers) + 1
    BY <1>4, <2>5, FS_AddElement
  <2>7. conns' + Cardinality(Openers') <= Older + samples'
    BY <1>1, <1>2, <1>4, <2>2, <2>4, <2>6 DEF GaugeInv
  <2> QED
    BY <1>1, <2>1, <2>2, <2>3, <2>4, <2>7 DEF GaugeInv
<1>7. ASSUME NEW c \in CPU, Opened(c)
      PROVE  GaugeInv'
  <2>1. raced' = raced /\ raced \in BOOLEAN
    BY <1>7, Zenon DEF Opened, GaugeInv
  <2>2. path.map = "gauge" /\ prog[c] # Idle /\ samples' = samples /\ conns' = conns + 1
    BY <1>7 DEF Opened
  <2>3. prog[c] \in Program /\ prog[c].ref # "unset"
    <3>1. prog[c].left # << >> \/ prog[c].ref # "unset"
      BY <1>2, <2>2 DEF Idle, Program
    <3> QED
      BY <1>2, <2>2, <3>1 DEF ProgType
  <2>4. Openers' = Openers \ {c} /\ c \in Openers
    <3>1. ASSUME NEW d \in CPU
          PROVE  Unlinked("count")[d] = Idle <=> prog[d] = Idle
      <4>1. prog[d] \in Program
        BY <1>2
      <4> QED
        BY <4>1 DEF Unlinked, Idle, Program
    <3>2. prog[c].ref \in {"live", "none", "dead"}
      BY <2>3 DEF Program
    <3>3. prog' = [prog EXCEPT ![c] = Idle] \/ prog' = [Unlinked("count") EXCEPT ![c] = Idle]
      BY <1>7, <3>2 DEF Opened
    <3>4. Unlinked("count") \in [CPU -> Program]
      BY <1>2, UnlinkedType
    <3>5. prog'[c] = Idle /\ \A d \in CPU : d # c => (prog'[d] = Idle <=> prog[d] = Idle)
      BY <1>2, <3>1, <3>3, <3>4
    <3> QED
      BY <2>2, <3>5 DEF Openers
  <2>5. Cardinality(Openers') = Cardinality(Openers) - 1
    BY <1>4, <2>4, FS_RemoveElement
  <2>6. conns' + Cardinality(Openers') <= Older + samples' /\ Cardinality(Openers') \in Nat
    BY <1>1, <1>2, <1>4, <2>2, <2>4, <2>5, FS_RemoveElement, FS_CardinalityType DEF GaugeInv
  <2>7. conns + 1 < Word
    BY <1>1, <1>2, <2>2, <2>6
  <2>8. Cardinality(Closers) <= conns
    BY <2>2 DEF GaugeInv
  <2>9. \A d \in CPU : closing[d] # "no" => conns >= 1
    <3> SUFFICES ASSUME NEW d \in CPU, closing[d] # "no"
                 PROVE  conns >= 1
      OBVIOUS
    <3>1. d \in Closers
      BY DEF Closers
    <3>2. Cardinality(Closers) # 0
      BY <1>4, <3>1, FS_EmptySet
    <3> QED
      BY <1>2, <1>4, <2>8, <3>2
  <2>10. CASE prog[c].ref = "live"
    <3>1. gauge' = (gauge + 1) % Word /\ closing' = closing
      BY <1>7, <2>10 DEF Opened
    <3>2. gauge' \in 0 .. Word - 1
      BY <1>3, <3>1
    <3>3. Closers' = Closers
      BY <3>1 DEF Closers
    <3>4. ASSUME gauge <= conns
          PROVE  gauge' = gauge + 1
      <4>1. gauge + 1 \in Nat /\ gauge + 1 < Word
        BY <1>1, <1>2, <2>7, <3>4
      <4> QED
        BY <1>1, <3>1, <4>1, Modulo
    <3>5. conns' \in Nat /\ Cardinality(Closers') <= conns'
      BY <1>2, <1>4, <2>2, <2>8, <3>3
    <3>6. ASSUME ~raced
          PROVE  /\ gauge' <= conns'
                 /\ \A d, e \in CPU : closing'[d] # "no" /\ closing'[e] # "no" => d = e
                 /\ \A d \in CPU : /\ closing'[d] = "sub" => gauge' >= 1
                                   /\ closing'[d] = "none" => gauge' + 1 <= conns'
      <4>1. /\ gauge <= conns
            /\ \A d, e \in CPU : closing[d] # "no" /\ closing[e] # "no" => d = e
            /\ \A d \in CPU : /\ closing[d] = "sub" => gauge >= 1
                              /\ closing[d] = "none" => gauge + 1 <= conns
        BY <2>2, <3>6 DEF GaugeInv
      <4>2. gauge' = gauge + 1 /\ gauge \in Int
        BY <1>2, <3>4, <4>1
      <4> QED
        BY <1>2, <2>2, <3>1, <4>1, <4>2
    <3> QED
      BY <1>1, <1>2, <2>1, <2>2, <2>6, <3>1, <3>2, <3>5, <3>6 DEF GaugeInv
  <2>11. CASE prog[c].ref = "none"
    <3>1. gauge' = 1 /\ closing' = [d \in CPU |-> IF closing[d] = "no" THEN "no" ELSE "none"]
      BY <1>7, <2>11 DEF Opened
    <3>2. Closers' = Closers
      BY <1>2, <3>1 DEF Closers
    <3>3. gauge' \in 0 .. Word - 1 /\ conns' \in Nat /\ Cardinality(Closers') <= conns'
      BY <1>1, <1>2, <1>4, <2>2, <2>7, <2>8, <3>1, <3>2
    <3>4. closing' \in [CPU -> {"no", "sub", "clamp", "none"}]
      BY <1>2, <3>1
    <3>5. \A d \in CPU : /\ closing'[d] # "no" => closing[d] # "no" /\ closing'[d] = "none"
                         /\ closing'[d] = "none" => gauge' + 1 <= conns'
      BY <1>2, <2>2, <2>9, <3>1
    <3> QED
      BY <1>1, <1>2, <2>1, <2>2, <2>6, <3>1, <3>3, <3>4, <3>5 DEF GaugeInv
  <2>12. CASE prog[c].ref = "dead"
    <3>1. gauge' = gauge /\ closing' = closing
      BY <1>7, <2>12 DEF Opened
    <3>2. Closers' = Closers
      BY <3>1 DEF Closers
    <3>3. conns' \in Nat /\ Cardinality(Closers') <= conns'
      BY <1>2, <1>4, <2>2, <2>8, <3>2
    <3> QED
      BY <1>1, <1>2, <1>3, <2>1, <2>2, <2>6, <3>1, <3>3 DEF GaugeInv
  <2> QED
    BY <2>3, <2>10, <2>11, <2>12 DEF Program
<1>8. ASSUME NEW c \in CPU, Closing(c)
      PROVE  GaugeInv'
  <2>1. /\ path.map = "gauge" /\ gauge' = gauge /\ conns' = conns /\ closing[c] = "no"
        /\ Cardinality(Closers) < conns /\ closing' = [closing EXCEPT ![c] = Decision]
        /\ prog' = prog /\ samples' = samples
    BY <1>8 DEF Closing, Closers, counterVars
  <2>2. raced' = (raced \/ \E d \in CPU : closing[d] # "no")
    BY <1>8 DEF Closing
  <2>3. raced' \in BOOLEAN
    BY <2>2, Zenon
  <2>4. ~raced' => ~raced /\ \A d \in CPU : closing[d] = "no"
    BY <2>2, Zenon
  <2>5. /\ Decision \in {"sub", "clamp", "none"}
        /\ Decision = "sub" => gauge >= 1
        /\ Decision = "none" => gauge = -1
    BY <1>1, <1>2 DEF Decision
  <2>6. Openers' = Openers
    BY <2>1 DEF Openers
  <2>7. Closers' = Closers \cup {c} /\ c \notin Closers
    BY <1>2, <2>1, <2>5 DEF Closers
  <2>8. Cardinality(Closers') = Cardinality(Closers) + 1
    BY <1>4, <2>7, FS_AddElement
  <2>9. Cardinality(Closers') <= conns'
    BY <1>2, <1>4, <2>1, <2>8
  <2>10. closing' \in [CPU -> {"no", "sub", "clamp", "none"}]
    BY <1>2, <2>1, <2>5
  <2>11. ASSUME ~raced'
         PROVE  /\ gauge' <= conns'
                /\ \A d, e \in CPU : closing'[d] # "no" /\ closing'[e] # "no" => d = e
                /\ \A d \in CPU : /\ closing'[d] = "sub" => gauge' >= 1
                                  /\ closing'[d] = "none" => gauge' + 1 <= conns'
    <3>1. ~raced /\ \A d \in CPU : closing[d] = "no"
      BY <2>4, <2>11
    <3>2. gauge <= conns
      BY <2>1, <3>1 DEF GaugeInv
    <3>3. \A d \in CPU : d # c => closing'[d] = "no"
      BY <1>2, <2>1, <3>1
    <3>4. closing'[c] = Decision
      BY <1>2, <2>1
    <3> QED
      BY <1>2, <2>1, <2>5, <3>2, <3>3, <3>4
  <2> QED
    BY <1>1, <1>2, <2>1, <2>3, <2>6, <2>9, <2>10, <2>11 DEF GaugeInv
<1>9. ASSUME NEW c \in CPU, Closed(c)
      PROVE  GaugeInv'
  <2>1. raced' = raced /\ raced \in BOOLEAN
    BY <1>9, Zenon DEF Closed, GaugeInv
  <2>2. /\ closing[c] # "no" /\ conns' = conns - 1
        /\ closing' = [closing EXCEPT ![c] = "no"]
        /\ prog' = prog /\ samples' = samples
    BY <1>9 DEF Closed, counterVars
  <2>3. path.map = "gauge"
    BY <2>2 DEF GaugeInv
  <2>4. Openers' = Openers
    BY <2>2 DEF Openers
  <2>5. Closers' = Closers \ {c} /\ c \in Closers
    BY <1>2, <2>2 DEF Closers
  <2>6. Cardinality(Closers') = Cardinality(Closers) - 1 /\ Cardinality(Closers) # 0
    BY <1>4, <2>5, FS_RemoveElement, FS_EmptySet
  <2>7. Cardinality(Closers) <= conns
    BY <2>3 DEF GaugeInv
  <2>8. conns >= 1 /\ conns' \in Nat /\ Cardinality(Closers') <= conns'
    BY <1>2, <1>4, <2>2, <2>6, <2>7
  <2>9. closing[c] \in {"sub", "clamp", "none"}
    BY <1>2, <2>2
  <2>10. /\ closing[c] = "sub" => gauge' = (gauge - 1) % Word
         /\ closing[c] = "clamp" => gauge' = 0
         /\ closing[c] = "none" => gauge' = gauge
    BY <1>9 DEF Closed
  <2>11. gauge' \in {-1} \cup (0 .. Word - 1)
    <3>1. (gauge - 1) % Word \in 0 .. Word - 1 /\ 0 \in 0 .. Word - 1
      BY <1>1, <1>2, <1>3
    <3> QED
      BY <1>2, <2>9, <2>10, <3>1
  <2>12. closing' \in [CPU -> {"no", "sub", "clamp", "none"}]
    BY <1>2, <2>2
  <2>13. ASSUME ~raced
         PROVE  gauge' <= conns' /\ \A d \in CPU : closing'[d] = "no"
    <3>1. /\ gauge <= conns /\ \A d, e \in CPU : closing[d] # "no" /\ closing[e] # "no" => d = e
          /\ closing[c] = "sub" => gauge >= 1
          /\ closing[c] = "none" => gauge + 1 <= conns
      BY <2>3, <2>13 DEF GaugeInv
    <3>2. closing[c] = "sub" => gauge' = gauge - 1
      <4>1. gauge >= 1 => gauge - 1 \in Nat /\ gauge - 1 < Word
        BY <1>1, <1>2
      <4> QED
        BY <1>1, <2>10, <3>1, <4>1, Modulo
    <3>3. \A d \in CPU : closing'[d] = "no"
      BY <1>2, <2>2, <3>1
    <3> QED
      BY <1>2, <1>3, <2>2, <2>8, <2>9, <2>10, <3>1, <3>2, <3>3
  <2>14. conns' + Cardinality(Openers') <= Older + samples'
    BY <1>1, <1>2, <1>4, <2>2, <2>3, <2>4 DEF GaugeInv
  <2> QED
    BY <1>1, <2>1, <2>3, <2>8, <2>11, <2>12, <2>13, <2>14 DEF GaugeInv
<1> QED
  BY <1>5, <1>6, <1>7, <1>8, <1>9, GaugeFrame, Zenon

-----------------------------------------------------------------------------
(* The cells of the counter maps. *)

(* A key that is not in the map counts for nothing; a live pointer points  *)
(* to an element that is there; and the CPU of a program that is about to  *)
(* insert has added nothing to the element that others may have inserted.  *)
CellInv ==
  /\ elem \in [Key -> Cell]
  /\ \A k \in Key : ~elem[k].there => \A c \in CPU : elem[k].val[c] = 0
  /\ path.map \in {"percpu", "hash"} =>
       \A c \in CPU : prog[c].ref = "live" => elem[Head(prog[c].left)].there
  /\ path.map = "percpu" =>
       \A c \in CPU : prog[c].ref = "none" => elem[Head(prog[c].left)].val[c] = 0

(* It holds of the agent's start. *)
LEMMA CellInit == Init => CellInv
<1> SUFFICES ASSUME Init PROVE CellInv
  OBVIOUS
<1>1. elem = [k \in Key |-> [there |-> FALSE, val |-> [c \in CPU |-> 0]]]
  BY DEF Init, KernelInit
<1>2. \A c \in CPU : prog[c].ref = "unset"
  BY DEF Init, KernelInit, Idle
<1>3. elem \in [Key -> Cell]
  BY <1>1 DEF Cell
<1>4. \A k \in Key : ~elem[k].there => \A c \in CPU : elem[k].val[c] = 0
  BY <1>1
<1> QED
  BY <1>2, <1>3, <1>4 DEF CellInv

(* What a program still has to do starts with a key. *)
LEMMA HeadKey ==
  ASSUME ProgType, NEW c \in CPU, prog[c].left # << >>
  PROVE  Head(prog[c].left) \in Key
<1>1. prog[c].left = <<"count">> \/ prog[c].left = <<"bucket", "count">>
  BY DEF ProgType, Program
<1>2. Head(<<"count">>) = "count" /\ Head(<<"bucket", "count">>) = "bucket"
  OBVIOUS
<1> QED
  BY <1>1, <1>2 DEF Key

(* The element an increment leaves, cell by cell. *)
LEMMA CountCells ==
  ASSUME CellInv, ProgType, NEW c \in CPU, Count(c), NEW k, k = Head(prog[c].left)
  PROVE  /\ k \in Key
         /\ elem' \in [Key -> Cell]
         /\ \A j \in Key : j # k => elem'[j] = elem[j]
         /\ elem[k].there => elem'[k].there
         /\ prog[c].ref = "live" =>
              /\ elem[k].there /\ elem'[k].there
              /\ \A d \in CPU : elem'[k].val[d] = elem[k].val[d] + (IF d = c THEN 1 ELSE 0)
         /\ prog[c].ref = "none" =>
              /\ elem'[k].there
              /\ path.map = "percpu" \/ ~elem[k].there =>
                   \A d \in CPU : elem'[k].val[d] = elem[k].val[d] + (IF d = c THEN 1 ELSE 0)
              /\ path.map = "hash" => elem'[k].val = OnlyCell(c)
         /\ prog[c].ref = "dead" => elem' = elem
         /\ prog[c].ref \in {"live", "none", "dead"}
<1>1. /\ elem \in [Key -> Cell] /\ path.map \in {"percpu", "hash"}
      /\ prog \in [CPU -> Program] /\ prog[c].left # << >> /\ prog[c].ref # "unset"
  BY DEF CellInv, ProgType, Count, Update
<1>2. k \in Key /\ elem[k] \in Cell /\ elem[k].val \in [CPU -> Nat]
  BY <1>1, HeadKey DEF Cell
<1>3. prog[c].ref \in {"live", "none", "dead"}
  BY <1>1 DEF Program
<1>4. OnlyCell(c) \in [CPU -> Nat] /\ \A d \in CPU : OnlyCell(c)[d] = IF d = c THEN 1 ELSE 0
  BY DEF OnlyCell
<1>5. CASE prog[c].ref = "live"
  <2>1. elem' = [elem EXCEPT ![k].val[c] = @ + 1]
    BY <1>5 DEF Count, Update
  <2>2. elem[k].there
    BY <1>1, <1>5 DEF CellInv
  <2> DEFINE e == [elem[k] EXCEPT !.val = [elem[k].val EXCEPT ![c] = @ + 1]]
  <2>3. elem' = [elem EXCEPT ![k] = e]
    BY <2>1
  <2>4. e \in Cell /\ e.there = elem[k].there
    <3>1. elem[k].val[c] + 1 \in Nat
      BY <1>2
    <3>2. [elem[k].val EXCEPT ![c] = @ + 1] \in [CPU -> Nat]
      BY <1>2, <3>1
    <3> QED
      BY <1>2, <3>2 DEF Cell
  <2>5. \A d \in CPU : e.val[d] = elem[k].val[d] + (IF d = c THEN 1 ELSE 0)
    BY <1>2, SMTT(60) DEF Cell
  <2> HIDE DEF e
  <2>6. elem'[k] = e /\ elem' \in [Key -> Cell] /\ \A j \in Key : j # k => elem'[j] = elem[j]
    BY <1>1, <1>2, <2>3, <2>4
  <2>7. elem'[k].there
    BY <2>2, <2>4, <2>6, Zenon
  <2> QED
    BY <1>2, <1>3, <1>5, <2>2, <2>5, <2>6, <2>7
<1>6. CASE prog[c].ref = "none"
  <2> DEFINE e == Inserted(c, k)
  <2>1. elem' = [elem EXCEPT ![k] = e]
    BY <1>6 DEF Count, Update
  <2>2. e.there = TRUE /\ e.val = IF path.map = "percpu" /\ elem[k].there
                                  THEN [elem[k].val EXCEPT ![c] = 1] ELSE OnlyCell(c)
    BY DEF Inserted
  <2>3. e \in Cell
    BY <1>2, <1>4 DEF Inserted, Cell
  <2>4. ASSUME path.map = "percpu" \/ ~elem[k].there
        PROVE  \A d \in CPU : e.val[d] = elem[k].val[d] + (IF d = c THEN 1 ELSE 0)
    <3>1. CASE path.map = "percpu" /\ elem[k].there
      <4>1. e.val = [elem[k].val EXCEPT ![c] = 1]
        BY <2>2, <3>1
      <4>2. elem[k].val[c] = 0
        BY <1>6, <3>1 DEF CellInv
      <4> HIDE DEF e
      <4> DEFINE f == elem[k].val
      <4>3. e.val[c] = 1 /\ \A d \in CPU : d # c => e.val[d] = elem[k].val[d]
        <5>1. f \in [CPU -> Nat] /\ e.val = [f EXCEPT ![c] = 1]
          BY <1>2, <4>1
        <5> HIDE DEF f
        <5>2. e.val[c] = 1 /\ \A d \in CPU : d # c => e.val[d] = f[d]
          BY <5>1
        <5> QED
          BY <5>2 DEF f
      <4>4. \A d \in CPU : elem[k].val[d] \in Nat
        BY <1>2
      <4> QED
        BY <4>2, <4>3, <4>4
    <3>2. CASE ~elem[k].there
      <4>1. e.val = OnlyCell(c)
        BY <2>2, <3>2
      <4>2. \A d \in CPU : elem[k].val[d] = 0
        BY <1>2, <3>2 DEF CellInv
      <4> HIDE DEF e
      <4> QED
        BY <1>4, <4>1, <4>2
    <3> QED
      BY <2>4, <3>1, <3>2
  <2>5. path.map = "hash" => e.val = OnlyCell(c)
    BY <2>2
  <2> HIDE DEF e
  <2>6. elem'[k] = e /\ elem' \in [Key -> Cell] /\ \A j \in Key : j # k => elem'[j] = elem[j]
    BY <1>1, <1>2, <2>1, <2>3
  <2>7. elem'[k].there
    BY <2>2, <2>6, Zenon
  <2> QED
    BY <1>2, <1>3, <1>6, <2>4, <2>5, <2>6, <2>7
<1>7. CASE prog[c].ref = "dead"
  <2>1. elem' = elem
    BY <1>7 DEF Count, Update
  <2> QED
    BY <1>1, <1>2, <1>3, <1>7, <2>1
<1> QED
  BY <1>3, <1>5, <1>6, <1>7

(* Only increments and removals change the counter maps. *)
LEMMA CellFrame ==
  ASSUME [Next]_vars
  PROVE  elem' = elem \/ (\E c \in CPU : Count(c)) \/ (\E k \in Key : Clear(k))
<1>1. CASE UNCHANGED vars
  BY <1>1 DEF vars, kernelVars, counterVars
<1>2. CASE Kernel
  <2>1. ASSUME NEW c \in CPU, KernelStep(c)
        PROVE  elem' = elem
    BY <2>1 DEF KernelStep, Sample, LookUp, Opening, Opened, Closing, Closed, counterVars
  <2>2. CASE Drop \/ Attach
    BY <2>2 DEF Drop, Attach, counterVars
  <2>3. ASSUME NEW r \in Request, Issue(r) \/ Complete(r)
        PROVE  elem' = elem
    BY <2>3 DEF Issue, Complete, counterVars
  <2> QED
    BY <1>2, <2>1, <2>2, <2>3, Zenon DEF Kernel, KernelNext, KernelStep
<1>3. CASE Tick \/ DrainFail
  BY <1>3 DEF Tick, DrainFail, kernelVars, counterVars
<1>4. CASE EmitSum \/ EmitHistogram \/ EmitDrops
  BY <1>4 DEF EmitSum, EmitHistogram, EmitDrops, EmitEnds, kernelVars, counterVars
<1>5. ASSUME NEW k \in Key, Visit(k)
      PROVE  elem' = elem
  BY <1>5 DEF Visit, kernelVars, counterVars
<1>6. CASE readDrops \/ SwapDrops
  BY <1>6 DEF readDrops, SwapDrops, kernelVars, counterVars
<1>7. CASE DiskIO \/ DiskReset \/ DiskTick
  BY <1>7 DEF DiskIO, DiskReset, DiskTick, kernelVars, counterVars
<1>8. CASE Server /\ UNCHANGED <<kernelVars, drainVars, diskVars>>
  BY <1>8 DEF kernelVars, counterVars
<1> QED
  BY <1>1, <1>2, <1>3, <1>4, <1>5, <1>6, <1>7, <1>8, Zenon DEF Next

(* What a removal leaves. *)
LEMMA ClearCells ==
  ASSUME CellInv, NEW k \in Key, Clear(k)
  PROVE  /\ elem' \in [Key -> Cell]
         /\ \A j \in Key : j # k => elem'[j] = elem[j]
         /\ ~elem'[k].there /\ \A c \in CPU : elem'[k].val[c] = 0
<1> DEFINE e == [there |-> FALSE, val |-> [c \in CPU |-> 0]]
<1>1. elem' = [elem EXCEPT ![k] = e] /\ elem \in [Key -> Cell]
  BY DEF Clear, Cleared, CellInv
<1>2. e \in Cell /\ e.there = FALSE /\ \A c \in CPU : e.val[c] = 0
  BY DEF Cell
<1> HIDE DEF e
<1>3. elem'[k] = e /\ elem' \in [Key -> Cell] /\ \A j \in Key : j # k => elem'[j] = elem[j]
  BY <1>1, <1>2
<1>4. ~elem'[k].there
  BY <1>2, <1>3, Zenon
<1> QED
  BY <1>2, <1>3, <1>4

(* Every step keeps it. *)
LEMMA CellStep ==
  ASSUME CellInv, ProgType, TickInv, [Next]_vars
  PROVE  CellInv'
<1>1. path' = path /\ prog \in [CPU -> Program] /\ elem \in [Key -> Cell]
  BY FlightFrame DEF ProgType, CellInv
<1> DEFINE Fits(p, c) == /\ p.ref = "live" => elem[Head(p.left)].there
                         /\ path.map = "percpu" /\ p.ref = "none" => elem[Head(p.left)].val[c] = 0
<1>2. path.map \in {"percpu", "hash"} => \A c \in CPU : Fits(prog[c], c)
  BY DEF CellInv
<1>3. ASSUME elem' = elem,
             path.map \in {"percpu", "hash"} => \A c \in CPU : Fits(prog'[c], c)
      PROVE  CellInv'
  BY <1>1, <1>3 DEF CellInv
<1>4. ASSUME NEW k \in Key
      PROVE  /\ Found(k) \in {"live", "none"}
             /\ Found(k) = "live" => elem[k].there
             /\ Found(k) = "none" => \A c \in CPU : elem[k].val[c] = 0
  BY DEF Found, CellInv
<1>5. CASE elem' = elem
  <2>1. CASE prog' = prog
    <3> HIDE DEF Fits
    <3> QED
      BY <1>2, <1>3, <1>5, <2>1
  <2>2. CASE path.map \notin {"percpu", "hash"}
    BY <1>3, <1>5, <2>2
  <2>3. ASSUME NEW c \in CPU, NEW p, prog' = [prog EXCEPT ![c] = p], Fits(p, c)
        PROVE  CellInv'
    <3>1. ASSUME NEW d \in CPU
          PROVE  prog'[d] = IF d = c THEN p ELSE prog[d]
      BY <1>1, <2>3
    <3> HIDE DEF Fits
    <3> QED
      BY <1>2, <1>3, <1>5, <2>3, <3>1
  <2>4. ASSUME NEW c \in CPU, Sample(c)
        PROVE  CellInv'
    <3> DEFINE p == [left |-> Increments, ref |-> Found(Head(Increments))]
    <3>1. Head(Increments) \in Key
      <4>1. Head(<<"count">>) = "count" /\ Head(<<"bucket", "count">>) = "bucket"
        OBVIOUS
      <4>2. Increments = <<"count">> \/ Increments = <<"bucket", "count">>
        BY DEF Increments
      <4> QED
        BY <4>1, <4>2 DEF Key
    <3>2. Fits(p, c)
      BY <1>4, <3>1
    <3>3. prog' = [prog EXCEPT ![c] = p]
      BY <2>4 DEF Sample
    <3> HIDE DEF p, Fits
    <3> QED
      BY <2>3, <3>2, <3>3
  <2>5. ASSUME NEW c \in CPU, LookUp(c)
        PROVE  CellInv'
    <3> DEFINE k == Head(prog[c].left)
               p == [prog[c] EXCEPT !.ref = Found(k)]
    <3>1. k \in Key
      BY <2>5, HeadKey DEF LookUp
    <3>2. prog' = [prog EXCEPT ![c] = p]
      BY <2>5 DEF LookUp
    <3>3. p.left = prog[c].left /\ p.ref = Found(k)
      BY <1>1 DEF Program
    <3> HIDE DEF p
    <3>4. Fits(p, c)
      BY <1>4, <3>1, <3>3
    <3> HIDE DEF Fits
    <3> QED
      BY <2>3, <3>2, <3>4
  <2>6. ASSUME NEW c \in CPU, Opening(c) \/ Opened(c)
        PROVE  path.map \notin {"percpu", "hash"}
    BY <2>6 DEF Opening, Opened
  <2>7. CASE Drop
    BY <2>2, <2>7 DEF Drop
  <2> HIDE DEF Fits
  <2>8. ASSUME NEW k, NEW c \in CPU, prog' = [Unlinked(k) EXCEPT ![c] = prog'[c]], prog'[c].ref = "unset"
        PROVE  \A d \in CPU : Fits(prog'[d], d) \/ path.map \notin {"percpu", "hash"}
    <3> SUFFICES ASSUME NEW d \in CPU, path.map \in {"percpu", "hash"}
                 PROVE  Fits(prog'[d], d)
      OBVIOUS
    <3>1. Unlinked(k) \in [CPU -> Program]
      BY <1>1, UnlinkedType
    <3>2. CASE d = c
      BY <2>8, <3>2 DEF Fits
    <3>3. CASE d # c
      <4>1. prog'[d] = Unlinked(k)[d]
        BY <2>8, <3>1, <3>3
      <4>2. prog'[d].left = prog[d].left /\ (prog'[d].ref = prog[d].ref \/ prog'[d].ref = "dead")
        BY <1>1, <4>1, UnlinkedType
      <4> QED
        BY <1>2, <4>2 DEF Fits
    <3> QED
      BY <3>2, <3>3
  <2>9. ASSUME NEW c \in CPU, Count(c)
        PROVE  CellInv'
    <3> DEFINE p == [left |-> Tail(prog[c].left), ref |-> "unset"]
    <3>1. prog' = [prog EXCEPT ![c] = p] \/ prog' = [Unlinked(Head(prog[c].left)) EXCEPT ![c] = p]
      BY <2>9 DEF Count, Update
    <3>2. p.ref = "unset"
      OBVIOUS
    <3> HIDE DEF p
    <3>3. Fits(p, c)
      BY <3>2 DEF Fits
    <3>4. Unlinked(Head(prog[c].left)) \in [CPU -> Program]
      BY <1>1, UnlinkedType
    <3>5. prog'[c] = p
      BY <1>1, <3>1, <3>4
    <3> QED
      BY <1>3, <1>5, <2>3, <2>8, <3>1, <3>2, <3>3, <3>5
  <2>10. ASSUME NEW k \in Key, Clear(k)
         PROVE  CellInv'
    <3>1. prog' = Unlinked(k)
      BY <2>10 DEF Clear
    <3>2. ASSUME NEW d \in CPU, path.map \in {"percpu", "hash"}
          PROVE  Fits(prog'[d], d)
      <4>1. prog'[d].left = prog[d].left /\ (prog'[d].ref = prog[d].ref \/ prog'[d].ref = "dead")
        BY <1>1, <3>1, UnlinkedType
      <4> QED
        BY <1>2, <3>2, <4>1 DEF Fits
    <3> QED
      BY <1>3, <1>5, <3>2
  <2> QED
    BY <2>1, <2>2, <2>4, <2>5, <2>6, <2>7, <2>9, <2>10, ProgFrame, Zenon
<1>6. ASSUME NEW c \in CPU, Count(c)
      PROVE  CellInv'
  <2> DEFINE k == Head(prog[c].left)
             p == [left |-> Tail(prog[c].left), ref |-> "unset"]
  <2>1. /\ k \in Key
        /\ elem' \in [Key -> Cell]
        /\ \A j \in Key : j # k => elem'[j] = elem[j]
        /\ elem[k].there => elem'[k].there
        /\ prog[c].ref \in {"live", "none"} => elem'[k].there
        /\ prog[c].ref = "dead" => elem' = elem
        /\ prog[c].ref \in {"live", "none", "dead"}
    BY <1>6, CountCells
  <2>2. ASSUME path.map = "percpu", NEW d \in CPU, d # c
        PROVE  elem'[k].val[d] = elem[k].val[d]
    <3>1. elem[k].val[d] \in Nat
      BY <1>1, <2>1 DEF Cell
    <3>2. prog[c].ref \in {"live", "none"} => elem'[k].val[d] = elem[k].val[d] + 0
      BY <1>6, <2>2, CountCells
    <3>3. prog[c].ref \in {"live", "none"} \/ elem' = elem
      BY <2>1
    <3> QED
      BY <3>1, <3>2, <3>3
  <2>3. ASSUME NEW j \in Key, ~elem'[j].there, NEW d \in CPU
        PROVE  elem'[j].val[d] = 0
    <3>1. CASE j # k
      <4>1. elem'[j] = elem[j]
        BY <2>1, <3>1
      <4>2. ~elem[j].there
        BY <2>3, <4>1, Zenon
      <4> QED
        BY <4>1, <4>2 DEF CellInv
    <3>2. CASE j = k
      <4>1. elem' = elem /\ ~elem[k].there
        BY <2>1, <2>3, <3>2
      <4> QED
        BY <2>1, <3>2, <4>1 DEF CellInv
    <3> QED
      BY <3>1, <3>2
  <2>4. prog' = [prog EXCEPT ![c] = p] \/ prog' = [Unlinked(k) EXCEPT ![c] = p]
    BY <1>6 DEF Count, Update
  <2>5. Unlinked(k) \in [CPU -> Program]
    BY <1>1, UnlinkedType
  <2>6. prog'[c].ref = "unset"
    BY <1>1, <2>4, <2>5
  <2>7. ASSUME NEW d \in CPU, d # c
        PROVE  prog'[d].left = prog[d].left /\ (prog'[d].ref = prog[d].ref \/ prog'[d].ref = "dead")
    <3>1. prog'[d] = prog[d] \/ prog'[d] = Unlinked(k)[d]
      BY <1>1, <2>4, <2>5, <2>7
    <3> HIDE DEF k
    <3> QED
      BY <1>1, <3>1, UnlinkedType
  <2> HIDE DEF k, Fits, p
  <2>8. path.map \in {"percpu", "hash"}
    BY <1>6 DEF Count, Update
  <2>9. ASSUME NEW d \in CPU, prog'[d].ref = "live"
        PROVE  elem'[Head(prog'[d].left)].there
    <3>1. d # c /\ prog'[d].left = prog[d].left /\ prog[d].ref = "live"
      BY <2>6, <2>7, <2>9
    <3>2. elem[Head(prog[d].left)].there
      BY <2>8, <3>1 DEF CellInv
    <3>3. Head(prog[d].left) \in Key
      BY <3>1, HeadKey DEF ProgType
    <3>4. CASE Head(prog[d].left) = k
      BY <2>1, <3>1, <3>2, <3>4
    <3>5. CASE Head(prog[d].left) # k
      <4>1. elem'[Head(prog[d].left)] = elem[Head(prog[d].left)]
        BY <2>1, <3>3, <3>5
      <4> QED
        BY <3>1, <3>2, <4>1, Zenon
    <3> QED
      BY <3>4, <3>5
  <2>10. ASSUME path.map = "percpu", NEW d \in CPU, prog'[d].ref = "none"
         PROVE  elem'[Head(prog'[d].left)].val[d] = 0
    <3>1. d # c /\ prog'[d].left = prog[d].left /\ prog[d].ref = "none"
      BY <2>6, <2>7, <2>10
    <3>2. elem[Head(prog[d].left)].val[d] = 0
      BY <2>10, <3>1 DEF CellInv
    <3>3. Head(prog[d].left) \in Key
      BY <3>1, HeadKey DEF ProgType
    <3> QED
      BY <2>1, <2>2, <2>10, <3>1, <3>2, <3>3
  <2> QED
    BY <1>1, <2>1, <2>3, <2>9, <2>10 DEF CellInv
<1>7. ASSUME NEW k \in Key, Clear(k)
      PROVE  CellInv'
  <2>1. /\ elem' \in [Key -> Cell]
        /\ \A j \in Key : j # k => elem'[j] = elem[j]
        /\ ~elem'[k].there /\ \A c \in CPU : elem'[k].val[c] = 0
    BY <1>7, ClearCells
  <2>2. prog' = Unlinked(k)
    BY <1>7 DEF Clear
  <2>3. ASSUME NEW d \in CPU
        PROVE  /\ prog'[d].left = prog[d].left /\ (prog'[d].ref = prog[d].ref \/ prog'[d].ref = "dead")
               /\ Head(prog[d].left) = k => prog'[d].ref # "live"
    BY <1>1, <2>2, UnlinkedType
  <2>4. path.map \in {"percpu", "hash"}
    BY <1>7 DEF Clear, TickInv
  <2>5. ASSUME NEW j \in Key, ~elem'[j].there, NEW d \in CPU
        PROVE  elem'[j].val[d] = 0
    <3>1. CASE j # k
      <4>1. elem'[j] = elem[j]
        BY <2>1, <3>1
      <4>2. ~elem[j].there
        BY <2>5, <4>1, Zenon
      <4> QED
        BY <4>1, <4>2 DEF CellInv
    <3> QED
      BY <2>1, <3>1
  <2>6. ASSUME NEW d \in CPU, prog'[d].ref = "live"
        PROVE  elem'[Head(prog'[d].left)].there
    <3>1. prog'[d].left = prog[d].left /\ prog[d].ref = "live" /\ Head(prog[d].left) # k
      BY <2>3, <2>6
    <3>2. elem[Head(prog[d].left)].there
      BY <2>4, <3>1 DEF CellInv
    <3>3. Head(prog[d].left) \in Key
      BY <3>1, HeadKey DEF ProgType
    <3>4. elem'[Head(prog[d].left)] = elem[Head(prog[d].left)]
      BY <2>1, <3>1, <3>3
    <3> QED
      BY <3>1, <3>2, <3>4, Zenon
  <2>7. ASSUME path.map = "percpu", NEW d \in CPU, prog'[d].ref = "none"
        PROVE  elem'[Head(prog'[d].left)].val[d] = 0
    <3>1. prog'[d].left = prog[d].left /\ prog[d].ref = "none"
      BY <2>3, <2>7
    <3>2. elem[Head(prog[d].left)].val[d] = 0
      BY <2>7, <3>1 DEF CellInv
    <3>3. Head(prog[d].left) \in Key
      BY <3>1, HeadKey DEF ProgType
    <3> QED
      BY <2>1, <3>1, <3>2, <3>3
  <2> QED
    BY <1>1, <2>1, <2>5, <2>6, <2>7 DEF CellInv
<1> QED
  BY <1>5, <1>6, <1>7, CellFrame, Zenon

-----------------------------------------------------------------------------
(* Adding up what was counted, read and sent. *)

(* The value of key k, what is on its way from the ring buffer, what the   *)
(* tick holds, and what was sent, as operators of the state's parts.       *)
V(e, k) == Sum(e[k].val, CPU)

Loose(r, p, k) == IF k = "count" THEN r + p ELSE 0

Held(m, ks, d, h, k) == IF m = "percpu" /\ (k \in ks \/ d = "scan") THEN 0 ELSE h[k]

SentOf(w, k) == Sum([i \in DOMAIN w |-> w[i][k]], DOMAIN w)

(* A record of counts is a function of the keys. *)
LEMMA DeltaAt ==
  ASSUME NEW d \in Delta, NEW k \in Key
  PROVE  /\ d[k] \in Nat
         /\ \A n \in Nat : /\ [d EXCEPT ![k] = n] \in Delta
                           /\ [d EXCEPT ![k] = n][k] = n
                           /\ \A j \in Key : j # k => [d EXCEPT ![k] = n][j] = d[j]
BY DEF Delta, Key

(* The empty record. *)
LEMMA ZeroAt == Zero \in Delta /\ \A k \in Key : Zero[k] = 0
BY DEF Zero, Delta, Key

(* Sent(k) of Collector, a fold over the deltas sent, is that sum. *)
LEMMA SentSum ==
  ASSUME NEW w \in Seq(Delta), NEW k \in Key
  PROVE  /\ FoldFunction(LAMBDA e, s : e[k] + s, 0, w) = SentOf(w, k)
         /\ SentOf(w, k) \in Nat
<1> DEFINE D == DOMAIN w
           f == [i \in D |-> w[i][k]]
           Step1(e) == [s \in SUBSET D |-> IF s = {} THEN 0 ELSE
                                           w[Choice(s)][k] + e[s \ {Choice(s)}]]
<1>1. D = 1 .. Len(w) /\ Len(w) \in Nat /\ \A i \in D : w[i] \in Delta
  OBVIOUS
<1>2. IsFiniteSet(D)
  BY <1>1, FS_Interval
<1>3. f \in [D -> Nat]
  BY <1>1, DeltaAt
<1>4. ASSUME NEW e
      PROVE  e = Step1(e) <=> Adds(f, D, e)
  <2>1. \A s \in SUBSET D : s # {} => f[Choice(s)] = w[Choice(s)][k]
    BY DEF Choice
  <2>2. Step1(e) = [s \in SUBSET D |-> IF s = {} THEN 0 ELSE f[Choice(s)] + e[s \ {Choice(s)}]]
    <3> HIDE DEF f
    <3> QED
      BY <2>1
  <2> HIDE DEF f, Step1
  <2> QED
    BY <2>2 DEF Adds
<1>5. \E e : e = Step1(e)
  <2> HIDE DEF f, Step1, D
  <2> QED
    BY <1>2, <1>3, <1>4, AddsExist
<1> DEFINE g == CHOOSE e : e = Step1(e)
<1>6. g = Step1(g)
  <2> HIDE DEF Step1
  <2> QED
    BY <1>5
<1>7. g[D] = Sum(f, D)
  <2> HIDE DEF f, Step1, D, g
  <2> QED
    BY <1>2, <1>3, <1>4, <1>6, SumIs
<1>8. FoldFunction(LAMBDA e, s : e[k] + s, 0, w) = g[D]
  BY DEF FoldFunction, FoldFunctionOnSet, MapThenFoldSet, Choice
<1>9. Sum(f, D) \in Nat
  <2> HIDE DEF f, D
  <2> QED
    BY <1>2, <1>3, SumNat
<1> QED
  BY <1>7, <1>8, <1>9 DEF SentOf

(* Before anything was sent. *)
LEMMA SentNothing ==
  ASSUME NEW k \in Key
  PROVE  SentOf(<< >>, k) = 0
<1>1. DOMAIN << >> = {} /\ [i \in DOMAIN << >> |-> << >>[i][k]] \in [{} -> Nat]
  OBVIOUS
<1> QED
  BY <1>1, SumEmpty DEF SentOf

(* A further delta. *)
LEMMA SentMore ==
  ASSUME NEW w \in Seq(Delta), NEW d \in Delta, NEW k \in Key
  PROVE  SentOf(Append(w, d), k) = SentOf(w, k) + d[k]
<1> DEFINE n == Len(w)
           u == Append(w, d)
           f == [i \in 1 .. n |-> w[i][k]]
           h == [i \in 1 .. n + 1 |-> u[i][k]]
<1>1. n \in Nat /\ DOMAIN w = 1 .. n /\ DOMAIN u = 1 .. n + 1
  OBVIOUS
<1>2. u[n + 1] = d /\ \A i \in 1 .. n : u[i] = w[i]
  OBVIOUS
<1>3. \A i \in 1 .. n : w[i] \in Delta
  OBVIOUS
<1>4. f \in [1 .. n -> Nat]
  BY <1>3, DeltaAt
<1> HIDE DEF n, u
<1>5. \A i \in 1 .. n + 1 : u[i] \in Delta
  BY <1>1, <1>2, <1>3
<1>6. h \in [1 .. n + 1 -> Nat]
  BY <1>5, DeltaAt
<1>7. h[n + 1] = d[k] /\ \A i \in 1 .. n : h[i] = f[i]
  BY <1>1, <1>2
<1>8. SentOf(w, k) = Sum(f, 1 .. n) /\ SentOf(u, k) = Sum(h, 1 .. n + 1)
  BY <1>1, Zenon DEF SentOf
<1>9. Sum(h, 1 .. n + 1) = Sum(f, 1 .. n) + h[n + 1]
  <2> HIDE DEF f, h
  <2> QED
    BY <1>1, <1>4, <1>6, <1>7, SumAppend
<1> QED
  BY <1>7, <1>8, <1>9 DEF u

(* What an increment adds to a key's value: one, unless it was lost. *)
LEMMA CountValue ==
  ASSUME CellInv, ProgType, NEW c \in CPU, Count(c), NEW k, k = Head(prog[c].left)
  PROVE  /\ k \in Key
         /\ \A j \in Key : j # k => V(elem', j) = V(elem, j)
         /\ V(elem, k) \in Nat /\ V(elem', k) \in Nat
         /\ V(elem', k) <= V(elem, k) + 1
         /\ ~LossTo(c, k) => V(elem', k) = V(elem, k) + 1
         /\ path.map = "percpu" => V(elem', k) >= V(elem, k)
<1>1. /\ k \in Key
      /\ elem' \in [Key -> Cell]
      /\ \A j \in Key : j # k => elem'[j] = elem[j]
      /\ prog[c].ref = "live" =>
           \A d \in CPU : elem'[k].val[d] = elem[k].val[d] + (IF d = c THEN 1 ELSE 0)
      /\ prog[c].ref = "none" =>
           /\ path.map = "percpu" \/ ~elem[k].there =>
                \A d \in CPU : elem'[k].val[d] = elem[k].val[d] + (IF d = c THEN 1 ELSE 0)
           /\ path.map = "hash" => elem'[k].val = OnlyCell(c)
      /\ prog[c].ref = "dead" => elem' = elem
      /\ prog[c].ref \in {"live", "none", "dead"}
  BY CountCells, SMTT(60)
<1>a. k \in Key
  BY <1>1, Zenon
<1>2. \A j \in Key : j # k => V(elem', j) = V(elem, j)
  BY <1>1, Zenon DEF V
<1> DEFINE f == elem[k].val
           h == elem'[k].val
<1>3. f \in [CPU -> Nat] /\ h \in [CPU -> Nat] /\ IsFiniteSet(CPU)
  BY <1>1, MapAssumption DEF CellInv, Cell
<1>4. V(elem, k) = Sum(f, CPU) /\ V(elem', k) = Sum(h, CPU)
  BY DEF V
<1> HIDE DEF f, h
<1>5. Sum(f, CPU) \in Nat /\ Sum(h, CPU) \in Nat
  BY <1>3, SumNat
<1>6. ASSUME \A d \in CPU : h[d] = f[d] + (IF d = c THEN 1 ELSE 0)
      PROVE  Sum(h, CPU) = Sum(f, CPU) + 1
  <2>1. f[c] \in Nat /\ h[c] = f[c] + 1 /\ \A d \in CPU : d # c => h[d] = f[d]
    BY <1>3, <1>6
  <2>2. Sum(h, CPU) = Sum(f, CPU) - f[c] + h[c]
    BY <1>3, <2>1, SumUpdate
  <2> QED
    BY <1>5, <2>1, <2>2
<1>7. path.map = "percpu" \/ path.map = "hash"
  BY DEF Count, Update
<1>8. CASE prog[c].ref = "live" \/ (prog[c].ref = "none" /\ (path.map = "percpu" \/ ~elem[k].there))
  <2>1. \A d \in CPU : h[d] = f[d] + (IF d = c THEN 1 ELSE 0)
    BY <1>1, <1>8 DEF f, h
  <2> QED
    <3>1. /\ V(elem, k) \in Nat /\ V(elem', k) \in Nat /\ V(elem', k) = V(elem, k) + 1
          /\ V(elem', k) <= V(elem, k) + 1 /\ V(elem', k) >= V(elem, k)
      BY <1>4, <1>5, <1>6, <2>1
    <3> QED
      BY <1>a, <1>2, <3>1, Zenon
<1>9. CASE prog[c].ref = "none" /\ path.map # "percpu" /\ elem[k].there
  <2>1. h = OnlyCell(c) /\ LossTo(c, k)
    BY <1>1, <1>7, <1>9 DEF h, LossTo
  <2> DEFINE z == [d \in CPU |-> 0]
  <2>2. z \in [CPU -> Nat] /\ \A d \in CPU : z[d] = 0
    OBVIOUS
  <2>3. h[c] = 1 /\ \A d \in CPU : d # c => h[d] = z[d]
    BY <2>1 DEF OnlyCell
  <2> HIDE DEF z
  <2>4. Sum(z, CPU) = 0
    BY <1>3, <2>2, SumZero
  <2>5. Sum(h, CPU) = Sum(z, CPU) - z[c] + h[c]
    BY <1>3, <2>2, <2>3, SumUpdate
  <2>6. Sum(h, CPU) = 1
    BY <2>2, <2>3, <2>4, <2>5
  <2> QED
    <3>1. /\ V(elem, k) \in Nat /\ V(elem', k) \in Nat /\ V(elem', k) <= V(elem, k) + 1
      BY <1>4, <1>5, <2>6
    <3> QED
      BY <1>a, <1>2, <1>9, <2>1, <3>1, Zenon
<1>10. CASE prog[c].ref = "dead"
  <2>1. V(elem', k) = V(elem, k) /\ LossTo(c, k)
    BY <1>1, <1>10 DEF LossTo
  <2>2. /\ V(elem, k) \in Nat /\ V(elem', k) \in Nat /\ V(elem', k) <= V(elem, k) + 1
        /\ V(elem', k) >= V(elem, k)
    BY <1>4, <1>5, <2>1
  <2> QED
    BY <1>a, <1>2, <2>1, <2>2, Zenon
<1> QED
  BY <1>1, <1>8, <1>9, <1>10

(* A removed key counts for nothing. *)
LEMMA ClearValue ==
  ASSUME CellInv, NEW k \in Key, Clear(k)
  PROVE  V(elem', k) = 0 /\ \A j \in Key : j # k => V(elem', j) = V(elem, j)
<1>1. /\ elem' \in [Key -> Cell]
      /\ \A j \in Key : j # k => elem'[j] = elem[j]
      /\ \A c \in CPU : elem'[k].val[c] = 0
  BY ClearCells
<1>2. elem'[k].val \in [CPU -> Nat] /\ IsFiniteSet(CPU)
  BY <1>1, MapAssumption DEF Cell
<1> QED
  BY <1>1, <1>2, SumZero DEF V

(* An absent key too. *)
LEMMA AbsentValue ==
  ASSUME CellInv, NEW k \in Key
  PROVE  V(elem, k) \in Nat /\ (~elem[k].there => V(elem, k) = 0)
<1>1. elem[k].val \in [CPU -> Nat] /\ IsFiniteSet(CPU)
  BY MapAssumption DEF CellInv, Cell
<1>2. ~elem[k].there => \A c \in CPU : elem[k].val[c] = 0
  BY DEF CellInv
<1> QED
  BY <1>1, <1>2, SumNat, SumZero DEF V

-----------------------------------------------------------------------------
(* The ledger: what was recorded against what is in the map, in the hands  *)
(* of the tick, and sent.                                                  *)

(* Where the increments of a key can be. *)
Total(k) == V(elem, k) + Loose(ring, pend, k) + Held(path.map, keys, drain, hand, k) + SentOf(wire, k)

(* Types of the counts and of what carries them. *)
LedgerType ==
  /\ recorded \in [Key -> Nat]
  /\ ring \in 0 .. RingCap /\ pend \in Nat
  /\ hand \in Delta
  /\ wire \in Seq(Delta)
  /\ excused \in BOOLEAN

(* What the tick has read.  A key of a per-CPU map was read before it is   *)
(* cleared, a key of a shared map is read as it is cleared.                *)
HandInv ==
  /\ drain = "idle" => hand = Zero
  /\ \A k \in Key :
       /\ drain = "scan" /\ k \notin keys => hand[k] = 0
       /\ path.map = "hash" /\ (drain = "scan" \/ k \in keys) => hand[k] = 0
       /\ path.map = "percpu" /\ k \in keys =>
            hand[k] <= V(elem, k) /\ (~excused => hand[k] = V(elem, k))

(* Nothing is sent that was not recorded, and without a named loss nothing *)
(* is missing.  A plain sum has no buckets, so that what it sends is never *)
(* held back for a count of zero.                                          *)
LedgerInv ==
  /\ LedgerType
  /\ path.shape # "histogram" => recorded["bucket"] = 0
  /\ HandInv
  /\ \A k \in Key : recorded[k] >= Total(k) /\ (~excused => recorded[k] = Total(k))
  /\ emitted = SentOf(wire, "count")

(* It holds of the agent's start. *)
LEMMA LedgerInit == Init => LedgerInv
<1> SUFFICES ASSUME Init PROVE LedgerInv
  OBVIOUS
<1>1. RingCap \in Nat
  BY MapAssumption
<1>2. excused = FALSE /\ excused \in BOOLEAN
  BY Zenon DEF Init
<1>3. /\ recorded = [k \in Key |-> 0] /\ ring = 0 /\ pend = 0 /\ hand = Zero /\ wire = << >>
      /\ drain = "idle" /\ keys = {} /\ emitted = 0
      /\ elem = [k \in Key |-> [there |-> FALSE, val |-> [c \in CPU |-> 0]]]
  BY DEF Init, KernelInit, ServerInit
<1>4. LedgerType
  BY <1>1, <1>2, <1>3, ZeroAt DEF LedgerType
<1>5. ASSUME NEW k \in Key
      PROVE  /\ V(elem, k) = 0 /\ SentOf(wire, k) = 0 /\ recorded[k] = 0
             /\ Held(path.map, keys, drain, hand, k) = 0 /\ Loose(ring, pend, k) = 0
  <2>1. elem[k].val \in [CPU -> Nat] /\ IsFiniteSet(CPU) /\ \A c \in CPU : elem[k].val[c] = 0
    BY <1>3, MapAssumption
  <2>2. V(elem, k) = 0
    BY <2>1, SumZero DEF V
  <2>3. SentOf(wire, k) = 0
    BY <1>3, SentNothing
  <2> QED
    BY <1>3, <2>2, <2>3, ZeroAt DEF Held, Loose
<1>6. \A k \in Key : recorded[k] = Total(k) /\ recorded[k] = 0
  BY <1>5 DEF Total
<1>7. emitted = SentOf(wire, "count") /\ recorded["bucket"] = 0
  BY <1>3, <1>5 DEF Key
<1>8. HandInv
  BY <1>3 DEF HandInv
<1> QED
  BY <1>4, <1>6, <1>7, <1>8 DEF LedgerInv

(* The steps that move counts. *)
LEMMA LedgerFrame ==
  ASSUME [Next]_vars
  PROVE  \/ /\ UNCHANGED <<elem, recorded, ring, drain, keys, hand, emitted, pend, wire>>
            /\ excused' = excused
         \/ \E c \in CPU : Count(c)
         \/ Tick \/ DrainFail \/ EmitSum \/ EmitHistogram
         \/ \E k \in Key : Visit(k) \/ Clear(k)
         \/ readDrops \/ SwapDrops \/ EmitDrops
         \/ Drop /\ UNCHANGED <<serverVars, drainVars, diskVars>>
<1> DEFINE Same == /\ UNCHANGED <<elem, recorded, ring, drain, keys, hand, emitted, pend, wire>>
                   /\ excused' = excused
<1>1. CASE UNCHANGED vars
  BY <1>1, Zenon DEF vars, kernelVars, counterVars, drainVars, serverVars
<1>2. CASE Kernel
  <2>1. UNCHANGED <<drain, keys, hand, emitted, pend, wire>> /\ excused' = excused
    BY <1>2, Zenon DEF Kernel, drainVars, serverVars
  <2>2. ASSUME NEW c \in CPU, KernelStep(c)
        PROVE  UNCHANGED <<elem, recorded, ring>>
    BY <2>2, Zenon DEF KernelStep, Sample, LookUp, Opening, Opened, Closing, Closed, counterVars
  <2>3. CASE Attach
    BY <2>1, <2>3, Zenon DEF Attach, counterVars
  <2>4. ASSUME NEW r \in Request, Issue(r) \/ Complete(r)
        PROVE  UNCHANGED <<elem, recorded, ring>>
    BY <2>4, Zenon DEF Issue, Complete, counterVars
  <2> QED
    BY <1>2, <2>1, <2>2, <2>3, <2>4, Zenon DEF Kernel, KernelNext, KernelStep
<1>3. CASE DiskIO \/ DiskReset \/ DiskTick
  BY <1>3, Zenon DEF DiskIO, DiskReset, DiskTick, kernelVars, counterVars, drainVars, serverVars
<1>4. CASE Server /\ UNCHANGED <<kernelVars, drainVars, diskVars>>
  <2>1. UNCHANGED <<elem, recorded, ring, drain, keys, hand, emitted, pend>> /\ excused' = excused
    BY <1>4, Zenon DEF kernelVars, counterVars, drainVars
  <2>2. ASSUME NEW h \in Handler,
               \/ Receive(h) \/ ReceiveAgain(h) \/ ReceiveSibling(h)
               \/ ReceiveOther(h, "own") \/ ReceiveOther(h, "other")
               \/ addSum(h) \/ AddBuckets(h)
               \/ AddCount(h) \/ ReadBuckets(h) \/ ReadCount(h) \/ Post(h)
        PROVE  wire' = wire
    BY <2>2, Zenon DEF Receive, ReceiveAgain, ReceiveSibling, ReceiveOther, addSum, AddBuckets,
                       AddCount, ReadBuckets, ReadCount, Post
  <2> QED
    BY <1>4, <2>1, <2>2, Zenon DEF Server
<1> QED
  BY <1>1, <1>2, <1>3, <1>4, Zenon DEF Next

(* The parts of the ledger are numbers. *)
LEMMA LedgerNat ==
  ASSUME LedgerType, CellInv, NEW k \in Key
  PROVE  /\ V(elem, k) \in Nat /\ SentOf(wire, k) \in Nat /\ Loose(ring, pend, k) \in Nat
         /\ hand[k] \in Nat /\ Held(path.map, keys, drain, hand, k) \in Nat /\ recorded[k] \in Nat
<1>1. V(elem, k) \in Nat
  BY AbsentValue
<1>2. SentOf(wire, k) \in Nat
  BY SentSum DEF LedgerType
<1>3. hand[k] \in Nat
  BY DeltaAt DEF LedgerType
<1>4. Loose(ring, pend, k) \in Nat
  BY MapAssumption DEF LedgerType, Loose
<1> QED
  BY <1>1, <1>2, <1>3, <1>4 DEF LedgerType, Held

(* The count is sent, or not if it is zero. *)
LEMMA EmitSent ==
  ASSUME LedgerInv, Emit, hand[ "count"] # 0 \/ hand["bucket"] = 0
  PROVE  /\ wire' \in Seq(Delta)
         /\ emitted' = SentOf(wire', "count")
         /\ \A k \in Key : SentOf(wire', k) = SentOf(wire, k) + hand[k]
<1>1. hand \in Delta /\ wire \in Seq(Delta) /\ emitted = SentOf(wire, "count")
      /\ hand.count = hand["count"] /\ "count" \in Key
  BY DEF LedgerInv, LedgerType, Delta, Key
<1>2. \A k \in Key : hand[k] \in Nat /\ SentOf(wire, k) \in Nat
  BY <1>1, DeltaAt, SentSum
<1>3. CASE hand.count = 0
  <2>1. wire' = wire /\ emitted' = emitted
    BY <1>3 DEF Emit
  <2>2. \A k \in Key : hand[k] = 0
    BY <1>1, <1>3 DEF Key
  <2> QED
    BY <1>1, <1>2, <2>1, <2>2
<1>4. CASE hand.count # 0
  <2>1. wire' = Append(wire, hand) /\ emitted' = emitted + hand.count
    BY <1>4 DEF Emit
  <2>2. \A k \in Key : SentOf(wire', k) = SentOf(wire, k) + hand[k]
    BY <1>1, <2>1, SentMore
  <2>3. wire' \in Seq(Delta)
    BY <1>1, <2>1
  <2> QED
    BY <1>1, <2>1, <2>2, <2>3
<1> QED
  BY <1>3, <1>4

(* Every step keeps it. *)
LEMMA LedgerStep ==
  ASSUME LedgerInv, CellInv, ProgType, TickInv, [Next]_vars
  PROVE  LedgerInv'
<1>1. path' = path /\ path \in Path
  BY FlightFrame DEF TickInv
<1>2. LedgerType /\ HandInv
  BY DEF LedgerInv
<1>3. \A k \in Key : /\ V(elem, k) \in Nat /\ SentOf(wire, k) \in Nat /\ Loose(ring, pend, k) \in Nat
                     /\ hand[k] \in Nat /\ Held(path.map, keys, drain, hand, k) \in Nat
                     /\ recorded[k] \in Nat
  BY <1>2, LedgerNat
<1> DEFINE Bal(k, r, e, rg, p, ks, d, h, w, x) ==
      LET t == V(e, k) + Loose(rg, p, k) + Held(path.map, ks, d, h, k) + SentOf(w, k)
      IN r[k] >= t /\ (~x => r[k] = t)
           Hand(e, ks, d, h, x) ==
      /\ d = "idle" => h = Zero
      /\ \A k \in Key :
           /\ d = "scan" /\ k \notin ks => h[k] = 0
           /\ path.map = "hash" /\ (d = "scan" \/ k \in ks) => h[k] = 0
           /\ path.map = "percpu" /\ k \in ks => h[k] <= V(e, k) /\ (~x => h[k] = V(e, k))
<1>4. \A k \in Key : Bal(k, recorded, elem, ring, pend, keys, drain, hand, wire, excused)
  BY DEF LedgerInv, Total
<1>5. Hand(elem, keys, drain, hand, excused)
  BY <1>2, Zenon DEF HandInv
<1>6. ASSUME LedgerType', path.shape # "histogram" => recorded'["bucket"] = 0,
             Hand(elem', keys', drain', hand', excused'),
             \A k \in Key : Bal(k, recorded', elem', ring', pend', keys', drain', hand', wire', excused'),
             emitted' = SentOf(wire', "count")
      PROVE  LedgerInv'
  <2>1. HandInv'
    BY <1>1, <1>6, Zenon DEF HandInv
  <2>2. \A k \in Key : recorded'[k] >= Total(k)' /\ (~excused' => recorded'[k] = Total(k)')
    BY <1>1, <1>6, Zenon DEF Total
  <2> QED
    BY <1>1, <1>6, <2>1, <2>2, Zenon DEF LedgerInv
<1>7. emitted = SentOf(wire, "count") /\ (path.shape # "histogram" => recorded["bucket"] = 0)
  BY DEF LedgerInv
<1>8. ring \in 0 .. RingCap /\ RingCap \in Nat /\ pend \in Nat /\ hand \in Delta /\ wire \in Seq(Delta)
      /\ recorded \in [Key -> Nat] /\ excused \in BOOLEAN
  BY <1>2, MapAssumption, Zenon DEF LedgerType
<1>9. CASE /\ UNCHANGED <<elem, recorded, ring, drain, keys, hand, emitted, pend, wire>>
           /\ excused' = excused
  <2>1. LedgerType'
    BY <1>8, <1>9, Zenon DEF LedgerType
  <2> HIDE DEF Bal, Hand
  <2> QED
    BY <1>4, <1>5, <1>6, <1>7, <1>9, <2>1, Zenon
<1>10. ASSUME NEW c \in CPU, Count(c)
       PROVE  LedgerInv'
  <2> DEFINE k == Head(prog[c].left)
  <2>1. /\ k \in Key
        /\ \A j \in Key : j # k => V(elem', j) = V(elem, j)
        /\ V(elem, k) \in Nat /\ V(elem', k) \in Nat
        /\ V(elem', k) <= V(elem, k) + 1
        /\ ~LossTo(c, k) => V(elem', k) = V(elem, k) + 1
        /\ path.map = "percpu" => V(elem', k) >= V(elem, k)
    BY <1>10, CountValue
  <2>2. /\ UNCHANGED <<ring, drain, keys, hand, emitted, pend, wire>>
        /\ recorded' = [recorded EXCEPT ![k] = @ + 1]
        /\ path.map \in {"percpu", "hash"}
    BY <1>10 DEF Count, Update, serverVars
  <2>3. excused' = (excused \/ LossTo(c, k))
    BY <1>10, Zenon DEF Count
  <2>4. excused' \in BOOLEAN /\ (~excused' => ~excused /\ ~LossTo(c, k))
    BY <2>3, Zenon
  <2>5. path.shape # "histogram" => k # "bucket"
    <3>1. prog[c].left # << >>
      BY <1>10 DEF Count, Update
    <3>2. Head(<<"count">>) = "count" /\ "count" # "bucket"
      OBVIOUS
    <3>3. path.shape # "histogram" => prog[c].left = <<"count">>
      BY <3>1 DEF ProgType
    <3> QED
      BY <3>2, <3>3, Zenon
  <2>6. path.map = "percpu" /\ k \in keys => LossTo(c, k)
    BY DEF LossTo
  <2> HIDE DEF k
  <2>7. /\ recorded' \in [Key -> Nat] /\ recorded'[k] = recorded[k] + 1
        /\ \A j \in Key : j # k => recorded'[j] = recorded[j]
    BY <1>8, <2>1, <2>2
  <2>8. LedgerType'
    BY <1>8, <2>2, <2>4, <2>7 DEF LedgerType
  <2>9. path.shape # "histogram" => recorded'["bucket"] = 0
    BY <1>7, <2>5, <2>7 DEF Key
  <2>10. ASSUME NEW j \in Key
         PROVE  Bal(j, recorded', elem', ring', pend', keys', drain', hand', wire', excused')
    <3>1. /\ Loose(ring', pend', j) = Loose(ring, pend, j) /\ SentOf(wire', j) = SentOf(wire, j)
          /\ Held(path.map, keys', drain', hand', j) = Held(path.map, keys, drain, hand, j)
      BY <2>2
    <3>2. Bal(j, recorded, elem, ring, pend, keys, drain, hand, wire, excused)
      BY <1>4
    <3>3. CASE j # k
      BY <1>3, <2>1, <2>4, <2>7, <3>1, <3>2, <3>3
    <3>4. CASE j = k
      BY <1>3, <2>1, <2>4, <2>7, <3>1, <3>2, <3>4
    <3> QED
      BY <3>3, <3>4
  <2>11. Hand(elem', keys', drain', hand', excused')
    <3>1. ASSUME NEW j \in Key, path.map = "percpu", j \in keys
          PROVE  hand[j] <= V(elem', j) /\ (~excused' => hand[j] = V(elem', j))
      <4>1. hand[j] <= V(elem, j) /\ (~excused => hand[j] = V(elem, j))
        BY <1>5, <3>1
      <4> QED
        BY <1>3, <2>1, <2>4, <2>6, <3>1, <4>1
    <3> QED
      BY <1>5, <2>2, <3>1
  <2> HIDE DEF Bal, Hand
  <2> QED
    BY <1>6, <1>7, <2>2, <2>8, <2>9, <2>10, <2>11
<1>11. CASE Tick
  <2>1. /\ UNCHANGED <<elem, recorded, ring, emitted, pend, wire>> /\ hand' = Zero /\ keys' = {}
        /\ drain = "idle" /\ drain' = "scan"
    BY <1>11 DEF Tick, kernelVars, counterVars, serverVars
  <2>2. excused' = excused
    BY <1>11, Zenon DEF Tick
  <2>3. LedgerType'
    BY <1>8, <2>1, <2>2, ZeroAt, Zenon DEF LedgerType
  <2>4. hand = Zero
    BY <1>5, <2>1
  <2>5. ASSUME NEW k \in Key
        PROVE  Bal(k, recorded', elem', ring', pend', keys', drain', hand', wire', excused')
    <3>1. /\ Held(path.map, keys', drain', hand', k) = 0
          /\ Held(path.map, keys, drain, hand, k) = 0
      BY <2>1, <2>4, ZeroAt DEF Held
    <3> QED
      BY <1>4, <2>1, <2>2, <3>1
  <2>6. Hand(elem', keys', drain', hand', excused')
    BY <2>1, ZeroAt
  <2> HIDE DEF Bal, Hand
  <2> QED
    BY <1>6, <1>7, <2>1, <2>3, <2>5, <2>6
<1>12. CASE DrainFail
  <2>1. /\ UNCHANGED <<elem, recorded, ring, emitted, pend, wire>> /\ hand' = Zero /\ keys' = {}
        /\ drain' = "idle"
    BY <1>12 DEF DrainFail, kernelVars, counterVars, serverVars
  <2>2. excused' = TRUE
    BY <1>12, Zenon DEF DrainFail
  <2>3. LedgerType'
    BY <1>8, <2>1, <2>2, ZeroAt DEF LedgerType
  <2>4. ASSUME NEW k \in Key
        PROVE  Bal(k, recorded', elem', ring', pend', keys', drain', hand', wire', excused')
    <3>1. Held(path.map, keys', drain', hand', k) = 0
      BY <2>1, ZeroAt DEF Held
    <3>2. recorded[k] >= V(elem, k) + Loose(ring, pend, k) + Held(path.map, keys, drain, hand, k) + SentOf(wire, k)
      BY <1>4
    <3>3. recorded[k] >= V(elem, k) + Loose(ring, pend, k) + 0 + SentOf(wire, k)
      BY <1>3, <3>2
    <3> QED
      BY <2>1, <2>2, <3>1, <3>3
  <2>5. Hand(elem', keys', drain', hand', excused')
    BY <2>1
  <2> HIDE DEF Bal, Hand
  <2> QED
    BY <1>6, <1>7, <2>1, <2>3, <2>4, <2>5
<1>13. ASSUME NEW k \in Key, Visit(k)
       PROVE  LedgerInv'
  <2>1. /\ UNCHANGED <<elem, recorded, ring, emitted, pend, wire>> /\ drain = "scan"
        /\ keys' = (IF elem[k].there THEN keys \cup {k} ELSE keys)
        /\ hand' = (IF path.map = "percpu" THEN [hand EXCEPT ![k] = Value(k)] ELSE hand)
        /\ drain' = "take" \/ drain' = "scan"
        /\ k \notin visited /\ keys \subseteq visited
    BY <1>13 DEF Visit, kernelVars, counterVars, serverVars, TickInv
  <2>2. excused' = excused
    BY <1>13, Zenon DEF Visit
  <2>3. Value(k) = V(elem, k) /\ k \notin keys
    BY <2>1 DEF Value, V, Sum
  <2>4. /\ hand' \in Delta
        /\ \A j \in Key : j # k => hand'[j] = hand[j]
        /\ path.map = "percpu" => hand'[k] = V(elem, k)
        /\ path.map # "percpu" => hand' = hand
    BY <1>3, <1>8, <2>1, <2>3, DeltaAt
  <2>5. LedgerType'
    BY <1>8, <2>1, <2>2, <2>4, Zenon DEF LedgerType
  <2>6. ~elem[k].there => V(elem, k) = 0
    BY AbsentValue
  <2>7. path.map = "percpu" \/ path.map = "hash"
    BY <2>1 DEF TickInv
  <2>8. ASSUME NEW j \in Key
        PROVE  /\ j \notin keys' => hand'[j] = 0
               /\ path.map = "hash" => hand'[j] = 0
               /\ path.map = "percpu" /\ j \in keys' =>
                    hand'[j] <= V(elem, j) /\ (~excused => hand'[j] = V(elem, j))
    <3>1. /\ j \notin keys => hand[j] = 0
          /\ path.map = "hash" => hand[j] = 0
          /\ path.map = "percpu" /\ j \in keys =>
                hand[j] <= V(elem, j) /\ (~excused => hand[j] = V(elem, j))
      BY <1>5, <2>1
    <3>2. V(elem, k) \in Nat
      BY <1>3
    <3>3. CASE j = k
      BY <2>1, <2>3, <2>4, <2>6, <2>7, <3>1, <3>2, <3>3
    <3>4. CASE j # k
      BY <2>1, <2>4, <2>7, <3>1, <3>4
    <3> QED
      BY <3>3, <3>4
  <2>9. Hand(elem', keys', drain', hand', excused')
    BY <2>1, <2>2, <2>8
  <2>10. ASSUME NEW j \in Key
         PROVE  Bal(j, recorded', elem', ring', pend', keys', drain', hand', wire', excused')
    <3>1. Held(path.map, keys', drain', hand', j) = 0
      BY <2>7, <2>8 DEF Held
    <3>2. Held(path.map, keys, drain, hand, j) = 0
      BY <1>5, <2>1, <2>7 DEF Held
    <3> QED
      BY <1>4, <2>1, <2>2, <3>1, <3>2
  <2> HIDE DEF Bal, Hand
  <2> QED
    BY <1>6, <1>7, <2>1, <2>5, <2>9, <2>10
<1>14. ASSUME NEW k \in Key, Clear(k)
       PROVE  LedgerInv'
  <2>1. /\ UNCHANGED <<recorded, ring, emitted, pend, wire, drain>> /\ drain = "take"
        /\ k \in keys /\ keys' = keys \ {k}
        /\ hand' = IF path.map = "hash" THEN [hand EXCEPT ![k] = Value(k)] ELSE hand
    BY <1>14 DEF Clear, serverVars
  <2>2. excused' = excused
    BY <1>14, Zenon DEF Clear
  <2>3. Value(k) = V(elem, k)
    BY DEF Value, V, Sum
  <2>4. /\ hand' \in Delta
        /\ \A j \in Key : j # k => hand'[j] = hand[j]
        /\ path.map = "hash" => hand'[k] = V(elem, k)
        /\ path.map # "hash" => hand' = hand
    BY <1>3, <1>8, <2>1, <2>3, DeltaAt
  <2>5. LedgerType'
    BY <1>8, <2>1, <2>2, <2>4, Zenon DEF LedgerType
  <2>6. V(elem', k) = 0 /\ \A j \in Key : j # k => V(elem', j) = V(elem, j)
    BY <1>14, ClearValue
  <2>7. path.map = "percpu" \/ path.map = "hash"
    BY <2>1 DEF TickInv
  <2>8. Hand(elem', keys', drain', hand', excused')
    <3>1. ASSUME NEW j \in Key
          PROVE  /\ path.map = "hash" /\ j \in keys' => hand'[j] = 0
                 /\ path.map = "percpu" /\ j \in keys' =>
                      hand'[j] <= V(elem', j) /\ (~excused => hand'[j] = V(elem', j))
      <4>1. j \in keys' => j # k /\ j \in keys
        BY <2>1
      <4>2. /\ path.map = "hash" /\ j \in keys => hand[j] = 0
            /\ path.map = "percpu" /\ j \in keys =>
                 hand[j] <= V(elem, j) /\ (~excused => hand[j] = V(elem, j))
        BY <1>5
      <4> QED
        BY <2>4, <2>6, <4>1, <4>2
    <3> QED
      BY <2>1, <2>2, <3>1
  <2>9. ASSUME NEW j \in Key
        PROVE  Bal(j, recorded', elem', ring', pend', keys', drain', hand', wire', excused')
    <3>1. CASE j # k
      <4>1. Held(path.map, keys', drain', hand', j) = Held(path.map, keys, drain, hand, j)
        BY <2>1, <2>4, <3>1 DEF Held
      <4> QED
        BY <1>4, <2>1, <2>2, <2>6, <3>1, <4>1
    <3>2. CASE j = k /\ path.map = "hash"
      <4>1. Held(path.map, keys, drain, hand, k) = 0
        BY <1>5, <2>1, <3>2 DEF Held
      <4>2. Held(path.map, keys', drain', hand', k) = V(elem, k)
        BY <2>1, <2>4, <3>2 DEF Held
      <4>3. Bal(k, recorded, elem, ring, pend, keys, drain, hand, wire, excused)
        BY <1>4
      <4> QED
        BY <1>3, <2>1, <2>2, <2>6, <3>2, <4>1, <4>2, <4>3
    <3>3. CASE j = k /\ path.map = "percpu"
      <4>1. Held(path.map, keys, drain, hand, k) = 0
        BY <2>1, <3>3 DEF Held
      <4>2. Held(path.map, keys', drain', hand', k) = hand[k]
        BY <2>1, <2>4, <3>3 DEF Held
      <4>3. Bal(k, recorded, elem, ring, pend, keys, drain, hand, wire, excused)
        BY <1>4
      <4>4. hand[k] <= V(elem, k) /\ (~excused => hand[k] = V(elem, k))
        BY <1>5, <2>1, <3>3
      <4> QED
        BY <1>3, <2>1, <2>2, <2>6, <3>3, <4>1, <4>2, <4>3, <4>4
    <3> QED
      BY <2>7, <3>1, <3>2, <3>3
  <2> HIDE DEF Bal, Hand
  <2> QED
    BY <1>6, <1>7, <2>1, <2>5, <2>8, <2>9
<1>15. ASSUME EmitSum \/ EmitHistogram \/ EmitDrops
       PROVE  LedgerInv'
  <2>1. /\ UNCHANGED <<elem, recorded, ring, pend, keys>> /\ hand' = Zero /\ drain' = "idle"
        /\ keys = {} /\ drain # "scan" /\ Emit
    BY <1>15 DEF EmitSum, EmitHistogram, EmitDrops, EmitEnds, kernelVars, counterVars, TickInv
  <2>2. "count" \in Key /\ "bucket" \in Key /\ hand.count = hand["count"] /\ hand.bucket = hand["bucket"]
    BY <1>8 DEF Key, Delta
  <2>3. \A k \in Key : /\ Held(path.map, keys, drain, hand, k) = hand[k]
                       /\ Held(path.map, keys', drain', hand', k) = 0
    BY <2>1, ZeroAt DEF Held
  <2>4. Hand(elem', keys', drain', hand', excused')
    BY <2>1
  <2>5. CASE hand["count"] # 0 \/ hand["bucket"] = 0
    <3>1. /\ wire' \in Seq(Delta)
          /\ emitted' = SentOf(wire', "count")
          /\ \A k \in Key : SentOf(wire', k) = SentOf(wire, k) + hand[k]
      BY <2>1, <2>5, EmitSent
    <3>2. ~ (hand.count = 0 /\ hand.bucket > 0)
      BY <1>3, <2>2, <2>5
    <3>3. excused' = excused \/ excused' = (excused \/ (hand.count = 0 /\ hand.bucket > 0))
      BY <1>15, Zenon DEF EmitSum, EmitHistogram, EmitDrops
    <3>4. excused' \in BOOLEAN /\ (excused' <=> excused)
      <4> DEFINE lost == hand.count = 0 /\ hand.bucket > 0
      <4>1. excused' = excused \/ excused' = (excused \/ lost)
        BY <3>3, Zenon
      <4>2. ~lost
        BY <3>2, Zenon
      <4> HIDE DEF lost
      <4>3. CASE excused' = excused
        BY <1>8, <4>3, Zenon
      <4>4. CASE excused' = (excused \/ lost)
        BY <1>8, <4>2, <4>4, Zenon
      <4> QED
        BY <4>1, <4>3, <4>4, Zenon
    <3>5. LedgerType'
      BY <1>8, <2>1, <3>1, <3>4, ZeroAt, Zenon DEF LedgerType
    <3>6. ASSUME NEW k \in Key
          PROVE  Bal(k, recorded', elem', ring', pend', keys', drain', hand', wire', excused')
      <4>1. Bal(k, recorded, elem, ring, pend, keys, drain, hand, wire, excused)
        BY <1>4
      <4>2. ~excused' => ~excused
        BY <3>4, Zenon
      <4>3. /\ recorded[k] >= V(elem, k) + Loose(ring, pend, k) + hand[k] + SentOf(wire, k)
            /\ ~excused => recorded[k] = V(elem, k) + Loose(ring, pend, k) + hand[k] + SentOf(wire, k)
        BY <2>3, <4>1
      <4>4. /\ recorded[k] >= V(elem, k) + Loose(ring, pend, k) + 0 + SentOf(wire', k)
            /\ ~excused => recorded[k] = V(elem, k) + Loose(ring, pend, k) + 0 + SentOf(wire', k)
        BY <1>3, <3>1, <4>3
      <4> QED
        BY <2>1, <2>3, <4>2, <4>4
    <3> HIDE DEF Bal, Hand
    <3> QED
      BY <1>6, <1>7, <2>1, <2>4, <3>1, <3>5, <3>6
  <2>6. CASE ~ (hand["count"] # 0 \/ hand["bucket"] = 0)
    <3>1. hand.count = 0 /\ hand.bucket > 0
      BY <1>3, <2>2, <2>6
    <3>2. wire' = wire /\ emitted' = emitted
      BY <2>1, <3>1 DEF Emit
    <3>3. path.shape = "histogram"
      <4>1. recorded["bucket"] >= hand["bucket"]
        BY <1>3, <1>4, <2>2, <2>3
      <4>2. recorded["bucket"] # 0
        BY <1>3, <2>2, <3>1, <4>1
      <4> QED
        BY <1>7, <4>2
    <3>4. EmitHistogram
      BY <1>1, <1>15, <3>3 DEF EmitSum, EmitDrops, TickInv, Path
    <3>5. excused' = (excused \/ (hand.count = 0 /\ hand.bucket > 0))
      BY <3>4, Zenon DEF EmitHistogram
    <3>6. excused' \in BOOLEAN /\ excused'
      BY <3>1, <3>5, Zenon
    <3>7. LedgerType'
      BY <1>8, <2>1, <3>2, <3>6, ZeroAt, Zenon DEF LedgerType
    <3>8. ASSUME NEW k \in Key
          PROVE  Bal(k, recorded', elem', ring', pend', keys', drain', hand', wire', excused')
      <4>1. Bal(k, recorded, elem, ring, pend, keys, drain, hand, wire, excused)
        BY <1>4
      <4> QED
        BY <1>3, <2>1, <2>3, <3>2, <3>6, <4>1
    <3> HIDE DEF Bal, Hand
    <3> QED
      BY <1>6, <1>7, <2>1, <2>4, <3>2, <3>7, <3>8
  <2> QED
    BY <2>5, <2>6
<1>16. CASE readDrops
  <2>1. /\ UNCHANGED <<elem, recorded, emitted, wire, drain, keys, hand>>
        /\ ring' = ring - 1 /\ pend' = pend + 1 /\ ring > 0
    BY <1>16 DEF readDrops, counterVars, serverVars
  <2>2. excused' = excused
    BY <1>16, Zenon DEF readDrops
  <2>3. ring' \in 0 .. RingCap /\ pend' \in Nat /\ ring' + pend' = ring + pend
    BY <1>8, <2>1
  <2>4. LedgerType'
    BY <1>8, <2>1, <2>2, <2>3, Zenon DEF LedgerType
  <2>5. \A k \in Key : Loose(ring', pend', k) = Loose(ring, pend, k)
    BY <2>3 DEF Loose
  <2>6. \A k \in Key : Bal(k, recorded', elem', ring', pend', keys', drain', hand', wire', excused')
    BY <1>4, <2>1, <2>2, <2>5
  <2> HIDE DEF Bal, Hand
  <2> QED
    BY <1>5, <1>6, <1>7, <2>1, <2>2, <2>4, <2>6
<1>17. CASE SwapDrops
  <2>1. /\ UNCHANGED <<elem, recorded, ring, emitted, wire, keys>> /\ path.map = "ring"
        /\ hand' = [Zero EXCEPT !.count = pend] /\ pend' = 0 /\ drain = "idle" /\ drain' = "emit"
    BY <1>17 DEF SwapDrops, kernelVars, counterVars, serverVars
  <2>2. excused' = excused
    BY <1>17, Zenon DEF SwapDrops
  <2>3. hand' \in Delta /\ hand'["count"] = pend /\ hand'["bucket"] = 0
    BY <1>8, <2>1 DEF Zero, Delta
  <2>4. LedgerType'
    BY <1>8, <2>1, <2>2, <2>3 DEF LedgerType
  <2>5. hand = Zero
    BY <1>5, <2>1
  <2>6. ASSUME NEW k \in Key
        PROVE  Bal(k, recorded', elem', ring', pend', keys', drain', hand', wire', excused')
    <3>1. Held(path.map, keys, drain, hand, k) = 0
      BY <2>1, <2>5, ZeroAt DEF Held
    <3>2. Held(path.map, keys', drain', hand', k) = hand'[k]
      BY <2>1 DEF Held
    <3>3. Loose(ring', pend', k) + hand'[k] = Loose(ring, pend, k)
          /\ hand'[k] \in Nat /\ Loose(ring', pend', k) \in Nat
      <4>1. CASE k = "count"
        BY <1>8, <2>1, <2>3, <4>1 DEF Loose
      <4>2. CASE k = "bucket"
        BY <1>8, <2>1, <2>3, <4>2 DEF Loose
      <4> QED
        BY <4>1, <4>2 DEF Key
    <3>4. Bal(k, recorded, elem, ring, pend, keys, drain, hand, wire, excused)
      BY <1>4
    <3>5. /\ recorded[k] >= V(elem, k) + Loose(ring, pend, k) + 0 + SentOf(wire, k)
          /\ ~excused => recorded[k] = V(elem, k) + Loose(ring, pend, k) + 0 + SentOf(wire, k)
      BY <3>1, <3>4
    <3>6. /\ recorded[k] >= V(elem, k) + Loose(ring', pend', k) + hand'[k] + SentOf(wire, k)
          /\ ~excused => recorded[k] = V(elem, k) + Loose(ring', pend', k) + hand'[k] + SentOf(wire, k)
      BY <1>3, <3>3, <3>5
    <3> QED
      BY <2>1, <2>2, <3>2, <3>6
  <2>7. Hand(elem', keys', drain', hand', excused')
    BY <2>1
  <2> HIDE DEF Bal, Hand
  <2> QED
    BY <1>6, <1>7, <2>1, <2>4, <2>6, <2>7
<1>18. CASE Drop /\ UNCHANGED <<serverVars, drainVars, diskVars>>
  <2>1. /\ UNCHANGED <<elem, emitted, wire, drain, keys, hand, pend>>
        /\ \/ ring' = ring + 1 /\ ring < RingCap /\ recorded' = [recorded EXCEPT !["count"] = @ + 1]
           \/ ring' = ring /\ recorded' = recorded
    BY <1>18 DEF Drop, serverVars, drainVars
  <2>2. excused' = excused
    BY <1>18, Zenon DEF drainVars
  <2>3. "count" \in Key /\ "bucket" \in Key /\ "bucket" # "count"
    BY DEF Key
  <2>4. CASE ring' = ring /\ recorded' = recorded
    <3>1. LedgerType'
      BY <1>8, <2>1, <2>2, <2>4, Zenon DEF LedgerType
    <3> HIDE DEF Bal, Hand
    <3> QED
      BY <1>4, <1>5, <1>6, <1>7, <2>1, <2>2, <2>4, <3>1, Zenon
  <2>5. CASE ring' = ring + 1 /\ ring < RingCap /\ recorded' = [recorded EXCEPT !["count"] = @ + 1]
    <3>1. /\ recorded' \in [Key -> Nat] /\ recorded'["count"] = recorded["count"] + 1
          /\ recorded'["bucket"] = recorded["bucket"] /\ ring' \in 0 .. RingCap
      BY <1>8, <2>3, <2>5
    <3>2. LedgerType'
      BY <1>8, <2>1, <2>2, <3>1, Zenon DEF LedgerType
    <3>3. ASSUME NEW k \in Key
          PROVE  Bal(k, recorded', elem', ring', pend', keys', drain', hand', wire', excused')
      <4>1. Bal(k, recorded, elem, ring, pend, keys, drain, hand, wire, excused)
        BY <1>4
      <4>2. CASE k = "bucket"
        <5>1. Loose(ring', pend', k) = Loose(ring, pend, k)
          BY <4>2 DEF Loose
        <5> QED
          BY <2>1, <2>2, <3>1, <4>1, <4>2, <5>1
      <4>3. CASE k = "count"
        <5>1. Loose(ring', pend', k) = Loose(ring, pend, k) + 1
          BY <1>8, <2>1, <2>5, <4>3 DEF Loose
        <5> QED
          BY <1>3, <2>1, <2>2, <3>1, <4>1, <4>3, <5>1
      <4> QED
        BY <4>2, <4>3 DEF Key
    <3> HIDE DEF Bal, Hand
    <3> QED
      BY <1>5, <1>6, <1>7, <2>1, <2>2, <3>1, <3>2, <3>3
  <2> QED
    BY <2>1, <2>4, <2>5
<1> QED
  BY <1>9, <1>10, <1>11, <1>12, <1>13, <1>14, <1>15, <1>16, <1>17, <1>18, LedgerFrame, Zenon

-----------------------------------------------------------------------------
(* The server. *)

(* A handler's batch. *)
Job == [at : {"idle", "add", "count", "readBucket", "readCount", "post"},
        agent : {"none", "own", "other"}, bounds : {"own", "other"},
        delta : Delta, acc : Nat, val : Delta]

(* A handler's step. *)
Work(h) ==
  \/ Receive(h) \/ ReceiveAgain(h) \/ ReceiveSibling(h)
  \/ ReceiveOther(h, "own") \/ ReceiveOther(h, "other") \/ addSum(h) \/ AddBuckets(h)
  \/ AddCount(h) \/ ReadBuckets(h) \/ ReadCount(h) \/ Post(h)

(* The server's state changes with its handlers' steps, and the wire with  *)
(* the tick's.                                                             *)
LEMMA ServerFrame ==
  ASSUME [Next]_vars
  PROVE  \/ /\ UNCHANGED <<got, dups, others, siblings, total, bounds, old, lock, job, stored>>
            /\ overlap' = overlap
            /\ wire' = wire \/ wire' = Append(wire, hand)
         \/ \E h \in Handler : Work(h)
<1> DEFINE Same == /\ UNCHANGED <<got, dups, others, siblings, total, bounds, old, lock, job, stored>>
                   /\ overlap' = overlap
<1>1. CASE UNCHANGED vars
  BY <1>1, Zenon DEF vars, serverVars
<1>2. CASE Kernel
  BY <1>2, Zenon DEF Kernel, serverVars
<1>3. ASSUME NEW c \in CPU, Count(c)
      PROVE  Same /\ wire' = wire
  BY <1>3, Zenon DEF Count, serverVars
<1>4. CASE Tick \/ DrainFail
  BY <1>4, Zenon DEF Tick, DrainFail, serverVars
<1>5. CASE EmitSum \/ EmitHistogram \/ EmitDrops
  <2>1. Same
    BY <1>5, Zenon DEF EmitSum, EmitHistogram, EmitDrops, EmitEnds
  <2>2. Emit
    BY <1>5, Zenon DEF EmitSum, EmitHistogram, EmitDrops
  <2> HIDE DEF Same
  <2>3. wire' = wire \/ wire' = Append(wire, hand)
    BY <2>2 DEF Emit
  <2> QED
    BY <2>1, <2>3, Zenon DEF Same
<1>6. ASSUME NEW k \in Key, Visit(k) \/ Clear(k)
      PROVE  Same /\ wire' = wire
  BY <1>6, Zenon DEF Visit, Clear, serverVars
<1>7. CASE readDrops \/ SwapDrops
  BY <1>7, Zenon DEF readDrops, SwapDrops, serverVars
<1>8. CASE DiskIO \/ DiskReset \/ DiskTick
  BY <1>8, Zenon DEF DiskIO, DiskReset, DiskTick, serverVars
<1>9. CASE Server /\ UNCHANGED <<kernelVars, drainVars, diskVars>>
  BY <1>9, Zenon DEF Server, Work
<1> QED
  BY <1>1, <1>2, <1>3, <1>4, <1>5, <1>6, <1>7, <1>8, <1>9, Zenon DEF Next

(* Types of the accumulator, its handlers and the storage. *)
ServerType ==
  /\ got \in 0 .. Len(wire)
  /\ dups \in 0 .. MaxDup /\ others \in 0 .. MaxOther /\ siblings \in 0 .. MaxSibling
  /\ total \in Delta /\ bounds \in {"own", "other"} /\ old \in Seq(Delta)
  /\ lock \in Handler \cup {Nobody}
  /\ job \in [Handler -> Job]
  /\ \A h \in Handler : job[h].acc <= Len(old)
  /\ stored \in [acc : Nat, val : Delta] /\ stored.acc <= Len(old)
  /\ overlap \in BOOLEAN

(* What a batch still adds to the accumulator's count. *)
Due(j) == IF j.at = "add" \/ j.at = "count" THEN j.delta["count"] ELSE 0

(* What all handlers together still add. *)
DueIn(jb) == Sum([h \in Handler |-> Due(jb[h])], Handler)

(* The count of the first n deltas sent. *)
GotOf(w, n) == Sum([i \in 1 .. n |-> w[i]["count"]], 1 .. n)

(* The count of the n-th entry of the series, o being those replaced. *)
At(t, o, n) == IF n = Len(o) THEN t["count"] ELSE o[n + 1]["count"]

(* A batch in the reading or about to be posted is not behind the sample s. *)
NotBehind(j, s) ==
  /\ j.acc >= s.acc
  /\ j.at = "post" /\ j.acc = s.acc => j.val["count"] >= s.val["count"]

(* Counts never fall on their way through the server: what is stored was   *)
(* read from its entry, what is read is not behind what is stored, and     *)
(* without an overlap one batch of the agent is in work at a time.  One    *)
(* agent alone never has its entry replaced.                               *)
StoreInv ==
  /\ others = 0 => old = << >> /\ bounds = "own" /\ \A h \in Handler : job[h].bounds = "own"
  /\ stored.val["count"] <= At(total, old, stored.acc)
  /\ ~overlap => \A g, h \in Handler : job[g].agent = "own" /\ job[h].agent = "own" => g = h
  /\ \A h \in Handler :
       /\ job[h].at = "post" => job[h].val["count"] <= At(total, old, job[h].acc)
       /\ ~overlap /\ job[h].agent = "own" /\ job[h].at \notin {"idle", "add"}
            => NotBehind(job[h], stored)

(* With every batch delivered once, and from one agent only, the entry is  *)
(* what was delivered, of the series and of its siblings, less what the    *)
(* handlers still have to add.                                             *)
AddedInv ==
  dups = 0 /\ others = 0 => total["count"] + DueIn(job) = GotOf(wire, got) + siblings

ServerInv == ServerType /\ StoreInv /\ AddedInv

(* A sum of natural numbers. *)
LEMMA DueNat ==
  ASSUME NEW jb \in [Handler -> Job]
  PROVE  /\ DueIn(jb) \in Nat
         /\ [h \in Handler |-> Due(jb[h])] \in [Handler -> Nat]
         /\ \A h \in Handler : Due(jb[h]) \in Nat
<1>1. \A h \in Handler : Due(jb[h]) \in Nat
  <2> SUFFICES ASSUME NEW h \in Handler PROVE Due(jb[h]) \in Nat
    OBVIOUS
  <2>1. jb[h].delta \in Delta /\ "count" \in Key
    BY DEF Job, Key
  <2>2. jb[h].delta["count"] \in Nat
    BY <2>1, DeltaAt
  <2> QED
    BY <2>2 DEF Due
<1>2. [h \in Handler |-> Due(jb[h])] \in [Handler -> Nat] /\ IsFiniteSet(Handler)
  BY <1>1, DeliveryAssumption
<1> QED
  BY <1>1, <1>2, SumNat DEF DueIn

(* One handler's step changes the sum by its own share. *)
LEMMA DueChange ==
  ASSUME NEW jb \in [Handler -> Job], NEW jn \in [Handler -> Job], NEW h \in Handler,
         \A g \in Handler : g # h => jn[g] = jb[g]
  PROVE  DueIn(jn) = DueIn(jb) - Due(jb[h]) + Due(jn[h])
<1> DEFINE f == [g \in Handler |-> Due(jb[g])]
           e == [g \in Handler |-> Due(jn[g])]
<1>1. f \in [Handler -> Nat] /\ e \in [Handler -> Nat] /\ IsFiniteSet(Handler)
  BY DueNat, DeliveryAssumption
<1>2. f[h] = Due(jb[h]) /\ e[h] = Due(jn[h]) /\ \A g \in Handler : g # h => e[g] = f[g]
  OBVIOUS
<1>3. DueIn(jb) = Sum(f, Handler) /\ DueIn(jn) = Sum(e, Handler)
  BY Zenon DEF DueIn
<1> HIDE DEF f, e
<1>4. Sum(e, Handler) = Sum(f, Handler) - f[h] + e[h]
  BY <1>1, <1>2, SumUpdate
<1> QED
  BY <1>2, <1>3, <1>4

(* One more delivered delta. *)
LEMMA GotNext ==
  ASSUME NEW w \in Seq(Delta), NEW n \in Nat, n < Len(w)
  PROVE  /\ GotOf(w, n + 1) = GotOf(w, n) + w[n + 1]["count"]
         /\ GotOf(w, n) \in Nat /\ w[n + 1]["count"] \in Nat
<1> DEFINE f == [i \in 1 .. n |-> w[i]["count"]]
           h == [i \in 1 .. n + 1 |-> w[i]["count"]]
<1>1. \A i \in 1 .. n + 1 : w[i] \in Delta /\ w[i]["count"] \in Nat
  <2>1. \A i \in 1 .. n + 1 : w[i] \in Delta
    OBVIOUS
  <2> QED
    BY <2>1, DeltaAt DEF Key
<1>2. f \in [1 .. n -> Nat] /\ h \in [1 .. n + 1 -> Nat]
  BY <1>1
<1>3. h[n + 1] = w[n + 1]["count"] /\ \A i \in 1 .. n : h[i] = f[i]
  OBVIOUS
<1>4. IsFiniteSet(1 .. n)
  BY FS_Interval
<1>5. GotOf(w, n) = Sum(f, 1 .. n) /\ GotOf(w, n + 1) = Sum(h, 1 .. n + 1)
  BY Zenon DEF GotOf
<1> HIDE DEF f, h
<1>6. Sum(h, 1 .. n + 1) = Sum(f, 1 .. n) + h[n + 1] /\ Sum(f, 1 .. n) \in Nat
  BY <1>2, <1>3, <1>4, SumAppend, SumNat
<1> QED
  BY <1>1, <1>3, <1>5, <1>6

(* What was delivered is part of what was sent. *)
LEMMA GotSent ==
  ASSUME NEW w \in Seq(Delta), NEW n \in 0 .. Len(w)
  PROVE  GotOf(w, n) \in Nat /\ GotOf(w, n) <= SentOf(w, "count")
<1> DEFINE len == Len(w)
           Good == {i \in Nat : i <= len => GotOf(w, len - i) \in Nat
                                            /\ GotOf(w, len - i) <= SentOf(w, "count")}
<1>1. len \in Nat /\ "count" \in Key
  BY DEF Key
<1>2. DOMAIN w = 1 .. len
  OBVIOUS
<1>3. GotOf(w, len) = SentOf(w, "count")
  <2> HIDE DEF len
  <2> QED
    BY <1>2, Zenon DEF GotOf, SentOf
<1>4. SentOf(w, "count") \in Nat
  BY <1>1, SentSum
<1>5. 0 \in Good
  <2>1. len - 0 = len
    BY <1>1
  <2> HIDE DEF len
  <2> QED
    BY <1>3, <1>4, <2>1
<1>6. ASSUME NEW i \in 1 .. len, i - 1 \in Good
      PROVE  i \in Good
  <2> DEFINE m == len - i
  <2>1. m \in Nat /\ m < len /\ len - (i - 1) = m + 1 /\ i - 1 <= len
    BY <1>1
  <2>2. GotOf(w, m + 1) \in Nat /\ GotOf(w, m + 1) <= SentOf(w, "count")
    <3> HIDE DEF m, len
    <3> QED
      BY <1>6, <2>1
  <2>3. /\ GotOf(w, m + 1) = GotOf(w, m) + w[m + 1]["count"]
        /\ GotOf(w, m) \in Nat /\ w[m + 1]["count"] \in Nat
    <3> HIDE DEF m
    <3> QED
      BY <2>1, GotNext
  <2>4. GotOf(w, m) <= SentOf(w, "count")
    <3> HIDE DEF m
    <3> QED
      BY <1>4, <2>2, <2>3
  <2> QED
    BY <2>3, <2>4
<1>7. 0 .. len \subseteq Good
  <2> HIDE DEF len, Good
  <2> QED
    BY <1>1, <1>5, <1>6, Upward
<1>8. len - n \in 0 .. len /\ len - (len - n) = n /\ len - n <= len
  OBVIOUS
<1>9. len - n \in Good
  <2> HIDE DEF len, Good
  <2> QED
    BY <1>7, <1>8
<1> QED
  BY <1>8, <1>9

(* Sending more does not change what was delivered. *)
LEMMA GotStays ==
  ASSUME NEW w \in Seq(Delta), NEW d, NEW n \in 0 .. Len(w)
  PROVE  GotOf(Append(w, d), n) = GotOf(w, n)
<1>1. \A i \in 1 .. n : Append(w, d)[i] = w[i]
  OBVIOUS
<1>2. [i \in 1 .. n |-> Append(w, d)[i]["count"]] = [i \in 1 .. n |-> w[i]["count"]]
  BY <1>1
<1> QED
  BY <1>2, Zenon DEF GotOf

(* It holds of the server's start. *)
LEMMA ServerStart == Init => ServerInv
<1> SUFFICES ASSUME Init PROVE ServerInv
  OBVIOUS
<1>1. MaxDup \in Nat /\ MaxOther \in Nat /\ MaxSibling \in Nat
  BY DeliveryAssumption
<1>2. overlap \in BOOLEAN
  BY Zenon DEF Init, ServerInit
<1>3. /\ wire = << >> /\ got = 0 /\ dups = 0 /\ others = 0 /\ total = Zero /\ lock = Nobody
      /\ job = [h \in Handler |-> Free] /\ stored = [acc |-> 0, val |-> Zero]
      /\ siblings = 0 /\ bounds = "own" /\ old = << >>
  BY DEF Init, ServerInit
<1>4. /\ Free \in Job /\ Free.at = "idle" /\ Free.agent = "none" /\ Free.bounds = "own"
      /\ Free.acc = 0
  BY ZeroAt DEF Free, Job
<1>5. ServerType
  BY <1>1, <1>2, <1>3, <1>4, ZeroAt DEF ServerType
<1>6. StoreInv
  BY <1>3, <1>4, ZeroAt DEF StoreInv, Key, At
<1>7. AddedInv
  <2>1. job \in [Handler -> Job] /\ \A h \in Handler : Due(job[h]) = 0
    BY <1>3, <1>4 DEF Due
  <2>2. [h \in Handler |-> Due(job[h])] \in [Handler -> Nat] /\ IsFiniteSet(Handler)
    BY <2>1, DeliveryAssumption
  <2>3. DueIn(job) = 0
    <3> DEFINE f == [h \in Handler |-> Due(job[h])]
    <3>1. \A h \in Handler : f[h] = 0
      BY <2>1
    <3>2. Sum(f, Handler) = 0
      <4> HIDE DEF f
      <4> QED
        BY <2>2, <3>1, SumZero DEF f
    <3> QED
      BY <3>2 DEF DueIn
  <2>4. GotOf(wire, got) = 0
    <3>1. 1 .. 0 = {} /\ [i \in 1 .. 0 |-> wire[i]["count"]] \in [{} -> Nat]
      OBVIOUS
    <3> QED
      BY <1>3, <3>1, SumEmpty DEF GotOf
  <2>5. total["count"] = 0
    BY <1>3, ZeroAt DEF Key
  <2> QED
    BY <1>3, <2>3, <2>4, <2>5 DEF AddedInv
<1> QED
  BY <1>5, <1>6, <1>7 DEF ServerInv

(* The next step of a batch. *)
LEMMA JobStep ==
  ASSUME job \in [Handler -> Job], NEW h \in Handler,
         NEW at \in {"idle", "add", "count", "readBucket", "readCount", "post"},
         NEW acc \in Nat, NEW val \in Delta, Step(h, at, acc, val)
  PROVE  /\ job' \in [Handler -> Job]
         /\ \A g \in Handler : g # h => job'[g] = job[g]
         /\ job'[h].at = at /\ job'[h].acc = acc /\ job'[h].val = val
         /\ job'[h].agent = job[h].agent /\ job'[h].delta = job[h].delta
         /\ job'[h].bounds = job[h].bounds
<1>1. job[h] \in Job
  OBVIOUS
<1> DEFINE j == [job[h] EXCEPT !.at = at, !.acc = acc, !.val = val]
<1>2. /\ j \in Job /\ j.at = at /\ j.acc = acc /\ j.val = val
      /\ j.agent = job[h].agent /\ j.delta = job[h].delta /\ j.bounds = job[h].bounds
  BY <1>1 DEF Job
<1>3. job' = [job EXCEPT ![h] = j]
  BY DEF Step
<1> HIDE DEF j
<1>4. /\ job' \in [Handler -> Job] /\ job'[h] = j
      /\ \A g \in Handler : g # h => job'[g] = job[g]
  BY <1>2, <1>3
<1> QED
  BY <1>2, <1>4

(* A new batch. *)
LEMMA JobTaken ==
  ASSUME job \in [Handler -> Job], NEW h \in Handler, NEW agent \in {"own", "other"},
         NEW bds \in {"own", "other"}, NEW d \in Delta, Take(h, agent, bds, d)
  PROVE  /\ job' \in [Handler -> Job]
         /\ \A g \in Handler : g # h => job'[g] = job[g]
         /\ job'[h].at = "add" /\ job'[h].agent = agent /\ job'[h].delta = d
         /\ job'[h].bounds = bds /\ job'[h].acc = 0
         /\ job[h].at = "idle"
<1> DEFINE j == [Free EXCEPT !.at = "add", !.agent = agent, !.bounds = bds, !.delta = d]
<1>1. /\ j \in Job /\ j.at = "add" /\ j.agent = agent /\ j.bounds = bds /\ j.delta = d
      /\ j.acc = 0
  BY ZeroAt DEF Free, Job
<1>2. job' = [job EXCEPT ![h] = j] /\ job[h] = Free
  BY DEF Take
<1>3. Free.at = "idle"
  BY DEF Free
<1> HIDE DEF j
<1>4. /\ job' \in [Handler -> Job] /\ job'[h] = j
      /\ \A g \in Handler : g # h => job'[g] = job[g]
  BY <1>1, <1>2
<1> QED
  BY <1>1, <1>2, <1>3, <1>4

(* Counts read as fields and as functions of the keys are the same. *)
LEMMA CountField ==
  ASSUME NEW d \in Delta
  PROVE  d["count"] \in Nat /\ d.count = d["count"]
BY DEF Delta

(* AddBuckets leaves the count of a total alone. *)
LEMMA BucketDelta ==
  ASSUME NEW a \in Delta, NEW d \in Delta
  PROVE  LET s == [a EXCEPT !.bucket = @ + d.bucket]
         IN s \in Delta /\ s["count"] = a["count"]
<1>1. a.bucket \in Nat /\ d.bucket \in Nat
  BY DEF Delta
<1>2. a.bucket + d.bucket \in Nat
  BY <1>1
<1> DEFINE n == a.bucket + d.bucket
<1> HIDE DEF n
<1>3. n \in Nat => [a EXCEPT !.bucket = n] \in Delta /\ [a EXCEPT !.bucket = n]["count"] = a["count"]
  BY DEF Delta
<1> QED
  BY <1>2, <1>3 DEF n

(* AddCount adds the count of a delta to a total's. *)
LEMMA CountDelta ==
  ASSUME NEW a \in Delta, NEW d \in Delta
  PROVE  LET s == [a EXCEPT !.count = @ + d.count]
         IN s \in Delta /\ s["count"] = a["count"] + d["count"]
<1>1. a.count \in Nat /\ d.count \in Nat /\ a.count = a["count"] /\ d.count = d["count"]
  BY CountField
<1>2. a.count + d.count \in Nat
  BY <1>1
<1> DEFINE n == a.count + d.count
<1> HIDE DEF n
<1>3. n \in Nat => [a EXCEPT !.count = n] \in Delta /\ [a EXCEPT !.count = n]["count"] = n
  BY DEF Delta
<1> QED
  BY <1>1, <1>2, <1>3 DEF n

(* addSum adds a delta to a total field by field. *)
LEMMA SumDelta ==
  ASSUME NEW a \in Delta, NEW d \in Delta
  PROVE  Plus(a, d) \in Delta /\ Plus(a, d)["count"] = a["count"] + d["count"]
<1>1. a.bucket \in Nat /\ d.bucket \in Nat
  BY DEF Delta
<1>2. a.count \in Nat /\ d.count \in Nat /\ a.count = a["count"] /\ d.count = d["count"]
  BY CountField
<1> QED
  BY <1>1, <1>2 DEF Plus, Delta

(* An entry has a count, which grows with the series' counter, and stays   *)
(* when a new entry takes its place.                                       *)
LEMMA Entries ==
  ASSUME NEW t \in Delta, NEW u \in Delta, NEW o \in Seq(Delta), NEW n \in Nat, n <= Len(o)
  PROVE  /\ At(t, o, n) \in Nat
         /\ u["count"] >= t["count"] => At(u, o, n) >= At(t, o, n)
         /\ At(u, Append(o, t), n) = At(t, o, n)
<1>1. t["count"] \in Nat /\ u["count"] \in Nat /\ Len(o) \in Nat
  BY CountField
<1>2. Len(Append(o, t)) = Len(o) + 1 /\ Append(o, t)[Len(o) + 1] = t
  OBVIOUS
<1>3. CASE n = Len(o)
  BY <1>1, <1>2, <1>3 DEF At
<1>4. CASE n # Len(o)
  <2>1. n + 1 \in 1 .. Len(o) /\ n # Len(Append(o, t))
    BY <1>1, <1>2, <1>4
  <2>2. o[n + 1] \in Delta /\ Append(o, t)[n + 1] = o[n + 1]
    BY <2>1
  <2>3. o[n + 1]["count"] \in Nat
    BY <2>2, CountField
  <2>4. /\ At(t, o, n) = o[n + 1]["count"] /\ At(u, o, n) = o[n + 1]["count"]
        /\ At(u, Append(o, t), n) = o[n + 1]["count"]
    BY <1>4, <2>1, <2>2 DEF At
  <2> QED
    BY <2>3, <2>4
<1> QED
  BY <1>3, <1>4

(* A batch's own step, from its addition to its reading: no entry's count  *)
(* falls, and what is read of an entry is its count.                       *)
BatchStep(h, at, acc, val) ==
  /\ Step(h, at, acc, val)
  /\ UNCHANGED <<wire, got, dups, others, siblings, stored>>
  /\ overlap' = overlap
  /\ job[h].at \notin {"idle", "post"}
  /\ acc <= Len(old')
  /\ Len(old) <= Len(old')
  /\ \A n \in Nat : n <= Len(old) => At(total', old', n) >= At(total, old, n)
  /\ acc = IF job[h].at = "add" THEN Len(old') ELSE job[h].acc
  /\ at = "post" => /\ acc <= Len(old)
                    /\ At(total, old, acc) <= val["count"]
                    /\ val["count"] <= At(total', old', acc)
  /\ others = 0 => /\ old' = << >> /\ bounds' = "own"
                   /\ total'["count"] + (IF at = "count" THEN job[h].delta["count"] ELSE 0) =
                        total["count"] + Due(job[h])

(* Every step keeps it. *)
LEMMA ServerStep ==
  ASSUME ServerInv, LedgerType, [Next]_vars
  PROVE  ServerInv'
<1>1. wire \in Seq(Delta) /\ hand \in Delta /\ Len(wire) \in Nat
  BY DEF LedgerType
<1>2. /\ got \in 0 .. Len(wire) /\ dups \in 0 .. MaxDup /\ others \in 0 .. MaxOther
      /\ siblings \in 0 .. MaxSibling /\ bounds \in {"own", "other"} /\ old \in Seq(Delta)
      /\ total \in Delta /\ lock \in Handler \cup {Nobody} /\ job \in [Handler -> Job]
      /\ stored \in [acc : Nat, val : Delta] /\ stored.acc <= Len(old)
      /\ \A h \in Handler : job[h].acc <= Len(old)
  BY DEF ServerInv, ServerType
<1>3. overlap \in BOOLEAN /\ MaxDup \in Nat /\ MaxOther \in Nat /\ MaxSibling \in Nat
  BY DeliveryAssumption, Zenon DEF ServerInv, ServerType
<1>4. /\ total["count"] \in Nat /\ stored.val \in Delta /\ stored.val["count"] \in Nat
      /\ stored.acc \in Nat /\ Len(old) \in Nat
  BY <1>2, CountField
<1>5. \A h \in Handler : /\ job[h] \in Job /\ job[h].delta \in Delta /\ job[h].val \in Delta
                         /\ job[h].val["count"] \in Nat /\ job[h].delta["count"] \in Nat
                         /\ job[h].acc \in Nat
  BY <1>2, CountField DEF Job
<1>6. DueIn(job) \in Nat /\ \A h \in Handler : Due(job[h]) \in Nat
  BY <1>2, DueNat
<1>7. StoreInv /\ AddedInv
  BY DEF ServerInv
<1>8. CASE /\ UNCHANGED <<got, dups, others, siblings, total, bounds, old, lock, job, stored>>
           /\ overlap' = overlap
           /\ wire' = wire \/ wire' = Append(wire, hand)
  <2>1. Len(wire') \in Nat /\ Len(wire') >= Len(wire)
    BY <1>1, <1>8
  <2>2. got' \in 0 .. Len(wire')
    BY <1>1, <1>2, <1>8, <2>1
  <2>3. ServerType'
    BY <1>2, <1>3, <1>8, <2>2, Zenon DEF ServerType
  <2>4. GotOf(wire', got') = GotOf(wire, got)
    <3>1. got \in 0 .. Len(wire)
      BY <1>2
    <3>2. GotOf(Append(wire, hand), got) = GotOf(wire, got)
      BY <1>1, <3>1, GotStays
    <3>3. got' = got /\ (wire' = wire \/ wire' = Append(wire, hand))
      BY <1>8
    <3> QED
      BY <3>2, <3>3
  <2>5. AddedInv'
    BY <1>7, <1>8, <2>4 DEF AddedInv
  <2>6. StoreInv'
    BY <1>7, <1>8 DEF StoreInv
  <2> QED
    BY <2>3, <2>5, <2>6 DEF ServerInv
<1>9. ASSUME NEW h \in Handler,
             \/ Receive(h) \/ ReceiveAgain(h) \/ ReceiveSibling(h)
             \/ ReceiveOther(h, "own") \/ ReceiveOther(h, "other")
      PROVE  ServerInv'
  <2> DEFINE Own == Receive(h) \/ ReceiveAgain(h) \/ ReceiveSibling(h)
             Oth == ReceiveOther(h, "own") \/ ReceiveOther(h, "other")
  <2>1. UNCHANGED <<wire, total, bounds, old, lock, stored>>
    BY <1>9 DEF Receive, ReceiveAgain, ReceiveSibling, ReceiveOther
  <2>2. PICK agent \in {"own", "other"}, bds \in {"own", "other"}, d \in Delta :
             /\ Take(h, agent, bds, d)
             /\ \/ /\ got < Len(wire) /\ d = wire[got + 1]
                   /\ got' = got + 1 /\ bds = "own" /\ UNCHANGED <<dups, others, siblings>>
                \/ /\ got' = got /\ dups < MaxDup /\ dups' = dups + 1
                   /\ bds = "own" /\ UNCHANGED <<others, siblings>>
                \/ /\ got' = got /\ siblings < MaxSibling /\ siblings' = siblings + 1
                   /\ bds = "own" /\ d["count"] = 1 /\ UNCHANGED <<dups, others>>
                \/ /\ got' = got /\ others < MaxOther /\ others' = others + 1
                   /\ agent = "other" /\ UNCHANGED <<dups, siblings>>
    <3>1. CASE Receive(h)
      <4>1. wire[got + 1] \in Delta
        BY <1>1, <1>2, <3>1 DEF Receive
      <4> QED
        BY <3>1, <4>1 DEF Receive
    <3>2. CASE ReceiveAgain(h)
      <4>1. wire[got] \in Delta
        BY <1>1, <1>2, <3>2 DEF ReceiveAgain
      <4> QED
        BY <3>2, <4>1 DEF ReceiveAgain
    <3>3. One \in Delta /\ One["count"] = 1
      BY DEF Delta, One
    <3>4. CASE ReceiveSibling(h)
      BY <3>3, <3>4 DEF ReceiveSibling
    <3>5. CASE Oth
      BY <3>3, <3>5 DEF ReceiveOther
    <3> QED
      BY <1>9, <3>1, <3>2, <3>4, <3>5
  <2>3. /\ job' \in [Handler -> Job]
        /\ \A g \in Handler : g # h => job'[g] = job[g]
        /\ job'[h].at = "add" /\ job'[h].agent = agent /\ job'[h].delta = d
        /\ job'[h].bounds = bds /\ job'[h].acc = 0
        /\ job[h].at = "idle"
    BY <1>2, <2>2, JobTaken
  <2>4. /\ got' \in 0 .. Len(wire') /\ dups' \in 0 .. MaxDup /\ others' \in 0 .. MaxOther
        /\ siblings' \in 0 .. MaxSibling
    BY <1>1, <1>2, <1>3, <2>1, <2>2, SMTT(60)
  <2>5. /\ Oth => overlap' = overlap
        /\ Own => overlap' = (overlap \/ Overlapping)
    <3>1. Oth => overlap' = overlap
      BY Zenon DEF ReceiveOther
    <3>2. Own => overlap' = (overlap \/ Overlapping)
      BY Zenon DEF Receive, ReceiveAgain, ReceiveSibling
    <3> QED
      BY <3>1, <3>2, Zenon
  <2>6. overlap' \in BOOLEAN /\ (~overlap' => ~overlap)
    <3>1. CASE Oth
      <4>1. overlap' = overlap
        BY <2>5, <3>1, Zenon
      <4>2. overlap' \in BOOLEAN
        BY <1>3, <4>1, Zenon
      <4>3. ~overlap' => ~overlap
        BY <4>1
      <4> QED
        BY <4>2, <4>3, Zenon
    <3>2. CASE Own
      <4>1. (overlap \/ Overlapping) \in BOOLEAN
        OBVIOUS
      <4>2. overlap' = (overlap \/ Overlapping)
        BY <2>5, <3>2, Zenon
      <4>3. overlap' \in BOOLEAN
        BY <4>1, <4>2, Zenon
      <4>4. ~overlap' => ~overlap
        BY <4>2, Zenon
      <4> QED
        BY <4>3, <4>4, Zenon
    <3> QED
      BY <1>9, <3>1, <3>2, Zenon
  <2>7. ~overlap' => job'[h].agent # "own" \/ \A g \in Handler : job[g].agent # "own"
    <3>1. CASE Own
      <4>1. ~overlap' => ~Overlapping
        BY <2>5, <3>1, Zenon
      <4> QED
        BY <4>1 DEF Overlapping
    <3>2. CASE Oth
      <4>1. PICK b \in {"own", "other"} : Take(h, "other", b, One)
        BY <3>2 DEF ReceiveOther
      <4>2. One \in Delta
        BY DEF Delta, One
      <4>3. job'[h].agent = "other"
        BY <1>2, <4>1, <4>2, JobTaken
      <4> QED
        BY <4>3
    <3> QED
      BY <1>9, <3>1, <3>2
  <2>8. ServerType'
    <3>1. \A g \in Handler : job'[g].acc <= Len(old)
      BY <1>2, <1>4, <2>3
    <3> QED
      BY <1>2, <2>1, <2>3, <2>4, <2>6, <3>1 DEF ServerType
  <2>9. StoreInv'
    <3>1. ASSUME ~overlap', NEW f \in Handler, NEW g \in Handler,
                 job'[f].agent = "own", job'[g].agent = "own"
          PROVE  f = g
      BY <1>7, <2>3, <2>6, <2>7, <3>1 DEF StoreInv
    <3>2. ASSUME NEW g \in Handler, job'[g].at \notin {"idle", "add"}
          PROVE  /\ job'[g].at = "post" => job'[g].val["count"] <= At(total, old, job'[g].acc)
                 /\ ~overlap' /\ job'[g].agent = "own" => NotBehind(job'[g], stored)
      <4>1. g # h /\ job'[g] = job[g]
        BY <2>3, <3>2
      <4> QED
        BY <1>7, <2>6, <3>2, <4>1 DEF StoreInv
    <3>3. others' = 0 => /\ old = << >> /\ bounds = "own"
                         /\ \A g \in Handler : job'[g].bounds = "own"
      <4>1. others' = 0 => others = 0 /\ bds = "own"
        BY <1>2, <2>2
      <4> QED
        BY <1>7, <2>3, <4>1 DEF StoreInv
    <3>4. /\ total' = total /\ old' = old /\ stored' = stored /\ bounds' = bounds
          /\ stored.val["count"] <= At(total, old, stored.acc)
      BY <1>7, <2>1 DEF StoreInv
    <3> QED
      BY <3>1, <3>2, <3>3, <3>4 DEF StoreInv
  <2>10. AddedInv'
    <3>1. Due(job[h]) = 0 /\ Due(job'[h]) = d["count"] /\ d["count"] \in Nat
      BY <2>3, CountField DEF Due
    <3>2. DueIn(job') = DueIn(job) - Due(job[h]) + Due(job'[h])
      BY <1>2, <2>3, DueChange
    <3>3. DueIn(job') = DueIn(job) + d["count"]
      BY <1>6, <3>1, <3>2
    <3>4. GotOf(wire, got) \in Nat /\ siblings \in Nat
      BY <1>1, <1>2, <1>3, GotSent
    <3>5. CASE dups' = dups + 1 \/ others' = others + 1
      <4>1. ~ (dups' = 0 /\ others' = 0)
        BY <1>2, <3>5
      <4> QED
        BY <4>1 DEF AddedInv
    <3>6. CASE UNCHANGED <<dups, others>>
      <4>1. GotOf(wire', got') + siblings' = GotOf(wire, got) + siblings + d["count"]
        <5>1. CASE got < Len(wire) /\ d = wire[got + 1] /\ got' = got + 1 /\ UNCHANGED siblings
          <6>1. GotOf(wire, got + 1) = GotOf(wire, got) + wire[got + 1]["count"]
            BY <1>1, <1>2, <5>1, GotNext
          <6>2. GotOf(wire', got') = GotOf(wire, got) + d["count"]
            BY <2>1, <5>1, <6>1
          <6> QED
            BY <3>1, <3>4, <5>1, <6>2
        <5>2. CASE got' = got /\ siblings' = siblings + 1 /\ d["count"] = 1
          <6>1. GotOf(wire', got') = GotOf(wire, got)
            BY <2>1, <5>2
          <6> QED
            BY <3>4, <5>2, <6>1
        <5> QED
          BY <1>2, <2>2, <3>6, <5>1, <5>2
      <4>2. dups' = 0 /\ others' = 0 => total["count"] + DueIn(job) = GotOf(wire, got) + siblings
        BY <1>7, <3>6 DEF AddedInv
      <4>3. total["count"] + DueIn(job) = GotOf(wire, got) + siblings
              => total["count"] + (DueIn(job) + d["count"]) = GotOf(wire, got) + siblings + d["count"]
        BY <1>4, <1>6, <3>1, <3>4
      <4>4. total' = total
        BY <2>1
      <4> QED
        BY <3>3, <4>1, <4>2, <4>3, <4>4, Zenon DEF AddedInv
    <3> QED
      BY <2>2, <3>5, <3>6
  <2> QED
    BY <2>8, <2>9, <2>10 DEF ServerInv
<1>10. ASSUME NEW h \in Handler, NEW at \in {"count", "readBucket", "readCount", "post"},
              NEW acc \in Nat, NEW val \in Delta, BatchStep(h, at, acc, val),
              total' \in Delta, old' \in Seq(Delta), bounds' \in {"own", "other"},
              lock' \in Handler \cup {Nobody}
       PROVE  ServerInv'
  <2>1. /\ job' \in [Handler -> Job]
        /\ \A g \in Handler : g # h => job'[g] = job[g]
        /\ job'[h].at = at /\ job'[h].acc = acc /\ job'[h].val = val
        /\ job'[h].agent = job[h].agent /\ job'[h].delta = job[h].delta
        /\ job'[h].bounds = job[h].bounds
    BY <1>2, <1>10, JobStep DEF BatchStep
  <2>2. /\ UNCHANGED <<wire, got, dups, others, siblings, stored>>
        /\ acc <= Len(old') /\ Len(old) <= Len(old') /\ Len(old') \in Nat
        /\ \A n \in Nat : n <= Len(old) => At(total', old', n) >= At(total, old, n)
    BY <1>10 DEF BatchStep
  <2>3. overlap' = overlap
    BY <1>10, Zenon DEF BatchStep
  <2>4. total'["count"] \in Nat /\ val["count"] \in Nat
    BY <1>10, CountField
  <2>5. \A n \in Nat : n <= Len(old) => At(total, old, n) \in Nat /\ At(total', old', n) \in Nat
    <3> SUFFICES ASSUME NEW n \in Nat, n <= Len(old)
                 PROVE  At(total, old, n) \in Nat /\ At(total', old', n) \in Nat
      OBVIOUS
    <3>1. total \in Delta /\ old \in Seq(Delta)
      BY <1>2
    <3>2. total' \in Delta /\ old' \in Seq(Delta)
      BY <1>10
    <3>3. n <= Len(old')
      BY <1>4, <2>2
    <3>4. At(total, old, n) \in Nat
      BY <3>1, Entries
    <3>5. At(total', old', n) \in Nat
      BY <3>2, <3>3, Entries
    <3> QED
      BY <3>4, <3>5
  <2>6. ServerType'
    <3>1. /\ \A g \in Handler : job'[g].acc <= Len(old')
          /\ stored'.acc <= Len(old') /\ stored' = stored
      <4>1. stored' = stored /\ stored.acc <= Len(old) /\ \A g \in Handler : job[g].acc <= Len(old)
        BY <1>2, <2>2
      <4>2. ASSUME NEW g \in Handler
            PROVE  job'[g].acc <= Len(old')
        <5>1. CASE g = h
          BY <2>1, <2>2, <5>1
        <5>2. CASE g # h
          BY <1>4, <1>5, <2>1, <2>2, <4>1, <5>2
        <5> QED
          BY <5>1, <5>2
      <4> QED
        BY <1>4, <2>2, <4>1, <4>2
    <3>2. /\ got' \in 0 .. Len(wire') /\ dups' \in 0 .. MaxDup /\ others' \in 0 .. MaxOther
          /\ siblings' \in 0 .. MaxSibling
      BY <1>2, <2>2
    <3> QED
      BY <1>2, <1>3, <1>10, <2>1, <2>3, <3>1, <3>2, Zenon DEF ServerType
  <2>7. StoreInv'
    <3>1. ASSUME ~overlap, NEW f \in Handler, NEW g \in Handler,
                 job'[f].agent = "own", job'[g].agent = "own"
          PROVE  f = g
      <4>1. job[f].agent = "own" /\ job[g].agent = "own"
        BY <2>1, <3>1
      <4> QED
        BY <1>7, <3>1, <4>1 DEF StoreInv
    <3>2. stored.val["count"] <= At(total, old, stored.acc)
      BY <1>7 DEF StoreInv
    <3>3. ASSUME NEW g \in Handler, g # h
          PROVE  /\ job'[g].at = "post" => job'[g].val["count"] <= At(total', old', job'[g].acc)
                 /\ ~overlap /\ job'[g].agent = "own" /\ job'[g].at \notin {"idle", "add"}
                      => NotBehind(job'[g], stored)
      <4>1. /\ job[g].at = "post" => job[g].val["count"] <= At(total, old, job[g].acc)
            /\ ~overlap /\ job[g].agent = "own" /\ job[g].at \notin {"idle", "add"}
                 => NotBehind(job[g], stored)
            /\ job'[g] = job[g]
        BY <1>7, <2>1, <3>3 DEF StoreInv
      <4>2. /\ At(total', old', job[g].acc) >= At(total, old, job[g].acc)
            /\ At(total, old, job[g].acc) \in Nat /\ At(total', old', job[g].acc) \in Nat
        BY <1>2, <1>5, <2>2, <2>5
      <4> QED
        BY <1>5, <4>1, <4>2
    <3>4. job'[h].at = "post" => job'[h].val["count"] <= At(total', old', job'[h].acc)
      BY <1>10, <2>1 DEF BatchStep
    <3>5. ASSUME ~overlap, job'[h].agent = "own"
          PROVE  NotBehind(job'[h], stored)
      <4>1. acc >= stored.acc
        <5>1. CASE job[h].at = "add"
          <6>1. acc = Len(old')
            BY <1>10, <5>1 DEF BatchStep
          <6> QED
            BY <1>2, <1>4, <2>2, <6>1
        <5>2. CASE job[h].at # "add"
          <6>1. acc = job[h].acc /\ job[h].at # "idle"
            BY <1>10, <5>2 DEF BatchStep
          <6>2. NotBehind(job[h], stored)
            BY <1>7, <2>1, <3>5, <5>2, <6>1 DEF StoreInv
          <6> QED
            BY <6>1, <6>2 DEF NotBehind
        <5> QED
          BY <5>1, <5>2
      <4>2. at = "post" /\ acc = stored.acc => val["count"] >= stored.val["count"]
        <5>1. at = "post" => At(total, old, acc) <= val["count"] /\ acc <= Len(old)
          BY <1>10 DEF BatchStep
        <5>2. At(total, old, stored.acc) \in Nat
          BY <1>2, <1>4, <2>5
        <5> QED
          BY <1>4, <2>4, <3>2, <5>1, <5>2
      <4> QED
        BY <2>1, <4>1, <4>2 DEF NotBehind
    <3>6. stored.val["count"] <= At(total', old', stored.acc)
      <4>1. /\ At(total', old', stored.acc) >= At(total, old, stored.acc)
            /\ At(total, old, stored.acc) \in Nat /\ At(total', old', stored.acc) \in Nat
        BY <1>2, <1>4, <2>2, <2>5
      <4> QED
        BY <1>4, <3>2, <4>1
    <3>7. others = 0 => /\ old' = << >> /\ bounds' = "own"
                        /\ \A g \in Handler : job'[g].bounds = "own"
      <4>1. others = 0 => old' = << >> /\ bounds' = "own"
        BY <1>10 DEF BatchStep
      <4>2. others = 0 => \A g \in Handler : job[g].bounds = "own"
        BY <1>7 DEF StoreInv
      <4> QED
        BY <2>1, <4>1, <4>2
    <3>8. stored' = stored /\ others' = others
      BY <2>2
    <3>9. ASSUME NEW g \in Handler
          PROVE  /\ job'[g].at = "post" => job'[g].val["count"] <= At(total', old', job'[g].acc)
                 /\ ~overlap /\ job'[g].agent = "own" /\ job'[g].at \notin {"idle", "add"}
                      => NotBehind(job'[g], stored)
      BY <3>3, <3>4, <3>5, Zenon
    <3> QED
      BY <2>3, <3>1, <3>6, <3>7, <3>8, <3>9, Zenon DEF StoreInv
  <2>8. AddedInv'
    <3> SUFFICES ASSUME dups' = 0, others' = 0
                 PROVE  total'["count"] + DueIn(job') = GotOf(wire', got') + siblings'
      BY DEF AddedInv
    <3>1. DueIn(job') = DueIn(job) - Due(job[h]) + Due(job'[h])
      BY <1>2, <2>1, DueChange
    <3>2. Due(job'[h]) = IF at = "count" THEN job[h].delta["count"] ELSE 0
      BY <2>1 DEF Due
    <3>3. Due(job'[h]) \in Nat /\ Due(job[h]) \in Nat
      BY <1>6, <2>1, DueNat
    <3>4. total'["count"] + Due(job'[h]) = total["count"] + Due(job[h])
      <4>1. others = 0
        BY <2>2
      <4>2. total'["count"] + (IF at = "count" THEN job[h].delta["count"] ELSE 0) =
              total["count"] + Due(job[h])
        BY <1>10, <4>1, Zenon DEF BatchStep
      <4> QED
        BY <3>2, <4>2
    <3>5. total'["count"] + DueIn(job') = total["count"] + DueIn(job)
      <4>1. total["count"] \in Nat /\ total'["count"] \in Nat /\ DueIn(job) \in Nat
        BY <1>4, <1>6, <2>4
      <4> QED
        BY <3>1, <3>3, <3>4, <4>1
    <3>6. dups' = dups /\ others' = others /\ GotOf(wire', got') + siblings' = GotOf(wire, got) + siblings
      BY <2>2
    <3> QED
      BY <1>7, <3>5, <3>6 DEF AddedInv
  <2> QED
    BY <2>6, <2>7, <2>8 DEF ServerInv
<1>11. ASSUME NEW h \in Handler, addSum(h)
       PROVE  ServerInv'
  <2>1. /\ job[h].at = "add" /\ total' = Plus(total, job[h].delta)
        /\ Step(h, "post", Len(old), total')
        /\ UNCHANGED <<wire, got, dups, others, siblings, bounds, old, lock, stored>>
    BY <1>11 DEF addSum
  <2>2. overlap' = overlap
    BY <1>11, Zenon DEF addSum
  <2>3. total' \in Delta /\ total'["count"] = total["count"] + job[h].delta["count"]
    <3>1. total \in Delta /\ job[h].delta \in Delta
      BY <1>2, <1>5
    <3> QED
      BY <2>1, <3>1, SumDelta, Zenon
  <2>4. Due(job[h]) = job[h].delta["count"]
    BY <2>1 DEF Due
  <2>5. total'["count"] >= total["count"] /\ total'["count"] \in Nat
    BY <1>4, <1>5, <2>3
  <2>6. total'["count"] + 0 = total["count"] + Due(job[h])
    BY <1>4, <1>5, <2>3, <2>4
  <2>7. \A n \in Nat : n <= Len(old) => At(total', old', n) >= At(total, old, n)
    BY <1>2, <2>1, <2>3, <2>5, Entries
  <2>8. At(total, old, Len(old)) = total["count"] /\ At(total', old', Len(old)) = total'["count"]
    BY <2>1 DEF At
  <2>9. others = 0 => old' = << >> /\ bounds' = "own"
    BY <1>7, <2>1 DEF StoreInv
  <2>10. BatchStep(h, "post", Len(old), total')
    BY <1>4, <2>1, <2>2, <2>5, <2>6, <2>7, <2>8, <2>9 DEF BatchStep
  <2> QED
    BY <1>2, <1>4, <1>10, <2>1, <2>3, <2>10
<1>12. ASSUME NEW h \in Handler, AddBuckets(h)
       PROVE  ServerInv'
  <2>1. /\ job[h].at = "add" /\ Step(h, "count", Len(old'), Zero)
        /\ UNCHANGED <<wire, got, dups, others, siblings, stored>> /\ lock' = h
        /\ bounds' = job[h].bounds /\ bounds' \in {"own", "other"}
    BY <1>5, <1>12 DEF AddBuckets, Job
  <2>2. overlap' = overlap
    BY <1>12, Zenon DEF AddBuckets
  <2>3. Due(job[h]) = job[h].delta["count"] /\ total \in Delta /\ job[h].delta \in Delta
    BY <1>2, <1>5, <2>1 DEF Due
  <2>4. CASE bounds = job[h].bounds
    <3>1. total' = [total EXCEPT !.bucket = @ + job[h].delta.bucket] /\ old' = old
      BY <1>12, <2>4 DEF AddBuckets
    <3>2. total' \in Delta /\ total'["count"] = total["count"]
      BY <2>3, <3>1, BucketDelta, Zenon
    <3>3. \A n \in Nat : n <= Len(old) => At(total', old', n) >= At(total, old, n)
      <4>1. total'["count"] >= total["count"] /\ old \in Seq(Delta)
        BY <1>2, <1>4, <3>2
      <4> QED
        BY <2>3, <3>1, <3>2, <4>1, Entries
    <3>4. others = 0 => old' = << >> /\ bounds' = "own"
      BY <1>7, <2>1, <2>4, <3>1 DEF StoreInv
    <3>5. BatchStep(h, "count", Len(old'), Zero)
      BY <1>4, <2>1, <2>2, <2>3, <3>1, <3>2, <3>3, <3>4 DEF BatchStep
    <3> QED
      BY <1>2, <1>4, <1>10, <2>1, <3>1, <3>2, <3>5, ZeroAt
  <2>5. CASE bounds # job[h].bounds
    <3>1. total' = [job[h].delta EXCEPT !.count = 0] /\ old' = Append(old, total)
      BY <1>12, <2>5 DEF AddBuckets, Replace
    <3>2. total' \in Delta /\ old' \in Seq(Delta) /\ Len(old') = Len(old) + 1
      <4>1. total' \in Delta
        BY <2>3, <3>1 DEF Delta
      <4>2. old \in Seq(Delta)
        BY <1>2
      <4> QED
        BY <2>3, <3>1, <4>1, <4>2
    <3>3. \A n \in Nat : n <= Len(old) => At(total', old', n) = At(total, old, n) /\ At(total, old, n) \in Nat
      BY <1>2, <3>1, <3>2, Entries
    <3>4. others # 0
      BY <1>7, <2>5 DEF StoreInv
    <3>5. BatchStep(h, "count", Len(old'), Zero)
      BY <1>4, <2>1, <2>2, <3>2, <3>3, <3>4 DEF BatchStep
    <3>6. Len(old') \in Nat /\ Zero \in Delta
      BY <1>4, <3>2, ZeroAt
    <3> QED
      BY <1>10, <2>1, <3>2, <3>5, <3>6
  <2> QED
    BY <2>4, <2>5
<1>13. ASSUME NEW h \in Handler, AddCount(h)
       PROVE  ServerInv'
  <2>1. /\ job[h].at = "count" /\ total' = [total EXCEPT !.count = @ + job[h].delta.count]
        /\ Step(h, "readBucket", job[h].acc, Zero)
        /\ UNCHANGED <<wire, got, dups, others, siblings, bounds, old, stored>> /\ lock' = Nobody
    BY <1>13 DEF AddCount
  <2>2. overlap' = overlap
    BY <1>13, Zenon DEF AddCount
  <2>3. total' \in Delta /\ total'["count"] = total["count"] + job[h].delta["count"]
    <3>1. total \in Delta /\ job[h].delta \in Delta
      BY <1>2, <1>5
    <3> QED
      BY <2>1, <3>1, CountDelta, Zenon
  <2>4. Due(job[h]) = job[h].delta["count"]
    BY <2>1 DEF Due
  <2>5. total'["count"] >= total["count"]
    BY <1>4, <1>5, <2>3
  <2>6. total'["count"] + 0 = total["count"] + Due(job[h])
    BY <1>4, <1>5, <2>3, <2>4
  <2>7. \A n \in Nat : n <= Len(old) => At(total', old', n) >= At(total, old, n)
    BY <1>2, <2>1, <2>3, <2>5, Entries
  <2>8. others = 0 => old' = << >> /\ bounds' = "own"
    BY <1>7, <2>1 DEF StoreInv
  <2>9. BatchStep(h, "readBucket", job[h].acc, Zero)
    <3>1. job[h].acc <= Len(old) /\ old' = old
      BY <1>2, <2>1
    <3> QED
      BY <1>4, <2>1, <2>2, <2>6, <2>7, <2>8, <3>1 DEF BatchStep
  <2> QED
    BY <1>2, <1>5, <1>10, <2>1, <2>3, <2>9, ZeroAt
<1>14. ASSUME NEW h \in Handler, ReadBuckets(h) \/ ReadCount(h)
       PROVE  ServerInv'
  <2>1. UNCHANGED <<wire, got, dups, others, siblings, stored, total, bounds, old, lock>>
    BY <1>14 DEF ReadBuckets, ReadCount
  <2>2. overlap' = overlap
    BY <1>14, Zenon DEF ReadBuckets, ReadCount
  <2> DEFINE e == Entry(job[h].acc)
  <2>3. e \in Delta /\ e["count"] = At(total, old, job[h].acc)
    <3>1. job[h].acc \in Nat /\ job[h].acc <= Len(old)
      BY <1>2, <1>5
    <3>2. job[h].acc # Len(old) => old[job[h].acc + 1] \in Delta
      BY <1>2, <1>4, <3>1
    <3> QED
      BY <1>2, <3>1, <3>2 DEF Entry, At
  <2> HIDE DEF e
  <2>4. PICK at \in {"readCount", "post"}, val \in Delta :
             /\ Step(h, at, job[h].acc, val)
             /\ job[h].at = "readBucket" \/ job[h].at = "readCount"
             /\ at = "post" => val["count"] = At(total, old, job[h].acc)
    <3>1. CASE ReadBuckets(h)
      <4>1. [job[h].val EXCEPT !.bucket = e.bucket] \in Delta
        BY <1>5, <2>3 DEF Delta
      <4> QED
        BY <3>1, <4>1 DEF ReadBuckets, e
    <3>2. CASE ReadCount(h)
      <4>1. /\ [job[h].val EXCEPT !.count = e.count] \in Delta
            /\ [job[h].val EXCEPT !.count = e.count]["count"] = e["count"]
        BY <1>5, <2>3 DEF Delta
      <4> QED
        BY <2>3, <3>2, <4>1 DEF ReadCount, e
    <3> QED
      BY <1>14, <3>1, <3>2
  <2>5. Due(job[h]) = 0 /\ job[h].acc \in Nat /\ job[h].acc <= Len(old)
    BY <1>2, <1>5, <2>4 DEF Due
  <2>6. total'["count"] + 0 = total["count"] + Due(job[h])
    BY <1>4, <2>1, <2>5
  <2>7. \A n \in Nat : n <= Len(old) => /\ At(total', old', n) = At(total, old, n)
                                        /\ At(total, old, n) \in Nat
    BY <1>2, <2>1, Entries
  <2>8. others = 0 => old' = << >> /\ bounds' = "own"
    BY <1>7, <2>1 DEF StoreInv
  <2>9. BatchStep(h, at, job[h].acc, val)
    BY <1>4, <2>1, <2>2, <2>4, <2>5, <2>6, <2>7, <2>8 DEF BatchStep
  <2> QED
    BY <1>2, <1>10, <2>1, <2>4, <2>5, <2>9
<1>15. ASSUME NEW h \in Handler, Post(h)
       PROVE  ServerInv'
  <2>1. /\ job[h].at = "post" /\ job' = [job EXCEPT ![h] = Free]
        /\ UNCHANGED <<wire, got, dups, others, siblings, total, bounds, old, lock>>
        /\ \/ stored' = stored
           \/ job[h].agent = "own" /\ stored' = [acc |-> job[h].acc, val |-> job[h].val]
    BY <1>15 DEF Post
  <2>2. overlap' = overlap
    BY <1>15, Zenon DEF Post
  <2>3. /\ Free \in Job /\ Free.at = "idle" /\ Free.agent = "none" /\ Free.bounds = "own"
        /\ Free.acc = 0 /\ Due(Free) = 0 /\ Due(job[h]) = 0
    BY <2>1, ZeroAt DEF Free, Job, Due
  <2>4. job' \in [Handler -> Job] /\ job'[h] = Free /\ \A g \in Handler : g # h => job'[g] = job[g]
    BY <1>2, <2>1, <2>3
  <2>5. stored' \in [acc : Nat, val : Delta] /\ stored'.acc <= Len(old)
    BY <1>2, <1>5, <2>1
  <2>6. ServerType'
    <3>1. \A g \in Handler : job'[g].acc <= Len(old)
      BY <1>2, <1>4, <2>3, <2>4
    <3>2. old' = old
      BY <2>1
    <3> QED
      BY <1>2, <1>3, <2>1, <2>2, <2>4, <2>5, <3>1, <3>2, Zenon DEF ServerType
  <2>7. AddedInv'
    <3>1. DueIn(job') = DueIn(job) - Due(job[h]) + Due(job'[h])
      BY <1>2, <2>4, DueChange
    <3>2. DueIn(job') = DueIn(job)
      BY <1>6, <2>3, <2>4, <3>1
    <3> QED
      BY <1>7, <2>1, <3>2 DEF AddedInv
  <2>8. job[h].val["count"] <= At(total, old, job[h].acc)
    BY <1>7, <2>1 DEF StoreInv
  <2>9. StoreInv'
    <3>1. stored'.val["count"] <= At(total, old, stored'.acc)
      BY <1>7, <2>1, <2>8 DEF StoreInv
    <3>2. ASSUME ~overlap, NEW f \in Handler, NEW g \in Handler,
                 job'[f].agent = "own", job'[g].agent = "own"
          PROVE  f = g
      BY <1>7, <2>3, <2>4, <3>2 DEF StoreInv
    <3>3. ASSUME NEW g \in Handler, job'[g].at \notin {"idle", "add"}
          PROVE  /\ job'[g].at = "post" => job'[g].val["count"] <= At(total, old, job'[g].acc)
                 /\ ~overlap /\ job'[g].agent = "own" => NotBehind(job'[g], stored')
      <4>1. g # h /\ job'[g] = job[g]
        BY <2>3, <2>4, <3>3
      <4>2. /\ job[g].at = "post" => job[g].val["count"] <= At(total, old, job[g].acc)
            /\ ~overlap /\ job[g].agent = "own" => NotBehind(job[g], stored)
        BY <1>7, <3>3, <4>1 DEF StoreInv
      <4>3. ~overlap /\ job[g].agent = "own" => job[h].agent # "own"
        BY <1>7, <4>1 DEF StoreInv
      <4> QED
        BY <2>1, <4>1, <4>2, <4>3
    <3>4. others = 0 => old = << >> /\ bounds = "own" /\ \A g \in Handler : job'[g].bounds = "own"
      BY <1>7, <2>3, <2>4 DEF StoreInv
    <3>5. total' = total /\ old' = old /\ bounds' = bounds /\ others' = others
      BY <2>1
    <3> QED
      BY <2>2, <3>1, <3>2, <3>3, <3>4, <3>5 DEF StoreInv
  <2> QED
    BY <2>6, <2>7, <2>9 DEF ServerInv
<1> QED
  BY <1>8, <1>9, <1>11, <1>12, <1>13, <1>14, <1>15, ServerFrame, Zenon DEF Work

-----------------------------------------------------------------------------
(* The whole. *)

(* Every invariant above; the later ones rest on the earlier ones. *)
CollectInv ==
  FlightInv /\ DiskInv /\ ProgType /\ TickInv /\ GaugeInv /\ CellInv /\ LedgerInv /\ ServerInv

(* No program runs at the start. *)
LEMMA ProgInit == Init => ProgType
<1> SUFFICES ASSUME Init PROVE ProgType
  OBVIOUS
<1>1. prog = [c \in CPU |-> Idle] /\ samples = 0 /\ MaxSample \in Nat
  BY MapAssumption DEF Init, KernelInit
<1>2. Idle \in Program /\ Idle.ref = "unset" /\ Idle.left = << >>
  BY DEF Idle, Program
<1> QED
  BY <1>1, <1>2 DEF ProgType

(* The invariant is inductive. *)
LEMMA Collects == Spec => []CollectInv
<1>1. Init => CollectInv
  BY FlightInit, DiskInit, ProgInit, TickInit, GaugeInit, CellInit, LedgerInit, ServerStart,
     Zenon DEF CollectInv
<1>2. ASSUME CollectInv, [Next]_vars
      PROVE  CollectInv'
  <2>1. FlightInv /\ DiskInv /\ ProgType /\ TickInv /\ GaugeInv /\ CellInv /\ LedgerInv /\ ServerInv
    BY <1>2, Zenon DEF CollectInv
  <2>2. LedgerType
    BY <2>1, Zenon DEF LedgerInv
  <2>3. FlightInv'
    BY <1>2, <2>1, FlightStep, Zenon
  <2>4. DiskInv'
    BY <1>2, <2>1, DiskStep, Zenon
  <2>5. ProgType'
    BY <1>2, <2>1, ProgStep, Zenon
  <2>6. TickInv'
    BY <1>2, <2>1, TickStep, Zenon
  <2>7. GaugeInv'
    BY <1>2, <2>1, GaugeStep, Zenon
  <2>8. CellInv'
    BY <1>2, <2>1, CellStep, Zenon
  <2>9. LedgerInv'
    BY <1>2, <2>1, LedgerStep, Zenon
  <2>10. ServerInv'
    BY <1>2, <2>1, <2>2, ServerStep, Zenon
  <2> QED
    BY <2>3, <2>4, <2>5, <2>6, <2>7, <2>8, <2>9, <2>10, Zenon DEF CollectInv
<1> QED
  BY <1>1, <1>2, PTL DEF Spec

(* TypeOK of Collector: the maps, the programs, the gauge, the start       *)
(* times, the tick, the accumulator and its handlers keep their types, on  *)
(* any number of CPUs and of handlers.  In particular the gauge stays      *)
(* within its word and the ring buffer within its size.                    *)
THEOREM TypeCorrect == Spec => []TypeOK
<1>1. ASSUME CollectInv
      PROVE  TypeOK
  <2>1. FlightInv /\ DiskInv /\ ProgType /\ TickInv /\ GaugeInv /\ CellInv /\ LedgerInv /\ ServerInv
    BY <1>1, Zenon DEF CollectInv
  <2>2. LedgerType /\ ServerType
    BY <2>1, Zenon DEF LedgerInv, ServerInv
  <2>3. KernelTypeOK
    <3>1. path \in Path /\ elem \in [Key -> [there : BOOLEAN, val : [CPU -> Nat]]]
      BY <2>1 DEF FlightInv, CellInv, Cell
    <3>2. prog \in [CPU -> [left : {<< >>, <<"count">>, <<"bucket", "count">>},
                            ref : {"unset", "none", "live", "dead"}]] /\ samples \in 0 .. MaxSample
      BY <2>1 DEF ProgType, Program
    <3>3. recorded \in [Key -> Nat] /\ ring \in 0 .. RingCap
      BY <2>2 DEF LedgerType
    <3>4. /\ gauge \in {Absent} \cup (0 .. Word - 1) /\ conns \in Nat
          /\ closing \in [CPU -> {"no", "sub", "clamp", "none"}]
      BY <2>1 DEF GaugeInv
    <3>5. raced \in BOOLEAN
      BY <2>1, Zenon DEF GaugeInv
    <3>6. /\ hooks \in 0 .. 2 /\ life \in [Request -> 0 .. MaxIssue]
          /\ busy \in SUBSET Request /\ start \in [Request -> 0 .. MaxIssue]
          /\ blind \in SUBSET Request
      BY <2>1 DEF FlightInv, StartInv
    <3>7. \A m \in measured : m.lat \in Latency /\ m.slot \in Nat
      <4>1. \A m \in measured : m.lat \in Latency /\ m.slot \in 0 .. LastSlot
        BY <2>1, Zenon DEF FlightInv, MeasuredInv
      <4> QED
        BY <4>1 DEF LastSlot
    <3> QED
      BY <3>1, <3>2, <3>3, <3>4, <3>5, <3>6, <3>7, Zenon DEF KernelTypeOK
  <2>4. ServerTypeOK
    <3> DEFINE J == [at : {"idle", "add", "count", "readBucket", "readCount", "post"},
                     agent : {"none", "own", "other"}, bounds : {"own", "other"},
                     delta : Delta, acc : 0 .. Len(old), val : Delta]
    <3>1. Len(old) \in Nat /\ job \in [Handler -> Job] /\ \A h \in Handler : job[h].acc <= Len(old)
      BY <2>2 DEF ServerType
    <3>2. \A j \in Job : j.acc <= Len(old) => j \in J
      BY <3>1 DEF Job
    <3>3. job \in [Handler -> J]
      <4> HIDE DEF J
      <4> QED
        BY <3>1, <3>2
    <3>4. stored \in [acc : 0 .. Len(old), val : Delta]
      <4>1. stored \in [acc : Nat, val : Delta] /\ stored.acc <= Len(old)
        BY <2>2 DEF ServerType
      <4> QED
        BY <3>1, <4>1
    <3> QED
      BY <2>2, <3>3, <3>4, Zenon DEF ServerType, LedgerType, ServerTypeOK
  <2>5. /\ drain \in {"idle", "scan", "take", "emit"}
        /\ visited \in SUBSET Key /\ keys \in SUBSET Key /\ drains \in 0 .. MaxDrain
    BY <2>1, Zenon DEF TickInv
  <2>6. hand \in Delta /\ pend \in Nat /\ excused \in BOOLEAN
    BY <2>2, Zenon DEF LedgerType
  <2>7. emitted \in Nat
    BY <2>1, <2>2, SentSum DEF LedgerInv, LedgerType, Key
  <2>8. /\ cur \in Nat /\ prev \in Nat \cup {Absent} /\ base \in Nat
        /\ diskSent \in Nat /\ reset \in BOOLEAN
    BY <2>1, Zenon DEF DiskInv
  <2> QED
    BY <2>3, <2>4, <2>5, <2>6, <2>7, <2>8, Zenon DEF TypeOK
<1> QED
  BY <1>1, Collects, PTL

(* GaugeHonest of Collector: the established-connections gauge is never    *)
(* above the number of connections, whatever openings and closings the     *)
(* CPUs interleave, as long as no two decrements overlapped.               *)
THEOREM GaugeNeverAbove == Spec => []GaugeHonest
<1>1. ASSUME CollectInv
      PROVE  GaugeHonest
  <2>1. GaugeInv
    BY <1>1, Zenon DEF CollectInv
  <2> QED
    BY <2>1 DEF GaugeInv, GaugeHonest
<1> QED
  BY <1>1, Collects, PTL

(* NamedLosses of Collector: until something happened that the code names  *)
(* as a loss, every increment is in the map, on its way from the ring      *)
(* buffer, in the hands of the tick, or sent, and in one of them only.     *)
THEOREM OnlyNamedLosses == Spec => []NamedLosses
<1>1. ASSUME CollectInv
      PROVE  NamedLosses
  <2>1. LedgerInv /\ CellInv /\ LedgerType
    BY <1>1, Zenon DEF CollectInv, LedgerInv
  <2>2. ASSUME NEW k \in Key, ~excused
        PROVE  recorded[k] = InMap(k) + InHand(k) + Sent(k)
    <3>1. recorded[k] = Total(k)
      BY <2>1, <2>2 DEF LedgerInv
    <3>2. Value(k) = V(elem, k)
      BY Zenon DEF Value, V, Sum
    <3>3. InMap(k) = V(elem, k) + Loose(ring, pend, k)
      BY <3>2 DEF InMap, Loose
    <3>4. InHand(k) = Held(path.map, keys, drain, hand, k)
      BY DEF InHand, Held
    <3>5. Sent(k) = SentOf(wire, k)
      BY <2>1, SentSum DEF LedgerType, Sent
    <3> QED
      BY <3>1, <3>3, <3>4, <3>5 DEF Total
  <2> QED
    BY <2>2, Zenon DEF NamedLosses
<1> QED
  BY <1>1, Collects, PTL

(* What was sent was recorded. *)
LEMMA SentRecorded ==
  ASSUME LedgerInv, CellInv
  PROVE  /\ emitted \in Nat /\ recorded["count"] \in Nat
         /\ emitted = SentOf(wire, "count") /\ emitted <= recorded["count"]
<1>1. LedgerType /\ "count" \in Key /\ emitted = SentOf(wire, "count")
  BY DEF LedgerInv, Key
<1>2. /\ V(elem, "count") \in Nat /\ SentOf(wire, "count") \in Nat
      /\ Loose(ring, pend, "count") \in Nat
      /\ Held(path.map, keys, drain, hand, "count") \in Nat /\ recorded["count"] \in Nat
  BY <1>1, LedgerNat
<1>3. recorded["count"] >= Total("count")
  BY <1>1 DEF LedgerInv
<1> QED
  BY <1>1, <1>2, <1>3 DEF Total

(* ServerNeverAhead of Collector: end to end, with no batch repeated and   *)
(* no other agent on the series, the server's counter is never above the   *)
(* number of events the kernel recorded, but for what the agent's other    *)
(* histograms of the name, which come without their labels, have added.    *)
THEOREM ServerBehindKernel == Spec => []ServerNeverAhead
<1>1. ASSUME CollectInv
      PROVE  ServerNeverAhead
  <2>1. LedgerInv /\ CellInv /\ LedgerType /\ ServerType /\ AddedInv
    BY <1>1, Zenon DEF CollectInv, LedgerInv, ServerInv
  <2>2. wire \in Seq(Delta) /\ got \in 0 .. Len(wire) /\ total \in Delta /\ job \in [Handler -> Job]
    BY <2>1 DEF LedgerType, ServerType
  <2>3. GotOf(wire, got) \in Nat /\ GotOf(wire, got) <= SentOf(wire, "count")
    BY <2>2, GotSent
  <2>4. DueIn(job) \in Nat /\ total["count"] \in Nat /\ total.count = total["count"]
    BY <2>2, DueNat, CountField
  <2>5. /\ emitted \in Nat /\ recorded["count"] \in Nat
        /\ emitted = SentOf(wire, "count") /\ emitted <= recorded["count"]
    BY <2>1, SentRecorded
  <2>6. ASSUME dups = 0 /\ others = 0
        PROVE  total.count <= recorded["count"] + siblings
    <3>1. total["count"] + DueIn(job) = GotOf(wire, got) + siblings
      BY <2>1, <2>6 DEF AddedInv
    <3>2. siblings \in Nat
      BY <2>1, DeliveryAssumption DEF ServerType
    <3> QED
      BY <2>3, <2>4, <2>5, <3>1, <3>2
  <2> QED
    BY <2>6 DEF ServerNeverAhead
<1> QED
  BY <1>1, Collects, PTL

(* StoredMonotone of Accumulator: the storage never sees the agent's       *)
(* series fall, whatever the handlers of other agents, repeated batches    *)
(* and failed posts do, unless another agent's bounds replaced the entry   *)
(* or two of the agent's own batches were in work at once.                 *)
THEOREM StoredNeverFalls == Spec => StoredMonotone
<1>1. ASSUME CollectInv, [Next]_vars
      PROVE  [\/ overlap
              \/ stored'.val.count >= stored.val.count
              \/ others > 0 /\ stored'.acc > stored.acc]_stored
  <2>1. ServerType /\ StoreInv
    BY <1>1, Zenon DEF CollectInv, ServerInv
  <2>2. /\ stored.val \in Delta /\ stored.acc \in Nat /\ job \in [Handler -> Job]
        /\ others \in Nat /\ old \in Seq(Delta) /\ stored.acc <= Len(old)
        /\ \A h \in Handler : job[h].acc <= Len(old)
    BY <2>1, DeliveryAssumption DEF ServerType
  <2>3. stored.val.count = stored.val["count"] /\ stored.val["count"] \in Nat
    BY <2>2, CountField
  <2>4. ASSUME NEW h \in Handler, Post(h), stored' # stored, ~overlap
        PROVE  \/ stored'.val.count >= stored.val.count
               \/ others > 0 /\ stored'.acc > stored.acc
    <3>1. /\ job[h].at = "post" /\ job[h].agent = "own"
          /\ stored' = [acc |-> job[h].acc, val |-> job[h].val]
      BY <2>4 DEF Post
    <3>2. job[h].val \in Delta /\ job[h].acc \in Nat
      BY <2>2 DEF Job
    <3>3. stored'.val.count = job[h].val["count"] /\ stored'.acc = job[h].acc
      BY <3>1, <3>2, CountField
    <3>4. NotBehind(job[h], stored)
      BY <2>1, <2>4, <3>1 DEF StoreInv
    <3>5. others = 0 => job[h].acc = 0 /\ stored.acc = 0
      <4>1. others = 0 => old = << >>
        BY <2>1 DEF StoreInv
      <4> QED
        BY <2>2, <3>2, <4>1
    <3>6. /\ job[h].acc >= stored.acc
          /\ job[h].acc = stored.acc => job[h].val["count"] >= stored.val["count"]
      BY <3>1, <3>4 DEF NotBehind
    <3> QED
      BY <2>2, <2>3, <3>2, <3>3, <3>5, <3>6
  <2>5. ASSUME NEW h \in Handler, Work(h), stored' # stored
        PROVE  Post(h)
    BY <2>5, Zenon DEF Work, Receive, ReceiveAgain, ReceiveSibling, ReceiveOther, addSum,
                       AddBuckets, AddCount, ReadBuckets, ReadCount
  <2>6. stored' # stored => \E h \in Handler : Work(h)
    BY <1>1, ServerFrame, Zenon
  <2> QED
    BY <2>4, <2>5, <2>6, Zenon
<1> QED
  BY <1>1, Collects, PTL DEF Spec, StoredMonotone

(* How a step moves the two numbers: an update or a drop records one       *)
(* event, a tick sends what it holds.                                      *)
LEMMA CounterFrame ==
  ASSUME LedgerType, CellInv, ProgType, [Next]_vars
  PROVE  \/ UNCHANGED <<recorded, emitted>>
         \/ emitted' = emitted /\ recorded'["count"] \in {recorded["count"], recorded["count"] + 1}
         \/ recorded' = recorded /\ emitted' = emitted + hand["count"]
<1>1. recorded \in [Key -> Nat] /\ hand \in Delta /\ hand["count"] = hand.count /\ "count" \in Key
  BY CountField DEF LedgerType, Key
<1>2. ASSUME NEW c \in CPU, Count(c)
      PROVE  emitted' = emitted /\ recorded'["count"] \in {recorded["count"], recorded["count"] + 1}
  <2>1. recorded' = [recorded EXCEPT ![Head(prog[c].left)] = @ + 1] /\ emitted' = emitted
    BY <1>2 DEF Count, Update
  <2> QED
    BY <1>1, <2>1
<1>3. CASE Drop /\ UNCHANGED <<serverVars, drainVars, diskVars>>
  <2>1. emitted' = emitted
    BY <1>3, Zenon DEF drainVars
  <2>2. recorded' = [recorded EXCEPT !["count"] = @ + 1] \/ recorded' = recorded
    BY <1>3 DEF Drop
  <2> QED
    BY <1>1, <2>1, <2>2
<1>4. CASE EmitSum \/ EmitHistogram \/ EmitDrops
  <2>1. recorded' = recorded
    BY <1>4, Zenon DEF EmitSum, EmitHistogram, EmitDrops, EmitEnds, kernelVars, counterVars
  <2>2. Emit
    BY <1>4, Zenon DEF EmitSum, EmitHistogram, EmitDrops
  <2>3. emitted' = emitted \/ emitted' = emitted + hand.count
    BY <2>2 DEF Emit
  <2> QED
    BY <1>1, <2>1, <2>3
<1>5. CASE Tick \/ DrainFail \/ readDrops \/ SwapDrops
  BY <1>5, Zenon DEF Tick, DrainFail, readDrops, SwapDrops, kernelVars, counterVars
<1>6. ASSUME NEW k \in Key, Visit(k) \/ Clear(k)
      PROVE  UNCHANGED <<recorded, emitted>>
  BY <1>6, Zenon DEF Visit, Clear, kernelVars, counterVars
<1> QED
  BY <1>2, <1>3, <1>4, <1>5, <1>6, LedgerFrame, Zenon

(* CountsOnce of Collector: Collector implements LossyCounter.  An         *)
(* increment is one event recorded; what a tick sends was recorded and not *)
(* sent before; every other step leaves both counts alone.                 *)
THEOREM ImplementsCounter == Spec => CountsOnce
<1>1. Init => Counter!Init
  BY DEF Init, KernelInit, Counter!Init, Key
<1> DEFINE Behind == emitted \in Nat /\ recorded["count"] \in Nat /\ emitted <= recorded["count"]
<1>2. CollectInv => Behind
  BY SentRecorded DEF CollectInv
<1>3. ASSUME CollectInv, Behind, Behind', [Next]_vars
      PROVE  [Counter!Next]_<<recorded["count"], emitted>>
  <2>1. LedgerInv /\ CellInv /\ ProgType /\ LedgerType
    BY <1>3, Zenon DEF CollectInv, LedgerInv
  <2>2. hand["count"] \in Nat
    BY <2>1, CountField DEF LedgerType
  <2>3. CASE UNCHANGED <<recorded, emitted>>
    BY <2>3
  <2>4. CASE emitted' = emitted /\ recorded'["count"] \in {recorded["count"], recorded["count"] + 1}
    BY <2>4 DEF Counter!Next, Counter!Record
  <2>5. CASE recorded' = recorded /\ emitted' = emitted + hand["count"]
    BY <1>3, <2>2, <2>5 DEF Counter!Next, Counter!Report
  <2> QED
    BY <1>3, <2>1, <2>3, <2>4, <2>5, CounterFrame
<1> HIDE DEF Behind
<1> QED
  BY <1>1, <1>2, <1>3, Collects, PTL DEF Spec, CountsOnce, Counter!Spec
=============================================================================
