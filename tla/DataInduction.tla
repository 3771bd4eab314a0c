---------------------------- MODULE DataInduction ----------------------------
(***************************************************************************)
(* Induction over data in a form the SMT and first-order provers can use:  *)
(* sets and functions in the place of operators.  A claim P(n) is proved   *)
(* for every n by looking at the least n for which it fails, and a         *)
(* recursive function is shown to satisfy its defining equation by giving  *)
(* one function that does.                                                 *)
(***************************************************************************)
EXTENDS Integers, WellFoundedInduction, TLAPS

(* A nonempty set of natural numbers has a least element.                  *)
LEMMA Least ==
  ASSUME NEW T, T \subseteq Nat, T # {}
  PROVE  \E x \in T : \A y \in T : x <= y
<1>1. \E x \in T : \A y \in T : ~ (<<y, x>> \in OpToRel(<, Nat))
  BY NatLessThanWellFounded, WFMin
<1>2. PICK x \in T : \A y \in T : ~ (<<y, x>> \in OpToRel(<, Nat))
  BY <1>1
<1>3. ASSUME NEW y \in T
      PROVE  x <= y
  <2>1. <<y, x>> \notin OpToRel(<, Nat)
    BY <1>2
  <2>2. <<y, x>> \in Nat \X Nat
    OBVIOUS
  <2>3. ~ (y < x)
    BY <2>1, <2>2, Zenon DEF OpToRel
  <2> QED
    BY <2>3
<1> QED
  BY <1>3

(* The counterpart of induction on 0 .. n: a set that holds 0 and, with    *)
(* every number below n, the next one, holds them all.                     *)
LEMMA Upward ==
  ASSUME NEW n \in Nat, NEW S, 0 \in S,
         \A i \in 1 .. n : i - 1 \in S => i \in S
  PROVE  0 .. n \subseteq S
<1> DEFINE T == {i \in 0 .. n : i \notin S}
<1>1. SUFFICES ASSUME T # {}
               PROVE  FALSE
  OBVIOUS
<1>2. PICK m \in T : \A y \in T : m <= y
  <2>1. T \subseteq Nat
    OBVIOUS
  <2> QED
    BY <1>1, <2>1, Least, Zenon
<1>3. m \in 1 .. n /\ m - 1 \in 0 .. n /\ m - 1 \notin T
  BY <1>2
<1> QED
  BY <1>3

(* g is the run of the step functions F[1], ..., F[n] from x.              *)
Runs(g, n, x, F) == g[0] = x /\ \A i \in 1 .. n : g[i] = F[i][g[i - 1]]

(* Primitive recursion over a set D: every sequence of step functions has  *)
(* a run.                                                                  *)
LEMMA Recursion ==
  ASSUME NEW D, NEW x \in D, NEW F \in [Nat -> [D -> D]], NEW n \in Nat
  PROVE  \E g \in [0 .. n -> D] : Runs(g, n, x, F)
<1> DEFINE P(k) == \E g \in [0 .. k -> D] : Runs(g, k, x, F)
           S == {k \in Nat : P(k)}
<1>1. P(0)
  <2> WITNESS [i \in 0 .. 0 |-> x] \in [0 .. 0 -> D]
  <2> QED
    BY DEF Runs
<1>2. ASSUME NEW m \in 1 .. n, P(m - 1)
      PROVE  P(m)
  <2>1. PICK g \in [0 .. m - 1 -> D] : Runs(g, m - 1, x, F)
    BY <1>2
  <2> DEFINE h == [i \in 0 .. m |-> IF i = m THEN F[m][g[m - 1]] ELSE g[i]]
  <2>2. h \in [0 .. m -> D]
    <3>1. g[m - 1] \in D
      OBVIOUS
    <3>2. F[m][g[m - 1]] \in D
      BY <3>1
    <3>3. \A i \in 0 .. m : i # m => i \in 0 .. m - 1
      OBVIOUS
    <3> QED
      BY <3>2, <3>3
  <2>3. h[0] = x
    BY <2>1 DEF Runs
  <2>4. ASSUME NEW i \in 1 .. m
        PROVE  h[i] = F[i][h[i - 1]]
    <3>1. h[i - 1] = g[i - 1]
      OBVIOUS
    <3>2. CASE i = m
      BY <3>1, <3>2
    <3>3. CASE i # m
      <4>1. i \in 1 .. m - 1 /\ h[i] = g[i]
        BY <3>3
      <4> QED
        BY <4>1, <3>1, <2>1 DEF Runs
    <3> QED
      BY <3>2, <3>3
  <2> QED
    BY <2>2, <2>3, <2>4 DEF Runs
<1> HIDE DEF P
<1>3. 0 \in S
  BY <1>1
<1>4. ASSUME NEW i \in 1 .. n, i - 1 \in S
      PROVE  i \in S
  BY <1>2, <1>4
<1>5. 0 .. n \subseteq S
  <2> HIDE DEF S
  <2> QED
    BY <1>3, <1>4, Upward
<1>6. P(n)
  BY <1>5
<1> QED
  BY <1>6 DEF P
=============================================================================
