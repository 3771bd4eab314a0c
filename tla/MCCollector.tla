----------------------------- MODULE MCCollector -----------------------------
(* Model-checking instance of Collector: the latencies are the boundaries  *)
(* of the first and of the last buckets; CPUs, handlers and requests are   *)
(* interchangeable.                                                        *)
EXTENDS Collector, TLC

Boundaries ==
  {0} \cup UNION {{2 ^ i - 1, 2 ^ i, 2 ^ i + 1} :
                    i \in {0, 1, 2, 4, 8, 16, 17, 20, 21, 26, 27, 28}}

(* One irregular delivery at a time, and the server only behind one        *)
(* counter path of each kind of map and of each shape.                     *)
Focus ==
  /\ dups + others + siblings <= 1
  /\ got + others + siblings > 0 => path \in {[map |-> "percpu", shape |-> "sum"],
                                  [map |-> "hash", shape |-> "histogram"],
                                  [map |-> "ring", shape |-> "sum"]}

Symmetry == Permutations(CPU) \cup Permutations(Handler) \cup Permutations(Request)
=============================================================================
