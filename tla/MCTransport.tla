----------------------------- MODULE MCTransport -----------------------------
(* Model-checking instance of Transport: two metrics of one labelled       *)
(* series each, a number and a histogram as the block tracer sends it.     *)
EXTENDS Transport

NumberSeries == {[name |-> "a", labels |-> {"cgroup"}]}
HistogramSeries == {[name |-> "b", labels |-> {"rw", "cgroup"}]}
=============================================================================
