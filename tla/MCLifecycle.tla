----------------------------- MODULE MCLifecycle -----------------------------
(* Instances of Lifecycle for TLC. *)
EXTENDS Lifecycle

Cases ==
  {[on |-> {"ebpf", "cpu"}, may |-> {"tick", "route"}],
   [on |-> {"ebpf", "ebpf_block"}, may |-> {"log"}],
   [on |-> {"ebpf_block", "cpu"}, may |-> {"load", "poll"}],
   [on |-> {"ebpf_sched"}, may |-> {"tick", "error", "kill", "log"}],
   [on |-> {"ebpf"}, may |-> {"load", "save", "kill"}],
   [on |-> {"cpu"}, may |-> {"error", "save", "kill"}]}
=============================================================================
