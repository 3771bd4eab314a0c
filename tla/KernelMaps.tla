----------------------------- MODULE KernelMaps ------------------------------
(***************************************************************************)
(* The kernel side of the agent's metrics: the eBPF programs and the maps  *)
(* they fill.  A program runs to its end on one CPU; programs on different *)
(* CPUs, and the tracer that drains the maps, interleave between any two   *)
(* map operations.                                                         *)
(*                                                                         *)
(* The collection paths do not share state, so a behaviour follows one of  *)
(* them, chosen in the initial state:                                      *)
(*   percpu  counters in a PERCPU_HASH (pkt_stats, pkt_size, io_latency,   *)
(*           runq_wait), as a histogram or as a plain sum;                 *)
(*   hash    counters in a HASH shared by the CPUs (rtt_stats, tcp_health, *)
(*           io_completed), as a histogram or as a plain sum;              *)
(*   ring    packet drops through the ring buffer;                         *)
(*   gauge   tcp_health key 2, the connections established now;            *)
(*   flight  the start times of block requests (io_start) or of woken      *)
(*           tasks (wake_ts), and the latencies measured from them;        *)
(*   disk    the kernel's disk counters, read by the disk plugin (module   *)
(*           Collector).                                                   *)
(*                                                                         *)
(* Abstraction.  A histogram sample updates its bucket, then the count;    *)
(* the sum key behaves as the count does and the other buckets as the      *)
(* bucket does.  Increments are 1.                                         *)
(***************************************************************************)
EXTENDS Integers, Sequences, FiniteSets, FiniteSetsExt

CONSTANTS CPU,         \* the CPUs programs run on
          MaxSample,   \* bound: samples, drops, or opened connections
          Older,       \* connections that were open before the agent started
          Word,        \* 2^64: the gauge is kept modulo Word
          RingCap,     \* records the ring buffer holds
          Request,     \* block requests or tasks
          StartCap,    \* entries io_start or wake_ts holds
          MaxIssue,    \* bound: issues or wake-ups of one request or task
          Latency      \* the latencies, in microseconds, a sample may have

ASSUME MapAssumption ==
  /\ IsFiniteSet(CPU) /\ CPU # {}
  /\ {MaxSample, Older, RingCap, StartCap, MaxIssue} \subseteq Nat
  /\ Word \in Nat /\ Word > Older + MaxSample
  /\ Latency \subseteq Nat

Key == {"bucket", "count"}

Path ==
  [map : {"percpu", "hash"}, shape : {"histogram", "sum"}]
    \cup [map : {"ring"}, shape : {"sum"}]
    \cup [map : {"gauge"}, shape : {"gauge"}]
    \cup [map : {"flight"}, shape : {"io", "sched"}]
    \cup [map : {"disk"}, shape : {"sum"}]

VARIABLES
  path,      \* the collection path of this behaviour
  elem,      \* the counter map: is there an element at a key, and what each
             \* CPU has added to it; a HASH keeps only the sum
  prog,      \* per CPU, the keys a running program still has to increment
             \* and what its last lookup returned
  samples,   \* samples or drops so far
  recorded,  \* history: increments executed per key
  ring,      \* records in the drop ring buffer
  gauge,     \* tcp_health key 2, Absent before its first update
  conns,     \* connections now established, as the hooks have been told
  closing,   \* per CPU, a decrement between its check and its effect
  raced,     \* history: two decrements overlapped
  hooks,     \* number of hooks attached, the issue hook first
  life,      \* per request, its latest issue
  busy,      \* the requests issued and not completed
  start,     \* io_start or wake_ts: the issue recorded per request, 0 if none
  blind,     \* history: the requests whose entry in start was recorded before
             \* the completion hook was attached
  measured   \* history: the last latency measured

counterVars == <<elem, prog, samples, recorded>>
gaugeVars == <<gauge, conns, closing, raced>>
flightVars == <<hooks, life, busy, start, blind, measured>>
kernelVars == <<path, counterVars, ring, gaugeVars, flightVars>>

Absent == -1

Idle == [left |-> << >>, ref |-> "unset"]

KernelTypeOK ==
  /\ path \in Path
  /\ elem \in [Key -> [there : BOOLEAN, val : [CPU -> Nat]]]
  /\ prog \in [CPU -> [left : {<< >>, <<"count">>, <<"bucket", "count">>},
                       ref : {"unset", "none", "live", "dead"}]]
  /\ samples \in 0 .. MaxSample
  /\ recorded \in [Key -> Nat]
  /\ ring \in 0 .. RingCap
  /\ gauge \in {Absent} \cup (0 .. Word - 1)
  /\ conns \in Nat
  /\ closing \in [CPU -> {"no", "sub", "clamp", "none"}]
  /\ raced \in BOOLEAN
  /\ hooks \in 0 .. 2
  /\ life \in [Request -> 0 .. MaxIssue]
  /\ busy \in SUBSET Request
  /\ start \in [Request -> 0 .. MaxIssue]
  /\ blind \in SUBSET Request
  /\ \A m \in measured : m.lat \in Latency /\ m.slot \in Nat

KernelInit ==
  /\ path \in Path
  /\ elem = [k \in Key |-> [there |-> FALSE, val |-> [c \in CPU |-> 0]]]
  /\ prog = [c \in CPU |-> Idle]
  /\ samples = 0
  /\ recorded = [k \in Key |-> 0]
  /\ ring = 0
  /\ gauge = Absent /\ conns = Older
  /\ closing = [c \in CPU |-> "no"] /\ raced = FALSE
  /\ hooks = 0
  /\ life = [r \in Request |-> 0] /\ busy = {}
  /\ start = [r \in Request |-> 0]
  /\ blind = {} /\ measured = {}

-----------------------------------------------------------------------------
(* Counters: pkt_stats_add, size_incr, io_lat_incr, runq_incr on a         *)
(* PERCPU_HASH; rtt_incr, tcp_health_add, the io_completed part of         *)
(* complete_rq on a HASH.                                                  *)

(* The keys one sample increments, in the programs' order. *)
Increments == IF path.shape = "histogram" THEN <<"bucket", "count">> ELSE <<"count">>

Value(k) == MapThenSumSet(LAMBDA c : elem[k].val[c], CPU)

(* bpf_map_lookup_elem. *)
Found(k) == IF elem[k].there THEN "live" ELSE "none"

(* The element at k leaves the map: pointers to it are dead, and what is   *)
(* written through them is lost.  (The maps are preallocated, so the write *)
(* may reach an element inserted meanwhile in its place; that is left out.) *)
Unlinked(k) ==
  [c \in CPU |->
     IF prog[c].ref = "live" /\ Head(prog[c].left) = k
     THEN [prog[c] EXCEPT !.ref = "dead"] ELSE prog[c]]

(* A packet, a segment, a switch, a completion: its program starts. *)
Sample(c) ==
  /\ path.map \in {"percpu", "hash"}
  /\ prog[c] = Idle
  /\ samples < MaxSample
  /\ samples' = samples + 1
  /\ prog' = [prog EXCEPT ![c] = [left |-> Increments, ref |-> Found(Head(Increments))]]
  /\ UNCHANGED <<path, elem, recorded, ring, gaugeVars, flightVars>>

(* The lookup of the next key. *)
LookUp(c) ==
  /\ prog[c].left # << >>
  /\ prog[c].ref = "unset"
  /\ prog' = [prog EXCEPT ![c].ref = Found(Head(prog[c].left))]
  /\ UNCHANGED <<path, elem, samples, recorded, ring, gaugeVars, flightVars>>

OnlyCell(c) == [d \in CPU |-> IF d = c THEN 1 ELSE 0]

(* Mutant: the element is replaced in a per-CPU map too. *)
InsertedShared(c, k) == [there |-> TRUE, val |-> OnlyCell(c)]

(* bpf_map_update_elem(..., BPF_ANY) of the increment 1.  In a PERCPU_HASH *)
(* it sets the CPU's own cell of an element that has appeared since the    *)
(* lookup; in a HASH it replaces the element.                              *)
Inserted(c, k) ==
  [there |-> TRUE,
   val |-> IF path.map = "percpu" /\ elem[k].there
           THEN [elem[k].val EXCEPT ![c] = 1] ELSE OnlyCell(c)]

(* The increment: through the pointer the lookup returned, or by insertion. *)
Update(c) ==
  LET k == Head(prog[c].left)
      ref == prog[c].ref
      others == IF ref = "none" /\ path.map = "hash" THEN Unlinked(k) ELSE prog
  IN /\ path.map \in {"percpu", "hash"}
     /\ prog[c].left # << >>
     /\ ref # "unset"
     /\ elem' = CASE ref = "live" -> [elem EXCEPT ![k].val[c] = @ + 1]
                  [] ref = "none" -> [elem EXCEPT ![k] = Inserted(c, k)]
                  [] ref = "dead" -> elem
     /\ prog' = [others EXCEPT ![c] = [left |-> Tail(prog[c].left), ref |-> "unset"]]
     /\ recorded' = [recorded EXCEPT ![k] = @ + 1]
     /\ UNCHANGED <<path, samples, ring, gaugeVars, flightVars>>

-----------------------------------------------------------------------------
(* on_kfree_skb: without room in the ring buffer the drop is not seen. *)

(* Mutant: the reservation is taken to succeed. *)
DropUnreserved ==
  /\ path.map = "ring"
  /\ samples < MaxSample
  /\ samples' = samples + 1
  /\ ring' = ring + 1
  /\ recorded' = [recorded EXCEPT !["count"] = @ + 1]
  /\ UNCHANGED <<path, elem, prog, gaugeVars, flightVars>>

Drop ==
  /\ path.map = "ring"
  /\ samples < MaxSample
  /\ samples' = samples + 1
  /\ IF ring < RingCap
       THEN /\ ring' = ring + 1
            /\ recorded' = [recorded EXCEPT !["count"] = @ + 1]
       ELSE UNCHANGED <<ring, recorded>>
  /\ UNCHANGED <<path, elem, prog, gaugeVars, flightVars>>

-----------------------------------------------------------------------------
(* The established-connections gauge: tcp_set_state and tcp_health_add on  *)
(* key 2.  An increment is atomic, or an insertion that another insertion  *)
(* may have come before; a decrement checks and then subtracts.            *)

Opening(c) ==
  /\ path.map = "gauge"
  /\ prog[c] = Idle /\ closing[c] = "no"
  /\ samples < MaxSample
  /\ samples' = samples + 1
  /\ prog' = [prog EXCEPT ![c] = [left |-> <<"count">>,
                                  ref |-> IF gauge = Absent THEN "none" ELSE "live"]]
  /\ UNCHANGED <<path, elem, recorded, ring, gaugeVars, flightVars>>

(* The insertion replaces an element that has appeared since the lookup,   *)
(* and what other programs do with the old one is seen by nobody.          *)
Opened(c) ==
  /\ path.map = "gauge"
  /\ prog[c] # Idle
  /\ CASE prog[c].ref = "live" ->
            /\ gauge' = (gauge + 1) % Word
            /\ prog' = [prog EXCEPT ![c] = Idle]
            /\ UNCHANGED closing
       [] prog[c].ref = "none" ->
            /\ gauge' = 1
            /\ prog' = [Unlinked("count") EXCEPT ![c] = Idle]
            /\ closing' = [d \in CPU |-> IF closing[d] = "no" THEN "no" ELSE "none"]
       [] prog[c].ref = "dead" ->
            /\ prog' = [prog EXCEPT ![c] = Idle]
            /\ UNCHANGED <<gauge, closing>>
  /\ conns' = conns + 1
  /\ UNCHANGED <<path, elem, samples, recorded, ring, raced, flightVars>>

(* Mutant: no clamp. *)
DecisionUnclamped == IF gauge = Absent THEN "none" ELSE "sub"

(* What the check of a decrement decides. *)
Decision ==
  CASE gauge = Absent -> "none"
    [] gauge >= 1 -> "sub"
    [] OTHER -> "clamp"

Closing(c) ==
  /\ path.map = "gauge"
  /\ prog[c] = Idle /\ closing[c] = "no"
  /\ Cardinality({d \in CPU : closing[d] # "no"}) < conns
  /\ closing' = [closing EXCEPT ![c] = Decision]
  /\ raced' = (raced \/ \E d \in CPU : closing[d] # "no")
  /\ UNCHANGED <<path, counterVars, ring, gauge, conns, flightVars>>

Closed(c) ==
  /\ closing[c] # "no"
  /\ gauge' = CASE closing[c] = "sub" -> (gauge - 1) % Word
                [] closing[c] = "clamp" -> 0
                [] closing[c] = "none" -> gauge
  /\ closing' = [closing EXCEPT ![c] = "no"]
  /\ conns' = conns - 1
  /\ UNCHANGED <<path, counterVars, ring, raced, flightVars>>

-----------------------------------------------------------------------------
(* Latencies: record_issue and complete_rq, record_wake and on_switch.     *)

(* initCollector attaches the issue hook before the completion hook. *)
Attach ==
  /\ path.map = "flight"
  /\ hooks < 2
  /\ hooks' = hooks + 1
  /\ UNCHANGED <<path, counterVars, ring, gaugeVars, life, busy, start, blind, measured>>

StartRoom(r) == start[r] # 0 \/ Cardinality({q \in Request : start[q] # 0}) < StartCap

(* Mutant: an entry that is there is kept (BPF_NOEXIST). *)
RecordedOnce(r) ==
  IF hooks >= 1 /\ StartRoom(r) /\ start[r] = 0
  THEN [start EXCEPT ![r] = life[r] + 1] ELSE start

(* record_issue, record_wake: the start time of this issue replaces an     *)
(* older one; in a full map a new request is not recorded.                 *)
Recorded(r) ==
  IF hooks >= 1 /\ StartRoom(r) THEN [start EXCEPT ![r] = life[r] + 1] ELSE start

(* A request is issued once at a time; a task is woken whenever the kernel *)
(* wakes it, running or not.                                               *)
Issue(r) ==
  /\ path.map = "flight"
  /\ path.shape = "io" => r \notin busy
  /\ life[r] < MaxIssue
  /\ life' = [life EXCEPT ![r] = @ + 1]
  /\ busy' = busy \cup {r}
  /\ start' = Recorded(r)
  /\ blind' = IF start' = start THEN blind ELSE IF hooks = 1 THEN blind \cup {r} ELSE blind \ {r}
  /\ UNCHANGED <<path, counterVars, ring, gaugeVars, hooks, measured>>

(* The rungs of log2_slot's shift ladder.  The first one, 32, is reached   *)
(* only by latencies of more than an hour and is above TLC's integers.     *)
Ladder == <<16, 8, 4, 2>>

Shifted(acc, n) ==
  IF acc.v >= 2 ^ n THEN [v |-> acc.v \div 2 ^ n, r |-> acc.r + n] ELSE acc

(* Mutant: the floor of the logarithm. *)
log2_slot_floor(v, cap) ==
  LET shifted[i \in 0 .. Len(Ladder)] ==
        IF i = 0 THEN [v |-> v, r |-> 0] ELSE Shifted(shifted[i - 1], Ladder[i])
      end == shifted[Len(Ladder)]
      r == end.r + (IF end.v >= 2 THEN 1 ELSE 0)
  IN IF v <= 1 THEN 0 ELSE IF r > cap THEN cap ELSE r

(* The bucket of a latency, at most the last bucket of the histogram. *)
log2_slot(v, cap) ==
  LET shifted[i \in 0 .. Len(Ladder)] ==
        IF i = 0 THEN [v |-> v - 1, r |-> 0] ELSE Shifted(shifted[i - 1], Ladder[i])
      end == shifted[Len(Ladder)]
      r == end.r + (IF end.v >= 2 THEN 1 ELSE 0) + 1
  IN IF v <= 1 THEN 0 ELSE IF r > cap THEN cap ELSE r

LastSlot == IF path.shape = "io" THEN 27 ELSE 21

Slot(lat) == log2_slot(lat, LastSlot)

(* A completion or a switch to the task: with an entry, the entry goes and *)
(* its latency is counted; without one nothing is.  A task is switched to  *)
(* also without a wake-up to wait for: it was preempted, or an earlier     *)
(* switch has ended the wait.                                              *)
Complete(r) ==
  /\ path.map = "flight"
  /\ r \in busy \/ path.shape = "sched"
  /\ busy' = busy \ {r}
  /\ IF hooks = 2 /\ start[r] # 0
       THEN /\ start' = [start EXCEPT ![r] = 0]
            /\ \E lat \in Latency :
                 measured' = {[from |-> start[r], issue |-> IF r \in busy THEN life[r] ELSE 0,
                               early |-> r \in blind, lat |-> lat, slot |-> Slot(lat)]}
       ELSE UNCHANGED <<start, measured>>
  /\ UNCHANGED <<path, counterVars, ring, gaugeVars, hooks, life, blind>>

KernelNext ==
  \/ \E c \in CPU : Sample(c) \/ LookUp(c)
                      \/ Opening(c) \/ Opened(c) \/ Closing(c) \/ Closed(c)
  \/ Drop \/ Attach
  \/ \E r \in Request : Issue(r) \/ Complete(r)
=============================================================================
