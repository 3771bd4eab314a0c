------------------------------ MODULE Collector ------------------------------
(***************************************************************************)
(* A metric from the kernel to the storage: the eBPF programs and maps     *)
(* (KernelMaps), the tracers' periodic drain, and the server's accumulator *)
(* (Accumulator).  Between the drain and the server lie the pipeline and   *)
(* the transport, which modules Pipeline, WalConsumer and Transport model; *)
(* here they are an ordered, at-least-once queue.                          *)
(***************************************************************************)
EXTENDS KernelMaps, Accumulator, Functions

CONSTANTS MaxDrain   \* bound: ticks of the tracer

ASSUME DrainAssumption == MaxDrain \in Nat

VARIABLES
  drain,     \* where the tick is: "idle", "scan", "take" or "emit"
  visited,   \* keys the iteration has passed
  keys,      \* keys to clear
  hand,      \* what this tick has read
  drains,
  emitted,   \* history: the count of all events sent
  excused,   \* history: something happened that may lose increments
  pend,      \* t.dropCounts
  cur,       \* the kernel's disk counter
  prev,      \* prevIOStats of the disk plugin, Absent before the first tick
  base,      \* history: the counter at the first tick
  diskSent,  \* history: the sum of the deltas sent
  reset      \* history: the counter started again from zero

drainVars == <<drain, visited, keys, hand, drains, emitted, excused, pend>>
diskVars == <<cur, prev, base, diskSent, reset>>
vars == <<kernelVars, serverVars, drainVars, diskVars>>

TypeOK ==
  /\ KernelTypeOK
  /\ ServerTypeOK
  /\ drain \in {"idle", "scan", "take", "emit"}
  /\ visited \in SUBSET Key /\ keys \in SUBSET Key
  /\ hand \in Delta
  /\ drains \in 0 .. MaxDrain
  /\ emitted \in Nat /\ pend \in Nat
  /\ excused \in BOOLEAN
  /\ cur \in Nat /\ prev \in Nat \cup {Absent} /\ base \in Nat
  /\ diskSent \in Nat /\ reset \in BOOLEAN

Init ==
  /\ KernelInit
  /\ ServerInit
  /\ drain = "idle" /\ visited = {} /\ keys = {} /\ hand = Zero
  /\ drains = 0 /\ emitted = 0 /\ excused = FALSE /\ pend = 0
  /\ cur = 1 /\ prev = Absent /\ base = 0 /\ diskSent = 0 /\ reset = FALSE

-----------------------------------------------------------------------------
(* A program's increment, with what it may be lost to: the key was read    *)
(* and is about to be deleted, or was deleted under the program's pointer; *)
(* or two programs insert the same key of a shared map.                    *)
LossTo(c, k) ==
  \/ prog[c].ref = "dead"
  \/ path.map = "percpu" /\ k \in keys
  \/ path.map = "hash" /\ prog[c].ref = "none" /\ elem[k].there

Count(c) ==
  LET k == Head(prog[c].left)
  IN /\ Update(c)
     /\ excused' = (excused \/ LossTo(c, k))
     /\ UNCHANGED <<serverVars, drain, visited, keys, hand, drains, emitted, pend, diskVars>>

Kernel == KernelNext /\ UNCHANGED <<serverVars, drainVars, diskVars>>

-----------------------------------------------------------------------------
(* A tick of a tracer on a counter map: DrainPercpu and readFlowStats read *)
(* every key and then delete; readRTTHistogram and drainMap64 collect the  *)
(* keys and then LookupAndDelete each; drainKey does so for one key.       *)

Tick ==
  /\ path.map \in {"percpu", "hash"}
  /\ drain = "idle"
  /\ drains < MaxDrain
  /\ drains' = drains + 1
  /\ drain' = "scan" /\ visited' = {} /\ keys' = {} /\ hand' = Zero
  /\ UNCHANGED <<kernelVars, serverVars, emitted, excused, pend, diskVars>>

(* The iteration passes key k. *)
Visit(k) ==
  /\ drain = "scan"
  /\ k \notin visited
  /\ visited' = visited \cup {k}
  /\ keys' = IF elem[k].there THEN keys \cup {k} ELSE keys
  /\ hand' = IF path.map = "percpu" THEN [hand EXCEPT ![k] = Value(k)] ELSE hand
  /\ drain' = IF visited' = Key THEN "take" ELSE "scan"
  /\ UNCHANGED <<kernelVars, serverVars, drains, emitted, excused, pend, diskVars>>

(* Mutant: the key is read and not cleared. *)
ClearedNot(k) == elem

(* The key leaves the map. *)
Cleared(k) == [elem EXCEPT ![k] = [there |-> FALSE, val |-> [c \in CPU |-> 0]]]

Clear(k) ==
  /\ drain = "take"
  /\ k \in keys
  /\ keys' = keys \ {k}
  /\ hand' = IF path.map = "hash" THEN [hand EXCEPT ![k] = Value(k)] ELSE hand
  /\ elem' = Cleared(k)
  /\ prog' = Unlinked(k)
  /\ UNCHANGED <<path, samples, recorded, ring, gaugeVars, flightVars, serverVars,
                 drain, visited, drains, emitted, excused, pend, diskVars>>

(* A map operation fails: the tick is given up with what it had read.  The *)
(* block tracer has sent the keys it took before, which are other series.  *)
DrainFail ==
  /\ drain \in {"scan", "take"}
  /\ drain' = "idle" /\ visited' = {} /\ keys' = {} /\ hand' = Zero
  /\ excused' = TRUE
  /\ UNCHANGED <<kernelVars, serverVars, drains, emitted, pend, diskVars>>

(* Nothing is sent for a count of zero. *)
Emit ==
  IF hand.count = 0
    THEN UNCHANGED <<wire, emitted>>
    ELSE wire' = Append(wire, hand) /\ emitted' = emitted + hand.count

EmitEnds ==
  /\ drain' = "idle" /\ visited' = {} /\ hand' = Zero
  /\ UNCHANGED <<kernelVars, got, dups, others, siblings, total, bounds, old, lock, job,
                 stored, overlap, keys, drains, pend, diskVars>>

EmitSum ==
  /\ drain = "take" /\ keys = {}
  /\ path.shape = "sum"
  /\ Emit
  /\ EmitEnds
  /\ UNCHANGED excused

(* Buckets without a count are not sent either, and gone. *)
EmitHistogram ==
  /\ drain = "take" /\ keys = {}
  /\ path.shape = "histogram"
  /\ Emit
  /\ EmitEnds
  /\ excused' = (excused \/ (hand.count = 0 /\ hand.bucket > 0))

-----------------------------------------------------------------------------
(* Drops: readDrops counts what it takes from the ring buffer; emitDrops   *)
(* swaps the counts for empty ones under dropMu, then sends them.          *)

readDrops ==
  /\ ring > 0
  /\ ring' = ring - 1
  /\ pend' = pend + 1
  /\ UNCHANGED <<path, counterVars, gaugeVars, flightVars, serverVars,
                 drain, visited, keys, hand, drains, emitted, excused, diskVars>>

(* Mutant: the map of counts is kept. *)
SwapDropsKeep ==
  /\ path.map = "ring"
  /\ drain = "idle"
  /\ drains < MaxDrain
  /\ drains' = drains + 1
  /\ hand' = [Zero EXCEPT !.count = pend]
  /\ drain' = "emit"
  /\ UNCHANGED <<kernelVars, serverVars, visited, keys, emitted, excused, pend, diskVars>>

SwapDrops ==
  /\ path.map = "ring"
  /\ drain = "idle"
  /\ drains < MaxDrain
  /\ drains' = drains + 1
  /\ hand' = [Zero EXCEPT !.count = pend]
  /\ pend' = 0
  /\ drain' = "emit"
  /\ UNCHANGED <<kernelVars, serverVars, visited, keys, emitted, excused, diskVars>>

EmitDrops ==
  /\ drain = "emit"
  /\ Emit
  /\ EmitEnds
  /\ UNCHANGED excused

-----------------------------------------------------------------------------
(* The disk plugin: the deltas are uint64, so the test for a positive one  *)
(* always holds and a counter that restarted gives a delta modulo 2^64.    *)

DiskIO ==
  /\ path.map = "disk"
  /\ cur < MaxSample
  /\ cur' = cur + 1
  /\ UNCHANGED <<kernelVars, serverVars, drainVars, prev, base, diskSent, reset>>

DiskReset ==
  /\ path.map = "disk"
  /\ ~reset
  /\ cur' = 0 /\ reset' = TRUE
  /\ UNCHANGED <<kernelVars, serverVars, drainVars, prev, base, diskSent>>

(* Mutant: the counters of the first tick stay the reference. *)
DiskTickFirst ==
  /\ path.map = "disk"
  /\ drains < MaxDrain
  /\ drains' = drains + 1
  /\ prev' = IF prev = Absent THEN cur ELSE prev
  /\ base' = IF prev = Absent THEN cur ELSE base
  /\ diskSent' = IF prev = Absent THEN 0 ELSE diskSent + ((cur - prev) % Word)
  /\ UNCHANGED <<kernelVars, serverVars, drain, visited, keys, hand, emitted, excused,
                 pend, cur, reset>>

DiskTick ==
  /\ path.map = "disk"
  /\ drains < MaxDrain
  /\ drains' = drains + 1
  /\ prev' = cur
  /\ base' = IF prev = Absent THEN cur ELSE base
  /\ diskSent' = IF prev = Absent THEN 0 ELSE diskSent + ((cur - prev) % Word)
  /\ UNCHANGED <<kernelVars, serverVars, drain, visited, keys, hand, emitted, excused,
                 pend, cur, reset>>

-----------------------------------------------------------------------------
Server ==
  \E h \in Handler :
    \/ Receive(h) \/ ReceiveAgain(h) \/ ReceiveOther(h, "own")
    \/ path.shape = "sum" /\ addSum(h)
    \/ path.shape = "histogram" /\ (AddBuckets(h) \/ ReceiveSibling(h) \/ ReceiveOther(h, "other"))
    \/ AddCount(h) \/ ReadBuckets(h) \/ ReadCount(h) \/ Post(h)

Next ==
  \/ Kernel
  \/ \E c \in CPU : Count(c)
  \/ Tick \/ DrainFail \/ EmitSum \/ EmitHistogram
  \/ \E k \in Key : Visit(k) \/ Clear(k)
  \/ readDrops \/ SwapDrops \/ EmitDrops
  \/ DiskIO \/ DiskReset \/ DiskTick
  \/ Server /\ UNCHANGED <<kernelVars, drainVars, diskVars>>

Spec == Init /\ [][Next]_vars

-----------------------------------------------------------------------------
(* Read and cleared, but not yet sent: what the tick holds of key k. *)
InHand(k) == IF path.map = "percpu" /\ k \in keys THEN 0 ELSE
             IF path.map = "percpu" /\ drain = "scan" THEN 0 ELSE hand[k]

InMap(k) == Value(k) + (IF k = "count" THEN ring + pend ELSE 0)

Sent(k) == FoldFunction(LAMBDA e, s : e[k] + s, 0, wire)

(* The metric as a counter that may lose events but never counts one       *)
(* twice: the eBPF programs record, the tracers report.                    *)
Counter == INSTANCE LossyCounter WITH recorded <- recorded["count"], reported <- emitted

CountsOnce == Counter!Spec

(* No increment is lost but to a cause the code names: the time between a  *)
(* key's read and its deletion, in which a program updates it or holds a   *)
(* pointer to it (ebpfutil.go, "events arriving in between are deleted     *)
(* with the key"); two first insertions of a key of a shared map; a map    *)
(* operation that failed half way; a histogram whose count was zero.  In   *)
(* particular the per-CPU maps lose nothing to concurrent programs, and    *)
(* the drops nothing between the reader and the tick.                      *)
NamedLosses ==
  excused \/ \A k \in Key : recorded[k] = InMap(k) + InHand(k) + Sent(k)

(* The established gauge never shows more connections than there are,      *)
(* unless two decrements overlapped: network_monitor.c, "never report a    *)
(* negative gauge".                                                        *)
GaugeHonest == path.map = "gauge" => raced \/ gauge <= conns

(* A latency of a block request is measured from the issue it completes,   *)
(* never from an entry that an earlier use of the request left behind.  A  *)
(* task's is measured from the wake-up it was waiting since, but for one   *)
(* case: a wake-up recorded before on_switch was attached, whose switch    *)
(* nobody saw, is still there for a later switch that ends no wait.        *)
OwnLatency ==
  \A m \in measured : m.from = m.issue \/ (path.shape = "sched" /\ m.early)

(* A latency is counted in the bucket (2^(i-1), 2^i] it lies in, or in the *)
(* last one: block_io.c and sched_lat.c, "slot(v) = ceil(log2(v))".        *)
BucketBounds ==
  \A m \in measured :
    /\ m.slot \in 0 .. LastSlot
    /\ m.slot < LastSlot => m.lat <= 2 ^ m.slot
    /\ m.slot > 0 => m.lat > 2 ^ (m.slot - 1)

(* End to end: without repeated batches and without another agent on the   *)
(* same series, the server's counter never runs ahead of the kernel's.  A  *)
(* histogram's, whose labels are lost on the way, is ahead of its series   *)
(* by what the other series of its name add, and by no more.               *)
ServerNeverAhead ==
  dups = 0 /\ others = 0 => total.count <= recorded["count"] + siblings

(* The deltas the disk plugin sends add up to the advance of the kernel's  *)
(* counter since the first tick, as long as it does not restart.           *)
DiskExact == reset \/ prev = Absent \/ diskSent = prev - base
=============================================================================
