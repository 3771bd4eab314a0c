# Kon-Agent: TLA+ models, checks and proofs

Kon-Agent collects metrics on a host (eBPF and system plugins), batches and
samples them, keeps every batch in a write-ahead log until it has been exported,
and ships it over QUIC with a stateful codec to a server. An operator deploys it
on Kubernetes. This directory models the data path from the eBPF programs to the
server's storage, the life of the agent process, and the operator. Paths below
are relative to `src/`.

## Inventory

| Component | State | Operations | Talks to | What is hard | Correct when |
|---|---|---|---|---|---|
| Write-ahead log `internal/wal/{wal,record,checkpoint}.go` | segment files, current segment and offset, mutex, `checkpoint.json` | Open, Append (rotation), Stats, Truncate, EnforceMaxSize, Sync, Close, Load/SaveCheckpoint | appended to by the pipeline goroutine, everything else by the consumer | short writes, crash between two file operations, removal of files another goroutine holds open | no accepted record disappears unexplained, the checkpoint never goes back |
| Reader and consumer `internal/wal/reader.go`, `internal/pipeline/wal.go` | reader position and handle, `cp`, pending record, degraded flag | Next (read, advance, report damage), drain, retry, reportPressure, stop | reads files without the log's mutex; calls ExportBatch; sets the pipeline's degraded flag | races with the writer, restart, retention under the reader's feet, stop during a drain | records are exported in order, each in the end; stop ends with a drained log |
| Pipeline driver `internal/pipeline/{pipeline,batch,sampling,assemble,receiver}.go` | pending queue, sampling window, force flag, degraded flag (atomic, set elsewhere) | Run's select (event, tick, stop), emit, emitTail, Requeue, Shutdown | event channel of the plugins; WAL.Append or ExportBatch | the flag changes between two reads, the sink fails after sampling and merging changed the batch, tail flush | a received event is stored, held or given up by a named step; order per name |
| Aggregator `internal/aggregate/aggregator.go` | one series per name, kind and attributes in a window | Add, Due, Flush | sampling stage | window change half way | a summary stands for exactly the points added |
| Exporter and QUIC client `internal/pipeline/exporter.go`, `internal/transport/quic/client.go` | encoder, connection, data stream | ExportBatch with retries, Connect, handshake, SendRaw, Close | consumer above, QUIC below | a connection dies between check and use, partial writes, blocked writes | encoder and remote decoder agree; every call returns |
| Stream codec `internal/transport/codec/stream.go` | per-series state on both ends, capped | EncodeFrame, DecodeFrame, Reset | exporter, server | loss of a frame, reconnect, the cap | the server decodes what was encoded |
| Bit-level coding `internal/transport/codec/{gorilla,bitstream,dictionary,util}.go` | bit cursor, leading/trailing window | delta-of-delta, XOR, varints, dictionary | codec | word boundaries, overflow | round trip |
| Server receive path `server/main/quic_server.go` | decoder per connection, one handler per stream | accept, handshake, decode, resync | client; accumulator | stream handlers in parallel, errors closing a connection | as the codec |
| Server accumulator `server/main/{convert,victoria}.go` | cumulative sums and histograms per key | addSum, addHistogram, postToVM | all connections | a shared entry is read after the lock is released, batches that come twice, several agents | the stored counter never falls and never runs ahead of the agent's |
| Agent core `internal/edge-agent/core.go` | the components' handles | start, first connect, wait for eBPF, shutdown order | all of them | time limits, order of the shutdown, goroutines that outlive it | the wait and the shutdown end |
| Plugin manager `internal/plugin/manager.go` | plugins and their status, event and status channels | Start, Stop, updatePluginStatus | plugins, core | channel closed under senders, send under a mutex | every goroutine ends, statuses reach the state manager |
| State and resource managers `internal/edge-agent/*_manager.go` | counts, status map, JSON file | record, update, load, persist, Stop | core | a kill in the middle of a save, the last save against the end of the process | the file is always a whole state |
| eBPF programs `internal/plugin/*/ebpf/bpf/*.c` | kernel maps, ring buffer | one handler per hook | tracers read the maps | several CPUs, map elements that are replaced or deleted under a pointer, check then subtract | every event is counted once or lost for a known reason |
| eBPF tracers `internal/plugin/*/ebpf/tracer.go`, `ebpfutil` | links, collection, reader, drop counts | initCollector, Run, drains, re-attachment, closeCollector | manager; kernel maps | half-done initialisation, read then clear | nothing stays attached; deltas add up |
| System plugins `internal/plugin/system` | the disk plugin's last counters | periodic reads | manager | counters that start again | deltas add up |
| Operator `kon-agent-operator/controllers` | KonAgent, DaemonSet, ConfigMap in the API server, caches | Reconcile, finalizer | Kubernetes, users | stale caches, conflicts, partial failure, partial comparison | convergence; only what is applied is reported; clean-up |
| Configuration, privileges, messages | none | parsing, system calls | core | - | - |

`PROJECT.json` lists the same components with their status, and every hazard at
the line where it bites.

## Modules

| Module | Models | Role |
|---|---|---|
| `Wal` | `internal/wal/{wal,record,checkpoint}.go` | state of the directory and the operations on it |
| `WalConsumer` (EXTENDS `Wal`) | `reader.go`, `pipeline/wal.go`, the append in `Pipeline.emit` | composes writer, reader and consumer; crash and restart |
| `StreamCodec` | `codec/stream.go` | encoder and decoder as operators |
| `Transport` (EXTENDS `StreamCodec`) | `exporter.go`, `client.go`, `quic_server.go` | composes exporter, client, QUIC (external) and server |
| `Pipeline` | `pipeline.go`, `batch.go`, `sampling.go`, `assemble.go`, `receiver.go`, `aggregator.go` | driver goroutine between event channel and sink |
| `DurableQueue` | - | what the log promises, abstractly; `WalConsumer` refines it |
| `KernelMaps` | the three `bpf/*.c` files | eBPF programs and the maps they fill |
| `Accumulator` | `server/main/convert.go`, `victoria.go`, the end of `quic_server.go` | server behind the receive path |
| `Collector` (EXTENDS `KernelMaps`, `Accumulator`) | tracers' drains, `ebpfutil.go`, `disk.go` | composes kernel, tracer and server |
| `LossyCounter` | - | what a drained metric promises, abstractly; `Collector` refines it |
| `Lifecycle` | `core.go`, `manager.go`, `state_manager.go`, initialisation and Run of the plugins | the agent process from start to exit |
| `Operator` | `konagent_controller.go` | Reconcile and the parts of Kubernetes it deals with (external) |
| `MCWal`, `MCTransport`, `MCPipeline`, `MCCollector`, `MCLifecycle`, `MCOperator` | - | roots of the TLC runs |
| `DataInduction` | - | induction over natural numbers and recursive functions, for the proofs |
| `WalProofs` (EXTENDS `WalConsumer`) | - | theorems: types, `Accounted`, `CheckpointMonotone` |
| `WalQueueProofs` (EXTENDS `WalProofs`) | - | theorems: refinement of `DurableQueue`, last drain |
| `TransportProofs`, `PipelineProofs`, `CollectorProofs`, `LifecycleProofs`, `OperatorProofs` (each EXTENDS the module it is about) | - | theorems about these modules |

Definitions with the comment *Mutant* are plausible bugs; no
specification uses them. `PROJECT.json` ("mutants") pairs each with the
definition it would replace and the property that would then fail.

### Wal and WalConsumer

*Data.* A record is its number in the order of the Append calls and takes two
units of a file: `Part`, then the number. A `Part` without a number behind it is
what a write that is in progress, or has failed, leaves in the file; a position
may fall between the two. `segs` are the files that exist, `data` their
content, `ckpt` the content of `checkpoint.json`, `segment`/`offset` the fields
of `WAL` and `mu` the holder of `w.mu`. `Position` is `Checkpoint`.

*Writer.* `AppendBegin` takes the lock and rotates if needed, `AppendEnd` and
`AppendFail` are the outcomes of `f.Write`; a failed write may leave part of the
record while `w.offset` stays, as in the code. `AppendRefused` is an Append that
fails before a byte is written, after a rotation or instead of it.

*Consumer.* One action per step between which another goroutine, or a crash, can
come: `ReadRecord`, `ReadTorn`, `ReadFail`, `ReadEnd` then `AdvanceHop` or
`AdvanceEOF` (the reader works without the mutex),
`TruncateBegin/Remove/Cut/Fail`, `ReopenFail`, `ExportOk`, `ExportFail`, `Save`,
`ReadStats`, `EnforceBegin/Remove/Fail/End`, `Resave`, `Report`, `Wake`,
`Finish`. `handle` and `skew` are the open file of the reader, which survives
`os.Remove` and, after a read that failed, is ahead of `r.off` until a `Reset`.
Since the reader takes no lock, a record being written is damage to it. With
`FileFault` opening, reading, cutting and removing segment files may fail, in
`Truncate` and in retention. `level` is the unacknowledged size relative to the
thresholds of 70 % and 50 %, kept from before retention, as in the code.
`os.Truncate` pads a file that is shorter than the checkpoint says; the padding
lies before the checkpoint, where no reader starts.

*Crash.* At any step (bounded by `MaxCrash`) all volatile state is lost and the
program starts again: `Open`, `LoadCheckpoint`, `NewReader`. What `write(2)` was
given survives: this is the death of the process, not a power failure.

*History.* `accepted` (Append returned nil), `sent` (ExportBatch returned nil),
`lost` (given up, by mechanism: retention, truncation, a hop of the reader, a
handle adrift from its position, a file unlinked or passed).

### StreamCodec and Transport

A `seriesState` is the timestamp it last saw; the record's number is the
timestamp of its points. A point is coded raw or as a difference to the
encoder's state, and the decoder adds a difference to its own, so wrong or
stale state on one side shows in the decoded timestamp. The value registers
advance together with the timestamp and are left out. Past `MaxSeries` number
series are coded without state, as `encodeNumberSeries` does. A series is a name
and its labels. `Rebuilt` is what `DecodeFrame` makes of a decoded point: a number
gets the labels of its series back, a histogram does not.

QUIC is external and modelled from its use: a stream is a queue of frames,
each end sees the connection's end on its own, `Write` returns when QUIC has the
bytes, and what the closed server end has not read is gone. A frame over the
server's 10 MB limit does not fit the flow-control window, so `Write` waits
until the server cancels the stream. Faults (failed dial, timeout, lost
connection, server gone) are bounded by `MaxFault`.

### Pipeline

An event is its number; a metric is a name, a kind and the events its points
stand for. The aggregator keeps its series apart by attributes as well; here the
events of one name have the same attributes. One action per case of Run's `select`, and one per call of
`sampling.Process` in `emitTail`, since each reads the degraded flag. Whether a
window has elapsed is a choice. A request may fail to marshal, which drops it
(`Discard`). The sink may fail `MaxFail` times: without that
bound the in-place merge of `AssembleExportRequest` followed by `Requeue` makes
items grow for ever (see below).

### DurableQueue

The queue accepts records in the order they are offered, delivers the next one
that was neither delivered nor given up, or gives up records that were not
delivered. `QueueSpec` maps `accepted` and `sent` of `WalConsumer` to
themselves and the union of `lost` to `givenUp`: every step of writer, reader,
retention, repair, crash and restart is a step of the queue or leaves it alone.
A record may be given up while its export is under way, and a replay after a
crash delivers what was delivered: both are stutters or steps of the queue.

### KernelMaps, Accumulator and Collector

The collection paths share no state, so a behaviour follows one of them, chosen
in the initial state (`path`): counters in a PERCPU_HASH or in a shared HASH, as
a sum or as a histogram; drops through the ring buffer; the gauge of established
connections; start times and latencies of block requests and of woken tasks; the
disk plugin's deltas. A program is a sequence of lookups and updates on its CPU,
which other CPUs and the drain interleave with. A lookup gives a pointer: when
the element is deleted or, in a HASH, replaced, writes through the pointer are
lost (in the kernel, whose maps are preallocated, they may reach the key the
element was given to next). A histogram sample updates its bucket, then its count; the sum key and
the other buckets behave alike. `log2_slot` is the shift ladder of the code and
is compared with the definition of the buckets at their boundaries. The issue (or
wake-up) hook is attached before the completion (or switch) hook; `blind` are the
requests whose entry was recorded in between. A task is switched to with or without
a wake-up to wait for, so for a task the history tells a switch that ends a wait
(`issue` is the wake-up) from one that does not (`issue` is 0).

`Tick`, `Visit`, `Clear`, `DrainFail`, `EmitSum`, `EmitHistogram` are a tracer's
tick; a per-CPU map is read and then deleted, a shared one is read by the
deletion itself. Between tracer and server lies a queue that delivers in order
and at least once, which `Pipeline`, `WalConsumer` and `Transport` model in
detail. On the server a handler adds under the lock, reads the entry after the
unlock (`ReadBuckets`, `ReadCount`) and posts; another handler, of another agent
or of the same agent's next connection, works meanwhile. Since the codec drops the
labels of histograms, another histogram of the same name comes to the same entry
(`ReceiveSibling`). A batch with other bucket bounds replaces the entry (`Replace`);
handlers that hold the old one (`old`, by number `acc`) go on reading it. The bounds
of an agent are fixed in its code, so other bounds are those of an agent of another
version.

`CountsOnce` maps the executed increments and the counts sent to
`LossyCounter`: events may be lost, but no report contains an event that did not
happen or was reported before.

### Lifecycle

`core` is where `Core.Run` stands, `ppc` where each plugin's goroutine does. An
initialisation takes what `NetSteps`, `BlockSteps` or `SchedSteps` list in order
and may fail at any of them; `Cleanup` is what that error branch closes.
`StatusRunning` is never assigned in the code, so the wait for the eBPF plugin
ends with an error or at its deadline of five seconds. A send waits for room
whatever the stop channel says; on the closed channel it panics, the deferred
`closeCollector` runs and the manager's `recover` reports an error. `Reattach`
may not happen although the route has changed, which stands for a failed attach:
`DropPrivileges` has taken the capability from the threads it reached. `Shutdown`
waits for the driver until its context ends (`Drained`, `DrainTimeout`); when the
driver has ended, and there is a log, it stops the consumer and waits for the last
drain without a limit (`ConsumerStopped`). A crash
starts the process again from the state file, which may fail to open.

### Operator

A field of the spec is told apart by where it goes: the ConfigMap (`cfg`), a
compared part of the pod template (`img`), a part that `podTemplatesEqual` leaves
out (`place`). Its value is the generation that changed it last. Instead of
resourceVersions the model keeps which copies (`cache`, `my`) are out of date;
a write with such a copy is refused. Every write may fail or be done with its
answer lost. `up` is the DaemonSet status a call returned. The API server fills
in the mode of the ConfigMap volume (`Defaulted`), which the desired template
leaves out, so `podTemplatesEqual` is never true and each Reconcile writes the
template again; a write that changes nothing makes no new version.

## Runs

All bounds are constants of the cfg files.

| Run | Bounds | Result |
|---|---|---|
| `wal_crash` | segments of 2 records, cap 2 records, 3 records, 2 crashes, every fault; 734 k states | `TypeOK`, `Accounted`, `CheckpointMonotone`, `QueueSpec` hold |
| `wal_live` | segments of 1 record, cap 2, 4 records, failing writes and saves, no crash, no other failing file operation, fair; 138 k states | `DrainedAtExit`, `CorruptionAtPartial`, `EventuallyDelivered`, `StopCompletes`, `DegradationEnds` hold |
| `wal_hop` | segments of 2 records, 3 records, no fault at all | `NothingSkipped` violated |
| `wal_stall` | segments of 1 record, cap 2, 5 records, 1 crash, fair | `EventuallyDelivered` violated |
| `transport_sync` | 1 number and 1 histogram series, cap 1, 2 batches, 2 attempts, 3 connections, 2 faults, oversize frames, fair; 232 k states | `TypeOK`, `Faithful`, `NoResync`, `SingleStream`, `ExportReturns`, `EventuallyAcked` hold |
| `transport_loss` | 1 batch, no fault | `NothingLost` violated |
| `pipeline_flow` | a gauge and a sum, all three modes, batch 2, queue 3, channel 2, 4 events, 3 sink errors; 703 k states | `TypeOK`, `Conserved`, `AtMostOnce`, `InOrder`, `Drained` hold |
| `pipeline_tail` | one gauge, mode always, 3 events | `TailFlushed` violated |
| `collect` | 2 CPUs, 3 samples, 1 older connection, counters modulo 16, ring of 2, 2 requests with room for 1 start time and 2 issues each, 2 ticks, 2 handlers, 1 repeated or foreign batch or batch of another histogram; 2.15 M states | `TypeOK`, `NamedLosses`, `GaugeHonest`, `OwnLatency`, `BucketBounds`, `ServerNeverAhead`, `DiskExact`, `CountsOnce`, `StoredMonotone` hold |
| `lifecycle` | six combinations of enabled plugins and disturbances, 3 disturbances, channel of 1, status channel of 6, 2 interfaces, fair; 122 k states | `TypeOK`, `AttachOK`, `ErrorsKept`, `InitEnds`, `StatusConverges`, `StopEnds` hold |
| `lifecycle_stop` | as `lifecycle` | `ShutdownBounded` violated |
| `operator` | 2 disturbances of any kind, fair; 409 k states | `HashNotAhead`, `ObservedApplied`, `Converges`, `Cleaned` hold |

*Why the bounds are enough to be interesting.* In `wal_crash` three
records, with the parts that failed writes leave, rotate, exceed the cap and
leave the reader segments behind; the second crash can hit the
recovery from the first. `transport_sync` has a cap of one for two series, so
both the stateful and the stateless coding occur, and enough connections for a
reconnect inside one ExportBatch and between two. In `pipeline_flow` four events
fill two batches, overflow the queue after two requeues and cross the way into
and out of the degraded window.

In `collect` three samples on two CPUs race for a first insertion and still leave
one for the drain to meet; the two ticks make one drain start from what the other
left. Latencies are taken at, below and above bucket boundaries up to the last
bucket. CPUs, handlers and requests are interchangeable (symmetry). The
constraint `Focus` allows one irregular delivery, and puts the server only
behind one path of each kind of map and each shape. The inputs run out, so a
behaviour may end (`CHECK_DEADLOCK FALSE`). `lifecycle` combines disturbances
that meet (`Cases`): ticks with route changes, saves with kills, errors with
kills and the log, the poller with a loaded state. The status channel's ten entries become
six, twice the number of tracers: `LifeAssumption` states what the code relies
on, that both changes of every plugin that can fail fit while nobody reads.
In `operator` every pair of disturbances (edit, deletion, recreation, deleted
child, failed call, lost answer, failing pods, restart) occurs in every order;
at rest with nothing to do it stops (`CHECK_DEADLOCK FALSE`).

`wal_live` excludes crashes and `wal_stall` shows why: with a crash
`EventuallyDelivered` is false. `wal_hop` uses segments of two so that
the reader hops over the last record of a segment it has read from; with segments
of one it hops over the first record of a log that starts empty.
`DegradationEnds` excepts logs in which the reader has hopped over a record: the
record's bytes may stay counted.

### Fairness

`WalConsumer!FairSpec`: the two goroutines keep running (weak fairness of each
step); `w.mu` is fair to its two users (strong fairness of the steps that
acquire it, Go's mutex hands over to a waiter that starves); the `select` of
`run` picks among ready cases at random, so `stopCh`, once closed, is picked in the end
(strong fairness of that case); and the server answers in the end (weak
fairness of `ExportOk`), which the unbounded retries of `drain` rely on.
`Append` is under no obligation to be called.

`Transport!FairSpec`: the exporter's goroutine and the server's handlers keep
running, and the client notices in the end that the server's end is closed (idle
timeout). Faults are not fair.

`Lifecycle!FairSpec`: each goroutine that can go on does so (weak fairness of
`CoreRuns`, `PluginRuns(p)`, `ListenerRuns`, `PollWrite`); the wait loop comes
past its deadline (strong fairness of `InitDeadline`, which is enabled between
two polls only); the poller goes through all plugins on each tick, and Go's
RWMutex lets a waiting reader in (strong fairness of `PollRead(p)`). Nothing is
assumed of the pipeline's driver, of the last drain of its consumer, of ticks,
signals, saves, route changes, kills, or of `Exit`: `StopEnds` is about the
goroutines while the process still exists. It has the end of the last drain as a
premise; `StopCompletes` of `WalConsumer` shows that the drain does end when the
server answers in the end, and `lifecycle_stop` what happens otherwise.

`Operator!FairSpec`: the work queue hands a queued key to Reconcile and Reconcile
goes on; each informer catches up; the garbage collector and the kubelets do
their work in the end. Users, faults and restarts are not fair.

## What is proved

Every invariant and every action property that a run checks, and both
refinements, are also theorems: TLC shows them on the instance of the run, the
theorem for every value of the constants the named assumptions allow. Hardly
any is inductive as it stands. Each proof module defines the inductive
invariant it needs, has a lemma for each part (that a step keeps it, with one
case per action), and combines them in one theorem or lemma `Spec => []...`
from which the listed theorems follow. All inductive invariants were checked
with TLC before they were proved.

| Theorem | States | Assumptions beyond the module's own |
|---|---|---|
| `WalProofs!TypeCorrect` | `Spec => []TypeOK` | |
| `WalProofs!AllAccounted` | `Spec => []Accounted` | |
| `WalProofs!CheckpointForward` | `Spec => CheckpointMonotone` | |
| `WalQueueProofs!ImplementsQueue` | `Spec => QueueSpec` | |
| `WalQueueProofs!NothingLeft` | `Spec => []DrainedAtExit` | `MaxCrash = 0`, `~FileFault` |
| `WalQueueProofs!CorruptionIsPartial` | `Spec => CorruptionAtPartial` | `MaxCrash = 0`, `~FileFault` |
| `TransportProofs!RoundTrip` | decoding what was encoded gives the points back, histograms without their labels, and keeps both ends in step | both ends in step before; `KindsKept` for the times |
| `TransportProofs!TypeCorrect`, `NeverResyncs`, `OneStream` | `TypeOK`, `NoResync`, `SingleStream` | |
| `TransportProofs!DecodedAsSent` | `Spec => []Faithful` | `KindsKept` |
| `TransportProofs!LostOnlyByFault` | `NothingLost` as long as `faults = 0` and the transport is not closed | |
| `PipelineProofs!TypeCorrect`, `NothingVanishes`, `StoredOnce`, `StoredInOrder`, `EndsDrained` | `TypeOK`, `Conserved`, `AtMostOnce`, `InOrder`, `Drained` | |
| `CollectorProofs!TypeCorrect`, `OnlyNamedLosses`, `GaugeNeverAbove`, `MeasuredFromIssue`, `CountedInBucket`, `ServerBehindKernel`, `DeltasAddUp` | `TypeOK`, `NamedLosses`, `GaugeHonest`, `OwnLatency`, `BucketBounds`, `ServerNeverAhead`, `DiskExact` | |
| `CollectorProofs!StoredNeverFalls`, `ImplementsCounter` | `StoredMonotone`, `CountsOnce` | |
| `LifecycleProofs!TypeCorrect`, `NothingStaysAttached`, `StateFileWhole` | `TypeOK`, `AttachOK`, `ErrorsKept` | |
| `OperatorProofs!RollsBehindConfigMap`, `ReportsWhatIsApplied` | `HashNotAhead`, `ObservedApplied` | |

### Assumptions

The modules' own assumptions are that bounds are natural numbers and sets that
are counted or added up over are finite (`SizeAssumption`, `FaultAssumption`,
`MapAssumption`, `DrainAssumption`, `DeliveryAssumption` and the like), with
these that say something about the code:

- `TransportAssumption`: at least one connection can be made; the bound is the
  model's, and without a connection there is nothing to state.
- `KindsKept` (a hypothesis of `DecodedAsSent` only): no series comes both as
  numbers and as histograms, or the cap on series is out of reach. Without it
  the theorem is false; see "Seen while modelling".
- `MapAssumption`: the word a counter is kept in is larger than the number of
  connections, and of samples, there can be: 2^64 in the code.
- `LifeAssumption`: the plugins have the names `manager.go` gives them, and the
  status channel has room for both changes of every tracer.
- `MaxCrash = 0` and `~FileFault` are hypotheses of `NothingLeft` and
  `CorruptionIsPartial`, whose properties only hold without these disturbances;
  `wal_live` runs with the same values.

### WalProofs

`Accounted` is not inductive: that a saved checkpoint passes over nothing
depends on where the consumer's `cp`, the reader and the pending record are.
`IInv` adds

- `HandleInv`: no segment is newer than the active one, the reader's handle is
  on a file that exists or existed, and only an open handle has left `r.off`
  behind;
- `LockInv`: a write in progress is the unfinished last entry of the active
  segment, and truncation and retention hold `w.mu`;
- `LeadInv`: a `Part` stands before every record number, so a record that begins
  at or after a position lies wholly behind it;
- `OrderInv`: saved checkpoint <= `cp` <= reader position;
- `PendInv`: a record is pending exactly while it is being exported;
- `NewCpInv`: the checkpoint EnforceMaxSize is computing is `cp`, or the start
  of a segment with nothing left before it;
- `SafeInv`: an accepted record was exported or given up, or an entry on disk
  holds it at or after the reader's position, or, while it is pending, at or
  after `cp`. With `OrderInv` that gives `Accounted`.

`CheckpointForward` follows from `OrderInv`: every value written to the file is
at or after the one there.

### WalQueueProofs

`IInv` says where a record is, not in which order records lie. `QInv` adds that
up to the active segment the files hold records in the order of the appends,
unlinked files included (`SortedInv`), that only accepted records lie in files
or were exported (`KnownInv`), that the pending record is older than all the
reader has yet to meet, but for records a drifting handle has passed over
(`FirstInv`), and that before an exported record none is left that was neither
exported nor given up (`DeliveredPrefix`). Then an export takes the oldest record
left, which is `Deliver` of `DurableQueue`; every other step is `Accept`,
`GiveUp` or a stutter. `QueueSpec` does not promise that little is given up:
which mechanism gives a record up is what `lost` tells.

`NothingLeft` rests on `WholeInv`, the segment files
are numbered without a gap and consumer and reader are inside, and `DrainInv`:
after `Shutdown` the log does not grow, so a reader that finds no next segment
has met everything.

`CorruptionIsPartial` needs the same assumptions and `BoundaryInv`: reader and
checkpoint stand right behind a whole record or at the start of a segment. Since
the rest of a record always follows its beginning (`LeadInv`), what lies at a
boundary is a beginning, and a read that is not of a whole record meets one whose
rest is missing.

### TransportProofs

`RoundTrip` is about `EncodeFrame` and `DecodeFrame` alone, both recursive
functions over the entries of a batch. `Agree` says that the decoder has seen
every series the encoder has state for, and, with `KindsKept`, saw last what the
encoder saw last, except for series the encoder codes without state from now on.
If they agree, the decoder refuses nothing and returns the points in order
(`Survives`): each under its name, numbers with their labels, with
`KindsKept` each with its time, and they agree afterwards. For the system, `SyncInv` says that each open connection can
be decoded to its end (`Replays`) and that at the end of the current one the
decoder agrees with the encoder, or with the state before the frame that is
being sent. It needs to know that a connection carries one stream (`WireInv`),
what holds of the connection at each point of `ExportBatch` (`PlaceInv`), that
an oversize frame sits on the current connection only under a blocked `Write`
(`LimitInv`), and that timestamps grow (`CountInv`).

`LostOnlyByFault` marks out what `transport_loss` finds: only `AgentClose` and
the faults that end a connection can break `NothingLost`. Without those (`Calm`), unread frames are only on the client's connection
and both its ends live (`LiveInv`); the one way to a new connection is an
oversize frame, which is the last in the queue and belongs to the batch whose
`Write` is blocked (`LastInv`), so that the server cancels the stream with
nothing else in it.

### PipelineProofs

`Flows` follows an event through channel, batcher, window and tail. `Channel`:
the channel holds the events behind the last one taken. `Owners`: no item holds
an event of another name, or one not yet taken. `Lines`: per name, the window
is older than the batcher and both come behind what is stored, which is what
`InOrder` needs when a window is flushed into the front of a batch. `Onces`:
without sink errors no event is in two places. `Drains` and `Conserves` are
`Drained` and `Conserved` with `emitTail`'s own window added. What sampling and
the in-place merge of `AssembleExportRequest` do to a batch of any length is
stated in lemmas about these operators.

### CollectorProofs

The invariant is `CollectInv`, whose later parts rest on the earlier ones:

- `FlightInv`: an entry of `io_start` or `wake_ts` is the request's latest
  issue, one that outlived its completion was recorded before the completion
  hook was attached, and the last measured latency lies in its bucket. The last
  part rests on `SlotBounds`: each rung of the shift ladder keeps
  2^r v <= x < 2^r (v + 1), for latencies of any size;
- `DiskInv`: without a restart, first counter <= last one read <= counter now,
  so that the modular difference is the difference;
- `ProgType`: a program has a pointer only while it has something left to do;
- `TickInv`: which keys the tick has yet to visit and to clear;
- `GaugeInv`: without overlapping decrements one is under way at most; one that
  decided to subtract finds the gauge at 1 or more, and one that found no entry
  leaves room for its connection;
- `CellInv`: a key that is not in the map has the value zero, a live pointer
  points to a key that is there, and in a per-CPU map a program that found
  nothing has an empty cell of its own;
- `LedgerInv`: for each key the recorded increments are at least, and without a
  named loss exactly, the sum of what is in the map, on the way from the ring
  buffer, held by the tick, and sent. It has to know what the tick has read
  (`HandInv`): a key of a per-CPU map was read before it is cleared, so until
  then it counts as in the map;
- `ServerInv`: what is stored was read from the entry, and without overlap the
  value about to be posted is not behind the stored one unless the entry was
  replaced in between, which only another agent's bounds do; with each batch
  delivered once and no other agent, the entry and what the handlers still have
  to add are together what was delivered and what other histograms of the name
  added, and what was delivered is part of what was sent.

`ServerBehindKernel` chains `ServerInv` and `LedgerInv` from the accumulator to
the kernel; `ImplementsCounter` uses that what was sent is never more than what
was recorded, before and after the step. Sums over CPUs, handlers and deltas are
folds; the lemmas about them (`SumUpdate`, `SumAppend` and others) are proved by
induction over the subsets of a finite set.

### LifecycleProofs

`LifeInv` consists of `StageInv` (who holds `m.mu`, nothing runs before
`plugins.Start`, only the network tracer re-attaches), `HeldInv` and `XdpInv`
(what each tracer holds and where the XDP program is, at each point of its
goroutine), `FileInv` (the state file is not ahead of the count in memory, and
the temporary file about to replace it lies between the two), and the types of
statuses and core. That an error branch releases all that was acquired before
it is a lemma about `Cleanup` for each step of each initialisation
(`CleanupWhole`).

### OperatorProofs

`HashNotAhead` compares two objects that Reconcile writes from copies of a third
one. The invariant says that a copy that is not out of date is the object
(`VersionInv`), that copies are never ahead of it (`AgeInv`), that no child, and
no cached child, is newer than any KonAgent that Reconcile has or can get
(`ChildInv`), and that after `ensureConfigMap` the ConfigMap has Reconcile's
configuration or is gone (`RollInv`). `ObservedApplied` needs in addition that
behind `ensureDaemonSet` the DaemonSet is what the copy asks for (`AppliedInv`),
and that the template is written every time (`VolumeInv`).

### Induction over data

The library's induction theorems have an operator as a parameter, which the
provers cannot instantiate. `DataInduction` states what is needed with sets:
a set of numbers that has 0 and with each number the next one up to a bound
contains them all (`Upward`, by the least element not in it), and a function
defined by recursion satisfies its equation (`Recursion`). Each use gives the
set or the function explicitly.

### Only model-checked

All liveness: `EventuallyDelivered`, `StopCompletes`, `DegradationEnds`,
`ExportReturns`, `EventuallyAcked`, `Converges`, `Cleaned`, `InitEnds`,
`StatusConverges`, `StopEnds`. Fairness and ENABLED are beyond the proof system.

## Where code and documentation disagree

1. `wal_hop` (`internal/wal/reader.go:49`). `Next` reads a clean end of segment
   and then looks for the next one, without the log's mutex. If in between the
   writer appends the segment's last record and rotates, the reader hops and the
   record is never exported.
2. `wal_stall` (`internal/wal/reader.go:111`). Retention deletes segments
   before the advanced checkpoint is saved. Killed in between with two or more
   gone, the reader only ever looks at the missing segment and its successor,
   and later segments are never reached.
3. `transport_loss` (`internal/pipeline/exporter.go:97`). A successful `Write`
   is taken for an acknowledgement. A frame is lost only when an end of the
   connection goes away under it, the agent's own `Close` included
   (`LostOnlyByFault`).
4. `pipeline_tail` (`internal/pipeline/pipeline.go:175`). With an empty batcher
   at shutdown the flushed window passes the sampling stage again and ends up in
   a new window.
5. `lifecycle_stop` (`internal/pipeline/pipeline.go:243`). After the driver has
   ended `Shutdown` waits in `consumer.stop` without regard to its context, while
   the last drain retries with a context that is not cancelled before Run
   returns. With an unreachable server the agent does not stop.

These are within the behaviours the models allow, too. No run is kept for them;
the formula in each item is violated when it is checked as an invariant with the
constants of the run named.

- The reader takes no lock (`internal/wal/reader.go:67`). A record it meets half
  written is corruption to it, where `reader.go:33-34` says "a *CorruptionError
  means the log is damaged"; `Truncate` then waits for the `Append` to finish and
  cuts the accepted record off an undamaged log (`lost["truncate"] = {}` without
  any fault, `wal_hop`). `CorruptionAtPartial` shows that this is the only false
  alarm.
- A read that fails, or a `Truncate` that does after one, leaves the reader's file
  handle ahead of `r.off` (`internal/pipeline/wal.go:119`). Reading on, `Next`
  returns a record together with the position behind an earlier one, against
  `reader.go:32`, and passes a record over (`lost["adrift"] = {}`, `wal_crash`).
- A decoded histogram has no attributes (`internal/transport/codec/stream.go:478`).
  The block plugin's latencies per direction and cgroup arrive as one series and
  are added up in one entry of the server, which is then ahead of each of them:
  `ServerNeverAhead` and its theorem bound by how much
  (`dups + others = 0 => total.count <= recorded["count"]`, `collect`).
- A gauge's summary is a histogram of the same name; merged with raw gauge points
  on the return to pass-through, the latter are dropped
  (`internal/pipeline/assemble.go:61`; `lost["merge"] = {}`, `pipeline_flow`).
- The wake-up hooks are attached before the switch hook
  (`internal/plugin/sched/ebpf/tracer.go:203`). A task woken and run in between
  leaves its entry, and the next switch to it measures from there, although it did
  not wait that long, where `sched_lat.c:17-19` calls such an entry harmless. Once
  per task and start of the agent; block requests are not exposed to it, since an
  issue replaces the entry before the next completion
  (`\A m \in measured : m.from = m.issue`, `collect`).

Seen while modelling, without a quoted claim against them:

- Records appended behind a torn tail after a restart are truncated with it.
- After a sink error, points merged in place are sent again and again with
  their duplicates, and a flushed window that went into the refused request is
  gone (`pipeline.go:214`).
- The series cap applies to number series only; the decoder's map has none
  (`codec/stream.go:232`, `277`). A series that comes as both kinds past the cap
  decodes to a wrong timestamp: `seriesKey` (`:44`) has no kind, so the raw point
  the encoder sends without state (`:232`) sets the decoder's (`:533`), and the
  next histogram is a difference to the encoder's own, older state (`:294`). The
  aggregator makes such series: a gauge's summary is a histogram of the same name
  (`aggregate/aggregator.go:276`). With `Numbers = Histograms = {"a"}`,
  `MaxSeries = 1`, `MaxRecord = 3`, `MaxRetries = 1`, `MaxConn = 1`,
  `MaxFault = 0` and `Oversize = FALSE`, TLC finds `Faithful` violated.
  `transport_sync` keeps the kinds apart, and `DecodedAsSent` assumes it
  (`KindsKept`).
- A frame over the server's limit is retried for ever and blocks all behind it
  (`quic_server.go:272`).
- `select` may take `p.stop` with events left in the channel (`pipeline.go:155`).
- `convertToVMLines` (`server/main/convert.go:144-151`) emits each bucket's own
  count, where its comments (lines 79, 141) say Prometheus-style, that is
  cumulative, buckets; only `+Inf` is cumulative. The values of different buckets
  are not told apart in `Accumulator`.
- `seriesKey` has no agent id (`convert.go:188`): two agents with the same series
  share one counter, and each is stored with the sum of both. `ServerNeverAhead`
  excepts that case. If they have different bucket bounds, each batch replaces the
  entry of the other's and the counter restarts (`convert.go:56`);
  `StoredMonotone` excepts a value read from a later entry.
- A histogram's buckets and count are read after the unlock, so a stored sample
  may combine buckets of one moment with the count of another.
- When an agent's old connection is still being served after a reconnect, the
  earlier batch may be added and stored last; `StoredMonotone` excepts it.
- Two decrements of the gauge at 1 both pass the check and wrap it
  (`network_monitor.c:298`; the comment at 301 says it is never negative);
  `GaugeHonest` excepts overlapping decrements.
- The disk deltas are unsigned, so the test at `disk.go:172` ("Only send if
  positive (counters may reset)") always holds and a counter that starts again
  sends a delta near 2^64; `DiskExact` excepts it.
- A plugin that fails reports an error and at once, by the deferred call, that it
  stopped: core's wait and its poller see the error only if they look in between.
- The operator writes the pod template on every Reconcile because of the
  volume's default mode; were that repaired alone, changes of node selector and
  tolerations would never reach the DaemonSet (the mutant of `ObservedApplied`).
- `Finish` writes a new heartbeat, which is a change of the KonAgent and queues
  the next Reconcile (`konagent_controller.go:161`; the heartbeat is not in the
  model). Readiness after an update is judged by the status of the previous
  rollout (`:138`).

## Not modelled

- fsync, `Sync`, `Close` and power failure of the log; a directory that cannot
  be listed and a `stat` that fails; a cancelled run context (Core.Run has
  none before it returns).
- Bit packing, dictionary and compression of the codec; the numbers inside a
  window's summary.
- Packet parsing and the bucket choice by comparison chains in
  `network_monitor.c` (`size_slot`, `rtt_bucket`: tables without state); names
  of cgroups, devices and interfaces; what the cpu, memory and disk plugins read.
- The resource manager only logs. Configuration parsing, privilege dropping (a
  fixed sequence of system calls) and generated messages carry no protocol.
- The operator's heartbeat and list of plugins; several KonAgents (their objects
  are disjoint).

## Plan

Done: `Wal`, `WalConsumer` and its refinement of `DurableQueue`, `StreamCodec`,
`Transport`, `Pipeline`, `KernelMaps`, `Accumulator`, `Collector` and its
refinement of `LossyCounter`, `Lifecycle`, `Operator`; theorems for every safety
property of the passing runs.

Left, in this order:

- a durable prefix per file, Sync, Close and power loss in `Wal`, and with it
  the checkpoint that is ahead of the log's data;
- the bit-level codec as functions, with its round trip.
