------------------------------ MODULE Lifecycle ------------------------------
(***************************************************************************)
(* The life of the agent process: Core.Run (edge-agent/core.go) starts the *)
(* plugins, waits for the eBPF one, opens the log, serves, and on a signal *)
(* stops everything in order; the plugin manager (plugin/manager.go) runs  *)
(* one goroutine per plugin and passes on status changes; the tracers      *)
(* attach and detach their eBPF programs (tracer.go of network, block and  *)
(* sched); the state manager (state_manager.go) keeps the agent's state    *)
(* and saves it to a file.                                                 *)
(*                                                                         *)
(* Abstraction.  Events are counted, not told apart.  Time is left out:    *)
(* a deadline may pass at any moment.  The pipeline is a driver that takes *)
(* events, or stalls on an unreachable server, and the consumer of its     *)
(* log; modules Pipeline and WalConsumer model them.  Of the agent's       *)
(* state, the error count and the plugins' status are kept.                *)
(***************************************************************************)
EXTENDS Integers, Sequences, FiniteSets

CONSTANTS Tracer,      \* the eBPF plugins
          Sampler,     \* the plugins without a collector (cpu, memory, disk)
          OutCap,      \* capacity of m.out
          StatusCap,   \* capacity of m.statusChanges
          Iface,       \* network interfaces
          Plans,       \* bound: the configurations and disturbances looked at
          MaxExtra     \* bound: disturbances of a behaviour, polls not counted

Net == "ebpf"

(* "log": the write-ahead log is enabled. *)
Disturbance == {"tick", "route", "error", "save", "kill", "poll", "load", "log"}

Plugin == Tracer \cup Sampler

(* The status channel holds both changes of every plugin that can fail     *)
(* while nobody reads it.                                                  *)
ASSUME LifeAssumption ==
  /\ Net \in Tracer /\ Tracer \subseteq {"ebpf", "ebpf_block", "ebpf_sched"}
  /\ Sampler \subseteq {"cpu", "memory", "disk"}
  /\ OutCap \in Nat \ {0}
  /\ StatusCap \in Nat /\ 2 * Cardinality(Tracer) <= StatusCap
  /\ Iface # {}
  /\ Plans \subseteq [on : SUBSET Plugin, may : SUBSET Disturbance]
  /\ MaxExtra \in Nat

VARIABLES
  core,      \* where Core.Run is
  ppc,       \* where each plugin's goroutine is
  held,      \* per tracer, the collection, links and reader it holds
  xdp,       \* the interfaces the XDP program is attached to
  name,      \* t.interfaceName of the network tracer
  route,     \* the interface of the default route
  stopped,   \* the plugins' stop channels are closed
  out,       \* events in m.out
  closed,    \* m.out is closed
  mu,        \* the plugin holding m.mu to write, or Nobody
  status,    \* m.plugins[i].status
  changes,   \* m.statusChanges
  note,      \* the change core's status goroutine has received
  poll,      \* the status core's poller has read
  driver,    \* the pipeline's driver
  consumer,  \* the consumer of its log, "off" without a log
  smStatus,  \* StateManager's PluginsStatus
  errors,    \* StateManager's count of errors
  saving,    \* where the state manager's goroutine is in persistState
  cancelled, \* sm.ctx is cancelled
  tmp, file, \* the temporary file and the state file
  loadFailed,\* history: the state file could not be opened at a start
  plan,      \* the plugins enabled and the disturbances of this behaviour
  extra      \* the number of them so far

pluginVars == <<ppc, held, xdp, name, route>>
statusVars == <<mu, status, changes, note, poll, smStatus>>
stateVars == <<errors, saving, cancelled, tmp, file, loadFailed>>
chanVars == <<stopped, out, closed>>
planVars == <<plan, extra>>
pipeVars == <<driver, consumer>>
vars == <<core, pluginVars, chanVars, statusVars, pipeVars, stateVars, planVars>>

Nobody == "nobody"
None == << >>

(* A state file holds the beginning of a state, or a state, of which the   *)
(* count of errors is kept.                                                *)
NoFile == -1
Partial == -2

Idle == [at |-> "idle", last |-> FALSE]

-----------------------------------------------------------------------------
(* initCollector: what each tracer acquires, in order, and what it closes  *)
(* when a step fails.  "maps" stands for the checks that acquire nothing.  *)

NetSteps == <<"coll", "maps", "xdp", "rtt", "egress", "retrans", "state", "drop", "ring">>
BlockSteps == <<"coll", "maps", "issue", "compl">>
SchedSteps == <<"coll", "maps", "wakeup", "wakeupNew", "switch">>

Steps(p) ==
  CASE p = "ebpf" -> NetSteps
    [] p = "ebpf_block" -> BlockSteps
    [] p = "ebpf_sched" -> SchedSteps

(* Each error branch closes the links attached so far and the collection. *)
Cleanup(step) ==
  CASE step = "coll" -> {}
    [] step = "maps" -> {"coll"}
    [] step = "xdp" -> {"coll"}
    [] step = "rtt" -> {"xdp", "coll"}
    [] step = "egress" -> {"rtt", "xdp", "coll"}
    [] step = "retrans" -> {"egress", "rtt", "xdp", "coll"}
    [] step = "state" -> {"retrans", "egress", "rtt", "xdp", "coll"}
    [] step = "drop" -> {"state", "retrans", "egress", "rtt", "xdp", "coll"}
    [] step = "ring" -> {"drop", "state", "retrans", "egress", "rtt", "xdp", "coll"}
    [] step = "issue" -> {"coll"}
    [] step = "compl" -> {"issue", "coll"}
    [] step = "wakeup" -> {"coll"}
    [] step = "wakeupNew" -> {"wakeup", "coll"}
    [] step = "switch" -> {"wakeup", "wakeupNew", "coll"}

(* Acquired by the first n steps. *)
Acquired(p, n) == {Steps(p)[i] : i \in 1 .. n} \ {"maps"}

(* Mutant: the reader of the ring buffer is left open. *)
CollectedButRing(p) ==
  CASE p = "ebpf" -> {"drop", "retrans", "state", "egress", "rtt", "xdp", "coll"}
    [] p = "ebpf_block" -> {"issue", "compl", "coll"}
    [] p = "ebpf_sched" -> {"wakeup", "wakeupNew", "switch", "coll"}

(* Closed by closeCollector. *)
Collected(p) ==
  CASE p = "ebpf" -> {"ring", "drop", "retrans", "state", "egress", "rtt", "xdp", "coll"}
    [] p = "ebpf_block" -> {"issue", "compl", "coll"}
    [] p = "ebpf_sched" -> {"wakeup", "wakeupNew", "switch", "coll"}

-----------------------------------------------------------------------------
CorePC == {"connect", "poll", "sleep", "open", "serve", "stop", "closeOut", "drain",
           "consumer", "close", "return", "exit"}
PluginPC == {"off", "init", "run", "reattach", "send", "close", "panic", "failed",
             "ended", "recovered", "done"}
Status == {"stopped", "error", "unknown"}

TypeOK ==
  /\ core \in CorePC
  /\ ppc \in [Plugin -> PluginPC]
  /\ \A p \in Tracer : held[p] \subseteq Collected(p)
  /\ xdp \subseteq Iface /\ name \in Iface /\ route \in Iface
  /\ {stopped, closed, cancelled, loadFailed} \subseteq BOOLEAN
  /\ out \in 0 .. OutCap
  /\ mu \in Plugin \cup {Nobody}
  /\ status \in [Plugin -> Status]
  /\ changes \in Seq(Plugin \X Status) /\ Len(changes) <= StatusCap
  /\ {note, poll} \subseteq (Plugin \X Status) \cup {None}
  /\ driver \in {"off", "run", "done"} /\ consumer \in {"off", "run", "stop", "done"}
  /\ smStatus \in [Plugin -> Status]
  /\ errors \in 0 .. MaxExtra + 1
  /\ saving \in [at : {"idle", "encode", "rename", "ended"}, last : BOOLEAN]
  /\ {tmp, file} \subseteq (0 .. MaxExtra + 1) \cup {NoFile, Partial}
  /\ plan \in Plans /\ extra \in 0 .. MaxExtra

(* What a new process starts with, but for what it loads. *)
AllOff == [p \in Plugin |-> "off"]
NoneHeld == [p \in Tracer |-> {}]
(* GetPluginStatus of a plugin that is not enabled is "unknown". *)
AllStopped == [p \in Plugin |-> IF p \in plan.on THEN "stopped" ELSE "unknown"]

(* The statuses loaded from f.  The saved ones are those of some earlier   *)
(* moment: any may be loaded.                                              *)
Count(f) == IF f \in Nat THEN f ELSE 0

Loaded(f) ==
  {st \in [Plugin -> Status] :
     \A p \in Plugin : st[p] = "unknown" <=> (f \notin Nat \/ p \notin plan.on)}

Init ==
  /\ plan \in Plans /\ extra = 0
  /\ core = "connect"
  /\ ppc = AllOff /\ held = NoneHeld /\ xdp = {}
  /\ name = (CHOOSE i \in Iface : TRUE) /\ route = name
  /\ stopped = FALSE /\ out = 0 /\ closed = FALSE
  /\ mu = Nobody /\ status = AllStopped /\ changes = << >> /\ note = None /\ poll = None
  /\ driver = "off" /\ consumer = "off"
  /\ tmp = NoFile /\ file = (IF "load" \in plan.may THEN 1 ELSE NoFile)
  /\ smStatus \in Loaded(file) /\ errors = Count(file)
  /\ saving = Idle /\ cancelled = FALSE
  /\ loadFailed = FALSE

-----------------------------------------------------------------------------
(* Core.Run up to the signal. *)

Running == core # "exit"

Extra(kind) == kind \in plan.may /\ extra < MaxExtra /\ extra' = extra + 1

MayRecordError ==
  \/ Extra("error") /\ errors' = errors + 1
  \/ UNCHANGED <<errors, extra>>

(* Connect, then plugins.Start: a goroutine per plugin. *)
Connect ==
  /\ core = "connect"
  /\ core' = "poll"
  /\ MayRecordError
  /\ ppc' = [p \in Plugin |-> CASE p \notin plan.on -> "off"
                                [] p \in plan.on \cap Tracer -> "init"
                                [] p \in plan.on \cap Sampler -> "run"]
  /\ UNCHANGED <<held, xdp, name, route, chanVars, statusVars, pipeVars, saving, cancelled,
                 tmp, file, loadFailed, plan>>

(* GetPluginStatus("ebpf") takes m.mu to read.  StatusRunning is never     *)
(* set, so only an error ends the wait before its deadline.                *)
PollInit ==
  /\ core = "poll"
  /\ mu = Nobody
  /\ core' = IF status[Net] = "error" THEN "open" ELSE "sleep"
  /\ UNCHANGED <<pluginVars, chanVars, statusVars, pipeVars, stateVars, planVars>>

Sleep ==
  /\ core = "sleep"
  /\ core' = "poll"
  /\ UNCHANGED <<pluginVars, chanVars, statusVars, pipeVars, stateVars, planVars>>

(* Mutant: the wait ends with a status only. *)
InitDeadlineNot ==
  /\ core = "sleep"
  /\ status[Net] = "error"
  /\ core' = "open"
  /\ UNCHANGED <<pluginVars, chanVars, statusVars, pipeVars, stateVars, planVars>>

InitDeadline ==
  /\ core = "sleep"
  /\ core' = "open"
  /\ UNCHANGED <<pluginVars, chanVars, statusVars, pipeVars, stateVars, planVars>>

(* DropPrivileges, wal.Open with its fallback to direct export, and the    *)
(* goroutines of the pipeline, of its consumer if there is a log, of the   *)
(* status changes and of the poller.                                       *)
Open ==
  /\ core = "open"
  /\ core' = "serve"
  /\ MayRecordError
  /\ driver' = "run" /\ consumer' \in {"off"} \cup (IF "log" \in plan.may THEN {"run"} ELSE {})
  /\ UNCHANGED <<pluginVars, chanVars, statusVars, saving, cancelled, tmp, file, loadFailed,
                 plan>>

-----------------------------------------------------------------------------
(* A plugin's goroutine. *)

At(p, l) == ppc' = [ppc EXCEPT ![p] = l]

InitOk(p) ==
  /\ ppc[p] = "init"
  /\ held' = [held EXCEPT ![p] = Acquired(p, Len(Steps(p)))]
  /\ IF p = Net THEN xdp' = {route} /\ name' = route ELSE UNCHANGED <<xdp, name>>
  /\ At(p, "run")
  /\ UNCHANGED <<core, route, chanVars, statusVars, pipeVars, stateVars, planVars>>

(* Step i fails, and what the code of that branch closes is closed. *)
InitFail(p) ==
  /\ ppc[p] = "init"
  /\ \E i \in DOMAIN Steps(p) :
       LET left == Acquired(p, i - 1) \ Cleanup(Steps(p)[i])
       IN /\ held' = [held EXCEPT ![p] = left]
          /\ IF p = Net THEN xdp' = (IF "xdp" \in left THEN {route} ELSE {}) /\ name' = route
                        ELSE UNCHANGED <<xdp, name>>
  /\ At(p, "failed")
  /\ UNCHANGED <<core, route, chanVars, statusVars, pipeVars, stateVars, planVars>>

RouteChange ==
  /\ Extra("route")
  /\ route' \in Iface \ {route}
  /\ UNCHANGED <<core, ppc, held, xdp, name, chanVars, statusVars, pipeVars, stateVars, plan>>

(* Mutant: the old link is closed first. *)
ReattachClosingFirst(p) ==
  /\ p = Net /\ ppc[p] = "run"
  /\ route # name
  /\ xdp' = {}
  /\ At(p, "reattach")
  /\ UNCHANGED <<core, held, name, route, chanVars, statusVars, pipeVars, stateVars, planVars>>

(* maybeReattachXDP: the new link is attached before the old one is        *)
(* closed; when the attach fails the old one is kept.                      *)
Reattach(p) ==
  /\ p = Net /\ ppc[p] = "run"
  /\ route # name
  /\ xdp' = xdp \cup {route}
  /\ name' = route
  /\ At(p, "reattach")
  /\ UNCHANGED <<core, held, route, chanVars, statusVars, pipeVars, stateVars, planVars>>

ReattachEnd(p) ==
  /\ ppc[p] = "reattach"
  /\ xdp' = {name}
  /\ At(p, "run")
  /\ UNCHANGED <<core, held, name, route, chanVars, statusVars, pipeVars, stateVars, planVars>>

(* A tick with something to report. *)
Tick(p) ==
  /\ ppc[p] = "run"
  /\ Extra("tick")
  /\ At(p, "send")
  /\ UNCHANGED <<core, held, xdp, name, route, chanVars, statusVars, pipeVars, stateVars,
                 plan>>

(* out <- event: waits for room, whatever the stop channel says; a closed  *)
(* channel panics.                                                         *)
Send(p) ==
  /\ ppc[p] = "send"
  /\ IF closed THEN At(p, "panic") /\ UNCHANGED out
               ELSE out < OutCap /\ out' = out + 1 /\ At(p, "run")
  /\ UNCHANGED <<core, held, xdp, name, route, stopped, closed, statusVars, pipeVars,
                 stateVars, planVars>>

StopSeen(p) ==
  /\ ppc[p] = "run"
  /\ stopped
  /\ At(p, "close")
  /\ UNCHANGED <<core, held, xdp, name, route, chanVars, statusVars, pipeVars, stateVars,
                 planVars>>

(* Run's deferred closeCollector, on a return and on a panic. *)
CloseCollector(p) ==
  /\ ppc[p] \in {"close", "panic"}
  /\ IF p \in Tracer THEN held' = [held EXCEPT ![p] = @ \ Collected(p)] ELSE UNCHANGED held
  /\ xdp' = IF p = Net THEN xdp \ {name} ELSE xdp
  /\ At(p, IF ppc[p] = "close" THEN "ended" ELSE "recovered")
  /\ UNCHANGED <<core, name, route, chanVars, statusVars, pipeVars, stateVars, planVars>>

(* updatePluginStatus: the status is set under m.mu, which is kept until   *)
(* the change is in the channel.  A plugin that returned an error reports  *)
(* it and then, by the deferred call, that it stopped.                     *)
UpdateStatus(p) ==
  /\ ppc[p] \in {"failed", "ended", "recovered"}
  /\ mu = Nobody
  /\ mu' = p
  /\ status' = [status EXCEPT ![p] = IF ppc[p] = "ended" THEN "stopped" ELSE "error"]
  /\ UNCHANGED <<core, pluginVars, chanVars, changes, note, poll, smStatus, pipeVars,
                 stateVars, planVars>>

SendStatus(p) ==
  /\ mu = p
  /\ Len(changes) < StatusCap
  /\ changes' = Append(changes, <<p, status[p]>>)
  /\ mu' = Nobody
  /\ At(p, IF ppc[p] = "failed" THEN "ended" ELSE "done")
  /\ UNCHANGED <<core, held, xdp, name, route, chanVars, status, note, poll, smStatus,
                 pipeVars, stateVars, planVars>>

-----------------------------------------------------------------------------
(* Core's goroutines while it serves and shuts down. *)

Served == core \in {"serve", "stop", "closeOut", "drain", "consumer", "close", "return"}

ReceiveStatus ==
  /\ Served
  /\ note = None /\ changes # << >>
  /\ note' = Head(changes) /\ changes' = Tail(changes)
  /\ UNCHANGED <<core, pluginVars, chanVars, mu, status, poll, smStatus, pipeVars, stateVars,
                 planVars>>

NoteStatus ==
  /\ Served
  /\ note # None
  /\ smStatus' = [smStatus EXCEPT ![note[1]] = note[2]]
  /\ note' = None
  /\ UNCHANGED <<core, pluginVars, chanVars, mu, status, changes, poll, pipeVars, stateVars,
                 planVars>>

(* The poller reads a status and then stores what it read.  For a plugin   *)
(* that is not enabled that changes nothing.                               *)
PollRead(p) ==
  /\ Served
  /\ "poll" \in plan.may /\ p \in plan.on
  /\ poll = None /\ mu = Nobody
  /\ poll' = <<p, status[p]>>
  /\ UNCHANGED <<core, pluginVars, chanVars, mu, status, changes, note, smStatus, pipeVars,
                 stateVars, planVars>>

(* Mutant: the poller goes on storing what it read first. *)
PollWriteAgain ==
  /\ Served
  /\ poll # None
  /\ smStatus' = [smStatus EXCEPT ![poll[1]] = poll[2]]
  /\ UNCHANGED <<core, pluginVars, chanVars, mu, status, changes, note, poll, pipeVars,
                 stateVars, planVars>>

PollWrite ==
  /\ Served
  /\ poll # None
  /\ smStatus' = [smStatus EXCEPT ![poll[1]] = poll[2]]
  /\ poll' = None
  /\ UNCHANGED <<core, pluginVars, chanVars, mu, status, changes, note, pipeVars, stateVars,
                 planVars>>

(* The pipeline's driver takes an event; its callbacks may record an error. *)
DriverTake ==
  /\ driver = "run"
  /\ out > 0
  /\ out' = out - 1
  /\ MayRecordError
  /\ UNCHANGED <<core, pluginVars, stopped, closed, statusVars, pipeVars, saving, cancelled,
                 tmp, file, loadFailed, plan>>

(* The channel is closed and empty, or Shutdown has closed p.stop; the     *)
(* tail goes to the log, or to the server.                                 *)
DriverEnd ==
  /\ driver = "run"
  /\ (closed /\ out = 0) \/ core \in {"drain", "close", "return"}
  /\ driver' = "done"
  /\ MayRecordError
  /\ UNCHANGED <<core, pluginVars, chanVars, statusVars, consumer, saving, cancelled, tmp,
                 file, loadFailed, plan>>

(* An export from the log fails; it is tried again. *)
ConsumerFails ==
  /\ consumer \in {"run", "stop"}
  /\ Extra("error") /\ errors' = errors + 1
  /\ UNCHANGED <<core, pluginVars, chanVars, statusVars, pipeVars, saving, cancelled, tmp,
                 file, loadFailed, plan>>

(* The last drain has come to the end of the log, or to an error that is   *)
(* not an export's.                                                        *)
ConsumerEnd ==
  /\ consumer = "stop"
  /\ consumer' = "done"
  /\ UNCHANGED <<core, pluginVars, chanVars, statusVars, driver, stateVars, planVars>>

-----------------------------------------------------------------------------
(* Shutdown. *)

Signal ==
  /\ core = "serve"
  /\ core' = "stop"
  /\ UNCHANGED <<pluginVars, chanVars, statusVars, pipeVars, stateVars, planVars>>

(* Manager.Stop: every plugin's Stop, then close(m.out). *)
StopPlugins ==
  /\ core = "stop"
  /\ core' = "closeOut"
  /\ stopped' = TRUE
  /\ UNCHANGED <<pluginVars, out, closed, statusVars, pipeVars, stateVars, planVars>>

(* Mutant: m.out is left open. *)
CloseOutNot ==
  /\ core = "closeOut"
  /\ core' = "drain"
  /\ UNCHANGED <<pluginVars, chanVars, statusVars, pipeVars, stateVars, planVars>>

CloseOut ==
  /\ core = "closeOut"
  /\ core' = "drain"
  /\ closed' = TRUE
  /\ UNCHANGED <<pluginVars, stopped, out, statusVars, pipeVars, stateVars, planVars>>

(* pipe.Shutdown waits ten seconds for the driver.  When the driver has    *)
(* ended it stops the consumer, and waits for that one without a limit.    *)
Drained ==
  /\ core = "drain"
  /\ driver = "done"
  /\ IF consumer = "run" THEN core' = "consumer" /\ consumer' = "stop"
                         ELSE core' = "close" /\ UNCHANGED consumer
  /\ UNCHANGED <<pluginVars, chanVars, statusVars, driver, stateVars, planVars>>

ConsumerStopped ==
  /\ core = "consumer"
  /\ consumer = "done"
  /\ core' = "close"
  /\ UNCHANGED <<pluginVars, chanVars, statusVars, pipeVars, stateVars, planVars>>

DrainTimeout ==
  /\ core = "drain"
  /\ core' = "close"
  /\ UNCHANGED <<pluginVars, chanVars, statusVars, pipeVars, stateVars, planVars>>

(* WAL.Close, client.Close, and the managers' contexts are cancelled. *)
CloseAll ==
  /\ core = "close"
  /\ core' = "return"
  /\ cancelled' = TRUE
  /\ UNCHANGED <<pluginVars, chanVars, statusVars, pipeVars, errors, saving, tmp, file,
                 loadFailed, planVars>>

Exit ==
  /\ core = "return"
  /\ core' = "exit"
  /\ UNCHANGED <<pluginVars, chanVars, statusVars, pipeVars, stateVars, planVars>>

Exited == core = "exit" /\ UNCHANGED vars

-----------------------------------------------------------------------------
(* The state manager's goroutine: persistState on a tick and once more     *)
(* when the context is cancelled.  The process may end before that.        *)

PersistStarts ==
  /\ Running /\ saving = Idle
  /\ \/ Extra("save") /\ saving' = [at |-> "encode", last |-> FALSE]
     \/ /\ cancelled /\ "save" \in plan.may
        /\ saving' = [at |-> "encode", last |-> TRUE]
        /\ UNCHANGED extra

(* Mutant: the state file itself is rewritten. *)
PersistCreateInPlace ==
  /\ PersistStarts
  /\ file' = Partial
  /\ UNCHANGED <<core, pluginVars, chanVars, statusVars, pipeVars, errors, cancelled, tmp,
                 loadFailed, plan>>

PersistCreate ==
  /\ PersistStarts
  /\ tmp' = Partial
  /\ UNCHANGED <<core, pluginVars, chanVars, statusVars, pipeVars, errors, cancelled, file,
                 loadFailed, plan>>

PersistEncode ==
  /\ Running /\ saving.at = "encode"
  /\ tmp' = errors
  /\ saving' = [saving EXCEPT !.at = "rename"]
  /\ UNCHANGED <<core, pluginVars, chanVars, statusVars, pipeVars, errors, cancelled, file,
                 loadFailed, planVars>>

PersistEnd == saving' = IF saving.last THEN [saving EXCEPT !.at = "ended"] ELSE Idle

PersistRename ==
  /\ Running /\ saving.at = "rename"
  /\ file' = tmp /\ tmp' = NoFile
  /\ PersistEnd
  /\ UNCHANGED <<core, pluginVars, chanVars, statusVars, pipeVars, errors, cancelled,
                 loadFailed, planVars>>

PersistFail ==
  /\ Running /\ saving.at \in {"encode", "rename"}
  /\ PersistEnd
  /\ UNCHANGED <<core, pluginVars, chanVars, statusVars, pipeVars, errors, cancelled, tmp,
                 file, loadFailed, planVars>>

(* The process is killed and started again; loadState takes the state from *)
(* a whole file it can open, and starts afresh otherwise.                  *)
Crash ==
  /\ Running
  /\ Extra("kill")
  /\ core' = "connect"
  /\ ppc' = AllOff /\ held' = NoneHeld /\ xdp' = {}
  /\ stopped' = FALSE /\ out' = 0 /\ closed' = FALSE
  /\ mu' = Nobody /\ status' = AllStopped /\ changes' = << >> /\ note' = None /\ poll' = None
  /\ driver' = "off" /\ consumer' = "off"
  /\ saving' = Idle /\ cancelled' = FALSE
  /\ \E openable \in BOOLEAN :
       LET f == IF openable THEN file ELSE NoFile
       IN /\ errors' = Count(f)
          /\ smStatus' \in Loaded(f)
          /\ loadFailed' = (loadFailed \/ f # file)
  /\ UNCHANGED <<name, route, tmp, file, plan>>

-----------------------------------------------------------------------------
(* Steps that a goroutine takes as soon as it can. *)

CoreRuns ==
  \/ Connect \/ PollInit \/ Sleep \/ Open
  \/ StopPlugins \/ CloseOut \/ Drained \/ DrainTimeout \/ ConsumerStopped
  \/ CloseAll

PluginRuns(p) ==
  /\ Running
  /\ \/ p \in Tracer /\ (InitOk(p) \/ InitFail(p) \/ ReattachEnd(p))
     \/ Send(p) \/ StopSeen(p) \/ CloseCollector(p) \/ UpdateStatus(p) \/ SendStatus(p)

ListenerRuns == ReceiveStatus \/ NoteStatus

Persist == PersistCreate \/ PersistEncode \/ PersistRename \/ PersistFail

Next ==
  \/ CoreRuns \/ InitDeadline \/ Signal \/ Exit
  \/ \E p \in Plugin : PluginRuns(p) \/ PollRead(p) \/ (Running /\ (Reattach(p) \/ Tick(p)))
  \/ ListenerRuns \/ PollWrite
  \/ Running /\ (DriverTake \/ DriverEnd \/ ConsumerFails \/ ConsumerEnd \/ RouteChange)
  \/ Persist
  \/ Crash
  \/ Exited

Spec == Init /\ [][Next]_vars

(* A goroutine that can go on does so, the wait for the eBPF plugin meets  *)
(* its deadline, and the poller goes through all the plugins on every      *)
(* tick.  The pipeline's driver and its consumer may stall on an           *)
(* unreachable server, and no tick, signal, exit, save, change of the      *)
(* route or crash need happen.                                             *)
Fairness ==
  /\ WF_vars(CoreRuns) /\ SF_vars(InitDeadline)
  /\ \A p \in Plugin : WF_vars(PluginRuns(p)) /\ SF_vars(PollRead(p))
  /\ WF_vars(ListenerRuns) /\ WF_vars(PollWrite)

FairSpec == Spec /\ Fairness

-----------------------------------------------------------------------------
(* A tracer whose goroutine is past Run holds no link, reader or           *)
(* collection: initCollector's error branches and closeCollector release   *)
(* what was acquired, also after a panic in the middle of a send.  While   *)
(* the network tracer runs, the XDP program is attached to the interface   *)
(* it names, and to a second one only between the two steps of a           *)
(* re-attachment ("the reverse would lose packets").                       *)
Past == {"failed", "ended", "recovered", "done"}

AttachOK ==
  /\ \A p \in Tracer : ppc[p] \in Past => held[p] = {}
  /\ ppc[Net] \in Past => xdp = {}
  /\ ppc[Net] \in {"run", "send", "close", "panic"} => xdp = {name}
  /\ ppc[Net] = "reattach" => name \in xdp /\ Cardinality(xdp) = 2

(* The state file is replaced only by a whole state with at least as many  *)
(* errors, through crashes in the middle of persistState and failed saves: *)
(* "a crash mid-write never leaves a truncated state file behind".  Only   *)
(* when the file could not be opened at a start is the count begun again.  *)
ErrorsKept ==
  [][loadFailed' \/ (file' \in Nat /\ file' >= file)]_file

(* Core's wait for the eBPF plugin ends, although the plugins that fail    *)
(* meanwhile hold m.mu while they send on a channel nobody reads yet.      *)
InitEnds == core = "poll" ~> core \in {"serve", "connect"}

(* While the agent serves, what the state manager says of the plugins      *)
(* comes to agree with the manager, although two goroutines store statuses *)
(* they read earlier and the loaded state is of another process.           *)
StatusConverges == "poll" \in plan.may /\ <>[](core = "serve") => <>[](smStatus = status)

(* After a signal Run returns and every plugin's goroutine ends, also with *)
(* a full channel and a driver that stalls: a send in progress panics when *)
(* the channel is closed, and is recovered.  That holds unless the last    *)
(* drain of the log goes on for ever; module WalConsumer shows that it     *)
(* ends when the server can be reached (StopCompletes).                    *)
StopEnds ==
  []<>(consumer # "stop") =>
    (core = "stop" ~> \/ core = "return" /\ \A p \in plan.on : ppc[p] = "done"
                      \/ core \in {"exit", "connect"})

(* The shutdown of the pipeline takes ten seconds at most: core.go gives   *)
(* it a context "WithTimeout(context.Background(), 10*time.Second)" and    *)
(* goes on when "Pipeline shutdown did not complete".                      *)
ShutdownBounded == core = "drain" ~> core \in {"close", "connect"}
=============================================================================
