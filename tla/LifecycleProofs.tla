--------------------------- MODULE LifecycleProofs ---------------------------
(***************************************************************************)
(* Proofs about Lifecycle, for every choice of plugins, of configurations  *)
(* and disturbances, any capacity of the channels, any number of           *)
(* interfaces and of disturbances.                                         *)
(***************************************************************************)
EXTENDS Lifecycle, FiniteSetTheorems, TLAPS

(* What a tracer can hold. *)
Things == {"coll", "xdp", "rtt", "egress", "retrans", "state", "drop", "ring",
           "issue", "compl", "wakeup", "wakeupNew", "switch"}

(* Where each plugin is: m.mu is held by one that is reporting a status,   *)
(* nothing runs before plugins.Start, and only the network tracer          *)
(* re-attaches.                                                            *)
StageInv ==
  /\ ppc \in [Plugin -> PluginPC]
  /\ mu \in Plugin \cup {Nobody}
  /\ mu # Nobody => ppc[mu] \in {"failed", "ended", "recovered"}
  /\ core = "connect" => \A p \in Plugin : ppc[p] = "off"
  /\ \A p \in Plugin : ppc[p] = "reattach" => p = Net

(* What the tracers hold. *)
HeldInv ==
  /\ held \in [Tracer -> SUBSET Things]
  /\ \A p \in Tracer : held[p] \subseteq Collected(p)
  /\ \A p \in Tracer : ppc[p] \in Past => held[p] = {}

(* Where the XDP program is attached. *)
XdpInv ==
  /\ xdp \subseteq Iface /\ name \in Iface /\ route \in Iface
  /\ ppc[Net] \in Past => xdp = {}
  /\ ppc[Net] \in {"run", "send", "close", "panic"} => xdp = {name}
  /\ ppc[Net] = "reattach" => \E i \in Iface : i # name /\ xdp = {i, name}

(* The state file is never ahead of the count in memory, and the file that *)
(* is about to replace it lies between the two; a start that could not     *)
(* open the file begins again.                                             *)
FileInv ==
  /\ cancelled \in BOOLEAN /\ loadFailed \in BOOLEAN
  /\ extra \in 0 .. MaxExtra
  /\ errors \in Nat /\ errors <= extra + 1
  /\ file \in Nat \cup {NoFile} /\ file <= extra + 1
  /\ tmp \in (0 .. MaxExtra + 1) \cup {NoFile, Partial}
  /\ saving \in [at : {"idle", "encode", "rename", "ended"}, last : BOOLEAN]
  /\ loadFailed = FALSE => file <= errors
  /\ saving.at = "rename" =>
       tmp \in Nat /\ tmp <= errors /\ (loadFailed = FALSE => file <= tmp)

StatusInv ==
  /\ status \in [Plugin -> Status]
  /\ changes \in Seq(Plugin \X Status) /\ Len(changes) <= StatusCap
  /\ note \in (Plugin \X Status) \cup {None}
  /\ poll \in (Plugin \X Status) \cup {None}
  /\ smStatus \in [Plugin -> Status]

CoreInv ==
  /\ core \in CorePC
  /\ stopped \in BOOLEAN /\ closed \in BOOLEAN
  /\ out \in 0 .. OutCap
  /\ driver \in {"off", "run", "done"} /\ consumer \in {"off", "run", "stop", "done"}
  /\ plan \in Plans

LifeInv == StageInv /\ HeldInv /\ XdpInv /\ FileInv /\ StatusInv /\ CoreInv

-----------------------------------------------------------------------------
(* No plugin is called Nobody, and tracers and samplers are apart. *)
LEMMA Names ==
  /\ Nobody \notin Plugin
  /\ Tracer \subseteq Plugin /\ Sampler \subseteq Plugin
  /\ Net \in Tracer /\ Net \in Plugin
  /\ Tracer \cap Sampler = {}
BY LifeAssumption DEF Plugin, Nobody, Net

(* What the steps of an initialisation acquire, closeCollector closes. *)
LEMMA AcquiredOwn ==
  ASSUME NEW p \in Tracer, NEW n \in 0 .. Len(Steps(p))
  PROVE  /\ Acquired(p, n) \subseteq Collected(p)
         /\ Collected(p) \subseteq Things
<1>1. CASE p = "ebpf"
  <2>1. Steps(p) = NetSteps /\ n \in 0 .. 9
    BY <1>1 DEF Steps, NetSteps
  <2>2. \A i \in 1 .. n : NetSteps[i] \in Collected(p) \cup {"maps"}
    BY <1>1, <2>1 DEF Collected, NetSteps
  <2>3. Acquired(p, n) \subseteq Collected(p)
    BY <2>1, <2>2 DEF Acquired
  <2> QED
    BY <1>1, <2>3 DEF Collected, Things
<1>2. CASE p = "ebpf_block"
  <2>1. Steps(p) = BlockSteps /\ n \in 0 .. 4
    BY <1>2 DEF Steps, BlockSteps
  <2>2. \A i \in 1 .. n : BlockSteps[i] \in Collected(p) \cup {"maps"}
    BY <1>2, <2>1 DEF Collected, BlockSteps
  <2>3. Acquired(p, n) \subseteq Collected(p)
    BY <2>1, <2>2 DEF Acquired
  <2> QED
    BY <1>2, <2>3 DEF Collected, Things
<1>3. CASE p = "ebpf_sched"
  <2>1. Steps(p) = SchedSteps /\ n \in 0 .. 5
    BY <1>3 DEF Steps, SchedSteps
  <2>2. \A i \in 1 .. n : SchedSteps[i] \in Collected(p) \cup {"maps"}
    BY <1>3, <2>1 DEF Collected, SchedSteps
  <2>3. Acquired(p, n) \subseteq Collected(p)
    BY <2>1, <2>2 DEF Acquired
  <2> QED
    BY <1>3, <2>3 DEF Collected, Things
<1> QED
  BY <1>1, <1>2, <1>3, LifeAssumption

(* Every error branch of the three initialisations closes all that the     *)
(* steps before it have acquired.                                          *)
LEMMA CleanupWhole ==
  ASSUME NEW p \in Tracer, NEW i \in DOMAIN Steps(p)
  PROVE  Acquired(p, i - 1) \ Cleanup(Steps(p)[i]) = {}
<1>1. SUFFICES ASSUME NEW j \in 1 .. (i - 1)
               PROVE  Steps(p)[j] \in Cleanup(Steps(p)[i]) \cup {"maps"}
  BY DEF Acquired
<1>2. CASE p = "ebpf"
  <2>1. Steps(p) = NetSteps /\ i \in 1 .. 9
    BY <1>2 DEF Steps, NetSteps
  <2>2. CASE i = 1 \/ i = 2 \/ i = 3
    BY <2>1, <2>2 DEF NetSteps, Cleanup
  <2>3. CASE i = 4 \/ i = 5
    BY <2>1, <2>3 DEF NetSteps, Cleanup
  <2>4. CASE i = 6
    BY <2>1, <2>4 DEF NetSteps, Cleanup
  <2>5. CASE i = 7
    BY <2>1, <2>5 DEF NetSteps, Cleanup
  <2>6. CASE i = 8
    BY <2>1, <2>6 DEF NetSteps, Cleanup
  <2>7. CASE i = 9
    BY <2>1, <2>7 DEF NetSteps, Cleanup
  <2> QED
    BY <2>1, <2>2, <2>3, <2>4, <2>5, <2>6, <2>7
<1>3. CASE p = "ebpf_block"
  <2>1. Steps(p) = BlockSteps /\ i \in 1 .. 4
    BY <1>3 DEF Steps, BlockSteps
  <2> QED
    BY <2>1 DEF BlockSteps, Cleanup
<1>4. CASE p = "ebpf_sched"
  <2>1. Steps(p) = SchedSteps /\ i \in 1 .. 5
    BY <1>4 DEF Steps, SchedSteps
  <2> QED
    BY <2>1 DEF SchedSteps, Cleanup
<1> QED
  BY <1>2, <1>3, <1>4, LifeAssumption

-----------------------------------------------------------------------------
(* The plugins' goroutines. *)

(* What the proofs about one plugin's step use of its place. *)
PlugVars == <<ppc, held, xdp, name, route, mu>>

(* A step that concerns no plugin keeps their invariants, as long as it    *)
(* does not lead back to the start.                                        *)
LEMMA PlugsQuiet ==
  ASSUME LifeInv, UNCHANGED PlugVars, core' = "connect" => core = "connect"
  PROVE  StageInv' /\ HeldInv' /\ XdpInv'
BY DEF LifeInv, StageInv, HeldInv, XdpInv, PlugVars

(* A plugin that has begun and is not reporting a status may move on from  *)
(* where it is: Core.Run is not at its start and the plugin does not hold  *)
(* m.mu.                                                                   *)
LEMMA StageMove ==
  ASSUME LifeInv, NEW p \in Plugin, NEW l \in PluginPC, At(p, l),
         mu' = mu, core' = core,
         ppc[p] \notin {"off", "failed", "ended", "recovered"},
         l = "reattach" => p = Net
  PROVE  /\ StageInv' /\ core # "connect"
         /\ \A q \in Plugin : q # p => ppc'[q] = ppc[q]
         /\ ppc'[p] = l
<1>1. ppc' = [ppc EXCEPT ![p] = l] /\ ppc \in [Plugin -> PluginPC]
  BY DEF At, LifeInv, StageInv
<1>2. core # "connect" /\ mu # p
  BY Names DEF LifeInv, StageInv
<1>3. /\ ppc' \in [Plugin -> PluginPC] /\ ppc'[p] = l
      /\ \A q \in Plugin : q # p => ppc'[q] = ppc[q]
  BY <1>1
<1> QED
  BY <1>2, <1>3 DEF LifeInv, StageInv

(* Ticks, sends and the stop signal: a plugin between initCollector and    *)
(* closeCollector keeps what it holds.                                     *)
LEMMA RunningMove ==
  ASSUME LifeInv, NEW p \in Plugin, NEW l \in {"run", "send", "close", "panic"},
         At(p, l), ppc[p] \in {"run", "send"},
         UNCHANGED <<held, xdp, name, route, mu, core>>
  PROVE  StageInv' /\ HeldInv' /\ XdpInv'
<1>1. /\ StageInv'
      /\ \A q \in Plugin : q # p => ppc'[q] = ppc[q]
      /\ ppc'[p] = l
  BY StageMove DEF PluginPC
<1>2. HeldInv'
  BY <1>1, Names DEF LifeInv, HeldInv, Past
<1>3. XdpInv'
  BY <1>1, Names DEF LifeInv, XdpInv, Past
<1> QED
  BY <1>1, <1>2, <1>3

(* plugins.Start. *)
LEMMA ConnectPlugs ==
  ASSUME LifeInv, Connect
  PROVE  StageInv' /\ HeldInv' /\ XdpInv'
<1>1. /\ core = "connect" /\ core' = "poll"
      /\ UNCHANGED <<held, xdp, name, route, mu>>
      /\ ppc' = [p \in Plugin |-> CASE p \notin plan.on -> "off"
                                    [] p \in plan.on \cap Tracer -> "init"
                                    [] p \in plan.on \cap Sampler -> "run"]
  BY DEF Connect, statusVars
<1>2. mu = Nobody
  BY <1>1 DEF LifeInv, StageInv
<1>3. \A p \in Plugin : ppc'[p] \in {"off", "init", "run"} /\ (p \in Tracer => ppc'[p] # "run")
  <2> SUFFICES ASSUME NEW p \in Plugin
               PROVE  ppc'[p] \in {"off", "init", "run"} /\ (p \in Tracer => ppc'[p] # "run")
    OBVIOUS
  <2>1. CASE p \notin plan.on
    BY <1>1, <2>1, Names
  <2>2. CASE p \in plan.on /\ p \in Tracer
    BY <1>1, <2>2, Names
  <2>3. CASE p \in plan.on /\ p \in Sampler
    BY <1>1, <2>3, Names
  <2> QED
    BY <2>1, <2>2, <2>3 DEF Plugin
<1>4. ppc' \in [Plugin -> PluginPC]
  BY <1>1, <1>3 DEF PluginPC
<1>5. StageInv'
  BY <1>1, <1>2, <1>3, <1>4, Names DEF StageInv
<1>6. HeldInv'
  BY <1>1, <1>3, Names DEF LifeInv, HeldInv, Past
<1>7. XdpInv'
  BY <1>1, <1>3, Names DEF LifeInv, XdpInv, Past
<1> QED
  BY <1>5, <1>6, <1>7

(* initCollector succeeds. *)
LEMMA InitOkPlugs ==
  ASSUME LifeInv, NEW p \in Tracer, InitOk(p)
  PROVE  StageInv' /\ HeldInv' /\ XdpInv'
<1>1. /\ ppc[p] = "init" /\ At(p, "run")
      /\ held' = [held EXCEPT ![p] = Acquired(p, Len(Steps(p)))]
      /\ UNCHANGED <<mu, core, route>>
      /\ p = Net => xdp' = {route} /\ name' = route
      /\ p # Net => xdp' = xdp /\ name' = name
  BY DEF InitOk, statusVars
<1>2. /\ StageInv'
      /\ \A q \in Plugin : q # p => ppc'[q] = ppc[q]
      /\ ppc'[p] = "run"
  BY <1>1, StageMove, Names DEF PluginPC
<1>3. Len(Steps(p)) \in Nat
  BY LifeAssumption DEF Steps, NetSteps, BlockSteps, SchedSteps
<1>4. Acquired(p, Len(Steps(p))) \subseteq Collected(p) /\ Collected(p) \subseteq Things
  BY <1>3, AcquiredOwn
<1>5. HeldInv'
  BY <1>1, <1>2, <1>4, Names DEF LifeInv, HeldInv, Past
<1>6. XdpInv'
  BY <1>1, <1>2, Names DEF LifeInv, XdpInv, Past
<1> QED
  BY <1>2, <1>5, <1>6

(* initCollector fails at any of its steps. *)
LEMMA InitFailPlugs ==
  ASSUME LifeInv, NEW p \in Tracer, InitFail(p)
  PROVE  StageInv' /\ HeldInv' /\ XdpInv'
<1>1. PICK i \in DOMAIN Steps(p) :
        LET left == Acquired(p, i - 1) \ Cleanup(Steps(p)[i])
        IN /\ held' = [held EXCEPT ![p] = left]
           /\ IF p = Net THEN xdp' = (IF "xdp" \in left THEN {route} ELSE {}) /\ name' = route
                         ELSE UNCHANGED <<xdp, name>>
  BY DEF InitFail
<1>2. /\ held' = [held EXCEPT ![p] = {}]
      /\ p = Net => xdp' = {} /\ name' = route
      /\ p # Net => xdp' = xdp /\ name' = name
  BY <1>1, CleanupWhole
<1>3. ppc[p] = "init" /\ At(p, "failed") /\ UNCHANGED <<mu, core, route>>
  BY DEF InitFail, statusVars
<1>4. /\ StageInv'
      /\ \A q \in Plugin : q # p => ppc'[q] = ppc[q]
      /\ ppc'[p] = "failed"
  BY <1>3, StageMove, Names DEF PluginPC
<1>5. HeldInv'
  BY <1>2, <1>4, Names DEF LifeInv, HeldInv
<1>6. XdpInv'
  BY <1>2, <1>3, <1>4, Names DEF LifeInv, XdpInv, Past
<1> QED
  BY <1>4, <1>5, <1>6

(* maybeReattachXDP, its attach and its close. *)
LEMMA ReattachPlugs ==
  ASSUME LifeInv, NEW p \in Plugin, Reattach(p) \/ (p \in Tracer /\ ReattachEnd(p))
  PROVE  StageInv' /\ HeldInv' /\ XdpInv'
<1>1. CASE Reattach(p)
  <2>1. /\ p = Net /\ ppc[p] = "run" /\ route # name
        /\ xdp' = xdp \cup {route} /\ name' = route /\ At(p, "reattach")
        /\ UNCHANGED <<held, mu, core, route>>
    BY <1>1 DEF Reattach, statusVars
  <2>2. /\ StageInv'
        /\ \A q \in Plugin : q # p => ppc'[q] = ppc[q]
        /\ ppc'[p] = "reattach"
    BY <2>1, StageMove DEF PluginPC
  <2>3. HeldInv'
    BY <2>1, <2>2, Names DEF LifeInv, HeldInv, Past
  <2>4. xdp = {name} /\ name \in Iface /\ route \in Iface
    BY <2>1 DEF LifeInv, XdpInv
  <2>5. name # name' /\ xdp' = {name, name'}
    BY <2>1, <2>4
  <2>6. XdpInv'
    BY <2>1, <2>2, <2>4, <2>5 DEF XdpInv, Past
  <2> QED
    BY <2>2, <2>3, <2>6
<1>2. CASE p \in Tracer /\ ReattachEnd(p)
  <2>1. /\ ppc[p] = "reattach" /\ xdp' = {name} /\ At(p, "run")
        /\ UNCHANGED <<held, mu, core, name, route>>
    BY <1>2 DEF ReattachEnd, statusVars
  <2>2. p = Net
    BY <2>1 DEF LifeInv, StageInv
  <2>3. /\ StageInv'
        /\ \A q \in Plugin : q # p => ppc'[q] = ppc[q]
        /\ ppc'[p] = "run"
    BY <2>1, StageMove DEF PluginPC
  <2>4. HeldInv'
    BY <2>1, <2>3, Names DEF LifeInv, HeldInv, Past
  <2>5. XdpInv'
    BY <2>1, <2>2, <2>3 DEF LifeInv, XdpInv, Past
  <2> QED
    BY <2>3, <2>4, <2>5
<1> QED
  BY <1>1, <1>2

(* closeCollector, on a return and on a panic. *)
LEMMA ClosePlugs ==
  ASSUME LifeInv, NEW p \in Plugin, CloseCollector(p)
  PROVE  StageInv' /\ HeldInv' /\ XdpInv'
<1>1. /\ ppc[p] \in {"close", "panic"}
      /\ p \in Tracer => held' = [held EXCEPT ![p] = @ \ Collected(p)]
      /\ p \notin Tracer => held' = held
      /\ xdp' = IF p = Net THEN xdp \ {name} ELSE xdp
      /\ UNCHANGED <<mu, core, name, route>>
      /\ At(p, IF ppc[p] = "close" THEN "ended" ELSE "recovered")
  BY DEF CloseCollector, statusVars
<1>2. PICK l \in {"ended", "recovered"} : At(p, l)
  BY <1>1
<1>3. /\ StageInv'
      /\ \A q \in Plugin : q # p => ppc'[q] = ppc[q]
      /\ ppc'[p] = l
  BY <1>1, <1>2, StageMove DEF PluginPC
<1>4. HeldInv'
  <2>1. CASE p \in Tracer
    <3>1. held' = [held EXCEPT ![p] = {}]
      BY <1>1, <2>1 DEF LifeInv, HeldInv
    <3> QED
      BY <1>3, <3>1, Names DEF LifeInv, HeldInv
  <2>2. CASE p \notin Tracer
    BY <1>1, <1>3, <2>2, Names DEF LifeInv, HeldInv
  <2> QED
    BY <2>1, <2>2
<1>5. XdpInv'
  <2>1. CASE p = Net
    <3>1. xdp = {name}
      BY <1>1, <2>1 DEF LifeInv, XdpInv
    <3>2. xdp' = {}
      BY <1>1, <2>1, <3>1
    <3> QED
      BY <1>1, <1>3, <2>1, <3>2 DEF LifeInv, XdpInv, Past
  <2>2. CASE p # Net
    BY <1>1, <1>3, <2>2, Names DEF LifeInv, XdpInv
  <2> QED
    BY <2>1, <2>2
<1> QED
  BY <1>3, <1>4, <1>5

(* updatePluginStatus: m.mu is taken, and given back with the change sent. *)
LEMMA StatusPlugs ==
  ASSUME LifeInv, NEW p \in Plugin, UpdateStatus(p) \/ SendStatus(p)
  PROVE  StageInv' /\ HeldInv' /\ XdpInv'
<1>1. CASE UpdateStatus(p)
  <2>1. ppc[p] \in {"failed", "ended", "recovered"} /\ mu' = p
        /\ UNCHANGED <<ppc, held, xdp, name, route, core>>
    BY <1>1 DEF UpdateStatus, pluginVars
  <2> QED
    BY <2>1, Names DEF LifeInv, StageInv, HeldInv, XdpInv
<1>2. CASE SendStatus(p)
  <2>1. /\ mu = p /\ mu' = Nobody /\ UNCHANGED <<held, xdp, name, route, core>>
        /\ At(p, IF ppc[p] = "failed" THEN "ended" ELSE "done")
    BY <1>2 DEF SendStatus
  <2>2. ppc[p] \in {"failed", "ended", "recovered"} /\ core # "connect"
        /\ ppc \in [Plugin -> PluginPC]
    BY <2>1, Names DEF LifeInv, StageInv
  <2>3. PICK l \in {"ended", "done"} : ppc' = [ppc EXCEPT ![p] = l]
    BY <2>1 DEF At
  <2>4. /\ \A q \in Plugin : q # p => ppc'[q] = ppc[q]
        /\ ppc'[p] = l /\ ppc' \in [Plugin -> PluginPC]
    BY <2>2, <2>3 DEF PluginPC
  <2>5. StageInv'
    BY <2>1, <2>2, <2>4, Names DEF LifeInv, StageInv
  <2>6. HeldInv'
    BY <2>1, <2>2, <2>4, Names DEF LifeInv, HeldInv, Past
  <2>7. XdpInv'
    BY <2>1, <2>2, <2>4, Names DEF LifeInv, XdpInv, Past
  <2> QED
    BY <2>5, <2>6, <2>7
<1> QED
  BY <1>1, <1>2

(* The process is killed: the kernel detaches what it held. *)
LEMMA CrashPlugs ==
  ASSUME LifeInv, Crash
  PROVE  StageInv' /\ HeldInv' /\ XdpInv'
<1>1. /\ ppc' = [p \in Plugin |-> "off"] /\ held' = [p \in Tracer |-> {}]
      /\ xdp' = {} /\ mu' = Nobody /\ UNCHANGED <<name, route>>
  BY DEF Crash, AllOff, NoneHeld
<1>2. \A p \in Plugin : ppc'[p] = "off"
  BY <1>1
<1>3. ppc' \in [Plugin -> PluginPC]
  BY <1>1 DEF PluginPC
<1>4. StageInv'
  BY <1>1, <1>2, <1>3 DEF StageInv
<1>5. HeldInv'
  BY <1>1 DEF HeldInv
<1>6. XdpInv'
  BY <1>1, <1>2, Names DEF LifeInv, XdpInv, Past
<1> QED
  BY <1>4, <1>5, <1>6

(* All steps: plugins, links and interfaces. *)
LEMMA PlugsStep ==
  ASSUME LifeInv, Next
  PROVE  StageInv' /\ HeldInv' /\ XdpInv'
<1>1. CASE \/ PollInit \/ Sleep \/ Open \/ StopPlugins \/ CloseOut \/ Drained
           \/ DrainTimeout \/ ConsumerStopped \/ CloseAll \/ InitDeadline \/ Signal \/ Exit
  <2>1. UNCHANGED PlugVars /\ core' # "connect"
    BY <1>1 DEF PollInit, Sleep, Open, StopPlugins, CloseOut, Drained, DrainTimeout, ConsumerStopped, CloseAll,
                InitDeadline, Signal, Exit, PlugVars, pluginVars, statusVars
  <2> QED
    BY <2>1, PlugsQuiet
<1>2. CASE \/ ListenerRuns \/ PollWrite \/ DriverTake \/ DriverEnd \/ ConsumerFails
           \/ ConsumerEnd \/ Persist \/ Exited
  <2>1. UNCHANGED PlugVars /\ core' = core
    BY <1>2 DEF ListenerRuns, ReceiveStatus, NoteStatus, PollWrite, DriverTake, DriverEnd,
                ConsumerFails, ConsumerEnd, Persist, PersistCreate, PersistEncode, PersistRename, PersistFail, Exited,
                PlugVars, vars, pluginVars, statusVars
  <2> QED
    BY <2>1, PlugsQuiet
<1>3. CASE Connect
  BY <1>3, ConnectPlugs
<1>4. CASE RouteChange
  <2>1. UNCHANGED <<ppc, held, xdp, name, mu, core>> /\ route' \in Iface
    BY <1>4 DEF RouteChange, statusVars
  <2> QED
    BY <2>1 DEF LifeInv, StageInv, HeldInv, XdpInv
<1>5. CASE Crash
  BY <1>5, CrashPlugs
<1>6. ASSUME NEW p \in Plugin,
             PluginRuns(p) \/ PollRead(p) \/ (Running /\ (Reattach(p) \/ Tick(p)))
      PROVE  StageInv' /\ HeldInv' /\ XdpInv'
  <2>1. CASE p \in Tracer /\ InitOk(p)
    BY <2>1, InitOkPlugs
  <2>2. CASE p \in Tracer /\ InitFail(p)
    BY <2>2, InitFailPlugs
  <2>3. CASE Reattach(p) \/ (p \in Tracer /\ ReattachEnd(p))
    BY <2>3, ReattachPlugs
  <2>4. CASE Send(p)
    <3>1. /\ ppc[p] = "send" /\ UNCHANGED <<held, xdp, name, route, mu, core>>
          /\ At(p, "panic") \/ At(p, "run")
      BY <2>4 DEF Send, statusVars
    <3> QED
      BY <3>1, RunningMove
  <2>5. CASE StopSeen(p) \/ Tick(p)
    <3>1. /\ ppc[p] = "run" /\ UNCHANGED <<held, xdp, name, route, mu, core>>
          /\ At(p, "close") \/ At(p, "send")
      BY <2>5 DEF StopSeen, Tick, statusVars
    <3> QED
      BY <3>1, RunningMove
  <2>6. CASE CloseCollector(p)
    BY <2>6, ClosePlugs
  <2>7. CASE UpdateStatus(p) \/ SendStatus(p)
    BY <2>7, StatusPlugs
  <2>8. CASE PollRead(p)
    <3>1. UNCHANGED PlugVars /\ core' = core
      BY <2>8 DEF PollRead, PlugVars, pluginVars
    <3> QED
      BY <3>1, PlugsQuiet
  <2> QED
    BY <1>6, <2>1, <2>2, <2>3, <2>4, <2>5, <2>6, <2>7, <2>8 DEF PluginRuns
<1> QED
  BY <1>1, <1>2, <1>3, <1>4, <1>5, <1>6 DEF Next, CoreRuns

-----------------------------------------------------------------------------
(* The state manager. *)

FileVars == <<errors, saving, cancelled, tmp, file, loadFailed, extra>>

(* At most an error is recorded, and it counts as a disturbance. *)
Counts ==
  /\ extra' <= MaxExtra
  /\ \/ errors' = errors /\ (extra' = extra \/ extra' = extra + 1)
     \/ errors' = errors + 1 /\ extra' = extra + 1

(* A step that leaves the files alone. *)
LEMMA FileQuiet ==
  ASSUME LifeInv, UNCHANGED <<saving, tmp, file, loadFailed>>,
         cancelled' \in BOOLEAN, Counts
  PROVE  FileInv'
<1>1. /\ extra \in 0 .. MaxExtra /\ errors \in Nat /\ MaxExtra \in Nat
      /\ file \in Int /\ tmp \in Int /\ errors <= extra + 1 /\ file <= extra + 1
  BY LifeAssumption DEF LifeInv, FileInv, NoFile, Partial
<1>2. /\ errors' \in Nat /\ errors' >= errors /\ errors' <= extra' + 1
      /\ extra' \in 0 .. MaxExtra /\ file <= extra' + 1
  BY <1>1 DEF Counts
<1>3. loadFailed' \in BOOLEAN
  BY Zenon DEF LifeInv, FileInv
<1>4. loadFailed' = FALSE => file' <= errors'
  BY <1>1, <1>2 DEF LifeInv, FileInv
<1>5. saving'.at = "rename" =>
        tmp' \in Nat /\ tmp' <= errors' /\ (loadFailed' = FALSE => file' <= tmp')
  BY <1>1, <1>2 DEF LifeInv, FileInv
<1> QED
  BY <1>2, <1>3, <1>4, <1>5 DEF LifeInv, FileInv

(* A step that is none of the state manager's. *)
LEMMA StateQuiet ==
  ASSUME LifeInv, UNCHANGED FileVars
  PROVE  FileInv'
BY DEF LifeInv, FileInv, FileVars

(* A disturbance, and an error that may be recorded. *)
LEMMA CountsExtra ==
  ASSUME LifeInv
  PROVE  /\ MayRecordError => Counts
         /\ \A k : Extra(k) /\ errors' = errors => Counts
<1>1. extra \in 0 .. MaxExtra /\ MaxExtra \in Nat /\ errors \in Nat
  BY LifeAssumption DEF LifeInv, FileInv
<1> QED
  BY <1>1 DEF MayRecordError, Extra, Counts

(* persistState, each of its steps. *)
LEMMA PersistState ==
  ASSUME LifeInv, Persist
  PROVE  FileInv'
<1>1. /\ extra \in 0 .. MaxExtra /\ MaxExtra \in Nat /\ errors \in Nat
      /\ file \in Int /\ tmp \in Int /\ errors <= extra + 1 /\ file <= extra + 1
      /\ file \in Nat \cup {NoFile}
      /\ saving \in [at : {"idle", "encode", "rename", "ended"}, last : BOOLEAN]
  BY LifeAssumption DEF LifeInv, FileInv, NoFile, Partial
<1>2. /\ loadFailed \in BOOLEAN /\ cancelled \in BOOLEAN
      /\ loadFailed' = loadFailed /\ cancelled' = cancelled /\ errors' = errors
  BY Zenon DEF LifeInv, FileInv, Persist, PersistCreate, PersistEncode, PersistRename, PersistFail
<1>3. loadFailed' \in BOOLEAN /\ cancelled' \in BOOLEAN
  BY <1>2, Zenon
<1>4. CASE PersistCreate
  <2>1. file' = file /\ tmp' = Partial
        /\ extra' <= MaxExtra /\ (extra' = extra \/ extra' = extra + 1)
        /\ \/ saving' = [at |-> "encode", last |-> FALSE]
           \/ saving' = [at |-> "encode", last |-> TRUE]
    BY <1>1, <1>4 DEF PersistCreate, PersistStarts, Extra
  <2>2. /\ saving' \in [at : {"idle", "encode", "rename", "ended"}, last : BOOLEAN]
        /\ saving'.at = "encode"
    <3>1. CASE saving' = [at |-> "encode", last |-> FALSE]
      BY <3>1
    <3>2. CASE saving' = [at |-> "encode", last |-> TRUE]
      BY <3>2
    <3> QED
      BY <2>1, <3>1, <3>2
  <2>3. loadFailed' = FALSE => file' <= errors'
    BY <1>2, <2>1 DEF LifeInv, FileInv
  <2>4. /\ extra' \in 0 .. MaxExtra /\ errors' \in Nat /\ errors' <= extra' + 1
        /\ file' \in Nat \cup {NoFile} /\ file' <= extra' + 1
    BY <1>1, <1>2, <2>1
  <2> QED
    BY <1>3, <2>1, <2>2, <2>3, <2>4 DEF FileInv
<1>5. CASE PersistEncode
  <2>1. /\ file' = file /\ tmp' = errors /\ extra' = extra
        /\ saving' = [saving EXCEPT !.at = "rename"]
    BY <1>5 DEF PersistEncode, planVars
  <2>2. saving' \in [at : {"idle", "encode", "rename", "ended"}, last : BOOLEAN]
    BY <1>1, <2>1
  <2> QED
    BY <1>1, <1>2, <1>3, <2>1, <2>2 DEF LifeInv, FileInv
<1>6. ASSUME PersistEnd
      PROVE  /\ saving' \in [at : {"idle", "encode", "rename", "ended"}, last : BOOLEAN]
             /\ saving'.at # "rename"
  <2>1. CASE saving.last
    BY <1>1, <1>6, <2>1 DEF PersistEnd
  <2>2. CASE ~saving.last
    BY <1>1, <1>6, <2>2 DEF PersistEnd, Idle
  <2> QED
    BY <2>1, <2>2
<1>7. CASE PersistRename
  <2>1. file' = tmp /\ tmp' = NoFile /\ saving.at = "rename" /\ PersistEnd /\ extra' = extra
    BY <1>7 DEF PersistRename, planVars
  <2>2. tmp \in Nat /\ tmp <= errors
    BY <2>1 DEF LifeInv, FileInv
  <2> QED
    BY <1>1, <1>2, <1>3, <1>6, <2>1, <2>2 DEF LifeInv, FileInv
<1>8. CASE PersistFail
  <2>1. file' = file /\ tmp' = tmp /\ PersistEnd /\ extra' = extra
    BY <1>8 DEF PersistFail, planVars
  <2> QED
    BY <1>1, <1>2, <1>3, <1>6, <2>1 DEF LifeInv, FileInv
<1> QED
  BY <1>4, <1>5, <1>7, <1>8 DEF Persist

(* loadState at the next start. *)
LEMMA CrashState ==
  ASSUME LifeInv, Crash
  PROVE  FileInv'
<1>1. /\ extra \in 0 .. MaxExtra /\ MaxExtra \in Nat
      /\ file \in Nat \cup {NoFile} /\ file <= extra + 1
  BY LifeAssumption DEF LifeInv, FileInv
<1>2. /\ file' = file /\ tmp' = tmp /\ saving' = Idle /\ cancelled' = FALSE
      /\ extra' = extra + 1 /\ extra' <= MaxExtra
  BY <1>1 DEF Crash, Extra
<1>3. PICK openable \in BOOLEAN :
        LET f == IF openable THEN file ELSE NoFile
        IN /\ errors' = Count(f) /\ loadFailed' = (loadFailed \/ f # file)
  BY Zenon DEF Crash
<1>4. CASE openable
  <2>1. errors' = Count(file) /\ loadFailed' = loadFailed
    <3>1. loadFailed \in BOOLEAN
      BY Zenon DEF LifeInv, FileInv
    <3> QED
      BY <1>3, <1>4, <3>1, Zenon
  <2>2. loadFailed' \in BOOLEAN
    BY <2>1, Zenon DEF LifeInv, FileInv
  <2>3. errors' \in Nat /\ errors' <= extra' + 1 /\ file <= errors'
    BY <1>1, <1>2, <2>1 DEF Count, NoFile
  <2>4. /\ extra' \in 0 .. MaxExtra /\ file' \in Nat \cup {NoFile} /\ file' <= extra' + 1
        /\ tmp' \in (0 .. MaxExtra + 1) \cup {NoFile, Partial}
    BY <1>1, <1>2 DEF LifeInv, FileInv, NoFile
  <2>5. /\ saving' \in [at : {"idle", "encode", "rename", "ended"}, last : BOOLEAN]
        /\ saving'.at # "rename" /\ cancelled' \in BOOLEAN
    BY <1>2 DEF Idle
  <2>6. loadFailed' = FALSE => file' <= errors'
    BY <1>2, <2>3
  <2> QED
    BY <2>2, <2>3, <2>4, <2>5, <2>6 DEF FileInv
<1>5. CASE ~openable
  <2>1. errors' = Count(NoFile) /\ loadFailed' = (loadFailed \/ NoFile # file)
    BY <1>3, <1>5, Zenon
  <2>2. loadFailed' \in BOOLEAN
    BY <2>1, Zenon
  <2>3. errors' = 0
    BY <2>1 DEF Count, NoFile
  <2>4. loadFailed' = FALSE => file = NoFile
    BY <2>1, Zenon
  <2>5. /\ extra' \in 0 .. MaxExtra /\ file' \in Nat \cup {NoFile} /\ file' <= extra' + 1
        /\ tmp' \in (0 .. MaxExtra + 1) \cup {NoFile, Partial}
        /\ errors' \in Nat /\ errors' <= extra' + 1
    BY <1>1, <1>2, <2>3 DEF LifeInv, FileInv, NoFile
  <2>6. /\ saving' \in [at : {"idle", "encode", "rename", "ended"}, last : BOOLEAN]
        /\ saving'.at # "rename" /\ cancelled' \in BOOLEAN
    BY <1>2 DEF Idle
  <2>7. loadFailed' = FALSE => file' <= errors'
    BY <1>2, <2>3, <2>4 DEF NoFile
  <2> QED
    BY <2>2, <2>5, <2>6, <2>7 DEF FileInv
<1> QED
  BY <1>4, <1>5

(* All steps: the state file. *)
LEMMA FileStep ==
  ASSUME LifeInv, Next
  PROVE  FileInv'
<1>1. CASE Connect \/ Open \/ DriverTake \/ DriverEnd \/ ConsumerFails
  <2>1. /\ UNCHANGED <<saving, cancelled, tmp, file, loadFailed>> /\ MayRecordError
    BY <1>1 DEF Connect, Open, DriverTake, DriverEnd, ConsumerFails, MayRecordError
  <2>2. cancelled' \in BOOLEAN
    BY <2>1, Zenon DEF LifeInv, FileInv
  <2> QED
    BY <2>1, <2>2, FileQuiet, CountsExtra
<1>2. CASE \/ PollInit \/ Sleep \/ StopPlugins \/ CloseOut \/ Drained
           \/ DrainTimeout \/ ConsumerStopped \/ InitDeadline \/ Signal \/ Exit
           \/ ListenerRuns \/ PollWrite \/ ConsumerEnd \/ Exited
  <2>1. UNCHANGED FileVars
    BY <1>2 DEF PollInit, Sleep, StopPlugins, CloseOut, Drained, DrainTimeout, ConsumerStopped,
                InitDeadline, Signal, Exit, ListenerRuns, ReceiveStatus, NoteStatus, PollWrite,
                ConsumerEnd, Exited, vars, FileVars, stateVars, planVars
  <2> QED
    BY <2>1, StateQuiet
<1>3. CASE CloseAll
  <2>1. /\ UNCHANGED <<saving, tmp, file, loadFailed>> /\ cancelled' = TRUE
        /\ errors' = errors /\ extra' = extra
    BY <1>3 DEF CloseAll, planVars
  <2>2. Counts
    BY <2>1, LifeAssumption DEF LifeInv, FileInv, Counts
  <2> QED
    BY <2>1, <2>2, FileQuiet
<1>4. CASE RouteChange
  <2>1. UNCHANGED <<saving, cancelled, tmp, file, loadFailed, errors>> /\ Extra("route")
    BY <1>4 DEF RouteChange, stateVars
  <2>2. cancelled' \in BOOLEAN
    BY <2>1, Zenon DEF LifeInv, FileInv
  <2> QED
    BY <2>1, <2>2, FileQuiet, CountsExtra
<1>5. CASE Persist
  BY <1>5, PersistState
<1>6. CASE Crash
  BY <1>6, CrashState
<1>7. ASSUME NEW p \in Plugin,
             PluginRuns(p) \/ PollRead(p) \/ (Running /\ (Reattach(p) \/ Tick(p)))
      PROVE  FileInv'
  <2>1. CASE PluginRuns(p) \/ PollRead(p) \/ Reattach(p)
    <3>1. UNCHANGED FileVars
      BY <2>1 DEF PluginRuns, InitOk, InitFail, ReattachEnd, Send, StopSeen, CloseCollector,
                  UpdateStatus, SendStatus, PollRead, Reattach, FileVars, stateVars, planVars
    <3> QED
      BY <3>1, StateQuiet
  <2>2. CASE Tick(p)
    <3>1. UNCHANGED <<saving, cancelled, tmp, file, loadFailed, errors>> /\ Extra("tick")
      BY <2>2 DEF Tick, stateVars
    <3>2. cancelled' \in BOOLEAN
      BY <3>1, Zenon DEF LifeInv, FileInv
    <3> QED
      BY <3>1, <3>2, FileQuiet, CountsExtra
  <2> QED
    BY <1>7, <2>1, <2>2
<1> QED
  BY <1>1, <1>2, <1>3, <1>4, <1>5, <1>6, <1>7 DEF Next, CoreRuns

-----------------------------------------------------------------------------
(* The manager's and the state manager's statuses. *)
LEMMA StatusStep ==
  ASSUME LifeInv, Next
  PROVE  StatusInv'
<1>1. CASE UNCHANGED <<status, changes, note, poll, smStatus>>
  BY <1>1 DEF LifeInv, StatusInv
<1>2. CASE ReceiveStatus
  <2>1. /\ changes # << >> /\ note' = Head(changes) /\ changes' = Tail(changes)
        /\ UNCHANGED <<status, poll, smStatus>>
    BY <1>2 DEF ReceiveStatus
  <2>2. changes \in Seq(Plugin \X Status) /\ Len(changes) <= StatusCap
    BY DEF LifeInv, StatusInv
  <2>3. /\ note' \in Plugin \X Status /\ changes' \in Seq(Plugin \X Status)
        /\ Len(changes') <= StatusCap
    BY <2>1, <2>2, LifeAssumption
  <2> QED
    BY <2>1, <2>3 DEF LifeInv, StatusInv
<1>3. CASE NoteStatus
  <2>1. /\ note \in Plugin \X Status /\ note' = None
        /\ smStatus' = [smStatus EXCEPT ![note[1]] = note[2]]
        /\ UNCHANGED <<status, changes, poll>>
    BY <1>3 DEF NoteStatus, LifeInv, StatusInv
  <2> QED
    BY <2>1 DEF LifeInv, StatusInv
<1>4. CASE PollWrite
  <2>1. /\ poll \in Plugin \X Status /\ poll' = None
        /\ smStatus' = [smStatus EXCEPT ![poll[1]] = poll[2]]
        /\ UNCHANGED <<status, changes, note>>
    BY <1>4 DEF PollWrite, LifeInv, StatusInv
  <2> QED
    BY <2>1 DEF LifeInv, StatusInv
<1>5. CASE Crash
  <2>1. /\ status' = AllStopped /\ changes' = << >> /\ note' = None /\ poll' = None
        /\ smStatus' \in [Plugin -> Status]
    BY <1>5 DEF Crash, Loaded
  <2>2. status' \in [Plugin -> Status]
    BY <2>1 DEF AllStopped, Status
  <2> QED
    BY <2>1, <2>2, LifeAssumption DEF StatusInv
<1>6. ASSUME NEW p \in Plugin, UpdateStatus(p)
      PROVE  StatusInv'
  <2>1. /\ status' = [status EXCEPT ![p] = IF ppc[p] = "ended" THEN "stopped" ELSE "error"]
        /\ UNCHANGED <<changes, note, poll, smStatus>>
    BY <1>6 DEF UpdateStatus
  <2> QED
    BY <2>1 DEF LifeInv, StatusInv, Status
<1>7. ASSUME NEW p \in Plugin, SendStatus(p)
      PROVE  StatusInv'
  <2>1. /\ Len(changes) < StatusCap /\ changes' = Append(changes, <<p, status[p]>>)
        /\ UNCHANGED <<status, note, poll, smStatus>>
    BY <1>7 DEF SendStatus
  <2>2. changes \in Seq(Plugin \X Status) /\ <<p, status[p]>> \in Plugin \X Status
    BY DEF LifeInv, StatusInv
  <2>3. changes' \in Seq(Plugin \X Status) /\ Len(changes') <= StatusCap
    BY <2>1, <2>2, LifeAssumption
  <2> QED
    BY <2>1, <2>3 DEF LifeInv, StatusInv
<1>8. ASSUME NEW p \in Plugin, PollRead(p)
      PROVE  StatusInv'
  <2>1. poll' = <<p, status[p]>> /\ UNCHANGED <<status, changes, note, smStatus>>
    BY <1>8 DEF PollRead
  <2> QED
    BY <2>1 DEF LifeInv, StatusInv
<1>9. CASE \/ CoreRuns \/ InitDeadline \/ Signal \/ Exit \/ DriverTake \/ DriverEnd
           \/ ConsumerFails \/ ConsumerEnd \/ RouteChange \/ Persist \/ Exited
  <2>1. UNCHANGED statusVars
    BY <1>9 DEF CoreRuns, Connect, PollInit, Sleep, Open, StopPlugins, CloseOut, Drained,
                DrainTimeout, ConsumerStopped, CloseAll, InitDeadline, Signal, Exit, DriverTake, DriverEnd,
                ConsumerFails, ConsumerEnd, RouteChange, Persist, PersistCreate, PersistEncode, PersistRename, PersistFail,
                Exited, vars
  <2> QED
    BY <1>1, <2>1 DEF statusVars
<1>10. ASSUME NEW p \in Plugin,
              \/ InitOk(p) \/ InitFail(p) \/ ReattachEnd(p) \/ Send(p) \/ StopSeen(p)
              \/ CloseCollector(p) \/ Reattach(p) \/ Tick(p)
       PROVE  StatusInv'
  <2>1. UNCHANGED statusVars
    BY <1>10 DEF InitOk, InitFail, ReattachEnd, Send, StopSeen, CloseCollector, Reattach, Tick
  <2> QED
    BY <1>1, <2>1 DEF statusVars
<1> QED
  BY <1>2, <1>3, <1>4, <1>5, <1>6, <1>7, <1>8, <1>9, <1>10
  DEF Next, ListenerRuns, PluginRuns

(* Core.Run, the channel of events and the driver. *)
LEMMA CoreStep ==
  ASSUME LifeInv, Next
  PROVE  CoreInv'
<1>1. ASSUME stopped' \in {stopped, TRUE, FALSE}, closed' \in {closed, TRUE, FALSE}, plan' = plan,
             core' \in CorePC, out' \in 0 .. OutCap, driver' \in {"off", "run", "done"},
             consumer' \in {"off", "run", "stop", "done"}
      PROVE  CoreInv'
  <2>1. stopped' \in BOOLEAN /\ closed' \in BOOLEAN
    BY <1>1, Zenon DEF LifeInv, CoreInv
  <2> QED
    BY <1>1, <2>1 DEF LifeInv, CoreInv
<1>2. /\ core \in CorePC /\ out \in 0 .. OutCap /\ driver \in {"off", "run", "done"} /\ OutCap \in Nat
      /\ consumer \in {"off", "run", "stop", "done"}
  BY LifeAssumption DEF LifeInv, CoreInv
<1>3. CASE CoreRuns \/ InitDeadline \/ Signal \/ Exit
  <2>1. /\ plan' = plan /\ out' = out /\ core' \in CorePC /\ driver' \in {driver, "run"}
        /\ consumer' \in {consumer, "off", "run", "stop"}
        /\ stopped' \in {stopped, TRUE} /\ closed' \in {closed, TRUE}
    <3>1. /\ plan' = plan /\ out' = out /\ core' \in CorePC /\ driver' \in {driver, "run"}
          /\ consumer' \in {consumer, "off", "run", "stop"}
      BY <1>3 DEF CoreRuns, Connect, PollInit, Sleep, Open, StopPlugins, CloseOut, Drained,
                  DrainTimeout, ConsumerStopped, CloseAll, InitDeadline, Signal, Exit, chanVars, planVars, pipeVars,
                  CorePC
    <3>2. stopped' \in {stopped, TRUE} /\ closed' \in {closed, TRUE}
      BY <1>3, Zenon
         DEF CoreRuns, Connect, PollInit, Sleep, Open, StopPlugins, CloseOut, Drained,
             DrainTimeout, ConsumerStopped, CloseAll, InitDeadline, Signal, Exit, chanVars
    <3> QED
      BY <3>1, <3>2, Zenon
  <2> QED
    BY <1>1, <1>2, <2>1
<1>4. CASE DriverTake \/ DriverEnd \/ ConsumerFails \/ ConsumerEnd
  <2>1. /\ plan' = plan /\ core' = core /\ stopped' = stopped /\ closed' = closed
        /\ driver' \in {driver, "done"} /\ consumer' \in {consumer, "done"}
        /\ out' = out \/ (out > 0 /\ out' = out - 1)
    BY <1>4 DEF DriverTake, DriverEnd, ConsumerFails, ConsumerEnd, chanVars, planVars, pipeVars
  <2>2. out' \in 0 .. OutCap
    BY <1>2, <2>1
  <2> QED
    BY <1>1, <1>2, <2>1, <2>2
<1>5. CASE RouteChange \/ Persist \/ Exited \/ ListenerRuns \/ PollWrite
  <2>1. /\ plan' = plan /\ core' = core /\ stopped' = stopped /\ closed' = closed
        /\ driver' = driver /\ consumer' = consumer /\ out' = out
    BY <1>5 DEF RouteChange, Persist, PersistCreate, PersistEncode, PersistRename, PersistFail,
                Exited, vars, ListenerRuns, ReceiveStatus, NoteStatus, PollWrite, chanVars, planVars,
                pipeVars
  <2> QED
    BY <1>1, <1>2, <2>1
<1>6. CASE Crash
  <2>1. /\ plan' = plan /\ core' = "connect" /\ stopped' = FALSE /\ closed' = FALSE
        /\ driver' = "off" /\ consumer' = "off" /\ out' = 0
    BY <1>6 DEF Crash
  <2>2. stopped' \in {stopped, TRUE, FALSE} /\ closed' \in {closed, TRUE, FALSE}
    BY <2>1, Zenon
  <2>3. /\ core' \in CorePC /\ out' \in 0 .. OutCap /\ driver' \in {"off", "run", "done"}
        /\ consumer' \in {"off", "run", "stop", "done"}
    BY <1>2, <2>1 DEF CorePC
  <2> QED
    BY <1>1, <2>1, <2>2, <2>3
<1>7. ASSUME NEW p \in Plugin, Send(p)
      PROVE  CoreInv'
  <2>1. /\ plan' = plan /\ core' = core /\ stopped' = stopped /\ closed' = closed
        /\ driver' = driver /\ consumer' = consumer
        /\ (out' = out \/ (out < OutCap /\ out' = out + 1))
    BY <1>7 DEF Send, planVars, pipeVars
  <2>2. out' \in 0 .. OutCap
    BY <1>2, <2>1
  <2> QED
    BY <1>1, <1>2, <2>1, <2>2
<1>8. ASSUME NEW p \in Plugin,
             \/ InitOk(p) \/ InitFail(p) \/ ReattachEnd(p) \/ StopSeen(p) \/ CloseCollector(p)
             \/ UpdateStatus(p) \/ SendStatus(p) \/ PollRead(p) \/ Reattach(p) \/ Tick(p)
      PROVE  CoreInv'
  <2>1. /\ plan' = plan /\ core' = core /\ stopped' = stopped /\ closed' = closed
        /\ driver' = driver /\ consumer' = consumer /\ out' = out
    BY <1>8 DEF InitOk, InitFail, ReattachEnd, StopSeen, CloseCollector, UpdateStatus,
                SendStatus, PollRead, Reattach, Tick, chanVars, planVars, pipeVars
  <2> QED
    BY <1>1, <1>2, <2>1
<1> QED
  BY <1>3, <1>4, <1>5, <1>6, <1>7, <1>8 DEF Next, PluginRuns

-----------------------------------------------------------------------------
(* LifeInv holds at the start and is kept by every step, kills at any      *)
(* moment included.                                                        *)
THEOREM Inductive == Spec => []LifeInv
<1>1. ASSUME Init
      PROVE  LifeInv
  <2>1. /\ core = "connect" /\ ppc = [p \in Plugin |-> "off"] /\ held = [p \in Tracer |-> {}]
        /\ xdp = {} /\ name = (CHOOSE i \in Iface : TRUE) /\ route = name /\ mu = Nobody
    BY <1>1 DEF Init, AllOff, NoneHeld
  <2>2. name \in Iface
    BY <2>1, LifeAssumption
  <2>3. \A p \in Plugin : ppc[p] = "off"
    BY <2>1
  <2>4. ppc \in [Plugin -> PluginPC]
    BY <2>1 DEF PluginPC
  <2>5. StageInv
    BY <2>1, <2>3, <2>4 DEF StageInv
  <2>6. HeldInv
    BY <2>1 DEF HeldInv
  <2>7. XdpInv
    BY <2>1, <2>2, <2>3, Names DEF XdpInv, Past
  <2>8. FileInv
    <3>1. /\ extra = 0 /\ tmp = NoFile /\ (file = 1 \/ file = NoFile) /\ errors = Count(file)
          /\ saving = Idle
      BY <1>1 DEF Init
    <3>2. cancelled \in BOOLEAN /\ loadFailed \in BOOLEAN
      BY <1>1, Zenon DEF Init
    <3>3. /\ errors \in Nat /\ errors <= extra + 1 /\ file \in Nat \cup {NoFile}
          /\ file <= extra + 1 /\ file <= errors
      BY <3>1 DEF Count, NoFile
    <3>4. /\ saving \in [at : {"idle", "encode", "rename", "ended"}, last : BOOLEAN]
          /\ saving.at # "rename"
      BY <3>1 DEF Idle
    <3> QED
      BY <3>1, <3>2, <3>3, <3>4, LifeAssumption DEF FileInv
  <2>9. StatusInv
    <3>1. /\ status = AllStopped /\ changes = << >> /\ note = None /\ poll = None
          /\ smStatus \in [Plugin -> Status]
      BY <1>1 DEF Init, Loaded
    <3>2. status \in [Plugin -> Status]
      BY <3>1 DEF AllStopped, Status
    <3> QED
      BY <3>1, <3>2, LifeAssumption DEF StatusInv
  <2>10. CoreInv
    <3>1. stopped \in BOOLEAN /\ closed \in BOOLEAN
      BY <1>1, Zenon DEF Init
    <3> QED
      BY <1>1, <3>1, LifeAssumption DEF Init, CoreInv, CorePC
  <2> QED
    BY <2>5, <2>6, <2>7, <2>8, <2>9, <2>10 DEF LifeInv
<1>2. ASSUME LifeInv, [Next]_vars
      PROVE  LifeInv'
  <2>1. CASE Next
    BY <1>2, <2>1, PlugsStep, FileStep, StatusStep, CoreStep DEF LifeInv
  <2>2. CASE UNCHANGED vars
    BY <1>2, <2>2 DEF LifeInv, StageInv, HeldInv, XdpInv, FileInv, StatusInv, CoreInv, vars,
                      pluginVars, statusVars, stateVars, chanVars, planVars, pipeVars
  <2> QED
    BY <1>2, <2>1, <2>2
<1> QED
  BY <1>1, <1>2, PTL DEF Spec

(* Type correctness: the counts stay in their bounds, the channels within  *)
(* their capacities and the collectors hold only what is theirs to close.  *)
THEOREM TypeCorrect == Spec => []TypeOK
<1>1. ASSUME LifeInv
      PROVE  TypeOK
  <2>1. {stopped, closed, cancelled, loadFailed} \subseteq BOOLEAN
    BY <1>1, Zenon DEF LifeInv, CoreInv, FileInv
  <2>2. errors \in 0 .. MaxExtra + 1 /\ file \in (0 .. MaxExtra + 1) \cup {NoFile}
    BY <1>1, LifeAssumption DEF LifeInv, FileInv
  <2> QED
    BY <1>1, <2>1, <2>2 DEF LifeInv, StageInv, HeldInv, XdpInv, FileInv, StatusInv, CoreInv, TypeOK
<1> QED
  BY <1>1, Inductive, PTL

(* AttachOK: a tracer past Run holds nothing, whichever step of its        *)
(* initialisation failed and however Run ended, and the XDP program is     *)
(* where the tracer says it is, twice only during a re-attachment.         *)
THEOREM NothingStaysAttached == Spec => []AttachOK
<1>1. ASSUME LifeInv
      PROVE  AttachOK
  <2>1. ASSUME ppc[Net] = "reattach"
        PROVE  name \in xdp /\ Cardinality(xdp) = 2
    <3>1. PICK i \in Iface : i # name /\ xdp = {i, name}
      BY <1>1, <2>1 DEF LifeInv, XdpInv
    <3>2. IsFiniteSet({i}) /\ Cardinality({i}) = 1
      BY FS_Singleton
    <3>3. Cardinality({i} \cup {name}) = 2
      BY <3>1, <3>2, FS_AddElement
    <3>4. xdp = {i} \cup {name}
      BY <3>1
    <3> QED
      BY <3>1, <3>3, <3>4
  <2> QED
    BY <1>1, <2>1 DEF LifeInv, HeldInv, XdpInv, AttachOK
<1> QED
  BY <1>1, Inductive, PTL

(* ErrorsKept: persistState replaces the state file only by a whole state  *)
(* with at least as many errors, unless a start could not open the file.   *)
THEOREM StateFileWhole == Spec => ErrorsKept
<1>1. ASSUME LifeInv, [Next]_vars
      PROVE  [loadFailed' \/ (file' \in Nat /\ file' >= file)]_file
  <2> SUFFICES ASSUME file' # file
               PROVE  loadFailed' \/ (file' \in Nat /\ file' >= file)
    OBVIOUS
  <2>1. PersistRename
    <3>1. Next
      BY <1>1 DEF vars, stateVars
    <3>2. ASSUME NEW p \in Plugin,
                 PluginRuns(p) \/ PollRead(p) \/ (Running /\ (Reattach(p) \/ Tick(p)))
          PROVE  FALSE
      BY <3>2 DEF PluginRuns, InitOk, InitFail, ReattachEnd, Send, StopSeen, CloseCollector,
                  UpdateStatus, SendStatus, PollRead, Reattach, Tick, stateVars
    <3>3. ~CoreRuns
      BY DEF CoreRuns, Connect, PollInit, Sleep, Open, StopPlugins, CloseOut, Drained,
             DrainTimeout, ConsumerStopped, CloseAll, stateVars
    <3>4. ~(\/ InitDeadline \/ Signal \/ Exit \/ ListenerRuns \/ PollWrite \/ DriverTake
            \/ DriverEnd \/ ConsumerFails \/ ConsumerEnd \/ RouteChange \/ Crash \/ Exited)
      BY DEF InitDeadline, Signal, Exit, ListenerRuns, ReceiveStatus, NoteStatus, PollWrite,
             DriverTake, DriverEnd, ConsumerFails, ConsumerEnd, RouteChange, Crash, Exited,
             vars, stateVars
    <3>5. Persist
      BY <3>1, <3>2, <3>3, <3>4 DEF Next
    <3> QED
      BY <3>5 DEF Persist, PersistCreate, PersistEncode, PersistFail
  <2>2. file' = tmp /\ saving.at = "rename"
    BY <2>1 DEF PersistRename
  <2>3. loadFailed' = loadFailed
    BY <2>1, Zenon DEF PersistRename
  <2>4. CASE loadFailed
    BY <2>3, <2>4, Zenon
  <2>5. CASE ~loadFailed
    <3>1. loadFailed = FALSE
      BY <1>1, <2>5, Zenon DEF LifeInv, FileInv
    <3>2. tmp \in Nat /\ file <= tmp
      BY <1>1, <2>2, <3>1 DEF LifeInv, FileInv
    <3>3. file' \in Nat /\ file' >= file
      BY <2>2, <3>2
    <3> QED
      BY <3>3
  <2> QED
    BY <2>4, <2>5
<1> QED
  BY <1>1, Inductive, PTL DEF ErrorsKept, Spec
=============================================================================
