------------------------------ MODULE Operator ------------------------------
(***************************************************************************)
(* The Kubernetes operator (controllers/konagent_controller.go): Reconcile *)
(* and everything it calls, for one KonAgent, with its ConfigMap and its   *)
(* DaemonSet.                                                              *)
(*                                                                         *)
(* Abstraction.  The fields of the spec are told apart by where they go:   *)
(* into the ConfigMap (cfg), into a part of the pod template that          *)
(* podTemplatesEqual compares (img) or into one it leaves out (place:      *)
(* nodeSelector and tolerations).  A field's value is the generation that  *)
(* last changed it, so the hash of the configuration is cfg itself.        *)
(* Instead of resourceVersions the model keeps which copies are out of     *)
(* date, which is all the API server's check tells apart.  The heartbeat   *)
(* and the list of plugins in the status are left out.                     *)
(*                                                                         *)
(* External, as Reconcile uses them: the API server, the informers' caches *)
(* and the work queue, the garbage collector, the DaemonSet controller.    *)
(***************************************************************************)
EXTENDS Naturals

CONSTANT MaxExtra   \* bound: edits, deletions, faults, restarts and the like

ASSUME OperatorAssumption == MaxExtra \in Nat

VARIABLES
  cr, cm, ds,   \* the objects at the API server
  cache,        \* the informers' copies
  stale,        \* the copies that are not the latest version
  pc,           \* where Reconcile is
  my,           \* its copy of the KonAgent
  up,           \* the DaemonSet status it was returned: all pods ready
  queued,       \* the key is in the work queue
  tampered,     \* history: somebody else deleted a child
  extra

vars == <<cr, cm, ds, cache, stale, pc, my, up, queued, tampered, extra>>
store == <<cr, cm, ds>>
reconciler == <<pc, my, up>>

NoCR == [there |-> FALSE, uid |-> 0, gen |-> 0, cfg |-> 0, img |-> 0, place |-> 0,
         fin |-> FALSE, deleting |-> FALSE, config |-> "unset", ready |-> "unset", obs |-> 0]
NoCM == [there |-> FALSE, owner |-> 0, cfg |-> 0]
NoTemplate == [hash |-> 0, img |-> 0, place |-> 0, volumes |-> "bare"]
NoDS == [there |-> FALSE, owner |-> 0, template |-> NoTemplate, up |-> FALSE]

Extra == extra < MaxExtra /\ extra' = extra + 1

(* A KonAgent as a user creates it. *)
Created(n) ==
  [NoCR EXCEPT !.there = TRUE, !.uid = n, !.gen = n, !.cfg = n, !.img = n, !.place = n]

Init ==
  /\ cr = Created(1) /\ cm = NoCM /\ ds = NoDS
  /\ cache = [cr |-> NoCR, cm |-> NoCM, ds |-> NoDS]
  /\ stale = {"cr"}
  /\ pc = "idle" /\ my = NoCR /\ up = FALSE
  /\ queued = FALSE /\ tampered = FALSE
  /\ extra = 0

-----------------------------------------------------------------------------
(* Users, and the parts of Kubernetes. *)

(* The number of the next generation. *)
NewGen == extra + 2

Edit ==
  /\ cr.there /\ ~cr.deleting
  /\ Extra
  /\ \E f \in {"cfg", "img", "place"} : cr' = [cr EXCEPT !.gen = NewGen, ![f] = NewGen]
  /\ stale' = stale \cup {"cr", "my"}
  /\ UNCHANGED <<cm, ds, cache, reconciler, queued, tampered>>

Delete ==
  /\ cr.there /\ ~cr.deleting
  /\ Extra
  /\ cr' = IF cr.fin THEN [cr EXCEPT !.deleting = TRUE] ELSE NoCR
  /\ stale' = stale \cup {"cr", "my"}
  /\ UNCHANGED <<cm, ds, cache, reconciler, queued, tampered>>

Recreate ==
  /\ ~cr.there
  /\ Extra
  /\ cr' = Created(NewGen)
  /\ stale' = stale \cup {"cr", "my"}
  /\ UNCHANGED <<cm, ds, cache, reconciler, queued, tampered>>

RemoveCM ==
  /\ cm.there
  /\ cm' = NoCM
  /\ stale' = stale \cup {"cm"}
  /\ UNCHANGED <<cr, ds, cache, reconciler, queued>>

RemoveDS ==
  /\ ds.there
  /\ ds' = NoDS
  /\ stale' = stale \cup {"ds"}
  /\ UNCHANGED <<cr, cm, cache, reconciler, queued>>

Tamper == Extra /\ tampered' = TRUE /\ (RemoveCM \/ RemoveDS)

(* A child whose owner is gone is deleted. *)
Orphan(o) == o.there /\ o.owner \notin {0, cr.uid}

Collect ==
  /\ (Orphan(cm) /\ RemoveCM) \/ (Orphan(ds) /\ RemoveDS)
  /\ tampered' = TRUE
  /\ UNCHANGED extra

PodsUp ==
  /\ ds.there /\ ~ds.up
  /\ ds' = [ds EXCEPT !.up = TRUE]
  /\ stale' = stale \cup {"ds"}
  /\ UNCHANGED <<cr, cm, cache, reconciler, queued, tampered, extra>>

PodsDown ==
  /\ ds.there /\ ds.up
  /\ Extra
  /\ ds' = [ds EXCEPT !.up = FALSE]
  /\ stale' = stale \cup {"ds"}
  /\ UNCHANGED <<cr, cm, cache, reconciler, queued, tampered>>

(* An informer catches up, and the change is put in the queue. *)
Sync(k) ==
  /\ k \in stale
  /\ cache' = [cache EXCEPT ![k] = CASE k = "cr" -> cr [] k = "cm" -> cm [] k = "ds" -> ds]
  /\ stale' = stale \ {k}
  /\ queued' = TRUE
  /\ UNCHANGED <<store, reconciler, tampered, extra>>

(* The operator is restarted: its caches are filled anew. *)
Restart ==
  /\ Extra
  /\ cache' = [cr |-> cr, cm |-> cm, ds |-> ds]
  /\ stale' = {}
  /\ pc' = "idle" /\ my' = NoCR /\ up' = FALSE
  /\ queued' = TRUE
  /\ UNCHANGED <<store, tampered>>

-----------------------------------------------------------------------------
(* Reconcile. *)

(* The end of a Reconcile, put back in the queue or not. *)
Return(again) ==
  /\ pc' = "idle" /\ my' = NoCR /\ up' = FALSE
  /\ queued' = (queued \/ again)

Goto(l) == pc' = l /\ UNCHANGED <<my, up, queued>>

(* A write at the API server: it is refused, or done; the call fails, or   *)
(* it is done and the answer is lost.                                      *)
Outcome == {"ok", "failed", "lost"}
Done(possible, o) == possible /\ o # "failed"
Replied(possible, o) == possible /\ o = "ok"
Fault(o) == IF o = "ok" THEN UNCHANGED extra ELSE Extra

(* r.Get of the KonAgent, and the branches that call nothing. *)
Get ==
  /\ pc = "idle" /\ queued
  /\ LET c == cache.cr
     IN IF ~c.there \/ (c.deleting /\ ~c.fin)
          THEN /\ queued' = FALSE
               /\ stale' = stale \ {"my"}
               /\ UNCHANGED reconciler
          ELSE /\ my' = c
               /\ pc' = CASE c.deleting -> "deleteCM"
                          [] ~c.deleting /\ ~c.fin -> "addFinalizer"
                          [] ~c.deleting /\ c.fin -> "ensureConfigMap"
               /\ up' = FALSE
               /\ queued' = FALSE
               /\ stale' = IF "cr" \in stale THEN stale \cup {"my"} ELSE stale \ {"my"}
  /\ UNCHANGED <<store, cache, tampered, extra>>

(* A write of the KonAgent with the resourceVersion of my. *)
WriteCR(new, o) ==
  LET changes == Done("my" \notin stale, o) /\ new # cr
  IN /\ cr' = IF changes THEN new ELSE cr
     /\ stale' = IF changes THEN stale \cup {"cr"} \cup (IF o = "lost" THEN {"my"} ELSE {})
                            ELSE stale

AddFinalizer ==
  /\ pc = "addFinalizer"
  /\ \E o \in Outcome :
       /\ Fault(o)
       /\ WriteCR([my EXCEPT !.fin = TRUE], o)
       /\ IF Replied("my" \notin stale, o)
            THEN /\ pc' = "ensureConfigMap" /\ my' = [my EXCEPT !.fin = TRUE]
                 /\ UNCHANGED <<up, queued>>
            ELSE Return(TRUE)
  /\ UNCHANGED <<cm, ds, cache, tampered>>

(* finalizeKonAgent: what the caches show is deleted. *)
DeleteCM ==
  /\ pc = "deleteCM"
  /\ \E o \in IF cache.cm.there THEN Outcome ELSE {"ok"} :
       /\ Fault(o)
       /\ IF cache.cm.there /\ Done(cm.there, o)
            THEN cm' = NoCM /\ stale' = stale \cup {"cm"}
            ELSE UNCHANGED <<cm, stale>>
       /\ IF ~cache.cm.there \/ Replied(cm.there, o) THEN Goto("deleteDS") ELSE Return(TRUE)
  /\ UNCHANGED <<cr, ds, cache, tampered>>

DeleteDS ==
  /\ pc = "deleteDS"
  /\ \E o \in IF cache.ds.there THEN Outcome ELSE {"ok"} :
       /\ Fault(o)
       /\ IF cache.ds.there /\ Done(ds.there, o)
            THEN ds' = NoDS /\ stale' = stale \cup {"ds"}
            ELSE UNCHANGED <<ds, stale>>
       /\ IF ~cache.ds.there \/ Replied(ds.there, o) THEN Goto("removeFinalizer")
                                                      ELSE Return(TRUE)
  /\ UNCHANGED <<cr, cm, cache, tampered>>

RemoveFinalizer ==
  /\ pc = "removeFinalizer"
  /\ \E o \in Outcome :
       /\ Fault(o)
       /\ WriteCR(NoCR, o)
       /\ Return(~Replied("my" \notin stale, o))
  /\ UNCHANGED <<cm, ds, cache, tampered>>

(* Mutant: the controller reference is not set. *)
PutCMUnowned ==
  IF cache.cm.there
    THEN [can |-> "cm" \notin stale, new |-> [cm EXCEPT !.cfg = my.cfg]]
    ELSE [can |-> ~cm.there, new |-> [there |-> TRUE, owner |-> 0, cfg |-> my.cfg]]

(* ensureConfigMap: create, update when the content differs, or leave. *)
PutCM ==
  IF cache.cm.there
    THEN [can |-> "cm" \notin stale, new |-> [cm EXCEPT !.cfg = my.cfg]]
    ELSE [can |-> ~cm.there, new |-> [there |-> TRUE, owner |-> my.uid, cfg |-> my.cfg]]

(* Mutant: Reconcile goes on after an error. *)
EnsureConfigMapBlind ==
  /\ pc = "ensureConfigMap"
  /\ \E o \in Outcome :
       /\ Fault(o)
       /\ IF Done(PutCM.can, o)
            THEN cm' = PutCM.new /\ stale' = stale \cup {"cm"}
            ELSE UNCHANGED <<cm, stale>>
  /\ Goto("configReady")
  /\ UNCHANGED <<cr, ds, cache, tampered>>

EnsureConfigMap ==
  /\ pc = "ensureConfigMap"
  /\ IF cache.cm.there /\ cache.cm.cfg = my.cfg
       THEN Goto("configReady") /\ UNCHANGED <<cm, stale, extra>>
       ELSE \E o \in Outcome :
              /\ Fault(o)
              /\ IF Done(PutCM.can, o)
                   THEN cm' = PutCM.new /\ stale' = stale \cup {"cm"}
                   ELSE UNCHANGED <<cm, stale>>
              /\ Goto(IF Replied(PutCM.can, o) THEN "configReady" ELSE "configFailed")
  /\ UNCHANGED <<cr, ds, cache, tampered>>

(* buildDaemonSet, and the default the API server gives to the mode of a   *)
(* ConfigMap volume.                                                       *)
buildDaemonSet == [hash |-> my.cfg, img |-> my.img, place |-> my.place, volumes |-> "bare"]

Defaulted(t) == [t EXCEPT !.volumes = "defaulted"]

(* Mutant: the volumes are not compared. *)
podTemplatesEqualButVolumes(existing, desired) ==
  existing.hash = desired.hash /\ existing.img = desired.img

podTemplatesEqual(existing, desired) ==
  /\ existing.hash = desired.hash
  /\ existing.img = desired.img
  /\ existing.volumes = desired.volumes

PutDS ==
  IF cache.ds.there
    THEN [can |-> "ds" \notin stale, new |-> [ds EXCEPT !.template = Defaulted(buildDaemonSet)]]
    ELSE [can |-> ~ds.there,
          new |-> [there |-> TRUE, owner |-> my.uid,
                   template |-> Defaulted(buildDaemonSet), up |-> FALSE]]

EnsureDaemonSet ==
  /\ pc = "ensureDaemonSet"
  /\ IF cache.ds.there /\ podTemplatesEqual(cache.ds.template, buildDaemonSet)
       THEN /\ pc' = "daemonSet" /\ up' = cache.ds.up
            /\ UNCHANGED <<ds, stale, my, queued, extra>>
       ELSE \E o \in Outcome :
              /\ Fault(o)
              /\ IF Done(PutDS.can, o) /\ PutDS.new # ds
                   THEN ds' = PutDS.new /\ stale' = stale \cup {"ds"}
                   ELSE UNCHANGED <<ds, stale>>
              /\ IF Replied(PutDS.can, o)
                   THEN pc' = "daemonSet" /\ up' = PutDS.new.up /\ UNCHANGED <<my, queued>>
                   ELSE Goto("daemonSetFailed")
  /\ UNCHANGED <<cr, cm, cache, tampered>>

(* updateStatus: my gets the condition, the error of the write is ignored. *)
UpdateStatus(cond, value) ==
  \E o \in Outcome :
    /\ Fault(o)
    /\ WriteCR([my EXCEPT ![cond] = value], o)

ConfigReady ==
  /\ pc = "configReady"
  /\ UpdateStatus("config", "true")
  /\ my' = [my EXCEPT !.config = "true"]
  /\ pc' = "ensureDaemonSet"
  /\ UNCHANGED <<cm, ds, cache, up, queued, tampered>>

(* Mutant: the error is not returned. *)
ConfigFailedQuietly ==
  /\ pc = "configFailed"
  /\ UpdateStatus("config", "false")
  /\ Return(FALSE)
  /\ UNCHANGED <<cm, ds, cache, tampered>>

ConfigFailed ==
  /\ pc = "configFailed"
  /\ UpdateStatus("config", "false")
  /\ Return(TRUE)
  /\ UNCHANGED <<cm, ds, cache, tampered>>

DaemonSetFailed ==
  /\ pc = "daemonSetFailed"
  /\ UpdateStatus("ready", "false")
  /\ Return(TRUE)
  /\ UNCHANGED <<cm, ds, cache, tampered>>

DaemonSetNotReady ==
  /\ pc = "daemonSet" /\ ~up
  /\ UpdateStatus("ready", "false")
  /\ Return(TRUE)
  /\ UNCHANGED <<cm, ds, cache, tampered>>

DaemonSetReady ==
  /\ pc = "daemonSet" /\ up
  /\ UpdateStatus("ready", "true")
  /\ my' = [my EXCEPT !.ready = "true", !.obs = my.gen]
  /\ pc' = "finish"
  /\ UNCHANGED <<cm, ds, cache, up, queued, tampered>>

Finish ==
  /\ pc = "finish"
  /\ \E o \in Outcome :
       /\ Fault(o)
       /\ WriteCR(my, o)
       /\ Return(~Replied("my" \notin stale, o))
  /\ UNCHANGED <<cm, ds, cache, tampered>>

-----------------------------------------------------------------------------
Reconcile ==
  \/ Get \/ AddFinalizer
  \/ DeleteCM \/ DeleteDS \/ RemoveFinalizer
  \/ EnsureConfigMap \/ ConfigReady \/ ConfigFailed
  \/ EnsureDaemonSet \/ DaemonSetFailed \/ DaemonSetNotReady \/ DaemonSetReady
  \/ Finish

Next ==
  \/ Edit \/ Delete \/ Recreate \/ Tamper
  \/ Collect \/ PodsUp \/ PodsDown
  \/ \E k \in {"cr", "cm", "ds"} : Sync(k)
  \/ Restart
  \/ Reconcile

(* The operator goes on, every change reaches its caches, the garbage      *)
(* collector and the pods' start are not put off for ever.                 *)
Fairness ==
  /\ WF_vars(Reconcile)
  /\ \A k \in {"cr", "cm", "ds"} : WF_vars(Sync(k))
  /\ WF_vars(Collect)
  /\ WF_vars(PodsUp)

Spec == Init /\ [][Next]_vars
FairSpec == Spec /\ Fairness

-----------------------------------------------------------------------------
(* The pods are never rolled for a configuration newer than the one in the *)
(* ConfigMap: they would start with the old one, and no later change of    *)
(* the hash would restart them.  (buildDaemonSet, "Rolling update          *)
(* trigger".)                                                              *)
HashNotAhead == ds.there /\ cm.there => ds.template.hash <= cm.cfg

Reflects(t, c) == t.hash = c.cfg /\ t.img = c.img /\ t.place = c.place

(* Reconcile reports a generation as observed only when it is the current  *)
(* one and the DaemonSet has it, placement included, unless somebody else  *)
(* deleted a child: stale caches, lost answers and edits in the middle of  *)
(* a Reconcile do not get an older or a half-applied one reported.         *)
ObservedApplied ==
  [][cr'.obs \notin {0, cr.obs} =>
       /\ cr'.obs = cr'.gen
       /\ tampered \/ (ds.there /\ Reflects(ds.template, cr'))]_cr

(* When users leave a KonAgent alone, its children come to be its own, to  *)
(* have its spec and to stay so, and its generation is reported, whatever  *)
(* failed, was deleted or was left over by an earlier KonAgent before.     *)
Settled ==
  /\ cm.there /\ cm.owner = cr.uid /\ cm.cfg = cr.cfg
  /\ ds.there /\ ds.owner = cr.uid /\ Reflects(ds.template, cr)
  /\ cr.obs = cr.gen

Converges == <>[](cr.there /\ ~cr.deleting) => <>[]Settled

(* A deleted KonAgent goes, and its children with it, although the         *)
(* finalizer deletes only what the caches show and a Reconcile in progress *)
(* may create a child after the deletion.                                  *)
Cleaned ==
  /\ cr.deleting ~> ~cr.deleting
  /\ <>[](~cr.there) => <>[](~cm.there /\ ~ds.there)
=============================================================================
