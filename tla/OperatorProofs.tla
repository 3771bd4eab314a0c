--------------------------- MODULE OperatorProofs ----------------------------
(***************************************************************************)
(* Proofs about Operator, for any number of edits, deletions, faults and   *)
(* restarts.                                                               *)
(***************************************************************************)
EXTENDS Operator, TLAPS

(* The types of the objects and of Reconcile's state. *)
Condition == {"unset", "true", "false"}
KonAgent == [there : BOOLEAN, uid : Nat, gen : Nat, cfg : Nat, img : Nat, place : Nat,
             fin : BOOLEAN, deleting : BOOLEAN, config : Condition, ready : Condition, obs : Nat]
ConfigMap == [there : BOOLEAN, owner : Nat, cfg : Nat]
Template == [hash : Nat, img : Nat, place : Nat, volumes : {"bare", "defaulted"}]
DaemonSet == [there : BOOLEAN, owner : Nat, template : Template, up : BOOLEAN]

TypeInv ==
  /\ cr \in KonAgent /\ cm \in ConfigMap /\ ds \in DaemonSet
  /\ cache \in [cr : KonAgent, cm : ConfigMap, ds : DaemonSet]
  /\ my \in KonAgent
  /\ extra \in Nat

(* What the API server's check of resourceVersions rests on: a copy that   *)
(* is not out of date is the object, and Reconcile's own copy differs from *)
(* it at most in the conditions and, at the end, in the generation it is   *)
(* about to report.                                                        *)
VersionInv ==
  /\ "cr" \notin stale => cache.cr = cr
  /\ "cm" \notin stale => cache.cm = cm
  /\ "ds" \notin stale => cache.ds = ds
  /\ pc # "idle" => my.there
  /\ pc # "idle" /\ "my" \notin stale =>
       /\ cr.there /\ cr.cfg = my.cfg
       /\ pc # "finish" => cr.obs = my.obs

(* Copies of the KonAgent are not ahead of it, and Reconcile's is not      *)
(* ahead of the cache's.                                                   *)
AgeInv ==
  /\ cr.there => cr.cfg <= extra + 1
  /\ cache.cr.there => cache.cr.cfg <= extra + 1
  /\ pc # "idle" => my.cfg <= extra + 1
  /\ cr.there /\ cache.cr.there => cache.cr.cfg <= cr.cfg
  /\ pc # "idle" /\ cache.cr.there => my.cfg <= cache.cr.cfg
  /\ pc # "idle" /\ cr.there => my.cfg <= cr.cfg

(* Configuration n is not newer than any KonAgent Reconcile has or can get. *)
NotNewer(n) ==
  /\ n <= extra + 1
  /\ cr.there => n <= cr.cfg
  /\ cache.cr.there => n <= cache.cr.cfg
  /\ pc # "idle" => n <= my.cfg

ChildInv ==
  /\ cm.there => NotNewer(cm.cfg)
  /\ cache.cm.there => NotNewer(cache.cm.cfg)
  /\ ds.there => NotNewer(ds.template.hash)
  /\ cache.cm.there /\ cm.there => cache.cm.cfg <= cm.cfg

(* Once ensureConfigMap has succeeded, the ConfigMap has Reconcile's       *)
(* configuration, or is gone.                                              *)
RollInv == pc \in {"configReady", "ensureDaemonSet"} /\ cm.there => cm.cfg = my.cfg

(* The API server has filled in the volumes of every DaemonSet, so none    *)
(* equals what buildDaemonSet returns, and every Reconcile writes its own. *)
VolumeInv ==
  /\ ds.there => ds.template.volumes = "defaulted"
  /\ cache.ds.there => cache.ds.template.volumes = "defaulted"

(* Behind ensureDaemonSet, the DaemonSet is what Reconcile's copy asks     *)
(* for, unless somebody else deleted a child.                              *)
AppliedInv ==
  /\ pc \in {"daemonSet", "finish"} =>
       tampered \/ (ds.there /\ Reflects(ds.template, my))
  /\ pc = "finish" => my.obs = my.gen

IInv == /\ TypeInv /\ VersionInv /\ AgeInv /\ ChildInv /\ RollInv /\ VolumeInv /\ AppliedInv
        /\ HashNotAhead

-----------------------------------------------------------------------------
(* The absent objects have the types of the objects. *)
LEMMA EmptyTypes == NoCR \in KonAgent /\ NoCM \in ConfigMap /\ NoDS \in DaemonSet
BY DEF NoCR, NoCM, NoDS, NoTemplate, KonAgent, ConfigMap, DaemonSet, Template, Condition

(* Every request, event and edit keeps the types. *)
LEMMA TypeStep == TypeInv /\ [Next]_vars => TypeInv'
<1> SUFFICES ASSUME TypeInv, [Next]_vars PROVE TypeInv'
  OBVIOUS
<1> USE EmptyTypes DEF TypeInv, store, reconciler, Extra
<1>1. CASE Edit
  <2>1. NewGen \in Nat
    BY DEF NewGen
  <2>2. cr' \in KonAgent
    <3>1. PICK f \in {"cfg", "img", "place"} : cr' = [cr EXCEPT !.gen = NewGen, ![f] = NewGen]
      BY <1>1 DEF Edit
    <3>2. cr \in KonAgent
      OBVIOUS
    <3> HIDE DEF TypeInv, NewGen
    <3>3. CASE f = "cfg"
      BY <2>1, <3>1, <3>2, <3>3 DEF KonAgent
    <3>4. CASE f = "img"
      BY <2>1, <3>1, <3>2, <3>4 DEF KonAgent
    <3>5. CASE f = "place"
      BY <2>1, <3>1, <3>2, <3>5 DEF KonAgent
    <3> QED
      BY <3>3, <3>4, <3>5
  <2> QED
    BY <1>1, <2>2 DEF Edit
<1>2. CASE Delete
  <2>1. [cr EXCEPT !.deleting = TRUE] \in KonAgent
    BY DEF KonAgent
  <2>2. cr' \in KonAgent
    BY <1>2, <2>1 DEF Delete
  <2> QED
    BY <1>2, <2>2 DEF Delete
<1>3. CASE Recreate
  <2>1. NewGen \in Nat
    BY DEF NewGen
  <2>2. cr' \in KonAgent
    BY <1>3, <2>1, ZenonT(60) DEF Recreate, Created, NoCR, KonAgent, Condition
  <2> QED
    BY <1>3, <2>2 DEF Recreate
<1>4. CASE Tamper \/ Collect
  BY <1>4 DEF Tamper, Collect, RemoveCM, RemoveDS
<1>5. CASE PodsUp \/ PodsDown
  <2>1. [ds EXCEPT !.up = TRUE] \in DaemonSet /\ [ds EXCEPT !.up = FALSE] \in DaemonSet
    BY DEF DaemonSet
  <2>2. ds' \in DaemonSet
    BY <1>5, <2>1 DEF PodsUp, PodsDown
  <2> QED
    BY <1>5, <2>2 DEF PodsUp, PodsDown
<1>6. ASSUME NEW k \in {"cr", "cm", "ds"}, Sync(k) PROVE TypeInv'
  BY <1>6 DEF Sync
<1>7. CASE Restart
  <2>1. cache' \in [cr : KonAgent, cm : ConfigMap, ds : DaemonSet]
    BY <1>7 DEF Restart
  <2> QED
    BY <1>7, <2>1 DEF Restart
<1>8. CASE Get
  BY <1>8 DEF Get
<1>9. CASE AddFinalizer
  <2>1. [my EXCEPT !.fin = TRUE] \in KonAgent
    BY DEF KonAgent
  <2>2. cr' \in KonAgent /\ extra' \in Nat
    BY <1>9, <2>1 DEF AddFinalizer, Fault, WriteCR
  <2>3. my' \in KonAgent
    BY <1>9, <2>1 DEF AddFinalizer, Return
  <2> QED
    BY <1>9, <2>2, <2>3 DEF AddFinalizer
<1>10. CASE DeleteCM \/ DeleteDS
  BY <1>10 DEF DeleteCM, DeleteDS, Fault, Goto, Return
<1>11. CASE RemoveFinalizer \/ Finish
  BY <1>11 DEF RemoveFinalizer, Finish, Fault, WriteCR, Return
<1>12. CASE EnsureConfigMap
  <2>1. PutCM.new \in ConfigMap
    BY DEF PutCM, ConfigMap, KonAgent
  <2> QED
    BY <1>12, <2>1 DEF EnsureConfigMap, Fault, Goto
<1>13. CASE EnsureDaemonSet
  <2>1. Defaulted(buildDaemonSet) \in Template
    BY DEF Defaulted, buildDaemonSet, Template, KonAgent
  <2>2. PutDS.new \in DaemonSet
    BY <2>1 DEF PutDS, DaemonSet, KonAgent
  <2> QED
    BY <1>13, <2>2 DEF EnsureDaemonSet, Fault, Goto
<1>14. ASSUME NEW c \in {"config", "ready"}, NEW v \in {"true", "false"}, UpdateStatus(c, v)
       PROVE  cr' \in KonAgent /\ extra' \in Nat
  <2>1. [my EXCEPT ![c] = v] \in KonAgent
    BY DEF KonAgent, Condition
  <2> QED
    BY <1>14, <2>1 DEF UpdateStatus, WriteCR, Fault
<1>15. CASE ConfigReady
  <2>1. [my EXCEPT !.config = "true"] \in KonAgent
    BY DEF KonAgent, Condition
  <2> QED
    BY <1>14, <1>15, <2>1 DEF ConfigReady
<1>16. CASE ConfigFailed \/ DaemonSetFailed \/ DaemonSetNotReady
  BY <1>14, <1>16 DEF ConfigFailed, DaemonSetFailed, DaemonSetNotReady, Return
<1>17. CASE DaemonSetReady
  <2>1. [my EXCEPT !.ready = "true", !.obs = my.gen] \in KonAgent
    BY DEF KonAgent, Condition
  <2> QED
    BY <1>14, <1>17, <2>1 DEF DaemonSetReady
<1>18. CASE UNCHANGED vars
  BY <1>18 DEF vars
<1> QED
  BY <1>1, <1>2, <1>3, <1>4, <1>5, <1>6, <1>7, <1>8, <1>9, <1>10, <1>11, <1>12, <1>13,
     <1>15, <1>16, <1>17, <1>18 DEF Next, Reconcile

-----------------------------------------------------------------------------
(* What a step may do to each object. *)

(* A write of the KonAgent leaves it alone, or replaces it when it is      *)
(* still the version Reconcile has read.                                   *)
LEMMA WriteEffect ==
  ASSUME NEW new, NEW o, WriteCR(new, o)
  PROVE  \/ cr' = cr /\ stale' = stale
         \/ /\ cr' = new /\ "my" \notin stale
            /\ "cr" \in stale' /\ stale \subseteq stale'
            /\ \A k \in {"cm", "ds"} : k \in stale' => k \in stale
BY DEF WriteCR, Done

(* updateStatus changes a condition of the KonAgent, or nothing. *)
LEMMA StatusEffect ==
  ASSUME TypeInv, NEW c \in {"config", "ready"}, NEW v \in {"true", "false"},
         UpdateStatus(c, v)
  PROVE  /\ \/ cr' = cr /\ stale' = stale
            \/ /\ "my" \notin stale /\ "cr" \in stale' /\ stale \subseteq stale'
               /\ \A k \in {"cm", "ds"} : k \in stale' => k \in stale
               /\ cr'.there = my.there /\ cr'.cfg = my.cfg /\ cr'.obs = my.obs
               /\ cr'.gen = my.gen
         /\ extra' \in {extra, extra + 1}
<1>1. PICK o \in Outcome : Fault(o) /\ WriteCR([my EXCEPT ![c] = v], o)
  BY DEF UpdateStatus
<1>2. extra' \in {extra, extra + 1}
  BY <1>1 DEF Fault, Extra
<1> DEFINE new == [my EXCEPT ![c] = v]
<1>3. new.there = my.there /\ new.cfg = my.cfg /\ new.obs = my.obs /\ new.gen = my.gen
  BY DEF TypeInv, KonAgent
<1>4. WriteCR(new, o)
  BY <1>1
<1> HIDE DEF new
<1> QED
  BY <1>2, <1>3, <1>4, WriteEffect

(* A copy that is not stale stays the object: whatever writes an object    *)
(* marks its copies.                                                       *)
LEMMA VersionStep == IInv /\ [Next]_vars => VersionInv'
<1> SUFFICES ASSUME IInv, [Next]_vars PROVE VersionInv'
  OBVIOUS
<1>0. TypeInv /\ VersionInv
  BY DEF IInv
<1> USE DEF store, reconciler
<1>1. CASE Edit \/ Delete \/ Recreate
  BY <1>0, <1>1 DEF VersionInv, Edit, Delete, Recreate
<1>2. CASE Tamper \/ Collect
  BY <1>0, <1>2 DEF VersionInv, Tamper, Collect, RemoveCM, RemoveDS
<1>3. CASE PodsUp \/ PodsDown
  BY <1>0, <1>3 DEF VersionInv, PodsUp, PodsDown
<1>4. ASSUME NEW k \in {"cr", "cm", "ds"}, Sync(k) PROVE VersionInv'
  BY <1>0, <1>4 DEF VersionInv, TypeInv, Sync
<1>5. CASE Restart
  BY <1>0, <1>5 DEF VersionInv, Restart
<1>6. CASE Get
  BY <1>0, <1>6 DEF VersionInv, Get
<1>7. CASE DeleteCM \/ DeleteDS
  BY <1>0, <1>7 DEF VersionInv, DeleteCM, DeleteDS, Goto, Return
<1>8. CASE EnsureConfigMap
  BY <1>0, <1>8 DEF VersionInv, EnsureConfigMap, Goto
<1>9. CASE EnsureDaemonSet
  BY <1>0, <1>9 DEF VersionInv, EnsureDaemonSet, Goto
<1>10. CASE AddFinalizer
  <2>1. PICK o \in Outcome :
          /\ WriteCR([my EXCEPT !.fin = TRUE], o)
          /\ IF Replied("my" \notin stale, o)
               THEN /\ pc' = "ensureConfigMap" /\ my' = [my EXCEPT !.fin = TRUE]
                    /\ UNCHANGED <<up, queued>>
               ELSE Return(TRUE)
    BY <1>10 DEF AddFinalizer
  <2> DEFINE new == [my EXCEPT !.fin = TRUE]
  <2>2. /\ new.cfg = my.cfg /\ new.obs = my.obs /\ (my.there => new.there)
        /\ UNCHANGED <<cm, ds, cache>> /\ pc = "addFinalizer"
        /\ WriteCR(new, o) /\ (pc' # "idle" => my' = new /\ pc' = "ensureConfigMap")
    BY <1>0, <1>10, <2>1 DEF TypeInv, KonAgent, AddFinalizer, Return
  <2> HIDE DEF new
  <2> QED
    BY <1>0, <2>2, WriteEffect DEF VersionInv
<1>11. CASE RemoveFinalizer \/ Finish
  BY <1>0, <1>11, WriteEffect DEF VersionInv, RemoveFinalizer, Finish, Return
<1>12. CASE ConfigFailed \/ DaemonSetFailed \/ DaemonSetNotReady
  BY <1>0, <1>12, StatusEffect
     DEF VersionInv, ConfigFailed, DaemonSetFailed, DaemonSetNotReady, Return
<1>13. CASE ConfigReady
  <2>1. my'.there = my.there /\ my'.cfg = my.cfg /\ my'.obs = my.obs
    BY <1>0, <1>13 DEF ConfigReady, TypeInv, KonAgent
  <2> QED
    BY <1>0, <1>13, <2>1, StatusEffect DEF VersionInv, ConfigReady
<1>14. CASE DaemonSetReady
  <2>1. my'.there = my.there /\ my'.cfg = my.cfg
    BY <1>0, <1>14 DEF DaemonSetReady, TypeInv, KonAgent
  <2> QED
    BY <1>0, <1>14, <2>1, StatusEffect DEF VersionInv, DaemonSetReady
<1>15. CASE UNCHANGED vars
  BY <1>0, <1>15 DEF VersionInv, vars
<1> QED
  BY <1>1, <1>2, <1>3, <1>4, <1>5, <1>6, <1>7, <1>8, <1>9, <1>10, <1>11, <1>12, <1>13, <1>14,
     <1>15 DEF Next, Reconcile

(* A KonAgent that is there after a step has the configuration it had, or  *)
(* one newer than any before.                                              *)
LEMMA AgentEffect ==
  ASSUME IInv, [Next]_vars
  PROVE  /\ extra' \in {extra, extra + 1}
         /\ cr'.there => \/ cr.there /\ cr'.cfg = cr.cfg
                         \/ cr'.cfg = extra + 2 /\ extra' = extra + 1
<1>0. TypeInv /\ VersionInv
  BY DEF IInv
<1> USE DEF store
<1>1. CASE Edit
  BY <1>0, <1>1 DEF Edit, Extra, NewGen, TypeInv, KonAgent
<1>2. CASE Delete
  BY <1>0, <1>2 DEF Delete, Extra, TypeInv, KonAgent, NoCR
<1>3. CASE Recreate
  BY <1>0, <1>3 DEF Recreate, Extra, NewGen, Created, NoCR
<1>4. CASE Tamper \/ Collect \/ PodsUp \/ PodsDown \/ Restart
  BY <1>4 DEF Tamper, Collect, RemoveCM, RemoveDS, PodsUp, PodsDown, Restart, Extra
<1>5. CASE Get \/ \E k \in {"cr", "cm", "ds"} : Sync(k)
  BY <1>5 DEF Get, Sync
<1>6. CASE DeleteCM \/ DeleteDS \/ EnsureConfigMap \/ EnsureDaemonSet
  BY <1>6 DEF DeleteCM, DeleteDS, EnsureConfigMap, EnsureDaemonSet, Fault, Extra
<1>7. CASE AddFinalizer
  <2>1. PICK o \in Outcome : Fault(o) /\ WriteCR([my EXCEPT !.fin = TRUE], o)
    BY <1>7 DEF AddFinalizer
  <2>2. [my EXCEPT !.fin = TRUE].cfg = my.cfg
    BY <1>0 DEF TypeInv, KonAgent
  <2> QED
    BY <1>0, <1>7, <2>1, <2>2, WriteEffect DEF AddFinalizer, VersionInv, Fault, Extra
<1>8. CASE RemoveFinalizer \/ Finish
  <2>1. ~NoCR.there
    BY DEF NoCR
  <2> QED
    BY <1>0, <1>8, <2>1, WriteEffect DEF RemoveFinalizer, Finish, VersionInv, Fault, Extra
<1>9. CASE ConfigReady \/ ConfigFailed
  BY <1>0, <1>9, StatusEffect DEF ConfigReady, ConfigFailed, VersionInv
<1>10. CASE DaemonSetFailed \/ DaemonSetNotReady \/ DaemonSetReady
  BY <1>0, <1>10, StatusEffect
     DEF DaemonSetFailed, DaemonSetNotReady, DaemonSetReady, VersionInv
<1>11. CASE UNCHANGED vars
  BY <1>11 DEF vars
<1> QED
  BY <1>1, <1>2, <1>3, <1>4, <1>5, <1>6, <1>7, <1>8, <1>9, <1>10, <1>11 DEF Next, Reconcile

(* Reconcile keeps the spec it has read, or starts with the cache's; the   *)
(* caches are filled from the objects.                                     *)
LEMMA CopyEffect ==
  ASSUME IInv, [Next]_vars
  PROVE  /\ pc' # "idle" => \/ /\ pc # "idle" /\ my'.cfg = my.cfg /\ my'.gen = my.gen
                               /\ my'.img = my.img /\ my'.place = my.place
                            \/ pc = "idle" /\ my' = cache.cr /\ cache.cr.there
         /\ cache'.cr = cache.cr \/ (cache'.cr = cr /\ cr' = cr)
         /\ cache'.cm = cache.cm \/ (cache'.cm = cm /\ cm' = cm)
         /\ cache'.ds = cache.ds \/ (cache'.ds = ds /\ ds' = ds)
<1>0. TypeInv
  BY DEF IInv
<1> USE DEF store, reconciler
<1>1. CASE Edit \/ Delete \/ Recreate \/ PodsUp \/ PodsDown
  BY <1>1 DEF Edit, Delete, Recreate, PodsUp, PodsDown
<1>2. CASE Tamper \/ Collect
  BY <1>2 DEF Tamper, Collect, RemoveCM, RemoveDS
<1>3. ASSUME NEW k \in {"cr", "cm", "ds"}, Sync(k)
      PROVE  /\ UNCHANGED <<pc, my, cr, cm, ds>>
             /\ cache'.cr = cache.cr \/ cache'.cr = cr
             /\ cache'.cm = cache.cm \/ cache'.cm = cm
             /\ cache'.ds = cache.ds \/ cache'.ds = ds
  BY <1>0, <1>3 DEF TypeInv, Sync
<1>4. CASE Restart
  BY <1>4 DEF Restart
<1>5. CASE Get
  BY <1>5 DEF Get
<1>6. CASE AddFinalizer
  BY <1>0, <1>6 DEF AddFinalizer, Return, TypeInv, KonAgent
<1>7. CASE DeleteCM \/ DeleteDS \/ RemoveFinalizer \/ Finish
  BY <1>7 DEF DeleteCM, DeleteDS, RemoveFinalizer, Finish, Goto, Return
<1>8. CASE EnsureConfigMap \/ EnsureDaemonSet
  BY <1>8 DEF EnsureConfigMap, EnsureDaemonSet, Goto
<1>9. CASE ConfigReady \/ DaemonSetReady
  BY <1>0, <1>9 DEF ConfigReady, DaemonSetReady, TypeInv, KonAgent
<1>10. CASE ConfigFailed \/ DaemonSetFailed \/ DaemonSetNotReady
  BY <1>10 DEF ConfigFailed, DaemonSetFailed, DaemonSetNotReady, Return
<1>11. CASE UNCHANGED vars
  BY <1>11 DEF vars
<1> QED
  BY <1>1, <1>2, <1>3, <1>4, <1>5, <1>6, <1>7, <1>8, <1>9, <1>10, <1>11 DEF Next, Reconcile

(* The children are deleted, or are what they were, or get Reconcile's     *)
(* spec.                                                                   *)
LEMMA ChildEffect ==
  ASSUME IInv, [Next]_vars
  PROVE  /\ \/ cm' = cm
            \/ ~cm'.there
            \/ EnsureConfigMap /\ cm'.cfg = my.cfg
         /\ \/ ds' = ds
            \/ ~ds'.there
            \/ ds.there /\ ds'.there /\ ds'.template = ds.template
            \/ EnsureDaemonSet /\ ds'.template = Defaulted(buildDaemonSet)
<1>0. TypeInv
  BY DEF IInv
<1> USE DEF store, reconciler
<1>1. CASE Edit \/ Delete \/ Recreate \/ Restart \/ Get \/ \E k \in {"cr", "cm", "ds"} : Sync(k)
  BY <1>1 DEF Edit, Delete, Recreate, Restart, Get, Sync
<1>2. CASE PodsUp \/ PodsDown
  BY <1>0, <1>2 DEF PodsUp, PodsDown, TypeInv, DaemonSet
<1>3. CASE Tamper \/ Collect \/ DeleteCM \/ DeleteDS
  <2>1. ~NoCM.there /\ ~NoDS.there
    BY DEF NoCM, NoDS
  <2> QED
    BY <1>3, <2>1 DEF Tamper, Collect, RemoveCM, RemoveDS, DeleteCM, DeleteDS
<1>4. CASE EnsureConfigMap
  <2>1. PutCM.new.cfg = my.cfg
    BY <1>0 DEF PutCM, TypeInv, ConfigMap
  <2> QED
    BY <1>4, <2>1 DEF EnsureConfigMap
<1>5. CASE EnsureDaemonSet
  <2>1. PutDS.new.template = Defaulted(buildDaemonSet)
    BY <1>0 DEF PutDS, TypeInv, DaemonSet
  <2> QED
    BY <1>5, <2>1 DEF EnsureDaemonSet
<1>6. CASE AddFinalizer \/ RemoveFinalizer \/ Finish
  BY <1>6 DEF AddFinalizer, RemoveFinalizer, Finish
<1>7. CASE ConfigReady \/ DaemonSetReady \/ ConfigFailed \/ DaemonSetFailed \/ DaemonSetNotReady
  BY <1>7 DEF ConfigReady, DaemonSetReady, ConfigFailed, DaemonSetFailed, DaemonSetNotReady
<1>8. CASE UNCHANGED vars
  BY <1>8 DEF vars
<1> QED
  BY <1>1, <1>2, <1>3, <1>4, <1>5, <1>6, <1>7, <1>8 DEF Next, Reconcile

-----------------------------------------------------------------------------
(* Copies of the KonAgent never run ahead of it. *)
LEMMA AgeStep == IInv /\ [Next]_vars => AgeInv'
<1> SUFFICES ASSUME IInv, [Next]_vars PROVE AgeInv'
  OBVIOUS
<1>1. /\ AgeInv
      /\ cr.cfg \in Nat /\ cache.cr.cfg \in Nat /\ my.cfg \in Nat /\ extra \in Nat
  BY DEF IInv, TypeInv, KonAgent
<1> QED
  BY <1>1, AgentEffect, CopyEffect DEF AgeInv

(* No child runs ahead of a KonAgent that Reconcile has or can get. *)
LEMMA ChildStep == IInv /\ [Next]_vars => ChildInv'
<1> SUFFICES ASSUME IInv, [Next]_vars PROVE ChildInv'
  OBVIOUS
<1>1. /\ cr.cfg \in Nat /\ cache.cr.cfg \in Nat /\ my.cfg \in Nat /\ extra \in Nat
      /\ cm.cfg \in Nat /\ cache.cm.cfg \in Nat /\ ds.template.hash \in Nat
  BY DEF IInv, TypeInv, KonAgent, ConfigMap, DaemonSet, Template
<1>2. AgeInv /\ ChildInv
  BY DEF IInv
<1> DEFINE StillNotNewer(n) == /\ n <= extra' + 1
                               /\ cr'.there => n <= cr'.cfg
                               /\ cache'.cr.there => n <= cache'.cr.cfg
                               /\ pc' # "idle" => n <= my'.cfg
(* What was not newer than any KonAgent is not after the step. *)
<1>3. ASSUME NEW n \in Nat, NotNewer(n) PROVE StillNotNewer(n)
  BY <1>1, <1>2, <1>3, AgentEffect, CopyEffect DEF NotNewer, AgeInv
(* Nor is what Reconcile writes. *)
<1>4. pc # "idle" => NotNewer(my.cfg)
  BY <1>1, <1>2 DEF NotNewer, AgeInv
<1> HIDE DEF StillNotNewer
<1>5. cm'.there => StillNotNewer(cm'.cfg)
  <2>1. CASE EnsureConfigMap /\ cm'.cfg = my.cfg
    BY <1>1, <1>3, <1>4, <2>1 DEF EnsureConfigMap
  <2>2. CASE cm' = cm
    BY <1>1, <1>2, <1>3, <2>2 DEF ChildInv
  <2> QED
    BY <2>1, <2>2, ChildEffect
<1>6. cache'.cm.there => StillNotNewer(cache'.cm.cfg)
  BY <1>1, <1>2, <1>3, CopyEffect DEF ChildInv
<1>7. ds'.there => StillNotNewer(ds'.template.hash)
  <2>1. CASE EnsureDaemonSet /\ ds'.template = Defaulted(buildDaemonSet)
    <3>1. ds'.template.hash = my.cfg
      BY <2>1 DEF Defaulted, buildDaemonSet
    <3> QED
      BY <1>1, <1>3, <1>4, <2>1, <3>1 DEF EnsureDaemonSet
  <2>2. CASE ds' = ds \/ (ds.there /\ ds'.template = ds.template)
    BY <1>1, <1>2, <1>3, <2>2 DEF ChildInv
  <2> QED
    BY <2>1, <2>2, ChildEffect
<1>8. cache'.cm.there /\ cm'.there => cache'.cm.cfg <= cm'.cfg
  <2>1. CASE EnsureConfigMap /\ cm'.cfg = my.cfg
    BY <1>1, <1>2, <2>1 DEF EnsureConfigMap, ChildInv, NotNewer
  <2>2. CASE cm' = cm
    BY <1>1, <1>2, <2>2, CopyEffect DEF ChildInv
  <2> QED
    BY <2>1, <2>2, ChildEffect
<1> QED
  BY <1>5, <1>6, <1>7, <1>8 DEF ChildInv, NotNewer, StillNotNewer

(* Only ensureConfigMap leads to the steps that roll the pods. *)
LEMMA RollStep == IInv /\ [Next]_vars => RollInv'
<1> SUFFICES ASSUME IInv, [Next]_vars, pc' \in {"configReady", "ensureDaemonSet"}, cm'.there
             PROVE  cm'.cfg = my'.cfg
  BY DEF RollInv
<1>0. RollInv /\ ChildInv /\ VersionInv
  BY DEF IInv
<1>1. CASE EnsureConfigMap
  <2>1. pc = "ensureConfigMap" /\ my' = my
    BY <1>1 DEF EnsureConfigMap, Goto
  <2>2. CASE cache.cm.there /\ cache.cm.cfg = my.cfg
    <3>1. cm' = cm
      BY <1>1, <2>2 DEF EnsureConfigMap
    <3>2. cm.cfg \in Nat /\ my.cfg \in Nat /\ cm.cfg <= my.cfg /\ my.cfg <= cm.cfg
      BY <1>0, <2>1, <2>2, <3>1 DEF ChildInv, NotNewer, IInv, TypeInv, ConfigMap, KonAgent
    <3> QED
      BY <2>1, <3>1, <3>2
  <2>3. CASE ~(cache.cm.there /\ cache.cm.cfg = my.cfg)
    <3>1. cm' = PutCM.new
      BY <1>1, <2>3 DEF EnsureConfigMap, Goto, Replied, Done
    <3>2. PutCM.new.cfg = my.cfg
      BY DEF PutCM, IInv, TypeInv, ConfigMap
    <3> QED
      BY <2>1, <3>1, <3>2
  <2> QED
    BY <2>2, <2>3
<1>2. CASE ~EnsureConfigMap
  <2>1. cm' = cm
    BY <1>2, ChildEffect
  <2>2. CASE pc \in {"configReady", "ensureDaemonSet"}
    BY <1>0, <2>1, <2>2, CopyEffect DEF RollInv
  <2>3. CASE pc \notin {"configReady", "ensureDaemonSet"}
    <3> USE DEF reconciler
    <3>1. ~(Edit \/ Delete \/ Recreate \/ Tamper \/ Collect \/ PodsUp \/ PodsDown)
      BY <2>3 DEF Edit, Delete, Recreate, Tamper, Collect, RemoveCM, RemoveDS, PodsUp, PodsDown
    <3>2. ~(Restart \/ Get \/ AddFinalizer \/ DeleteCM \/ DeleteDS \/ RemoveFinalizer \/ Finish)
      BY <2>3 DEF Restart, Get, AddFinalizer, DeleteCM, DeleteDS, RemoveFinalizer, Finish,
                  Return, Goto
    <3>3. ~(ConfigReady \/ ConfigFailed \/ EnsureDaemonSet \/ UNCHANGED vars)
      BY <2>3 DEF ConfigReady, ConfigFailed, EnsureDaemonSet, Return, Goto, vars
    <3>4. ~(DaemonSetFailed \/ DaemonSetNotReady \/ DaemonSetReady)
      BY <2>3 DEF DaemonSetFailed, DaemonSetNotReady, DaemonSetReady, Return
    <3>5. ~\E k \in {"cr", "cm", "ds"} : Sync(k)
      BY <2>3 DEF Sync
    <3> QED
      BY <1>2, <3>1, <3>2, <3>3, <3>4, <3>5 DEF Next, Reconcile
  <2> QED
    BY <2>2, <2>3
<1> QED
  BY <1>1, <1>2

(* Every DaemonSet the API server stores has its defaulted volumes. *)
LEMMA VolumeStep == IInv /\ [Next]_vars => VolumeInv'
<1> SUFFICES ASSUME IInv, [Next]_vars PROVE VolumeInv'
  OBVIOUS
<1>1. VolumeInv
  BY DEF IInv
<1>2. Defaulted(buildDaemonSet).volumes = "defaulted"
  BY DEF Defaulted, buildDaemonSet
<1> QED
  BY <1>1, <1>2, ChildEffect, CopyEffect DEF VolumeInv

(* The pods' template gets Reconcile's configuration only when the         *)
(* ConfigMap has it.                                                       *)
LEMMA HashStep == IInv /\ [Next]_vars => HashNotAhead'
<1> SUFFICES ASSUME IInv, [Next]_vars, ds'.there, cm'.there
             PROVE  ds'.template.hash <= cm'.cfg
  BY DEF HashNotAhead
<1>0. RollInv /\ ChildInv /\ HashNotAhead /\ my.cfg \in Nat
  BY DEF IInv, TypeInv, KonAgent
<1>1. CASE EnsureConfigMap
  <2>1. pc = "ensureConfigMap" /\ ds' = ds
    BY <1>1 DEF EnsureConfigMap
  <2> QED
    BY <1>0, <2>1, ChildEffect DEF ChildInv, NotNewer, HashNotAhead
<1>2. CASE EnsureDaemonSet /\ ds'.template = Defaulted(buildDaemonSet)
  <2>1. ds'.template.hash = my.cfg
    BY <1>2 DEF Defaulted, buildDaemonSet
  <2>2. pc = "ensureDaemonSet" /\ cm' = cm
    BY <1>2 DEF EnsureDaemonSet
  <2> QED
    BY <1>0, <2>1, <2>2 DEF RollInv
<1>3. CASE cm' = cm /\ (ds' = ds \/ (ds.there /\ ds'.template = ds.template))
  BY <1>0, <1>3 DEF HashNotAhead
<1> QED
  BY <1>1, <1>2, <1>3, ChildEffect

(* ensureDaemonSet succeeds only by writing, and nothing but a deletion    *)
(* touches the template until Reconcile ends.                              *)
LEMMA AppliedStep == IInv /\ [Next]_vars => AppliedInv'
<1> SUFFICES ASSUME IInv, [Next]_vars PROVE AppliedInv'
  OBVIOUS
<1>0. TypeInv /\ VersionInv /\ VolumeInv /\ AppliedInv
  BY DEF IInv
<1> USE DEF store, reconciler
<1>1. CASE EnsureDaemonSet
  <2>1. ~(cache.ds.there /\ podTemplatesEqual(cache.ds.template, buildDaemonSet))
    <3>1. buildDaemonSet.volumes = "bare"
      BY DEF buildDaemonSet
    <3> QED
      BY <1>0, <3>1 DEF VolumeInv, podTemplatesEqual
  <2>2. PutDS.can => PutDS.new.there /\ PutDS.new.template = Defaulted(buildDaemonSet)
    BY <1>0 DEF PutDS, TypeInv, DaemonSet, VersionInv
  <2>3. pc' = "daemonSet" => ds'.there /\ ds'.template = Defaulted(buildDaemonSet)
    BY <1>1, <2>1, <2>2 DEF EnsureDaemonSet, Replied, Done, Goto
  <2>4. pc' # "finish" /\ my' = my
    BY <1>1, <2>1 DEF EnsureDaemonSet, Goto
  <2> QED
    BY <2>3, <2>4 DEF AppliedInv, Reflects, Defaulted, buildDaemonSet
<1>2. CASE DaemonSetReady
  <2>1. pc = "daemonSet" /\ pc' = "finish" /\ UNCHANGED <<ds, tampered>>
    BY <1>2 DEF DaemonSetReady
  <2>2. /\ my'.obs = my.gen /\ my'.gen = my.gen
        /\ my'.cfg = my.cfg /\ my'.img = my.img /\ my'.place = my.place
    BY <1>0, <1>2 DEF DaemonSetReady, TypeInv, KonAgent
  <2> QED
    BY <1>0, <2>1, <2>2 DEF AppliedInv, Reflects
<1>3. CASE Tamper \/ Collect
  BY <1>0, <1>3 DEF Tamper, Collect, RemoveCM, RemoveDS, AppliedInv
<1>4. CASE PodsUp \/ PodsDown
  <2>1. ds.there /\ ds'.there /\ ds'.template = ds.template /\ UNCHANGED <<pc, my, tampered>>
    BY <1>0, <1>4 DEF PodsUp, PodsDown, TypeInv, DaemonSet
  <2> QED
    BY <1>0, <2>1 DEF AppliedInv
<1>5. CASE Edit \/ Delete \/ Recreate \/ \E k \in {"cr", "cm", "ds"} : Sync(k)
  BY <1>0, <1>5 DEF Edit, Delete, Recreate, Sync, AppliedInv
<1>6. CASE Restart \/ RemoveFinalizer \/ Finish
  BY <1>6 DEF Restart, RemoveFinalizer, Finish, Return, AppliedInv
<1>7. CASE Get \/ AddFinalizer \/ DeleteCM \/ DeleteDS
  BY <1>7 DEF Get, AddFinalizer, DeleteCM, DeleteDS, Return, Goto, AppliedInv
<1>8. CASE EnsureConfigMap \/ ConfigReady \/ ConfigFailed
  BY <1>8 DEF EnsureConfigMap, ConfigReady, ConfigFailed, Return, Goto, AppliedInv
<1>9. CASE DaemonSetFailed \/ DaemonSetNotReady
  BY <1>9 DEF DaemonSetFailed, DaemonSetNotReady, Return, AppliedInv
<1>10. CASE UNCHANGED vars
  BY <1>0, <1>10 DEF vars, AppliedInv
<1> QED
  BY <1>1, <1>2, <1>3, <1>4, <1>5, <1>6, <1>7, <1>8, <1>9, <1>10 DEF Next, Reconcile

(* The inductive invariant holds in every reachable state. *)
THEOREM Inductive == Spec => []IInv
<1>1. Init => IInv
  <2> SUFFICES ASSUME Init PROVE IInv
    OBVIOUS
  <2>1. Created(1) \in KonAgent /\ Created(1).cfg = 1
    BY DEF Created, NoCR, KonAgent, Condition
  <2>2. ~NoCR.there /\ ~NoCM.there /\ ~NoDS.there
    BY DEF NoCR, NoCM, NoDS
  <2>3. TypeInv
    BY <2>1, EmptyTypes DEF Init, TypeInv
  <2>4. VersionInv /\ AgeInv /\ ChildInv
    BY <2>1, <2>2 DEF Init, VersionInv, AgeInv, ChildInv
  <2>5. RollInv /\ VolumeInv /\ AppliedInv /\ HashNotAhead
    BY <2>2 DEF Init, RollInv, VolumeInv, AppliedInv, HashNotAhead
  <2> QED
    BY <2>3, <2>4, <2>5 DEF IInv
<1>2. IInv /\ [Next]_vars => IInv'
  BY TypeStep, VersionStep, AgeStep, ChildStep, RollStep, VolumeStep, AppliedStep, HashStep
     DEF IInv
<1> QED
  BY <1>1, <1>2, PTL DEF Spec

(* The pods are never rolled for a configuration newer than the one in the *)
(* ConfigMap, whatever is edited, deleted, lost or restarted meanwhile.    *)
THEOREM RollsBehindConfigMap == Spec => []HashNotAhead
BY Inductive, PTL DEF IInv

(* Reconcile reports a generation as observed only when it is the current  *)
(* one and, unless somebody else deleted a child, the DaemonSet has it.    *)
THEOREM ReportsWhatIsApplied == Spec => ObservedApplied
<1> DEFINE Applied == cr'.obs \notin {0, cr.obs} =>
                        /\ cr'.obs = cr'.gen
                        /\ tampered \/ (ds.there /\ Reflects(ds.template, cr'))
<1>1. IInv /\ [Next]_vars => [Applied]_cr
  <2> SUFFICES ASSUME IInv, [Next]_vars, cr' # cr, cr'.obs \notin {0, cr.obs}
               PROVE  /\ cr'.obs = cr'.gen
                      /\ tampered \/ (ds.there /\ Reflects(ds.template, cr'))
    OBVIOUS
  <2>0. TypeInv /\ VersionInv /\ AppliedInv
    BY DEF IInv
  <2>1. NoCR.obs = 0
    BY DEF NoCR
  <2> USE DEF store
  <2>2. CASE Finish
    <3>1. pc = "finish" /\ cr' = my
      BY <2>2, WriteEffect DEF Finish
    <3> QED
      BY <2>0, <3>1 DEF AppliedInv
  <2>3. ~(Edit \/ Delete \/ Recreate)
    BY <2>0, <2>1 DEF Edit, Delete, Recreate, Created, NoCR, TypeInv, KonAgent
  <2>4. ~(Tamper \/ Collect \/ PodsUp \/ PodsDown \/ Restart \/ Get)
    BY DEF Tamper, Collect, RemoveCM, RemoveDS, PodsUp, PodsDown, Restart, Get
  <2>5. ~(DeleteCM \/ DeleteDS \/ EnsureConfigMap \/ EnsureDaemonSet)
    BY DEF DeleteCM, DeleteDS, EnsureConfigMap, EnsureDaemonSet
  <2>6. ~(RemoveFinalizer \/ UNCHANGED vars \/ \E k \in {"cr", "cm", "ds"} : Sync(k))
    BY <2>1, WriteEffect DEF RemoveFinalizer, vars, Sync
  <2>7. ~AddFinalizer
    <3>1. [my EXCEPT !.fin = TRUE].obs = my.obs
      BY <2>0 DEF TypeInv, KonAgent
    <3> QED
      BY <2>0, <3>1, WriteEffect DEF AddFinalizer, VersionInv
  <2>8. ~(ConfigReady \/ ConfigFailed)
    BY <2>0, StatusEffect DEF ConfigReady, ConfigFailed, VersionInv
  <2>9. ~(DaemonSetFailed \/ DaemonSetNotReady \/ DaemonSetReady)
    BY <2>0, StatusEffect DEF DaemonSetFailed, DaemonSetNotReady, DaemonSetReady, VersionInv
  <2> QED
    BY <2>2, <2>3, <2>4, <2>5, <2>6, <2>7, <2>8, <2>9 DEF Next, Reconcile
<1> QED
  BY <1>1, Inductive, PTL DEF Spec, ObservedApplied
=============================================================================
