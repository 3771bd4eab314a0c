----------------------------- MODULE Accumulator -----------------------------
(***************************************************************************)
(* The server behind the receive path: deltaAccumulator and                *)
(* convertToVMLines (convert.go), called by the stream handlers            *)
(* (quic_server.go), and postToVM (victoria.go).  One series of deltas is  *)
(* followed.  A handler takes one batch at a time from its stream; two     *)
(* handlers work at once when two agents report, or when an agent has      *)
(* reconnected while its old connection is still being served.  Delivery   *)
(* is at least once: a batch may come again after a reconnect.             *)
(*                                                                         *)
(* seriesKey leaves the agent's id out, so another agent's deltas of the   *)
(* same name and labels go to the same accumulator entry; and as the codec *)
(* brings a histogram back without its labels, so do the deltas of the     *)
(* agent's other histograms of that name.                                  *)
(*                                                                         *)
(* The entry of a histogram is an object, replaced by an empty one when    *)
(* the bounds of a delta are not its own; an entry that is not there yet   *)
(* is an empty one with the agent's bounds.                                *)
(***************************************************************************)
EXTENDS Integers, Sequences, FiniteSets

CONSTANTS Handler,   \* handler goroutines
          MaxDup,    \* bound: batches delivered a second time
          MaxOther,  \* bound: batches of another agent
          MaxSibling \* bound: batches of the agent's other histograms of the name

ASSUME DeliveryAssumption ==
  {MaxDup, MaxOther, MaxSibling} \subseteq Nat /\ IsFiniteSet(Handler)

VARIABLES
  wire,     \* the deltas the agent has sent, in order
  got,      \* how many of them have been delivered
  dups, others, siblings,
  total,    \* the accumulator's entry for the series
  bounds,   \* whose bounds a histogram's entry has
  old,      \* the entries it has replaced
  lock,     \* holder of acc.mu, or Nobody
  job,      \* per handler, the batch it works on
  stored,   \* the agent's last sample that VictoriaMetrics has accepted
  overlap   \* history: two batches of this agent were in work at once

serverVars == <<wire, got, dups, others, siblings, total, bounds, old, lock, job, stored,
                overlap>>

Nobody == "nobody"
Zero == [bucket |-> 0, count |-> 0]
Free == [at |-> "idle", agent |-> "none", bounds |-> "own", delta |-> Zero, acc |-> 0,
         val |-> Zero]

Plus(a, b) == [bucket |-> a.bucket + b.bucket, count |-> a.count + b.count]

Delta == [bucket : Nat, count : Nat]

ServerTypeOK ==
  /\ wire \in Seq(Delta)
  /\ got \in 0 .. Len(wire)
  /\ dups \in 0 .. MaxDup /\ others \in 0 .. MaxOther /\ siblings \in 0 .. MaxSibling
  /\ total \in Delta /\ bounds \in {"own", "other"} /\ old \in Seq(Delta)
  /\ lock \in Handler \cup {Nobody}
  /\ job \in [Handler -> [at : {"idle", "add", "count", "readBucket", "readCount", "post"},
                          agent : {"none", "own", "other"}, bounds : {"own", "other"},
                          delta : Delta, acc : 0 .. Len(old), val : Delta]]
  /\ stored \in [acc : 0 .. Len(old), val : Delta]
  /\ overlap \in BOOLEAN

ServerInit ==
  /\ wire = << >> /\ got = 0
  /\ dups = 0 /\ others = 0 /\ siblings = 0
  /\ total = Zero /\ bounds = "own" /\ old = << >> /\ lock = Nobody
  /\ job = [h \in Handler |-> Free]
  /\ stored = [acc |-> 0, val |-> Zero]
  /\ overlap = FALSE

-----------------------------------------------------------------------------
(* handleUniStream has decoded a batch. *)

Take(h, agent, bds, delta) ==
  /\ job[h] = Free
  /\ job' = [job EXCEPT ![h] = [Free EXCEPT !.at = "add", !.agent = agent,
                                            !.bounds = bds, !.delta = delta]]

Overlapping == \E g \in Handler : job[g].agent = "own"

Receive(h) ==
  /\ got < Len(wire)
  /\ Take(h, "own", "own", wire[got + 1])
  /\ got' = got + 1
  /\ overlap' = (overlap \/ Overlapping)
  /\ UNCHANGED <<wire, dups, others, siblings, total, bounds, old, lock, stored>>

(* A batch comes a second time: its acknowledgement was lost with the      *)
(* connection.                                                             *)
ReceiveAgain(h) ==
  /\ got > 0
  /\ dups < MaxDup
  /\ Take(h, "own", "own", wire[got])
  /\ dups' = dups + 1
  /\ overlap' = (overlap \/ Overlapping)
  /\ UNCHANGED <<wire, got, others, siblings, total, bounds, old, lock, stored>>

One == [bucket |-> 1, count |-> 1]

(* Another histogram of the agent, of the same name with other labels. *)
ReceiveSibling(h) ==
  /\ siblings < MaxSibling
  /\ Take(h, "own", "own", One)
  /\ siblings' = siblings + 1
  /\ overlap' = (overlap \/ Overlapping)
  /\ UNCHANGED <<wire, got, dups, others, total, bounds, old, lock, stored>>

(* Another agent, whose histogram may have bounds of its own. *)
ReceiveOther(h, bds) ==
  /\ others < MaxOther
  /\ Take(h, "other", bds, One)
  /\ others' = others + 1
  /\ UNCHANGED <<wire, got, dups, siblings, total, bounds, old, lock, stored, overlap>>

-----------------------------------------------------------------------------
(* convertToVMLines on a delta sum: addSum adds and returns under the lock. *)

Step(h, at, acc, val) == job' = [job EXCEPT ![h].at = at, ![h].acc = acc, ![h].val = val]

addSum(h) ==
  /\ job[h].at = "add"
  /\ lock = Nobody
  /\ total' = Plus(total, job[h].delta)
  /\ Step(h, "post", Len(old), total')
  /\ UNCHANGED <<wire, got, dups, others, siblings, bounds, old, lock, stored, overlap>>

(* addHistogram: the entry is found or replaced, then the buckets, then    *)
(* the count are added, under the lock.                                    *)
Replace(e) ==
  /\ old' = Append(old, total)
  /\ total' = [e EXCEPT !.count = 0]

(* Mutant: the bounds are never found to be the same. *)
AddBucketsAnew(h) ==
  /\ job[h].at = "add"
  /\ lock = Nobody
  /\ lock' = h
  /\ Replace(job[h].delta)
  /\ bounds' = job[h].bounds
  /\ Step(h, "count", Len(old'), Zero)
  /\ UNCHANGED <<wire, got, dups, others, siblings, stored, overlap>>

AddBuckets(h) ==
  /\ job[h].at = "add"
  /\ lock = Nobody
  /\ lock' = h
  /\ IF bounds = job[h].bounds
       THEN total' = [total EXCEPT !.bucket = @ + job[h].delta.bucket] /\ UNCHANGED old
       ELSE Replace(job[h].delta)
  /\ bounds' = job[h].bounds
  /\ Step(h, "count", Len(old'), Zero)
  /\ UNCHANGED <<wire, got, dups, others, siblings, stored, overlap>>

AddCount(h) ==
  /\ job[h].at = "count"
  /\ lock' = Nobody
  /\ total' = [total EXCEPT !.count = @ + job[h].delta.count]
  /\ Step(h, "readBucket", job[h].acc, Zero)
  /\ UNCHANGED <<wire, got, dups, others, siblings, bounds, old, stored, overlap>>

(* convertToVMLines reads the entry it was handed without the lock. *)
Entry(n) == IF n = Len(old) THEN total ELSE old[n + 1]

ReadBuckets(h) ==
  /\ job[h].at = "readBucket"
  /\ Step(h, "readCount", job[h].acc, [job[h].val EXCEPT !.bucket = Entry(job[h].acc).bucket])
  /\ UNCHANGED <<wire, got, dups, others, siblings, total, bounds, old, lock, stored, overlap>>

ReadCount(h) ==
  /\ job[h].at = "readCount"
  /\ Step(h, "post", job[h].acc, [job[h].val EXCEPT !.count = Entry(job[h].acc).count])
  /\ UNCHANGED <<wire, got, dups, others, siblings, total, bounds, old, lock, stored, overlap>>

(* postToVM: a failure is logged and the sample is gone. *)
Post(h) ==
  /\ job[h].at = "post"
  /\ stored' \in {stored} \cup (IF job[h].agent = "own"
                                THEN {[acc |-> job[h].acc, val |-> job[h].val]} ELSE {})
  /\ job' = [job EXCEPT ![h] = Free]
  /\ UNCHANGED <<wire, got, dups, others, siblings, total, bounds, old, lock, overlap>>

-----------------------------------------------------------------------------
(* A counter series never falls from one sample to a later one, which the  *)
(* storage would take for a restart of the counter: concurrent handlers,   *)
(* repeated batches, other histograms in the same entry and failed posts   *)
(* do not disturb it.  It falls only when another agent's bounds have      *)
(* replaced the entry since, or, when batches of the agent were in work at *)
(* once after a reconnect, because the earlier one was added last.         *)
StoredMonotone ==
  [][\/ overlap
     \/ stored'.val.count >= stored.val.count
     \/ others > 0 /\ stored'.acc > stored.acc]_stored
=============================================================================
