---------------------------- MODULE DurableQueue -----------------------------
(***************************************************************************)
(* What the write-ahead log promises the pipeline: a queue that hands      *)
(* every record it accepted to the exporter in the order of acceptance,    *)
(* or gives it up.  A record that was exported is not given up later; one  *)
(* that was given up may still be exported, when its export was under way. *)
(***************************************************************************)
EXTENDS Naturals

CONSTANT Rec   \* records, numbered in the order they are offered

VARIABLES accepted,  \* records the queue has taken
          sent,      \* records that were exported
          givenUp    \* records that were not, and need not be

Init == accepted = {} /\ sent = {} /\ givenUp = {}

(* A record newer than all is taken; it may be out of reach at once. *)
Accept(r) ==
  /\ \A q \in accepted : q < r
  /\ accepted' = accepted \cup {r}
  /\ givenUp' \in {givenUp, givenUp \cup {r}}
  /\ UNCHANGED sent

(* The next record in order is exported. *)
Deliver(r) ==
  /\ r \in accepted
  /\ \A q \in accepted : q < r => q \in sent \cup givenUp
  /\ sent' = sent \cup {r}
  /\ UNCHANGED <<accepted, givenUp>>

GiveUp(S) ==
  /\ S \subseteq accepted \ sent
  /\ givenUp' = givenUp \cup S
  /\ UNCHANGED <<accepted, sent>>

Next ==
  \/ \E r \in Rec : Accept(r) \/ Deliver(r)
  \/ \E S \in SUBSET Rec : GiveUp(S)

Spec == Init /\ [][Next]_<<accepted, sent, givenUp>>
=============================================================================
