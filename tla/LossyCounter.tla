---------------------------- MODULE LossyCounter -----------------------------
(***************************************************************************)
(* What a metric drained from a kernel map promises: a counter that may    *)
(* lose events but never invents one.  Events are recorded one at a time;  *)
(* a report adds events that were recorded and not reported before, and a  *)
(* reported count is never taken back.                                     *)
(***************************************************************************)
EXTENDS Naturals

VARIABLES recorded,   \* events that happened
          reported    \* events handed on

Init == recorded = 0 /\ reported = 0

Record == recorded' = recorded + 1 /\ UNCHANGED reported

Report == reported' \in reported .. recorded /\ UNCHANGED recorded

Next == Record \/ Report

Spec == Init /\ [][Next]_<<recorded, reported>>
=============================================================================
