---------------------------- MODULE ResultLedger ----------------------------
(***************************************************************************)
(* What a StarOR run over a dataset promises about its results: every      *)
(* sample's result is written once and then kept, however often the        *)
(* program is stopped and started again.                                   *)
(***************************************************************************)
CONSTANT Samples

VARIABLE recorded    \* the samples whose result is on disk

Init == recorded = {}

Record(s) == s \notin recorded /\ recorded' = recorded \cup {s}

Next == \E s \in Samples : Record(s)

Spec == Init /\ [][Next]_recorded
=============================================================================
