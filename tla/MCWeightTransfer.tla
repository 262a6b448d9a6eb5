-------------------------- MODULE MCWeightTransfer --------------------------
(* Small instances of WeightTransfer for TLC.                              *)
EXTENDS WeightTransfer

\* Three buckets of three bytes, the second of one tensor only.
MCSizes == <<1, 2, 2, 2>>
\* One replica of two ranks, and one of one.
MCReplicaOf == <<"p", "p", "q">>
=============================================================================
