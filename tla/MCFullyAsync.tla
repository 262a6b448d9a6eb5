---------------------------- MODULE MCFullyAsync ----------------------------
(* Instances of FullyAsync for TLC. *)
EXTENDS FullyAsync

=============================================================================
