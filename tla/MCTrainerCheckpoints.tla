------------------------ MODULE MCTrainerCheckpoints ------------------------
(* Instances of TrainerCheckpoints for TLC. *)
EXTENDS TrainerCheckpoints

\* max_ckpt_to_keep: no limit, or one, two or three.
MCLimits == {NoLimit, 1, 2, 3}
=============================================================================
