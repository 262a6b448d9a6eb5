---------------------------- MODULE MCStarORFit ----------------------------
(* Instances of StarORFit for TLC. *)
EXTENDS StarORFit

CONSTANTS s1, s2, s3

MCThree == {s1, s2, s3}
MCThreeInOrder == [s \in MCThree |-> IF s = s1 THEN 1 ELSE IF s = s2 THEN 2 ELSE 3]

MCEveryConfig == {c \in [adapts : BOOLEAN, resets : BOOLEAN] : c.resets => c.adapts}
=============================================================================
