-------------------------- MODULE MCFinalSelection --------------------------
(* Small instances of FinalSelection for TLC. *)
EXTENDS FinalSelection, MCFourStageMCTS

\* Three objectives in scale of which the second is close to both others and
\* a fourth far from them, three scattered ones off the scale, and none.
AnswerOutcomes ==
  {Solved(2, 1, 0), Solved(1, 2, 1), Solved(1, 1, 2), Solved(3, 1, 5),
   OffScale(3, 1, 8), OffScale(1, 1, 11), OffScale(1, 1, 14), Infeasible}
=============================================================================
