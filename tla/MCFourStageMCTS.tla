-------------------------- MODULE MCFourStageMCTS --------------------------
(***************************************************************************)
(* Small instances of FourStageMCTS for TLC.  Outcomes are what scoring a  *)
(* rollout returns in the cases the search tells apart.                    *)
(***************************************************************************)
EXTENDS FourStageMCTS, FiniteSetsExt

\* An effective execution with objective v.
Solved(r, p, v) ==
  [reward |-> r, prior |-> p, obj |-> v, inScale |-> TRUE, effective |-> TRUE,
   success |-> TRUE, r2 |-> TRUE, err |-> FALSE, marker |-> FALSE]

\* Ran to its end, no objective, the solver says infeasible.
Infeasible == [Solved(2, 2, NoObj) EXCEPT !.inScale = FALSE, !.marker = TRUE]

\* Raised an exception.
Crashed ==
  [Solved(0, 1, NoObj) EXCEPT !.inScale = FALSE, !.effective = FALSE,
                              !.success = FALSE, !.r2 = FALSE, !.err = TRUE]

\* Printed an objective and then failed: scored well, yet an error.
SolvedThenError == [Solved(2, 2, 0) EXCEPT !.success = FALSE, !.err = TRUE]

\* Solved, with an objective off the scale of the reference run.
OffScale(r, p, v) == [Solved(r, p, v) EXCEPT !.inScale = FALSE]

TwoOutcomes == {Solved(3, 1, 0), Infeasible}
CodeOutcomes == {Solved(1, 1, 0), SolvedThenError, Crashed}
ChainOutcomes ==
  {Solved(3, 1, 0), Solved(1, 1, 0), OffScale(2, 1, 2), Infeasible, SolvedThenError, Crashed}

MCUnit == 125
MCScale == 12
MCLevelWeight == [l \in 0..NumStages |->
                    IF l = 0 THEN 75 ELSE IF l = 1 THEN 60 ELSE 48]
MCGroupMean(g) == (FoldFunction(LAMBDA a, b : a + b, 0, g) * MCScale) \div Len(g)
=============================================================================
