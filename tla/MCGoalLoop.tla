---------------------------- MODULE MCGoalLoop -----------------------------
(* Instances of GoalLoop for TLC.                                           *)
EXTENDS GoalLoop, TLC

CONSTANTS r1, r2

NoOne == {}
OneProcess == {r1}
TwoProcesses == {r1, r2}
OneGoal == {1}
TwoGoals == {1, 2}
\* The first goal comes before the others.
FirstFirst == [g \in Goals |-> IF g = 1 THEN 1 ELSE 2]
TwoTasks == {1, 2}
ThreeTasks == {1, 2, 3}

ProcessSymmetry == Permutations(TwoProcesses)
=============================================================================
