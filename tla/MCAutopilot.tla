---------------------------- MODULE MCAutopilot -----------------------------
(* Instances of Autopilot for TLC.                                         *)
EXTENDS Autopilot, TLC

CONSTANTS i1, c1, g1, loop, user

OneItem     == {i1}
TwoTitles   == {<<i1, 1>>, <<i1, 2>>}
OneCapture  == {c1}
OneGoal     == {g1}
LoopAndUser == {loop, user}
OneLoop     == {loop}

\* The item is a risk under its first title.
FirstRisky == {<<i1, 1>>}
=============================================================================
