---------------------------- MODULE MCWorkQueue -----------------------------
(* Instances of WorkQueue for TLC.                                         *)
EXTENDS WorkQueue, TLC

CONSTANTS w1, w2

TwoWorkers == {w1, w2}
ThreeJobs == {1, 2, 3}
=============================================================================
