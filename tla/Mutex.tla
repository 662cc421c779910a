------------------------------- MODULE Mutex --------------------------------
(***************************************************************************)
(* What a pipeline lock is for: cycles of the same pipeline do not overlap *)
(* ("prevent overlapping cycles", locks.py).  PipelineLock implements this *)
(* specification when every cycle ends within the lease.                   *)
(***************************************************************************)
CONSTANT Procs        \* the processes that run the pipeline

VARIABLE inside       \* the processes in the middle of a cycle

MutexInit == inside = {}

Enter(p) == /\ inside = {}
            /\ inside' = {p}

Exit(p) == /\ inside = {p}
           /\ inside' = {}

MutexNext == \E p \in Procs : Enter(p) \/ Exit(p)

MutexSpec == MutexInit /\ [][MutexNext]_inside
=============================================================================
