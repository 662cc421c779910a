------------------------------ MODULE JobBoard ------------------------------
(***************************************************************************)
(* What the workflow queue promises: a job is taken by one worker, and     *)
(* settled by the worker that took it or not at all.  Nothing is given     *)
(* back: a job whose worker ends without settling it is lost, and nobody   *)
(* takes it again.  WorkQueue implements this.                             *)
(***************************************************************************)
CONSTANTS Jobs, Workers, NoJob

VARIABLES
  posted,      \* the jobs there are
  holds,       \* the job each worker has taken, or NoJob
  lost,        \* jobs whose worker ended without settling them
  settled      \* jobs that are over

boardVars == <<posted, holds, lost, settled>>

BoardInit == /\ posted = {} /\ lost = {} /\ settled = {}
             /\ holds = [w \in Workers |-> NoJob]

Post(j)    == /\ j \notin posted
              /\ posted' = posted \cup {j}
              /\ UNCHANGED <<holds, lost, settled>>

Take(w, j) == /\ j \in posted \ (lost \cup settled)
              /\ \A v \in Workers : holds[v] # j
              /\ holds[w] = NoJob
              /\ holds' = [holds EXCEPT ![w] = j]
              /\ UNCHANGED <<posted, lost, settled>>

Settle(w)  == /\ holds[w] # NoJob
              /\ settled' = settled \cup {holds[w]}
              /\ holds' = [holds EXCEPT ![w] = NoJob]
              /\ UNCHANGED <<posted, lost>>

Lose(w)    == /\ holds[w] # NoJob
              /\ lost' = lost \cup {holds[w]}
              /\ holds' = [holds EXCEPT ![w] = NoJob]
              /\ UNCHANGED <<posted, settled>>

BoardNext == \/ \E j \in Jobs : Post(j)
             \/ \E w \in Workers : Settle(w) \/ Lose(w) \/ \E j \in Jobs : Take(w, j)

BoardSpec == BoardInit /\ [][BoardNext]_boardVars
=============================================================================
