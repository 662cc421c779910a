----------------------------- MODULE WorkQueue ------------------------------
(***************************************************************************)
(* `workflow_queue` and the workers that drain it (cli_operations.py):     *)
(* queue-add inserts a job, each `myos worker` reads a batch of queued     *)
(* jobs, claims them one by one and runs the workflow of each.  A workflow *)
(* is a row of `workflow_runs` with rows of `workflow_steps`; the one step *)
(* of a daily workflow takes the run_day lock, here the mutex PipelineLock *)
(* implements.                                                             *)
(*                                                                         *)
(* Every step ends at a commit.  Jobs are numbered in the order of their   *)
(* insertion, which is the order of created_at.                            *)
(***************************************************************************)
EXTENDS Naturals, FiniteSets

CONSTANTS
  Workers,      \* processes that may run `myos worker`
  Jobs,         \* ids of workflow_queue, 1, 2, ...
  Limit,        \* --limit of a worker
  MaxSteps,     \* bound: steps of a weekly or incident workflow (3 in the code)
  MaxCrashes    \* bound: workers that are killed

ASSUME WorkQueueAssumption ==
  /\ Jobs \subseteq Nat \ {0}
  /\ IsFiniteSet(Jobs)
  /\ Limit \in Nat /\ MaxSteps \in Nat \ {0} /\ MaxCrashes \in Nat

NoJob == 0

VARIABLES
  queue,        \* workflow_queue.status, "absent" before the INSERT
  flow,         \* workflow_queue.workflow_name
  sound,        \* FALSE: payload_json makes building the arguments raise
  run,          \* workflow_runs.status of the job's run, "none" before
  opened,       \* history: runs opened for the job
  steps,        \* steps[j]: workflow_steps.status of the steps begun so far
  pc,           \* where each worker stands
  todo,         \* the candidates a worker read and has not come to yet
  job,          \* the job a worker is at
  inside,       \* the workers in the run_day pipeline
  abandoned,    \* history: claimed jobs whose worker is gone
  crashes

vars == <<queue, flow, sound, run, opened, steps, pc, todo, job, inside,
          abandoned, crashes>>
board == <<queue, flow, sound>>
runs  == <<run, opened, steps>>

RunDay == INSTANCE Mutex WITH Procs <- Workers

Flows == {"daily", "other"}          \* other: weekly or incident
Length(f) == IF f = "daily" THEN 1 ELSE MaxSteps
Begun(j) == Cardinality({i \in 1 .. MaxSteps : steps[j][i] # "none"})

Goto(w, to) == pc' = [pc EXCEPT ![w] = to]

SetJob(j, s) == queue' = [queue EXCEPT ![j] = s]
SetStep(j, i, s) == steps' = [steps EXCEPT ![j][i] = s]

-----------------------------------------------------------------------------
\* cmd_queue_add; the workflow name is one of the parser's choices, the
\* payload is any JSON.
QueueAdd(j) ==
  /\ queue[j] = "absent"
  /\ \A i \in Jobs : i < j => queue[i] # "absent"
  /\ \E f \in Flows, ok \in BOOLEAN : /\ flow' = [flow EXCEPT ![j] = f]
                                      /\ sound' = [sound EXCEPT ![j] = ok]
  /\ SetJob(j, "queued")
  /\ UNCHANGED <<runs, pc, todo, job, inside, abandoned, crashes>>

\* Mutant: the SELECT does not ask for status='queued'.
OldestOfAll == {j \in Jobs : queue[j] # "absent"
                             /\ Cardinality({i \in Jobs : i < j}) < Limit}

\* ORDER BY created_at LIMIT ?
Oldest == {j \in Jobs : queue[j] = "queued"
                        /\ Cardinality({i \in Jobs : queue[i] = "queued" /\ i < j})
                             < Limit}

\* A worker starts and reads its candidates.
Poll(w) ==
  /\ pc[w] = "off" /\ Oldest # {}
  /\ todo' = [todo EXCEPT ![w] = Oldest]
  /\ Goto(w, "list")
  /\ UNCHANGED <<board, runs, job, inside, abandoned, crashes>>

\* Mutant: the UPDATE does not ask for status='queued'.
ClaimableById(j) == TRUE

\* The UPDATE flips the row only from 'queued'.
Claimable(j) == queue[j] = "queued"

Claim(w) ==
  /\ pc[w] = "list"
  /\ \E j \in todo[w] :
       /\ \A i \in todo[w] : j <= i
       /\ todo' = [todo EXCEPT ![w] = @ \ {j}]
       /\ IF Claimable(j)
          THEN /\ SetJob(j, "running")
               /\ job' = [job EXCEPT ![w] = j]
               /\ Goto(w, "claimed")
          ELSE UNCHANGED <<queue, job, pc>>
  /\ UNCHANGED <<flow, sound, runs, inside, abandoned, crashes>>

\* The batch is done; the process ends.
Exit(w) ==
  /\ pc[w] = "list" /\ todo[w] = {}
  /\ Goto(w, "off")
  /\ UNCHANGED <<board, runs, todo, job, inside, abandoned, crashes>>

\* json.loads or a float(...) of the payload raises, or the INSERT of the run
\* finds the database locked: the job fails before a run is opened.
RejectJob(w) ==
  /\ pc[w] = "claimed"
  /\ SetJob(job[w], "failed")
  /\ job' = [job EXCEPT ![w] = NoJob]
  /\ Goto(w, "list")
  /\ UNCHANGED <<flow, sound, runs, todo, inside, abandoned, crashes>>

-----------------------------------------------------------------------------
(* cmd_orchestrate.                                                        *)

OpenRun(w) ==
  /\ pc[w] = "claimed" /\ sound[job[w]]
  /\ run' = [run EXCEPT ![job[w]] = "running"]
  /\ opened' = [opened EXCEPT ![job[w]] = @ + 1]
  /\ Goto(w, "between")
  /\ UNCHANGED <<board, steps, todo, job, inside, abandoned, crashes>>

BeginStep(w) ==
  LET j == job[w] IN
  /\ pc[w] = "between" /\ Begun(j) < Length(flow[j])
  /\ SetStep(j, Begun(j) + 1, "running")
  /\ Goto(w, "step")
  /\ UNCHANGED <<board, run, opened, todo, job, inside, abandoned, crashes>>

\* cmd_run_day got the lock.
EnterRunDay(w) ==
  /\ pc[w] = "step" /\ flow[job[w]] = "daily"
  /\ RunDay!Enter(w)
  /\ Goto(w, "run_day")
  /\ UNCHANGED <<board, runs, todo, job, abandoned, crashes>>

\* It did not: another run-day holds it, or one that died did.  The step
\* counts as done.
SkipRunDay(w) ==
  LET j == job[w] IN
  /\ pc[w] = "step" /\ flow[j] = "daily"
  /\ SetStep(j, Begun(j), "skipped")
  /\ Goto(w, "between")
  /\ UNCHANGED <<board, run, opened, todo, job, inside, abandoned, crashes>>

\* The pipeline returned or raised: the finally clause releases the lock,
\* before the step is marked.
LeaveRunDay(w) ==
  /\ pc[w] = "run_day"
  /\ RunDay!Exit(w)
  /\ Goto(w, "left")
  /\ UNCHANGED <<board, runs, todo, job, abandoned, crashes>>

Worked(w) == \/ pc[w] = "left"
             \/ pc[w] = "step" /\ flow[job[w]] # "daily"

EndStep(w) ==
  LET j == job[w] IN
  /\ Worked(w)
  /\ SetStep(j, Begun(j), "completed")
  /\ Goto(w, "between")
  /\ UNCHANGED <<board, run, opened, todo, job, inside, abandoned, crashes>>

FailRun(j) ==
  /\ SetStep(j, Begun(j), "failed")
  /\ run' = [run EXCEPT ![j] = "failed"]

\* Mutant: the job of a step that raises is queued again, for another try.
FailStepRequeues(w) ==
  /\ Worked(w)
  /\ FailRun(job[w])
  /\ SetJob(job[w], "queued")
  /\ abandoned' = abandoned \cup {job[w]}
  /\ todo' = [todo EXCEPT ![w] = {}]
  /\ job' = [job EXCEPT ![w] = NoJob]
  /\ Goto(w, "off")
  /\ UNCHANGED <<flow, sound, opened, inside, crashes>>

\* A step raises.  cmd_orchestrate turns the exception into SystemExit, which
\* `except Exception` of the worker does not catch: the process ends, the job
\* stays 'running' and the rest of the batch is not looked at.
FailStep(w) ==
  /\ Worked(w)
  /\ FailRun(job[w])
  /\ abandoned' = abandoned \cup {job[w]}
  /\ todo' = [todo EXCEPT ![w] = {}]
  /\ job' = [job EXCEPT ![w] = NoJob]
  /\ Goto(w, "off")
  /\ UNCHANGED <<board, opened, inside, crashes>>

\* Mutant: a run is closed after its first step.
FinishedEarly(j) == Begun(j) > 0

Finished(j) == Begun(j) = Length(flow[j])

CloseRun(w) ==
  /\ pc[w] = "between" /\ Finished(job[w])
  /\ run' = [run EXCEPT ![job[w]] = "completed"]
  /\ Goto(w, "closing")
  /\ UNCHANGED <<board, opened, steps, todo, job, inside, abandoned, crashes>>

\* The UPDATE that completes the job may find the database locked; the
\* handler then marks the job failed.
CompleteJob(w) ==
  /\ pc[w] = "closing"
  /\ \E s \in {"completed", "failed"} : SetJob(job[w], s)
  /\ job' = [job EXCEPT ![w] = NoJob]
  /\ Goto(w, "list")
  /\ UNCHANGED <<flow, sound, runs, todo, inside, abandoned, crashes>>

\* The worker is killed, or cannot write a status.  Its run_day row expires
\* by itself.
Crash(w) ==
  /\ pc[w] # "off" /\ crashes < MaxCrashes
  /\ crashes' = crashes + 1
  /\ abandoned' = abandoned \cup ({job[w]} \ {NoJob})
  /\ inside' = inside \ {w}
  /\ todo' = [todo EXCEPT ![w] = {}]
  /\ job' = [job EXCEPT ![w] = NoJob]
  /\ Goto(w, "off")
  /\ UNCHANGED <<board, runs>>

-----------------------------------------------------------------------------
Init ==
  /\ queue = [j \in Jobs |-> "absent"]
  /\ flow  = [j \in Jobs |-> "daily"]
  /\ sound = [j \in Jobs |-> TRUE]
  /\ run   = [j \in Jobs |-> "none"]
  /\ opened = [j \in Jobs |-> 0]
  /\ steps = [j \in Jobs |-> [i \in 1 .. MaxSteps |-> "none"]]
  /\ pc    = [w \in Workers |-> "off"]
  /\ todo  = [w \in Workers |-> {}]
  /\ job   = [w \in Workers |-> NoJob]
  /\ RunDay!MutexInit
  /\ abandoned = {} /\ crashes = 0

Step(w) == \/ Claim(w) \/ Exit(w) \/ RejectJob(w) \/ OpenRun(w)
           \/ BeginStep(w) \/ EnterRunDay(w) \/ SkipRunDay(w) \/ LeaveRunDay(w)
           \/ EndStep(w) \/ FailStep(w) \/ CloseRun(w) \/ CompleteJob(w)

Next == \/ \E j \in Jobs : QueueAdd(j)
        \/ \E w \in Workers : Poll(w) \/ Step(w) \/ Crash(w)

Spec == Init /\ [][Next]_vars

\* Somebody keeps running `myos worker`, and a worker that runs goes on.
FairSpec == Spec /\ \A w \in Workers : WF_vars(Poll(w)) /\ WF_vars(Step(w))

-----------------------------------------------------------------------------
TypeOK ==
  /\ queue \in [Jobs -> {"absent", "queued", "running", "completed", "failed"}]
  /\ flow \in [Jobs -> Flows]
  /\ sound \in [Jobs -> BOOLEAN]
  /\ run \in [Jobs -> {"none", "running", "completed", "failed"}]
  /\ opened \in [Jobs -> Nat]
  /\ steps \in [Jobs -> [1 .. MaxSteps ->
                 {"none", "running", "completed", "skipped", "failed"}]]
  /\ pc \in [Workers -> {"off", "list", "claimed", "between", "step",
                         "run_day", "left", "closing"}]
  /\ todo \in [Workers -> SUBSET Jobs]
  /\ job \in [Workers -> Jobs \cup {NoJob}]
  /\ inside \subseteq Workers
  /\ abandoned \subseteq Jobs
  /\ crashes \in Nat

\* Two concurrent workers do not double-run a job: no two are at it together,
\* and its workflow is started at most once ever.
AtJob(j) == {w \in Workers : job[w] = j}
NoDoubleRun ==
  \A j \in Jobs : opened[j] <= 1 /\ \A w, v \in AtJob(j) : w = v

\* A job that is 'completed' had each of its steps carried out or skipped for
\* the lock, and its run says so.
CompletedMeansRan ==
  \A j \in Jobs : queue[j] = "completed" =>
    /\ run[j] = "completed"
    /\ \A i \in 1 .. Length(flow[j]) : steps[j][i] \in {"completed", "skipped"}

\* The queue implements the job board: a row leaves 'queued' for one worker,
\* and 'running' by that worker; the row of a worker that is gone, by a failing
\* step or a kill, stays 'running' for good.
Board == INSTANCE JobBoard WITH
  posted  <- {j \in Jobs : queue[j] # "absent"},
  holds   <- job,
  lost    <- abandoned,
  settled <- {j \in Jobs : queue[j] \in {"completed", "failed"}}
ImplementsBoard == Board!BoardSpec

\* While workers keep being run, no job is left in the queue: a batch that a
\* failing job cut short is picked up by a later worker.
QueueDrains == \A j \in Jobs : queue[j] = "queued" ~> queue[j] # "queued"
=============================================================================
