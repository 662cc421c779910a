-------------------------- MODULE WorkQueue_proofs ---------------------------
(***************************************************************************)
(* For every number of workers and jobs, batch limit and workflow length:  *)
(* the variables keep their types, no job is run twice, a completed job    *)
(* ran, and the queue implements the job board.  At the end, the lock that *)
(* a worker takes for run-day implements the mutex WorkQueue is built on.  *)
(***************************************************************************)
EXTENDS WorkQueue, PipelineLock, FiniteSetTheorems, TLAPS

-----------------------------------------------------------------------------
(* Types and ownership.  A worker past its claim is at a job that is       *)
(* 'running'; nobody else is at it, and until the worker opens the run     *)
(* none was ever opened.                                                   *)

AtWork == {"claimed", "between", "step", "run_day", "left", "closing"}

Owners ==
  \A w \in Workers : pc[w] \in AtWork =>
    /\ job[w] \in Jobs
    /\ queue[job[w]] = "running"

Idle == \A w \in Workers : pc[w] \notin AtWork => job[w] = NoJob

Alone == \A w, v \in Workers : job[w] = job[v] /\ job[w] # NoJob => w = v

OpenedOnce ==
  /\ \A j \in Jobs : opened[j] <= 1
  /\ \A j \in Jobs : queue[j] \in {"absent", "queued"} => opened[j] = 0
  /\ \A w \in Workers : pc[w] = "claimed" => opened[job[w]] = 0

IInv == TypeOK /\ Owners /\ Idle /\ Alone /\ OpenedOnce

LEMMA NoJobIsNone == NoJob \notin Jobs
BY WorkQueueAssumption DEF NoJob

LEMMA InvInit == Init => IInv
BY NoJobIsNone
   DEF Init, IInv, TypeOK, Owners, Idle, Alone, OpenedOnce, AtWork, Flows,
       RunDay!MutexInit

\* A status of workflow_queue, and a step's.
LEMMA SetJobType ==
  ASSUME TypeOK, NEW j \in Jobs, SetJob(j, "queued") \/ SetJob(j, "running")
                                 \/ SetJob(j, "completed") \/ SetJob(j, "failed")
  PROVE  queue' \in [Jobs -> {"absent", "queued", "running", "completed", "failed"}]
BY DEF TypeOK, SetJob

LEMMA SetStepType ==
  ASSUME TypeOK, NEW j \in Jobs, NEW i,
         NEW s \in {"running", "completed", "skipped", "failed"},
         SetStep(j, i, s)
  PROVE  steps' \in [Jobs -> [1 .. MaxSteps ->
                       {"none", "running", "completed", "skipped", "failed"}]]
<1>1. [steps[j] EXCEPT ![i] = s]
        \in [1 .. MaxSteps -> {"none", "running", "completed", "skipped", "failed"}]
  BY DEF TypeOK
<1>2. QED
  BY <1>1 DEF TypeOK, SetStep

-----------------------------------------------------------------------------
LEMMA InvStep == IInv /\ [Next]_vars => IInv'
<1> SUFFICES ASSUME IInv, [Next]_vars
             PROVE  IInv'
  OBVIOUS
<1> USE DEF board, runs
<1>1. ASSUME NEW j \in Jobs, QueueAdd(j)
      PROVE  IInv'
  <2>1. TypeOK'
    BY <1>1, SetJobType DEF QueueAdd, IInv, TypeOK
  <2>2. Owners' /\ OpenedOnce'
    BY <1>1 DEF QueueAdd, SetJob, IInv, TypeOK, Owners, OpenedOnce
  <2>3. QED
    BY <1>1, <2>1, <2>2 DEF QueueAdd, IInv, Idle, Alone
\* A worker reads its candidates, or is done with them.
<1>2. ASSUME NEW w \in Workers, NEW to \in {"list", "off"}, pc[w] \notin AtWork,
             Goto(w, to), todo' \in [Workers -> SUBSET Jobs],
             UNCHANGED <<board, runs, job, inside, abandoned, crashes>>
      PROVE  IInv'
  <2>1. TypeOK'
    BY <1>2 DEF Goto, IInv, TypeOK
  <2>2. Owners' /\ Idle' /\ Alone' /\ OpenedOnce'
    BY <1>2 DEF Goto, IInv, TypeOK, Owners, Idle, Alone, OpenedOnce, AtWork
  <2>3. QED
    BY <2>1, <2>2 DEF IInv
<1>2a. ASSUME NEW w \in Workers, Poll(w)
       PROVE  IInv'
  <2>1. todo' \in [Workers -> SUBSET Jobs]
    BY <1>2a DEF Poll, Oldest, IInv, TypeOK
  <2>2. pc[w] \notin AtWork
    BY <1>2a DEF Poll, AtWork
  <2>3. QED
    BY <1>2, <1>2a, <2>1, <2>2 DEF Poll
<1>2b. ASSUME NEW w \in Workers, Exit(w)
       PROVE  IInv'
  <2>1. todo' \in [Workers -> SUBSET Jobs]
    BY <1>2b DEF Exit, IInv, TypeOK
  <2>2. pc[w] \notin AtWork
    BY <1>2b DEF Exit, AtWork
  <2>3. QED
    BY <1>2, <1>2b, <2>1, <2>2 DEF Exit
<1>3. ASSUME NEW w \in Workers, Claim(w)
      PROVE  IInv'
  <2>1. PICK j \in todo[w] :
          /\ todo' = [todo EXCEPT ![w] = @ \ {j}]
          /\ IF Claimable(j)
             THEN /\ SetJob(j, "running")
                  /\ job' = [job EXCEPT ![w] = j]
                  /\ Goto(w, "claimed")
             ELSE UNCHANGED <<queue, job, pc>>
    BY <1>3 DEF Claim
  <2>2. j \in Jobs /\ pc[w] = "list"
    BY <1>3 DEF Claim, IInv, TypeOK
  <2>0. UNCHANGED <<flow, sound, run, opened, steps, inside, abandoned, crashes>>
    BY <1>3 DEF Claim
  <2>3. CASE Claimable(j)
    <3>0. /\ queue' \in [Jobs -> {"absent", "queued", "running", "completed", "failed"}]
          /\ todo' \in [Workers -> SUBSET Jobs]
      BY <2>1, <2>2, <2>3, SetJobType DEF IInv, TypeOK
    <3>1. TypeOK'
      BY <2>0, <2>1, <2>2, <2>3, <3>0 DEF Goto, IInv, TypeOK
    <3>2. \A v \in Workers : job[v] # j
      BY <2>2, <2>3, NoJobIsNone DEF Claimable, IInv, Owners, Idle
    <3>a. /\ queue' = [queue EXCEPT ![j] = "running"]
          /\ job' = [job EXCEPT ![w] = j]
          /\ pc' = [pc EXCEPT ![w] = "claimed"]
          /\ opened' = opened
          /\ queue[j] = "queued"
      BY <2>0, <2>1, <2>3 DEF SetJob, Goto, Claimable
    <3>b. /\ queue \in [Jobs -> {"absent", "queued", "running", "completed", "failed"}]
          /\ job \in [Workers -> Jobs \cup {NoJob}]
          /\ opened \in [Jobs -> Nat]
          /\ pc \in [Workers -> {"off", "list"} \cup AtWork]
      BY DEF IInv, TypeOK, AtWork
    <3>3. Owners' /\ Idle'
      BY <2>2, <3>a, <3>b DEF IInv, Owners, Idle, AtWork
    <3>4. Alone'
      BY <2>1, <2>2, <2>3, <3>2 DEF IInv, TypeOK, Alone
    <3>5. OpenedOnce'
      BY <2>2, <3>2, <3>a, <3>b DEF IInv, Owners, OpenedOnce, AtWork
    <3>6. QED
      BY <3>1, <3>3, <3>4, <3>5 DEF IInv
  <2>4. CASE ~Claimable(j)
    <3>1. TypeOK'
      BY <2>0, <2>1, <2>2, <2>4 DEF IInv, TypeOK
    <3>2. QED
      BY <2>0, <2>1, <2>4, <3>1
         DEF IInv, Owners, Idle, Alone, OpenedOnce
  <2>5. QED
    BY <2>3, <2>4
<1>4. ASSUME NEW w \in Workers, RejectJob(w) \/ CompleteJob(w)
      PROVE  IInv'
  <2>1. /\ pc[w] \in AtWork /\ job[w] \in Jobs
        /\ queue[job[w]] = "running"
    BY <1>4 DEF RejectJob, CompleteJob, IInv, Owners, AtWork
  <2>2. /\ SetJob(job[w], "completed") \/ SetJob(job[w], "failed")
        /\ job' = [job EXCEPT ![w] = NoJob]
        /\ Goto(w, "list")
        /\ UNCHANGED <<flow, sound, run, opened, steps, todo, inside, abandoned,
                       crashes>>
    BY <1>4 DEF RejectJob, CompleteJob
  <2>3. TypeOK'
    BY <2>1, <2>2, SetJobType DEF Goto, IInv, TypeOK
  <2>4. Owners'
    <3>1. \A v \in Workers \ {w} : job[v] # job[w] \/ job[v] = NoJob
      BY DEF IInv, Alone
    <3>2. QED
      BY <2>1, <2>2, <3>1, NoJobIsNone
         DEF SetJob, Goto, IInv, TypeOK, Owners, AtWork
  <2>5. Idle' /\ Alone'
    BY <2>2 DEF Goto, IInv, TypeOK, Idle, Alone, AtWork
  <2>6. OpenedOnce'
    BY <2>1, <2>2 DEF SetJob, Goto, IInv, TypeOK, OpenedOnce
  <2>7. QED
    BY <2>3, <2>4, <2>5, <2>6 DEF IInv
<1>5. ASSUME NEW w \in Workers, OpenRun(w)
      PROVE  IInv'
  <2>1. pc[w] = "claimed" /\ job[w] \in Jobs /\ opened[job[w]] = 0
        /\ queue[job[w]] = "running"
    BY <1>5 DEF OpenRun, IInv, Owners, OpenedOnce, AtWork
  <2>2. TypeOK'
    BY <1>5, <2>1 DEF OpenRun, Goto, IInv, TypeOK
  <2>3. Owners' /\ Idle' /\ Alone'
    BY <1>5, <2>1 DEF OpenRun, Goto, IInv, TypeOK, Owners, Idle, Alone, AtWork
  <2>4. \A v \in Workers : v # w /\ pc[v] = "claimed" => job[v] # job[w]
    BY <2>1, NoJobIsNone DEF IInv, Alone
  <2>5. OpenedOnce'
    BY <1>5, <2>1, <2>4
       DEF OpenRun, Goto, IInv, TypeOK, Owners, OpenedOnce, AtWork
  <2>6. QED
    BY <2>2, <2>3, <2>5 DEF IInv
\* The steps of a workflow move a worker that stays at its job.
<1>6. ASSUME NEW w \in Workers, pc[w] \in AtWork \ {"claimed"},
             NEW to \in AtWork \ {"claimed"}, Goto(w, to),
             UNCHANGED <<queue, opened, job>>, TypeOK'
      PROVE  IInv'
  BY <1>6 DEF Goto, IInv, TypeOK, Owners, Idle, Alone, OpenedOnce, AtWork
<1>7. ASSUME NEW w \in Workers, pc[w] \in AtWork
      PROVE  job[w] \in Jobs
  BY <1>7 DEF IInv, Owners
<1>8. ASSUME NEW w \in Workers, BeginStep(w)
      PROVE  IInv'
  <2>1. TypeOK'
    BY <1>7, <1>8, SetStepType DEF BeginStep, Goto, IInv, TypeOK, AtWork
  <2>2. QED
    BY <1>6, <1>8, <2>1 DEF BeginStep, AtWork
<1>9. ASSUME NEW w \in Workers, EnterRunDay(w) \/ LeaveRunDay(w)
      PROVE  IInv'
  <2>1. TypeOK'
    BY <1>9 DEF EnterRunDay, LeaveRunDay, RunDay!Enter, RunDay!Exit, Goto,
                IInv, TypeOK
  <2>2. QED
    BY <1>6, <1>9, <2>1 DEF EnterRunDay, LeaveRunDay, AtWork
<1>10. ASSUME NEW w \in Workers, SkipRunDay(w) \/ EndStep(w)
       PROVE  IInv'
  <2>1. pc[w] \in {"step", "left"}
    BY <1>10 DEF SkipRunDay, EndStep, Worked
  <2>2. TypeOK'
    BY <1>7, <1>10, <2>1, SetStepType
       DEF SkipRunDay, EndStep, Goto, IInv, TypeOK, AtWork
  <2>3. QED
    BY <1>6, <1>10, <2>1, <2>2 DEF SkipRunDay, EndStep, AtWork
<1>11. ASSUME NEW w \in Workers, CloseRun(w)
       PROVE  IInv'
  <2>1. TypeOK'
    BY <1>7, <1>11 DEF CloseRun, Goto, IInv, TypeOK, AtWork
  <2>2. QED
    BY <1>6, <1>11, <2>1 DEF CloseRun, AtWork
\* A worker that is gone is at no job.
<1>12. ASSUME NEW w \in Workers, job' = [job EXCEPT ![w] = NoJob],
              Goto(w, "off"), UNCHANGED <<queue, opened>>, TypeOK'
       PROVE  IInv'
  BY <1>12 DEF Goto, IInv, TypeOK, Owners, Idle, Alone, OpenedOnce, AtWork
<1>13. ASSUME NEW w \in Workers, FailStep(w)
       PROVE  IInv'
  <2>1. job[w] \in Jobs
    BY <1>7, <1>13 DEF FailStep, Worked, AtWork
  <2>2. steps' \in [Jobs -> [1 .. MaxSteps ->
                       {"none", "running", "completed", "skipped", "failed"}]]
    BY <1>13, <2>1, SetStepType DEF FailStep, FailRun, IInv
  <2>3. TypeOK'
    BY <1>13, <2>1, <2>2 DEF FailStep, FailRun, Goto, IInv, TypeOK
  <2>4. QED
    BY <1>12, <1>13, <2>3 DEF FailStep
<1>14. ASSUME NEW w \in Workers, Crash(w)
       PROVE  IInv'
  <2>1. TypeOK'
    BY <1>14 DEF Crash, Goto, IInv, TypeOK
  <2>2. QED
    BY <1>12, <1>14, <2>1 DEF Crash
<1>15. CASE UNCHANGED vars
  BY <1>15 DEF vars, IInv, TypeOK, Owners, Idle, Alone, OpenedOnce
<1>16. QED
  BY <1>1, <1>2a, <1>2b, <1>3, <1>4, <1>5, <1>8, <1>9, <1>10, <1>11, <1>13, <1>14,
     <1>15 DEF Next, Step

LEMMA Inductive == Spec => []IInv
BY InvInit, InvStep, PTL DEF Spec

-----------------------------------------------------------------------------
\* The variables keep their types.
THEOREM TypeCorrect == Spec => []TypeOK
<1>1. IInv => TypeOK
  BY DEF IInv
<1>2. QED
  BY <1>1, Inductive, PTL

\* The compare-and-claim keeps two workers off the same job, and no workflow
\* is started twice.
THEOREM NoJobRunsTwice == Spec => []NoDoubleRun
<1>1. IInv => NoDoubleRun
  BY NoJobIsNone DEF IInv, TypeOK, Alone, OpenedOnce, NoDoubleRun, AtJob
<1>2. QED
  BY <1>1, Inductive, PTL

-----------------------------------------------------------------------------
(* Refinement: QueueAdd posts, a won claim takes, the end of a job settles, *)
(* and a worker that ends at its job loses it.                             *)

\* A job whose worker is gone is 'running' for good, and nobody is at it.
LostOK ==
  \A j \in abandoned : queue[j] = "running" /\ \A w \in Workers : job[w] # j

LEMMA LostStep == IInv /\ LostOK /\ [Next]_vars => LostOK'
<1> SUFFICES ASSUME IInv, LostOK, [Next]_vars
             PROVE  LostOK'
  OBVIOUS
<1> USE DEF board, runs
<1>1. /\ TypeOK /\ abandoned \subseteq Jobs /\ NoJob \notin Jobs
      /\ queue \in [Jobs -> {"absent", "queued", "running", "completed", "failed"}]
      /\ job \in [Workers -> Jobs \cup {NoJob}]
  BY NoJobIsNone DEF IInv, TypeOK
<1>2. ASSUME NEW j \in Jobs, QueueAdd(j)
      PROVE  LostOK'
  <2>1. /\ queue[j] = "absent" /\ UNCHANGED <<job, abandoned>>
        /\ queue' = [queue EXCEPT ![j] = "queued"]
    BY <1>2 DEF QueueAdd, SetJob
  <2>2. QED
    BY <1>1, <2>1 DEF LostOK
<1>3. ASSUME NEW w \in Workers, NEW j \in Jobs, queue[j] = "queued",
             queue' = [queue EXCEPT ![j] = "running"],
             job' = [job EXCEPT ![w] = j], UNCHANGED abandoned
      PROVE  LostOK'
  <2>1. j \notin abandoned
    BY <1>3 DEF LostOK
  <2>2. QED
    BY <1>1, <1>3, <2>1 DEF LostOK
<1>4. ASSUME NEW w \in Workers, Claim(w)
      PROVE  LostOK'
  <2>1. PICK j \in todo[w] :
          IF Claimable(j)
          THEN SetJob(j, "running") /\ job' = [job EXCEPT ![w] = j]
          ELSE UNCHANGED <<queue, job>>
    BY <1>4 DEF Claim
  <2>2. j \in Jobs /\ UNCHANGED abandoned
    BY <1>4 DEF Claim, IInv, TypeOK
  <2>3. QED
    BY <1>3, <2>1, <2>2 DEF Claimable, SetJob, LostOK
<1>5. ASSUME NEW w \in Workers, RejectJob(w) \/ CompleteJob(w)
      PROVE  LostOK'
  <2>1. job[w] \in Jobs /\ UNCHANGED abandoned /\ job' = [job EXCEPT ![w] = NoJob]
    BY <1>5 DEF RejectJob, CompleteJob, IInv, Owners, AtWork
  <2>2. PICK s \in {"completed", "failed"} : queue' = [queue EXCEPT ![job[w]] = s]
    BY <1>5 DEF RejectJob, CompleteJob, SetJob
  <2>3. \A j \in abandoned : j # job[w]
    BY DEF LostOK
  <2>4. QED
    BY <1>1, <2>1, <2>2, <2>3 DEF LostOK
<1>6. ASSUME NEW w \in Workers, FailStep(w) \/ Crash(w)
      PROVE  LostOK'
  <2>1. /\ UNCHANGED queue /\ job' = [job EXCEPT ![w] = NoJob]
        /\ abandoned' = abandoned \cup ({job[w]} \ {NoJob})
    <3>1. CASE FailStep(w)
      <4>1. job[w] \in Jobs
        BY <3>1 DEF FailStep, Worked, IInv, Owners, AtWork
      <4>2. QED
        BY <1>1, <3>1, <4>1 DEF FailStep
    <3>2. CASE Crash(w)
      BY <3>2 DEF Crash
    <3>3. QED
      BY <1>6, <3>1, <3>2
  <2>2. CASE job[w] = NoJob
    BY <1>1, <2>1, <2>2 DEF LostOK
  <2>3. CASE job[w] # NoJob
    <3>1. pc[w] \in AtWork /\ job[w] \in Jobs
      BY <1>1, <2>3 DEF IInv, Idle
    <3>2. queue[job[w]] = "running"
      BY <3>1 DEF IInv, Owners
    <3>3. \A v \in Workers \ {w} : job[v] # job[w]
      BY <2>3 DEF IInv, Alone
    <3>4. QED
      BY <1>1, <2>1, <3>1, <3>2, <3>3 DEF LostOK
  <2>4. QED
    BY <2>2, <2>3
<1>7. CASE UNCHANGED <<queue, job, abandoned>>
  BY <1>7 DEF LostOK
<1>8. ASSUME NEW w \in Workers,
             \/ Poll(w) \/ Exit(w) \/ OpenRun(w) \/ BeginStep(w) \/ EnterRunDay(w)
             \/ SkipRunDay(w) \/ LeaveRunDay(w) \/ EndStep(w) \/ CloseRun(w)
      PROVE  UNCHANGED <<queue, job, abandoned>>
  BY <1>8 DEF Poll, Exit, OpenRun, BeginStep, EnterRunDay, SkipRunDay, LeaveRunDay,
              EndStep, CloseRun
<1>9. CASE UNCHANGED vars
  BY <1>7, <1>9 DEF vars
<1>10. QED
  BY <1>2, <1>4, <1>5, <1>6, <1>7, <1>8, <1>9 DEF Next, Step

LEMMA BoardStep ==
  ASSUME IInv, LostOK, [Next]_vars
  PROVE  [Board!BoardNext]_(Board!boardVars)
<1> USE DEF board, runs
<1>1. /\ NoJob \notin Jobs
      /\ queue \in [Jobs -> {"absent", "queued", "running", "completed", "failed"}]
      /\ job \in [Workers -> Jobs \cup {NoJob}]
  BY NoJobIsNone DEF IInv, TypeOK
<1>2. ASSUME NEW j \in Jobs, QueueAdd(j)
      PROVE  Board!Post(j)
  <2>1. /\ queue[j] = "absent" /\ UNCHANGED <<job, abandoned>>
        /\ queue' = [queue EXCEPT ![j] = "queued"]
    BY <1>2 DEF QueueAdd, SetJob
  <2>2. QED
    BY <1>1, <2>1 DEF Board!Post
<1>3. ASSUME NEW w \in Workers, Claim(w)
      PROVE  (\E j \in Jobs : Board!Take(w, j)) \/ UNCHANGED Board!boardVars
  <2>1. PICK j \in todo[w] :
          IF Claimable(j)
          THEN SetJob(j, "running") /\ job' = [job EXCEPT ![w] = j]
          ELSE UNCHANGED <<queue, job>>
    BY <1>3 DEF Claim
  <2>2. j \in Jobs /\ UNCHANGED abandoned
    BY <1>3 DEF Claim, IInv, TypeOK
  <2>3. CASE Claimable(j)
    <3>1. /\ queue[j] = "queued" /\ queue' = [queue EXCEPT ![j] = "running"]
          /\ job' = [job EXCEPT ![w] = j]
      BY <2>1, <2>3 DEF Claimable, SetJob
    <3>2. j \notin abandoned
      BY <3>1 DEF LostOK
    <3>3. job[w] = NoJob
      <4>1. pc[w] \notin AtWork
        BY <1>3 DEF Claim, AtWork
      <4>2. QED
        BY <4>1 DEF IInv, Idle
    <3>4. \A v \in Workers : job[v] # j
      <4> SUFFICES ASSUME NEW v \in Workers, job[v] = j
                   PROVE  FALSE
        OBVIOUS
      <4>1. pc[v] \in AtWork
        BY <1>1, <2>2 DEF IInv, Idle
      <4>2. queue[j] = "running"
        BY <4>1 DEF IInv, Owners
      <4>3. QED
        BY <3>1, <4>2
    <3>5. Board!Take(w, j)
      BY <1>1, <2>2, <3>1, <3>2, <3>3, <3>4 DEF Board!Take
    <3>6. QED
      BY <2>2, <3>5
  <2>4. CASE ~Claimable(j)
    BY <2>1, <2>2, <2>4 DEF Board!boardVars
  <2>5. QED
    BY <2>3, <2>4
<1>4. ASSUME NEW w \in Workers, RejectJob(w) \/ CompleteJob(w)
      PROVE  Board!Settle(w)
  <2>1. /\ job[w] \in Jobs /\ queue[job[w]] = "running" /\ UNCHANGED abandoned
        /\ job' = [job EXCEPT ![w] = NoJob]
    BY <1>4 DEF RejectJob, CompleteJob, IInv, Owners, AtWork
  <2>2. PICK s \in {"completed", "failed"} : queue' = [queue EXCEPT ![job[w]] = s]
    BY <1>4 DEF RejectJob, CompleteJob, SetJob
  <2>3. QED
    BY <1>1, <2>1, <2>2 DEF Board!Settle
<1>5. ASSUME NEW w \in Workers, FailStep(w) \/ Crash(w)
      PROVE  Board!Lose(w) \/ UNCHANGED Board!boardVars
  <2>1. CASE FailStep(w)
    <3>1. job[w] \in Jobs
      BY <2>1 DEF FailStep, Worked, IInv, Owners, AtWork
    <3>2. QED
      BY <1>1, <2>1, <3>1 DEF FailStep, Board!Lose
  <2>2. CASE Crash(w) /\ job[w] # NoJob
    <3>1. {job[w]} \ {NoJob} = {job[w]}
      BY <2>2
    <3>2. QED
      BY <2>2, <3>1 DEF Crash, Board!Lose
  <2>3. CASE Crash(w) /\ job[w] = NoJob
    <3>1. {job[w]} \ {NoJob} = {}
      BY <2>3
    <3>2. job' = job /\ UNCHANGED <<queue, abandoned>>
      BY <1>1, <2>3, <3>1 DEF Crash
    <3>3. QED
      BY <3>2 DEF Board!boardVars
  <2>4. QED
    BY <1>5, <2>1, <2>2, <2>3
<1>6. CASE UNCHANGED <<queue, job, abandoned>>
  BY <1>6 DEF Board!boardVars
<1>7. ASSUME NEW w \in Workers,
             \/ Poll(w) \/ Exit(w) \/ OpenRun(w) \/ BeginStep(w) \/ EnterRunDay(w)
             \/ SkipRunDay(w) \/ LeaveRunDay(w) \/ EndStep(w) \/ CloseRun(w)
      PROVE  UNCHANGED <<queue, job, abandoned>>
  BY <1>7 DEF Poll, Exit, OpenRun, BeginStep, EnterRunDay, SkipRunDay, LeaveRunDay,
              EndStep, CloseRun
<1>8. CASE UNCHANGED vars
  BY <1>6, <1>8 DEF vars
<1> HIDE DEF board, runs
<1>9. CASE \E j \in Jobs : QueueAdd(j)
  BY <1>2, <1>9 DEF Board!BoardNext
<1>10. ASSUME NEW w \in Workers, Poll(w) \/ Step(w) \/ Crash(w)
       PROVE  [Board!BoardNext]_(Board!boardVars)
  <2>1. CASE Claim(w)
    BY <1>3, <2>1 DEF Board!BoardNext
  <2>2. CASE RejectJob(w) \/ CompleteJob(w)
    BY <1>4, <2>2 DEF Board!BoardNext
  <2>3. CASE FailStep(w) \/ Crash(w)
    BY <1>5, <2>3 DEF Board!BoardNext
  <2>4. QED
    BY <1>6, <1>7, <1>10, <2>1, <2>2, <2>3 DEF Step
<1>11. QED
  BY <1>8, <1>9, <1>10 DEF Next

\* The queue implements the job board: one worker takes a job, only that worker
\* settles it, and a job whose worker is gone is never taken again.
THEOREM QueueIsBoard == Spec => ImplementsBoard
<1>1. Init => LostOK /\ Board!BoardInit
  BY DEF Init, LostOK, Board!BoardInit
<1>2. IInv /\ LostOK /\ [Next]_vars => LostOK'
  BY LostStep
<1>3. IInv /\ LostOK /\ [Next]_vars => [Board!BoardNext]_(Board!boardVars)
  BY BoardStep
<1>4. QED
  BY <1>1, <1>2, <1>3, Inductive, PTL DEF Spec, ImplementsBoard, Board!BoardSpec

-----------------------------------------------------------------------------
(* A completed job ran.  The steps of a run are begun in order and one at  *)
(* a time, so a worker between two steps has all of them behind it.        *)

Done == {"completed", "skipped"}

\* The steps begun are the first ones of the workflow; none are begun before
\* the job is claimed, and a completed job has gone through all of them.
JobOK(j) ==
  /\ Begun(j) \in 0 .. MaxSteps
  /\ \A i \in 1 .. MaxSteps : steps[j][i] # "none" <=> i <= Begun(j)
  /\ queue[j] \in {"absent", "queued"} => Begun(j) = 0
  /\ queue[j] = "completed" =>
       /\ run[j] = "completed"
       /\ \A i \in 1 .. Length(flow[j]) : steps[j][i] \in Done

\* What a worker has carried out when it stands at a point.
WorkerOK(w) ==
  LET j == job[w]
      DoneUpTo(n) == \A i \in 1 .. n : steps[j][i] \in Done
  IN
  /\ pc[w] = "claimed" => Begun(j) = 0
  /\ pc[w] = "between" => DoneUpTo(Begun(j))
  /\ pc[w] \in {"step", "run_day", "left"} =>
       Begun(j) >= 1 /\ DoneUpTo(Begun(j) - 1)
  /\ pc[w] = "closing" =>
       run[j] = "completed" /\ DoneUpTo(Length(flow[j]))

RunInv == (\A j \in Jobs : JobOK(j)) /\ (\A w \in Workers : WorkerOK(w))

\* A run whose first n steps are begun has begun n steps.
LEMMA CountBegun ==
  ASSUME NEW s, NEW n \in 0 .. MaxSteps,
         \A i \in 1 .. MaxSteps : s[i] # "none" <=> i <= n
  PROVE  Cardinality({i \in 1 .. MaxSteps : s[i] # "none"}) = n
<1>1. {i \in 1 .. MaxSteps : s[i] # "none"} = 1 .. n
  BY WorkQueueAssumption
<1>2. Cardinality(1 .. n) = n
  BY FS_Interval, WorkQueueAssumption
<1>3. QED
  BY <1>1, <1>2

LEMMA BegunKept ==
  ASSUME NEW j, steps'[j] = steps[j]
  PROVE  Begun(j)' = Begun(j)
<1>1. {i \in 1 .. MaxSteps : steps'[j][i] # "none"}
        = {i \in 1 .. MaxSteps : steps[j][i] # "none"}
  OBVIOUS
<1>2. QED
  BY <1>1 DEF Begun

\* The next step is begun.
LEMMA BegunMore ==
  ASSUME TypeOK, NEW j \in Jobs, JobOK(j), Begun(j) < MaxSteps,
         NEW s, s # "none", SetStep(j, Begun(j) + 1, s)
  PROVE  /\ Begun(j)' = Begun(j) + 1
         /\ \A i \in 1 .. MaxSteps : steps'[j][i] # "none" <=> i <= Begun(j) + 1
         /\ \A i \in 1 .. Begun(j) : steps'[j][i] = steps[j][i]
<1>1. Begun(j) \in 0 .. MaxSteps /\ MaxSteps \in Nat
  BY WorkQueueAssumption DEF JobOK
<1>2. \A i \in 1 .. MaxSteps :
        steps'[j][i] = IF i = Begun(j) + 1 THEN s ELSE steps[j][i]
  BY <1>1 DEF SetStep, TypeOK
<1>3. \A i \in 1 .. MaxSteps : steps'[j][i] # "none" <=> i <= Begun(j) + 1
  BY <1>1, <1>2 DEF JobOK
<1>4. Begun(j) + 1 \in 0 .. MaxSteps
  BY <1>1
<1>5. Begun(j)' = Begun(j) + 1
  <2>1. Cardinality({i \in 1 .. MaxSteps : steps'[j][i] # "none"}) = Begun(j) + 1
    BY <1>3, <1>4, CountBegun
  <2>2. QED
    BY <2>1 DEF Begun
<1>6. QED
  BY <1>1, <1>2, <1>3, <1>5

\* The step begun last gets another status.
LEMMA BegunSame ==
  ASSUME TypeOK, NEW j \in Jobs, JobOK(j), Begun(j) >= 1,
         NEW s, s # "none", SetStep(j, Begun(j), s)
  PROVE  /\ Begun(j)' = Begun(j)
         /\ \A i \in 1 .. MaxSteps : steps'[j][i] # "none" <=> i <= Begun(j)
         /\ \A i \in 1 .. Begun(j) - 1 : steps'[j][i] = steps[j][i]
         /\ steps'[j][Begun(j)] = s
<1>1. Begun(j) \in 1 .. MaxSteps /\ MaxSteps \in Nat
  BY WorkQueueAssumption DEF JobOK
<1>2. \A i \in 1 .. MaxSteps :
        steps'[j][i] = IF i = Begun(j) THEN s ELSE steps[j][i]
  BY <1>1 DEF SetStep, TypeOK
<1>3. \A i \in 1 .. MaxSteps : steps'[j][i] # "none" <=> i <= Begun(j)
  BY <1>1, <1>2 DEF JobOK
<1>4. Begun(j)' = Begun(j)
  <2>1. Begun(j) \in 0 .. MaxSteps
    BY <1>1
  <2>2. Cardinality({i \in 1 .. MaxSteps : steps'[j][i] # "none"}) = Begun(j)
    BY <1>3, <2>1, CountBegun
  <2>3. QED
    BY <2>2 DEF Begun
<1>5. QED
  BY <1>1, <1>2, <1>3, <1>4

\* A worker's step changes its own job and nobody else's.
LEMMA OthersOK ==
  ASSUME IInv, RunInv, NEW w \in Workers, pc[w] \in AtWork,
         NEW j \in Jobs, j = job[w],
         flow' = flow,
         \A i \in Jobs : i # j =>
           queue'[i] = queue[i] /\ run'[i] = run[i] /\ steps'[i] = steps[i],
         \A v \in Workers : v # w => pc'[v] = pc[v] /\ job'[v] = job[v],
         JobOK(j)', WorkerOK(w)'
  PROVE  RunInv'
<1>1. ASSUME NEW i \in Jobs, i # j
      PROVE  JobOK(i)'
  <2>1. Begun(i)' = Begun(i)
    BY <1>1, BegunKept
  <2>2. QED
    BY <1>1, <2>1 DEF RunInv, JobOK
<1>2. ASSUME NEW v \in Workers, v # w
      PROVE  WorkerOK(v)'
  <2>1. CASE pc[v] \in AtWork
    <3>1. job[v] \in Jobs /\ job[v] # j
      BY <1>2, <2>1, NoJobIsNone DEF IInv, Owners, Alone
    <3>2. Begun(job[v])' = Begun(job[v])
      <4>1. job'[v] = job[v]
        BY <1>2
      <4>2. steps'[job'[v]] = steps[job[v]]
        BY <3>1, <4>1
      <4>3. {i \in 1 .. MaxSteps : steps'[job'[v]][i] # "none"}
              = {i \in 1 .. MaxSteps : steps[job[v]][i] # "none"}
        BY <4>2
      <4>4. QED
        BY <4>3 DEF Begun
    <3>3. QED
      BY <1>2, <3>1, <3>2 DEF RunInv, WorkerOK
  <2>2. CASE pc[v] \notin AtWork
    BY <1>2, <2>2 DEF WorkerOK, AtWork
  <2>3. QED
    BY <2>1, <2>2
<1>3. QED
  BY <1>1, <1>2 DEF RunInv

\* Runs and the rows of the queue are as they were; who moves is at nothing.
LEMMA NothingRan ==
  ASSUME RunInv, UNCHANGED <<queue, flow, run, steps, job>>,
         \A w \in Workers : pc'[w] = pc[w] \/ pc'[w] \notin AtWork
  PROVE  RunInv'
<1>1. \A j \in Jobs : JobOK(j)'
  BY BegunKept DEF RunInv, JobOK
<1>2. ASSUME NEW w \in Workers
      PROVE  WorkerOK(w)'
  <2>1. Begun(job[w])' = Begun(job[w])
    BY DEF Begun
  <2>2. QED
    BY <2>1 DEF RunInv, WorkerOK, AtWork
<1>3. QED
  BY <1>1, <1>2 DEF RunInv

LEMMA RunStep ==
  ASSUME IInv, RunInv, [Next]_vars
  PROVE  RunInv'
<1> USE DEF board, runs
<1>0. ASSUME NEW w \in Workers, pc[w] \in AtWork
      PROVE  /\ job[w] \in Jobs
             /\ queue[job[w]] = "running"
             /\ JobOK(job[w])
             /\ WorkerOK(w)
             /\ Begun(job[w]) \in 0 .. MaxSteps
             /\ Length(flow[job[w]]) \in 1 .. MaxSteps
  <2>1. job[w] \in Jobs /\ queue[job[w]] = "running"
    BY <1>0 DEF IInv, Owners
  <2>2. JobOK(job[w]) /\ WorkerOK(w)
    BY <2>1 DEF RunInv
  <2>3. QED
    BY <2>1, <2>2, WorkQueueAssumption DEF JobOK, Length
<1>1. ASSUME NEW j \in Jobs, QueueAdd(j)
      PROVE  RunInv'
  <2>1. /\ UNCHANGED <<run, steps, job, pc>>
        /\ queue[j] = "absent" /\ queue' = [queue EXCEPT ![j] = "queued"]
        /\ \A i \in Jobs : i # j => flow'[i] = flow[i]
    BY <1>1 DEF QueueAdd, SetJob, IInv, TypeOK
  <2>2. ASSUME NEW i \in Jobs
        PROVE  JobOK(i)'
    <3>1. /\ Begun(i)' = Begun(i)
          /\ i = j => queue'[i] = "queued"
          /\ i # j => queue'[i] = queue[i] /\ flow'[i] = flow[i]
      BY <2>1, BegunKept DEF IInv, TypeOK
    <3>2. JobOK(i)
      BY DEF RunInv
    <3>3. QED
      BY <2>1, <3>1, <3>2 DEF JobOK
  <2>3. ASSUME NEW w \in Workers
        PROVE  WorkerOK(w)'
    <3>1. pc[w] \in AtWork => job[w] # j
      BY <1>0, <2>1
    <3>2. Begun(job[w])' = Begun(job[w])
      BY <2>1 DEF Begun
    <3>3. pc[w] \in AtWork => flow'[job[w]] = flow[job[w]]
      BY <1>0, <2>1, <3>1
    <3>4. WorkerOK(w)
      BY DEF RunInv
    <3>5. QED
      BY <2>1, <3>2, <3>3, <3>4 DEF WorkerOK, AtWork
  <2>4. QED
    BY <2>2, <2>3 DEF RunInv
<1>2. ASSUME NEW w \in Workers, Poll(w) \/ Exit(w)
      PROVE  RunInv'
  <2>1. UNCHANGED <<queue, flow, run, steps, job>>
    BY <1>2 DEF Poll, Exit
  <2>2. \A v \in Workers : pc'[v] = pc[v] \/ pc'[v] \notin AtWork
    BY <1>2 DEF Poll, Exit, Goto, IInv, TypeOK, AtWork
  <2>3. QED
    BY <2>1, <2>2, NothingRan
<1>3. ASSUME NEW w \in Workers, Claim(w)
      PROVE  RunInv'
  <2>1. PICK j \in todo[w] :
          IF Claimable(j)
          THEN /\ SetJob(j, "running")
               /\ job' = [job EXCEPT ![w] = j]
               /\ Goto(w, "claimed")
          ELSE UNCHANGED <<queue, job, pc>>
    BY <1>3 DEF Claim
  <2>2. j \in Jobs /\ UNCHANGED <<flow, run, steps>>
    BY <1>3 DEF Claim, IInv, TypeOK
  <2>3. CASE ~Claimable(j)
    <3>1. UNCHANGED <<queue, flow, run, steps, job, pc>>
      BY <2>1, <2>2, <2>3
    <3>2. QED
      BY <3>1, NothingRan
  <2>4. CASE Claimable(j)
    <3>1. /\ queue[j] = "queued" /\ queue' = [queue EXCEPT ![j] = "running"]
          /\ job' = [job EXCEPT ![w] = j]
          /\ pc' = [pc EXCEPT ![w] = "claimed"]
      BY <2>1, <2>4 DEF Claimable, SetJob, Goto
    <3>2. ASSUME NEW i \in Jobs
          PROVE  JobOK(i)'
      <4>1. Begun(i)' = Begun(i) /\ JobOK(i)
        BY <2>2, BegunKept DEF RunInv
      <4>2. /\ i = j => queue'[i] = "running"
            /\ i # j => queue'[i] = queue[i]
        BY <3>1 DEF IInv, TypeOK
      <4>3. QED
        BY <2>2, <4>1, <4>2 DEF JobOK
    <3>3. ASSUME NEW v \in Workers
          PROVE  WorkerOK(v)'
      <4>1. CASE v = w
        <5>1. pc'[v] = "claimed" /\ job'[v] = j
          BY <3>1, <4>1 DEF IInv, TypeOK
        <5>2. Begun(j) = 0
          BY <2>2, <3>1 DEF RunInv, JobOK
        <5>3. Begun(job[v])' = Begun(j)
          BY <2>2, <5>1 DEF Begun
        <5>4. QED
          BY <5>1, <5>2, <5>3 DEF WorkerOK
      <4>2. CASE v # w
        <5>1. pc'[v] = pc[v] /\ job'[v] = job[v]
          BY <3>1, <4>2 DEF IInv, TypeOK
        <5>2. Begun(job[v])' = Begun(job[v])
          BY <2>2, <5>1 DEF Begun
        <5>3. WorkerOK(v)
          BY DEF RunInv
        <5>4. QED
          BY <2>2, <5>1, <5>2, <5>3 DEF WorkerOK
      <4>3. QED
        BY <4>1, <4>2
    <3>4. QED
      BY <3>2, <3>3 DEF RunInv
  <2>5. QED
    BY <2>3, <2>4
<1>4. ASSUME NEW w \in Workers, RejectJob(w) \/ CompleteJob(w)
      PROVE  RunInv'
  <2>0. PICK j \in Jobs : j = job[w]
    BY <1>0, <1>4 DEF RejectJob, CompleteJob, AtWork
  <2>1. /\ \/ pc[w] = "claimed" /\ queue'[j] = "failed"
           \/ pc[w] = "closing" /\ queue'[j] \in {"completed", "failed"}
        /\ \A i \in Jobs : i # j => queue'[i] = queue[i]
        /\ pc'[w] = "list"
        /\ \A v \in Workers : v # w => pc'[v] = pc[v] /\ job'[v] = job[v]
        /\ UNCHANGED <<flow, run, steps>>
    BY <2>0, <1>4 DEF RejectJob, CompleteJob, SetJob, Goto, IInv, TypeOK, AtWork
  <2>2. /\ pc[w] \in AtWork /\ j \in Jobs /\ JobOK(j) /\ WorkerOK(w)
        /\ Begun(j) \in 0 .. MaxSteps
    BY <1>0, <2>0, <2>1 DEF AtWork
  <2>3. Begun(j)' = Begun(j)
    BY <2>1, BegunKept
  <2>4. pc[w] = "closing" =>
          run[j] = "completed" /\ \A i \in 1 .. Length(flow[j]) : steps[j][i] \in Done
    BY <2>0, <2>2 DEF WorkerOK
  <2>5. JobOK(j)' /\ WorkerOK(w)'
    BY <2>1, <2>2, <2>3, <2>4 DEF JobOK, WorkerOK
  <2>6. QED
    BY <2>0, <2>1, <2>2, <2>5, OthersOK
<1>5. ASSUME NEW w \in Workers,
             OpenRun(w) \/ CloseRun(w) \/ EnterRunDay(w) \/ LeaveRunDay(w)
      PROVE  RunInv'
  <2>0. PICK j \in Jobs : j = job[w]
    BY <1>0, <1>5 DEF OpenRun, CloseRun, EnterRunDay, LeaveRunDay, AtWork
  <2>1. /\ pc[w] \in AtWork
        /\ \/ pc[w] = "claimed" /\ pc'[w] = "between"
           \/ /\ pc[w] = "between" /\ pc'[w] = "closing"
              /\ Begun(j) = Length(flow[j]) /\ run'[j] = "completed"
           \/ pc[w] \in {"step", "run_day"} /\ pc'[w] \in {"run_day", "left"}
        /\ \A i \in Jobs : i # j => run'[i] = run[i]
        /\ \A v \in Workers : v # w => pc'[v] = pc[v]
        /\ UNCHANGED <<queue, flow, steps, job>>
    BY <2>0, <1>5 DEF OpenRun, CloseRun, EnterRunDay, LeaveRunDay, Finished,
                      Goto, IInv, TypeOK, AtWork
  <2>2. /\ j \in Jobs /\ JobOK(j) /\ WorkerOK(w) /\ queue[j] = "running"
        /\ Begun(j) \in 0 .. MaxSteps /\ Length(flow[j]) \in 1 .. MaxSteps
    BY <1>0, <2>0, <2>1
  <2>3. Begun(j)' = Begun(j)
    BY <2>1, BegunKept
  <2>4. JobOK(j)'
    BY <2>1, <2>2, <2>3 DEF JobOK
  <2>5. WorkerOK(w)'
    BY <2>0, <2>1, <2>2, <2>3 DEF WorkerOK
  <2>6. QED
    BY <2>0, <2>1, <2>2, <2>4, <2>5, OthersOK
<1>6. ASSUME NEW w \in Workers, BeginStep(w)
      PROVE  RunInv'
  <2>0. PICK j \in Jobs : j = job[w]
    BY <1>0, <1>6 DEF BeginStep, AtWork
  <2>1. /\ pc[w] = "between" /\ pc'[w] = "step"
        /\ Begun(j) < Length(flow[j])
        /\ SetStep(j, Begun(j) + 1, "running")
        /\ \A v \in Workers : v # w => pc'[v] = pc[v]
        /\ UNCHANGED <<queue, flow, run, job>>
    BY <1>6, <2>0 DEF BeginStep, Goto, IInv, TypeOK
  <2>2. /\ pc[w] \in AtWork /\ j \in Jobs /\ JobOK(j) /\ WorkerOK(w)
        /\ Begun(j) \in 0 .. MaxSteps /\ Length(flow[j]) \in 1 .. MaxSteps
        /\ queue[j] = "running"
    BY <1>0, <2>0, <2>1 DEF AtWork
  <2>3. /\ Begun(j)' = Begun(j) + 1
        /\ \A i \in 1 .. MaxSteps : steps'[j][i] # "none" <=> i <= Begun(j) + 1
        /\ \A i \in 1 .. Begun(j) : steps'[j][i] = steps[j][i]
    <3>1. Begun(j) < MaxSteps
      BY <2>1, <2>2, WorkQueueAssumption
    <3>2. QED
      BY <2>1, <2>2, <3>1, BegunMore DEF IInv
  <2>4. \A i \in Jobs : i # j => steps'[i] = steps[i]
    BY <2>1, <2>2 DEF SetStep, IInv, TypeOK
  <2>5. JobOK(j)'
    BY <2>1, <2>2, <2>3, WorkQueueAssumption DEF JobOK
  <2>6. WorkerOK(w)'
    BY <2>0, <2>1, <2>2, <2>3 DEF WorkerOK
  <2>7. QED
    BY <2>0, <2>1, <2>2, <2>4, <2>5, <2>6, OthersOK
\* The step begun last ends as it may.
<1>7. ASSUME NEW w \in Workers, SkipRunDay(w) \/ EndStep(w) \/ FailStep(w)
      PROVE  RunInv'
  <2>0. PICK j \in Jobs : j = job[w]
    BY <1>0, <1>7 DEF SkipRunDay, EndStep, FailStep, Worked, AtWork
  <2>1. PICK s \in Done \cup {"failed"} :
          /\ pc[w] \in {"step", "left"}
          /\ SetStep(j, Begun(j), s)
          /\ \/ s # "failed" /\ pc'[w] = "between" /\ job' = job
             \/ pc'[w] = "off"
          /\ \A i \in Jobs : i # j => run'[i] = run[i]
          /\ \A v \in Workers : v # w => pc'[v] = pc[v] /\ job'[v] = job[v]
          /\ UNCHANGED <<queue, flow>>
    BY <1>7, <2>0 DEF SkipRunDay, EndStep, FailStep, FailRun, Worked, Goto, Done, IInv,
                TypeOK
  <2>2. /\ pc[w] \in AtWork /\ j \in Jobs /\ JobOK(j) /\ WorkerOK(w)
        /\ Begun(j) \in 0 .. MaxSteps /\ Begun(j) >= 1
        /\ queue[j] = "running"
    BY <1>0, <2>0, <2>1 DEF AtWork, WorkerOK
  <2>3. /\ Begun(j)' = Begun(j)
        /\ \A i \in 1 .. MaxSteps : steps'[j][i] # "none" <=> i <= Begun(j)
        /\ \A i \in 1 .. Begun(j) - 1 : steps'[j][i] = steps[j][i]
        /\ steps'[j][Begun(j)] = s
    BY <2>1, <2>2, BegunSame DEF IInv, Done
  <2>4. \A i \in Jobs : i # j => steps'[i] = steps[i]
    BY <2>1, <2>2 DEF SetStep, IInv, TypeOK
  <2>5. WorkerOK(w)'
    <3>1. pc'[w] = "between" => job'[w] = j /\ s \in Done
      BY <2>0, <2>1
    <3>2. \A i \in 1 .. Begun(j) - 1 : steps[j][i] \in Done
      BY <2>0, <2>1, <2>2 DEF WorkerOK
    <3>3. pc'[w] = "between" => \A i \in 1 .. Begun(j) : steps'[j][i] \in Done
      BY <2>2, <2>3, <3>1, <3>2
    <3>4. QED
      BY <2>1, <2>3, <3>1, <3>3 DEF WorkerOK
  <2>6. JobOK(j)'
    BY <2>1, <2>2, <2>3 DEF JobOK
  <2>7. QED
    BY <2>0, <2>1, <2>2, <2>4, <2>5, <2>6, OthersOK
<1>8. ASSUME NEW w \in Workers, Crash(w)
      PROVE  RunInv'
  <2>1. /\ pc'[w] = "off"
        /\ \A v \in Workers : v # w => pc'[v] = pc[v] /\ job'[v] = job[v]
        /\ UNCHANGED <<queue, flow, run, steps>>
    BY <1>8 DEF Crash, Goto, IInv, TypeOK
  <2>2. \A j \in Jobs : JobOK(j)'
    BY <2>1, BegunKept DEF RunInv, JobOK
  <2>3. ASSUME NEW v \in Workers
        PROVE  WorkerOK(v)'
    <3>1. CASE v = w
      BY <2>1, <3>1 DEF WorkerOK
    <3>2. CASE v # w
      <4>1. Begun(job[v])' = Begun(job[v])
        BY <2>1, <3>2 DEF Begun
      <4>2. QED
        BY <2>1, <3>2, <4>1 DEF RunInv, WorkerOK
    <3>3. QED
      BY <3>1, <3>2
  <2>4. QED
    BY <2>2, <2>3 DEF RunInv
<1>9. CASE UNCHANGED vars
  <2>1. UNCHANGED <<queue, flow, run, steps, job, pc>>
    BY <1>9 DEF vars
  <2>2. QED
    BY <2>1, NothingRan
<1>10. QED
  BY <1>1, <1>2, <1>3, <1>4, <1>5, <1>6, <1>7, <1>8, <1>9 DEF Next, Step

\* A job the worker marks completed had every step of its workflow carried
\* out, or skipped for the run_day lock, and its run was closed.
THEOREM CompletedRan == Spec => []CompletedMeansRan
<1>1. Init => RunInv
  <2> SUFFICES ASSUME Init
               PROVE  RunInv
    OBVIOUS
  <2>1. ASSUME NEW j \in Jobs
        PROVE  JobOK(j)
    <3>1. \A i \in 1 .. MaxSteps : steps[j][i] # "none" <=> i <= 0
      BY DEF Init
    <3>2. 0 \in 0 .. MaxSteps
      BY WorkQueueAssumption
    <3>3. Begun(j) = 0
      BY <3>1, <3>2, CountBegun DEF Begun
    <3>4. QED
      BY <3>1, <3>2, <3>3 DEF Init, JobOK
  <2>2. \A w \in Workers : WorkerOK(w)
    BY DEF Init, WorkerOK
  <2>3. QED
    BY <2>1, <2>2 DEF RunInv
<1>2. IInv /\ RunInv /\ [Next]_vars => RunInv'
  BY RunStep
<1>3. RunInv => CompletedMeansRan
  BY DEF RunInv, JobOK, CompletedMeansRan, Done
<1>4. QED
  BY <1>1, <1>2, <1>3, Inductive, PTL DEF Spec

-----------------------------------------------------------------------------
(* PipelineLock.  With owner strings that are never used twice, and cycles *)
(* that end within the lease, the lock is a mutex: for any number of       *)
(* processes and names, whatever crashes.  Both hypotheses are needed      *)
(* (README, section 4).                                                    *)

\* A loop between two cycles owns no row: it released its own, and the row
\* of a dead process carries another name.
IdleOwnsNothing == \A p \in Procs : phase[p] = "idle" => owner # name[p]

DistinctNames == \A p, q \in Alive : name[p] = name[q] => p = q

LockInv == LockTypeOK /\ HolderOwnsRow /\ IdleOwnsNothing /\ DistinctNames

LEMMA LockInitially == LockInit => LockInv
BY PipelineLockAssumption
   DEF LockInit, LockInv, LockTypeOK, HolderOwnsRow, Busy, IdleOwnsNothing,
       DistinctNames, Alive

\* Nobody can take the row of a process in its cycle.
LEMMA BusyExcludes ==
  ASSUME LockInv, Longest <= Lease,
         NEW p \in Procs, NEW q \in Procs, Acquire(p), phase[q] = "busy"
  PROVE  FALSE
<1>1. owner = name[q] /\ age = ran[q] /\ owner # NoName
  BY PipelineLockAssumption DEF LockInv, LockTypeOK, HolderOwnsRow, Busy
<1>2. ~Stale
  BY <1>1, PipelineLockAssumption DEF LockInv, LockTypeOK, Stale
<1>3. owner # name[p]
  BY DEF Acquire, LockInv, IdleOwnsNothing
<1>4. QED
  BY <1>1, <1>2, <1>3 DEF Acquire, Inserted

LEMMA OneCycle == LockInv => NoOverlap
BY DEF LockInv, NoOverlap, HolderOwnsRow, DistinctNames, Busy, Alive

LEMMA LockInductive ==
  ASSUME ~Reused, Longest <= Lease, LockInv, [LockNext]_lockVars
  PROVE  LockInv'
<1> USE PipelineLockAssumption
<1>1. ASSUME NEW p \in Procs, NEW n \in Names, Boot(p, n)
      PROVE  LockInv'
  <2>1. LockTypeOK'
    BY <1>1 DEF Boot, LockInv, LockTypeOK
  <2>2. name'[p] = n /\ \A q \in Procs \ {p} : name'[q] = name[q]
    BY <1>1 DEF Boot, LockInv, LockTypeOK
  <2>3. phase'[p] = "idle" /\ \A q \in Procs \ {p} : phase'[q] = phase[q]
    BY <1>1 DEF Boot, LockInv, LockTypeOK
  <2>4. owner # n /\ \A q \in Alive : name[q] # n
    BY <1>1 DEF Boot, MayBeNamed
  <2>5. UNCHANGED <<owner, age, ran>>
    BY <1>1 DEF Boot
  <2>6. QED
    BY <2>1, <2>2, <2>3, <2>4, <2>5
       DEF LockInv, HolderOwnsRow, Busy, IdleOwnsNothing, DistinctNames, Alive
<1>2. ASSUME NEW p \in Procs, Acquire(p)
      PROVE  LockInv'
  <2>1. \A q \in Procs : phase[q] # "busy"
    BY <1>2, BusyExcludes
  <2>2. owner # name[p] /\ Inserted(name[p])
    BY <1>2 DEF Acquire, LockInv, IdleOwnsNothing
  <2>3. LockTypeOK'
    BY <1>2, <2>2 DEF Acquire, LockInv, LockTypeOK
  <2>4. /\ phase'[p] = "busy" /\ \A q \in Procs \ {p} : phase'[q] = phase[q]
        /\ ran'[p] = 0 /\ age' = 0 /\ owner' = name[p] /\ name' = name
    BY <1>2, <2>2 DEF Acquire, LockInv, LockTypeOK
  <2>5. \A q \in Procs \ {p} : phase[q] # "off" => name[q] # name[p]
    BY <1>2 DEF Acquire, LockInv, DistinctNames, Alive
  <2>6. QED
    BY <1>2, <2>1, <2>3, <2>4, <2>5
       DEF Acquire, LockInv, HolderOwnsRow, Busy, IdleOwnsNothing,
           DistinctNames, Alive
<1>3. ASSUME NEW p \in Procs, Finish(p)
      PROVE  LockInv'
  <2>1. \A q \in Procs : phase[q] = "busy" => q = p
    BY <1>3, OneCycle DEF Finish, NoOverlap, Busy
  <2>2. owner = name[p]
    BY <1>3 DEF Finish, LockInv, HolderOwnsRow, Busy
  <2>3. owner' = NoName /\ age' = 0 /\ name' = name
    BY <1>3, <2>2 DEF Finish, Release
  <2>4. /\ phase'[p] \in {"idle", "off"}
        /\ \A q \in Procs \ {p} : phase'[q] = phase[q]
    BY <1>3 DEF Finish, LockInv, LockTypeOK
  <2>5. LockTypeOK'
    BY <1>3, <2>3 DEF Finish, LockInv, LockTypeOK
  <2>6. QED
    BY <1>3, <2>1, <2>3, <2>4, <2>5
       DEF Finish, LockInv, LockTypeOK, HolderOwnsRow, Busy, IdleOwnsNothing,
           DistinctNames, Alive
<1>4. ASSUME NEW p \in Procs, Stop(p) \/ Die(p)
      PROVE  LockInv'
  <2>1. phase' = [phase EXCEPT ![p] = "off"]
        /\ UNCHANGED <<name, owner, age>>
        /\ \A q \in Procs \ {p} : ran'[q] = ran[q]
    BY <1>4 DEF Stop, Die, LockInv, LockTypeOK
  <2>2. LockTypeOK'
    BY <1>4 DEF Stop, Die, LockInv, LockTypeOK
  <2>3. QED
    BY <2>1, <2>2
       DEF LockInv, LockTypeOK, HolderOwnsRow, Busy, IdleOwnsNothing, DistinctNames,
           Alive
<1>5. CASE Tick
  <2>1. \A p \in Procs : phase[p] = "busy" =>
          owner # NoName /\ ~Stale /\ age = ran[p] /\ ran[p] < Longest
    BY <1>5 DEF Tick, LockInv, LockTypeOK, HolderOwnsRow, Busy, Stale
  <2>2. LockTypeOK'
    BY <1>5 DEF Tick, LockInv, LockTypeOK, Stale
  <2>3. HolderOwnsRow'
    BY <1>5, <2>1 DEF Tick, LockInv, HolderOwnsRow, Busy
  <2>4. QED
    BY <1>5, <2>2, <2>3 DEF Tick, LockInv, IdleOwnsNothing, DistinctNames, Alive
<1>6. CASE UNCHANGED lockVars
  BY <1>6 DEF lockVars, LockInv, LockTypeOK, HolderOwnsRow, Busy, IdleOwnsNothing,
              DistinctNames, Alive
<1>7. QED
  BY <1>1, <1>2, <1>3, <1>4, <1>5, <1>6 DEF LockNext

\* Cycles of a pipeline whose owner strings are fresh (run-day, go-live) and
\* whose cycles end within the hour do not overlap.
THEOREM Exclusion ==
  ASSUME ~Reused, Longest <= Lease
  PROVE  LockSpec => []NoOverlap
<1>1. LockInv /\ [LockNext]_lockVars => LockInv'
  BY LockInductive
<1>2. QED
  BY LockInitially, <1>1, OneCycle, PTL DEF LockSpec

\* Under the same hypotheses acquire is Enter, release or death is Exit, and
\* everything else stutters.
THEOREM LockIsMutex ==
  ASSUME ~Reused, Longest <= Lease
  PROVE  LockSpec => ImplementsMutex
<1>1. LockInit => M!MutexInit
  BY DEF LockInit, M!MutexInit, Busy
<1>2. ASSUME LockInv, [LockNext]_lockVars
      PROVE  [M!MutexNext]_Busy
  <2>1. ASSUME NEW p \in Procs, Acquire(p)
        PROVE  M!Enter(p)
    <3>1. \A q \in Procs : phase[q] # "busy"
      BY <1>2, <2>1, BusyExcludes
    <3>2. phase'[p] = "busy" /\ \A q \in Procs \ {p} : phase'[q] = phase[q]
      BY <1>2, <2>1 DEF Acquire, LockInv, LockTypeOK
    <3>3. QED
      BY <3>1, <3>2 DEF M!Enter, Busy
  <2>2. ASSUME NEW p \in Procs, phase[p] = "busy",
               Finish(p) \/ Stop(p) \/ Die(p)
        PROVE  M!Exit(p)
    <3>1. \A q \in Procs : phase[q] = "busy" => q = p
      BY <1>2, <2>2, OneCycle DEF NoOverlap, Busy
    <3>2. phase'[p] # "busy" /\ \A q \in Procs \ {p} : phase'[q] = phase[q]
      BY <1>2, <2>2 DEF Finish, Stop, Die, LockInv, LockTypeOK
    <3>3. QED
      BY <2>2, <3>1, <3>2 DEF M!Exit, Busy
  <2>3. ASSUME NEW p \in Procs, phase[p] # "busy",
               Finish(p) \/ Stop(p) \/ Die(p)
                 \/ \E n \in Names : Boot(p, n)
        PROVE  Busy' = Busy
    <3>1. phase'[p] # "busy" /\ \A q \in Procs \ {p} : phase'[q] = phase[q]
      BY <1>2, <2>3 DEF Finish, Stop, Die, Boot, LockInv, LockTypeOK
    <3>2. QED
      BY <2>3, <3>1 DEF Busy
  <2>4. ASSUME NEW p \in Procs, \E n \in Names : Boot(p, n)
        PROVE  phase[p] # "busy"
    BY <2>4 DEF Boot
  <2>5. CASE Tick \/ UNCHANGED lockVars
    BY <2>5 DEF Tick, lockVars, Busy
  <2>6. QED
    BY <1>2, <2>1, <2>2, <2>3, <2>4, <2>5 DEF LockNext, M!MutexNext
<1>3. LockInv /\ [LockNext]_lockVars => LockInv'
  BY LockInductive
<1>4. QED
  BY LockInitially, <1>1, <1>2, <1>3, PTL
     DEF LockSpec, ImplementsMutex, M!MutexSpec
=============================================================================
