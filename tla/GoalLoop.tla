------------------------------ MODULE GoalLoop ------------------------------
(***************************************************************************)
(* Standing goals and the autonomy loops that work on them                 *)
(* (autonomy_loop.py, cli_autonomy.py).  A scheduler invocation picks one  *)
(* due goal, finds the goal's loop among the agent tasks, and skips it,    *)
(* resumes it for one bounded cycle, or starts it.  Invocations come from  *)
(* `myos loop run-goal`, which takes no lock, and from `myos autopilot     *)
(* --once --loop-goal`; users resume single loops with `myos loop resume`. *)
(*                                                                         *)
(* As in FactoryRun a step ends at a commit or at a read that a later step *)
(* relies on, and `held` is the process with uncommitted writes.           *)
(***************************************************************************)
EXTENDS Naturals, FiniteSets, SequencesExt

CONSTANTS
  Runners,      \* processes that run the scheduler
  Users,        \* processes that run `myos loop resume`; a runner may be one
  Nobody,       \* no process
  Goals,        \* ids of assistant_goals
  Priority,     \* assistant_goals.priority, 1 is first
  Cadence,      \* cadence of every goal, in scheduler intervals
  Tasks,        \* ids of agent_tasks, 1, 2, ...
  Window,       \* the LIMIT of find_goal_loop (500 in the code)
  UsesBackend,  \* whether a provider's audit commits in the middle of a cycle
  MaxAge,       \* bound: a goal that is older than this is as good as never seen
  MaxPending,   \* bound: approvals a loop has pending
  MaxEdits,     \* bound: rollbacks, lessons, other tasks and pauses together
  MaxCrashes    \* bound

ASSUME GoalAssumption ==
  /\ Goals \subseteq Nat \ {0} /\ IsFiniteSet(Goals)
  /\ Tasks \subseteq Nat \ {0} /\ IsFiniteSet(Tasks)
  /\ Priority \in [Goals -> Nat]
  /\ Cadence \in Nat \ {0} /\ MaxAge \in Nat /\ MaxAge > Cadence
  /\ Window \in Nat \ {0} /\ MaxPending \in Nat \ {0}
  /\ UsesBackend \in BOOLEAN /\ MaxEdits \in Nat /\ MaxCrashes \in Nat
  /\ IsFiniteSet(Runners) /\ IsFiniteSet(Users) /\ Nobody \notin Runners \cup Users

Procs == Runners \cup Users
None == 0

VARIABLES
  active,       \* goals whose status is 'active'
  age,          \* intervals since last_evaluated_at
  status,       \* agent_tasks.status, "absent" before the INSERT
  goalOf,       \* the goal in a loop's constraints, None for another task
  pending,      \* proposed actions of the loop that need an approval
  broken,       \* whether an action of the loop is blocked or failed
  used,         \* whether the loop has actions at all
  sent,         \* whether an approved action of the loop was executed
  order,        \* the tasks by updated_at, the latest last (the second it is
                \* rounded to is left out)
  pc, goal, task,   \* where each process stands, and with what
  held,         \* the process with uncommitted writes
  invoked,      \* whether the scheduler was invoked in this interval
  others, edits, pauses, crashes,  \* counters of the bounds
  edited        \* history: tasks with a rollback or a lesson since their last cycle

goals == <<active, age>>
tasks == <<status, goalOf, pending, broken, used, sent, order, edited>>
bounds == <<others, edits, pauses, crashes>>
vars == <<goals, tasks, pc, goal, task, held, invoked, bounds>>

Loops == {t \in Tasks : status[t] # "absent" /\ goalOf[t] # None}
Free(p) == held \in {p, Nobody}
At(p, where) == pc[p] = where /\ Free(p)
Goto(p, where) == pc' = [pc EXCEPT ![p] = where]

\* A task that is updated becomes the latest.
Touch(t) ==
  \/ /\ \A i \in DOMAIN order : order[i] # t
     /\ order' = Append(order, t)
  \/ \E i \in DOMAIN order : /\ order[i] = t
                             /\ order' = Append(RemoveAt(order, i), t)

-----------------------------------------------------------------------------
(* run_goal_cycle: choosing a goal.                                        *)

Due == {g \in active : age[g] >= Cadence}

\* ORDER BY priority, last_evaluated_at, id.
Before(g, h) ==
  \/ Priority[g] < Priority[h]
  \/ Priority[g] = Priority[h] /\ age[g] > age[h]
  \/ Priority[g] = Priority[h] /\ age[g] = age[h] /\ g < h

\* eligible_goals; only the first of them is taken.
PickDue(p) ==
  /\ At(p, "idle")
  /\ \E g \in Due : /\ \A h \in Due \ {g} : Before(g, h)
                    /\ goal' = [goal EXCEPT ![p] = g]
  /\ Goto(p, "find")
  /\ invoked' = TRUE
  /\ UNCHANGED <<goals, tasks, task, held, bounds>>

\* No goal is due: a noop row in the ledger.
PickNone(p) ==
  /\ At(p, "idle") /\ Due = {}
  /\ invoked' = TRUE
  /\ UNCHANGED <<goals, tasks, pc, goal, task, held, bounds>>

\* --goal: an active goal, due or not.
PickNamed(p) ==
  /\ At(p, "idle")
  /\ \E g \in active : goal' = [goal EXCEPT ![p] = g]
  /\ Goto(p, "find")
  /\ UNCHANGED <<goals, tasks, task, held, invoked, bounds>>

\* Mutant: a loop that is not through its cycle is not found.
LoopsAtRest(g) == LET n == Len(order) IN
  {i \in 1 .. n : i + Window > n /\ goalOf[order[i]] = g
                  /\ status[order[i]] # "running"}

\* The goal's loops among the Window latest tasks.
LoopsOf(g) == LET n == Len(order) IN
  {i \in 1 .. n : i + Window > n /\ goalOf[order[i]] = g}

\* find_goal_loop takes the latest one, and counts its pending approvals.
Find(p) ==
  LET seen == LoopsOf(goal[p]) IN
  /\ At(p, "find")
  /\ IF seen = {}
     THEN task' = task /\ Goto(p, "start")
     ELSE \E i \in seen :
            /\ \A j \in seen : j <= i
            /\ task' = [task EXCEPT ![p] = order[i]]
            /\ Goto(p, IF pending[order[i]] > 0 THEN "skip" ELSE "resume")
  /\ UNCHANGED <<goals, tasks, goal, held, invoked, bounds>>

\* Mutant: a skip is not an evaluation.
MarkNotSkipped(g, skipped) == IF skipped THEN age ELSE [age EXCEPT ![g] = 0]

\* _mark_goal_evaluated.
MarkEvaluated(g, skipped) == [age EXCEPT ![g] = 0]

\* The goal's loop waits for approvals: observation, mark and ledger row are
\* one transaction.
Skip(p) ==
  /\ At(p, "skip")
  /\ age' = MarkEvaluated(goal[p], TRUE)
  /\ Goto(p, "idle")
  /\ goal' = [goal EXCEPT ![p] = None] /\ task' = [task EXCEPT ![p] = None]
  /\ UNCHANGED <<active, tasks, held, invoked, bounds>>

-----------------------------------------------------------------------------
(* start_loop and resume_loop.                                             *)

Start(p) ==
  /\ At(p, "start")
  /\ \E t \in Tasks :
       /\ status[t] = "absent" /\ \A u \in Tasks : u < t => status[u] # "absent"
       /\ status' = [status EXCEPT ![t] = "running"]
       /\ goalOf' = [goalOf EXCEPT ![t] = goal[p]]
       /\ Touch(t)
       /\ task' = [task EXCEPT ![p] = t]
  /\ held' = p
  /\ Goto(p, "reason")
  /\ UNCHANGED <<goals, pending, broken, used, sent, edited, goal, invoked, bounds>>

\* `myos loop resume --task`.
ResumeLoop(p) ==
  /\ At(p, "idle")
  /\ \E t \in Loops : task' = [task EXCEPT ![p] = t]
  /\ Goto(p, "resume")
  /\ UNCHANGED <<goals, tasks, goal, held, invoked, bounds>>

\* Mutant: the loop is not asked for its approvals again.
ClearUnasked(t) == TRUE

Clear(t) == pending[t] = 0

\* resume_loop counts again.
Recount(p) ==
  /\ At(p, "resume")
  /\ Goto(p, IF Clear(task[p]) THEN "begin" ELSE "pause")
  /\ UNCHANGED <<goals, tasks, goal, task, held, invoked, bounds>>

\* Approvals are pending: a ledger row, and no cycle.
Pause(p) ==
  /\ At(p, "pause")
  /\ Goto(p, "mark")
  /\ UNCHANGED <<goals, tasks, goal, task, held, invoked, bounds>>

Begin(p) ==
  LET t == task[p] IN
  /\ At(p, "begin")
  /\ status' = [status EXCEPT ![t] = "running"]
  /\ Touch(t)
  /\ held' = p
  /\ Goto(p, "reason")
  /\ UNCHANGED <<goals, goalOf, pending, broken, used, sent, edited, goal, task,
                 invoked, bounds>>

-----------------------------------------------------------------------------
(* _run_cycle and what follows it.                                         *)

\* The provider reasons; its audit row commits what the cycle wrote so far.
Reason(p) ==
  /\ At(p, "reason")
  /\ IF UsesBackend THEN held' \in {held, Nobody} ELSE held' = held
  /\ Goto(p, "finish")
  /\ UNCHANGED <<goals, tasks, goal, task, invoked, bounds>>

\* Mutant: the status looks at this cycle's proposals only.
StatusOfCycle(all, new, bad, any) ==
  IF new > 0 THEN "waiting_approval" ELSE IF bad THEN "blocked"
  ELSE IF any THEN "completed" ELSE "waiting"

\* _finish_cycle counts all actions of the loop.
StatusAfter(all, new, bad, any) ==
  IF all > 0 THEN "waiting_approval" ELSE IF bad THEN "blocked"
  ELSE IF any THEN "completed" ELSE "waiting"

\* The cycle's run, its proposals and its safe actions, in one transaction.
Finish(p) ==
  LET t == task[p] IN
  /\ At(p, "finish")
  /\ \E new \in 0 .. 1, safe \in {"none", "executed", "blocked"} :
       LET all == pending[t] + new
           bad == broken[t] \/ safe = "blocked"
           any == used[t] \/ new > 0 \/ safe # "none"
       IN /\ all <= MaxPending
          /\ pending' = [pending EXCEPT ![t] = all]
          /\ broken' = [broken EXCEPT ![t] = bad]
          /\ used' = [used EXCEPT ![t] = any]
          /\ status' = [status EXCEPT ![t] = StatusAfter(all, new, bad, any)]
  /\ Touch(t)
  /\ edited' = edited \ {t}
  /\ held' = Nobody
  /\ Goto(p, "mark")
  /\ UNCHANGED <<goals, goalOf, sent, goal, task, invoked, bounds>>

\* The goal is marked, in a transaction after that of the loop's ledger row; a
\* resume by hand ends without.  Nothing reads the ledger, so it is left out.
Mark(p) ==
  /\ At(p, "mark")
  /\ age' = IF goal[p] = None THEN age ELSE MarkEvaluated(goal[p], FALSE)
  /\ Goto(p, "idle")
  /\ goal' = [goal EXCEPT ![p] = None] /\ task' = [task EXCEPT ![p] = None]
  /\ UNCHANGED <<active, tasks, held, invoked, bounds>>

-----------------------------------------------------------------------------
(* The user, other work, time.                                             *)

\* approve_and_execute or a rejection takes one action out of the queue.
Settle(t) ==
  /\ held = Nobody /\ pending[t] > 0
  /\ pending' = [pending EXCEPT ![t] = @ - 1]
  /\ \E outcome \in {"executed", "blocked", "rejected"} :
       /\ broken' = [broken EXCEPT ![t] = @ \/ outcome = "blocked"]
       /\ sent' = [sent EXCEPT ![t] = @ \/ outcome = "executed"]
  /\ UNCHANGED <<goals, status, goalOf, used, order, edited, pc, goal, task, held,
                 invoked, bounds>>

\* The bound on what the user does besides.
MayMeddle == others + edits + pauses < MaxEdits

\* `myos rollback` proposes the compensation of an executed action on the
\* task the action belongs to.
Rollback(t) ==
  /\ held = Nobody /\ MayMeddle
  /\ sent[t] /\ pending[t] < MaxPending
  /\ pending' = [pending EXCEPT ![t] = @ + 1]
  /\ edits' = edits + 1 /\ edited' = edited \cup {t}
  /\ UNCHANGED <<goals, status, goalOf, broken, used, sent, order, pc, goal, task,
                 held, invoked, others, pauses, crashes>>

\* `myos learn` overwrites the status of any task.
Learn(t) ==
  /\ held = Nobody /\ MayMeddle
  /\ status[t] # "absent"
  /\ \E s \in {"done", "blocked", "learning"} : status' = [status EXCEPT ![t] = s]
  /\ Touch(t)
  /\ edits' = edits + 1 /\ edited' = edited \cup {t}
  /\ UNCHANGED <<goals, goalOf, pending, broken, used, sent, pc, goal, task, held,
                 invoked, others, pauses, crashes>>

\* `myos goal pause` and `myos goal resume`.
PauseGoal(g) ==
  /\ held = Nobody /\ MayMeddle
  /\ active' = IF g \in active THEN active \ {g} ELSE active \cup {g}
  /\ pauses' = pauses + 1
  /\ UNCHANGED <<age, tasks, pc, goal, task, held, invoked, others, edits, crashes>>

\* Any other command that opens an agent task.
OtherTask ==
  /\ held = Nobody /\ MayMeddle
  /\ \E t \in Tasks :
       /\ status[t] = "absent" /\ \A u \in Tasks : u < t => status[u] # "absent"
       /\ status' = [status EXCEPT ![t] = "open"]
       /\ Touch(t)
  /\ others' = others + 1
  /\ UNCHANGED <<goals, goalOf, pending, broken, used, sent, edited, pc, goal, task,
                 held, invoked, edits, pauses, crashes>>

\* An interval passes; the scheduler is invoked in each.
Tick ==
  /\ invoked
  /\ invoked' = FALSE
  /\ age' = [g \in Goals |-> IF age[g] < MaxAge THEN age[g] + 1 ELSE MaxAge]
  /\ UNCHANGED <<active, tasks, pc, goal, task, held, bounds>>

\* A process is killed.  One with uncommitted writes leaves no trace of them,
\* which is the crash before its first write.
Crash(p) ==
  /\ crashes < MaxCrashes /\ pc[p] # "idle" /\ held # p
  /\ Goto(p, "idle")
  /\ goal' = [goal EXCEPT ![p] = None] /\ task' = [task EXCEPT ![p] = None]
  /\ crashes' = crashes + 1
  /\ UNCHANGED <<goals, tasks, held, invoked, others, edits, pauses>>

Init ==
  /\ active = Goals /\ age = [g \in Goals |-> MaxAge]
  /\ status = [t \in Tasks |-> "absent"] /\ goalOf = [t \in Tasks |-> None]
  /\ pending = [t \in Tasks |-> 0] /\ broken = [t \in Tasks |-> FALSE]
  /\ used = [t \in Tasks |-> FALSE] /\ sent = [t \in Tasks |-> FALSE]
  /\ order = <<>> /\ edited = {} /\ edits = 0
  /\ pc = [p \in Procs |-> "idle"] /\ goal = [p \in Procs |-> None]
  /\ task = [p \in Procs |-> None] /\ held = Nobody /\ invoked = FALSE
  /\ others = 0 /\ pauses = 0 /\ crashes = 0

GoesOn(p) == \/ Find(p) \/ Skip(p) \/ Start(p) \/ Recount(p) \/ Pause(p)
             \/ Begin(p) \/ Reason(p) \/ Finish(p) \/ Mark(p)

Next == \/ \E p \in Procs : GoesOn(p) \/ Crash(p)
        \/ \E p \in Runners : PickDue(p) \/ PickNone(p) \/ PickNamed(p)
        \/ \E p \in Users : ResumeLoop(p)
        \/ \E t \in Tasks : Settle(t) \/ Rollback(t) \/ Learn(t)
        \/ \E g \in Goals : PauseGoal(g)
        \/ OtherTask \/ Tick

Spec == Init /\ [][Next]_vars

\* launchd or cron invokes the scheduler in every interval, whatever the user
\* invokes by hand; an invocation goes on, and time does.
FairSpec == /\ Spec /\ WF_vars(Tick)
            /\ \A p \in Procs : WF_vars(GoesOn(p))
            /\ \A p \in Runners : SF_vars(PickDue(p) \/ PickNone(p))

-----------------------------------------------------------------------------
(* Properties.                                                             *)

\* The variables have their types.
TypeOK ==
  /\ active \subseteq Goals /\ age \in [Goals -> 0 .. MaxAge]
  /\ status \in [Tasks -> {"absent", "open", "running", "waiting",
                           "waiting_approval", "blocked", "completed", "done",
                           "learning"}]
  /\ goalOf \in [Tasks -> Goals \cup {None}]
  /\ pending \in [Tasks -> 0 .. MaxPending]
  /\ broken \in [Tasks -> BOOLEAN] /\ used \in [Tasks -> BOOLEAN]
  /\ sent \in [Tasks -> BOOLEAN]
  /\ order \in Seq(Tasks) /\ edited \subseteq Tasks /\ edits \in 0 .. MaxEdits
  /\ pc \in [Procs -> {"idle", "find", "skip", "start", "resume", "pause", "begin",
                       "reason", "finish", "mark"}]
  /\ goal \in [Procs -> Goals \cup {None}] /\ task \in [Procs -> Tasks \cup {None}]
  /\ held \in Procs \cup {Nobody} /\ invoked \in BOOLEAN
  /\ others \in 0 .. MaxEdits /\ pauses \in 0 .. MaxEdits
  /\ crashes \in 0 .. MaxCrashes

\* The loops there are of a goal.
LoopsFor(g) == {t \in Loops : goalOf[t] = g}

\* "Start a loop for a selected goal that has no existing loop."
\* (docs/BOUNDED_AUTONOMY.md:189).  The look and the INSERT are no transaction,
\* so several schedulers may each start one; but only those that looked while
\* the goal had none.  However often it is evaluated, paused, interrupted and
\* resumed afterwards it gets no other, and in all not more than one from each
\* process that runs the scheduler, as long as no loop has fallen out of the
\* Window latest tasks.  (The state is well typed besides.)
OneLoopPerLook ==
  /\ [](/\ TypeOK
        /\ Len(order) <= Window =>
             \A g \in Goals : Cardinality(LoopsFor(g)) <= Cardinality(Runners))
  /\ [][Len(order) <= Window =>
          \A p \in Runners : pc[p] # "start" /\ pc'[p] = "start"
                             => LoopsFor(goal[p]) = {}]_vars

\* A loop with pending approvals says so in its status, which is what `loop
\* status` and the reviews read, whatever cycles other processes ended on it,
\* until a rollback or a lesson of the user bypasses the loop.
PendingIsShown ==
  \A t \in Loops \ edited :
    pending[t] > 0 => status[t] \in {"waiting_approval", "running"}

\* The approval queue of a loop holds what one cycle of each process proposes
\* and what the user rolls back, however often the goal is evaluated: a cycle is
\* begun on an empty queue, but several may be begun on the same one.
OneCyclePending == \A t \in Loops : pending[t] <= Cardinality(Procs) + edits

\* A goal that is due is evaluated, or paused by the user: a goal whose loop
\* waits for approvals does not keep the others from their turn, and neither
\* does a goal of a higher priority whose cadence leaves time for all.
EveryDueGoalIsSeen ==
  \A g \in Goals : g \in Due ~> (age[g] = 0 \/ g \notin active)

\* A loop that a killed invocation left 'running' gets another cycle, unless it
\* waits for an approval or the user pauses its goal.
RunningIsResumed ==
  \A t \in Tasks :
    status[t] = "running" ~> (\/ status[t] # "running" \/ pending[t] > 0
                              \/ goalOf[t] \notin active)

=============================================================================
