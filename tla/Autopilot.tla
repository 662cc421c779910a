----------------------------- MODULE Autopilot ------------------------------
(***************************************************************************)
(* The cycle of `myos autopilot` (cli_autopilot.py): sync, ingest and      *)
(* triage as in Ingest, then the signals in what is on the work list and   *)
(* in the standing goals (autopilot.py), each recorded under a key of its  *)
(* own and delegated as an agent task.  Other processes run the commands   *)
(* of Ingest meanwhile.                                                    *)
(*                                                                         *)
(* The signals of a cycle are one transaction, which holds the write lock, *)
(* unless a reasoning provider is asked for the plan of a task: its audit  *)
(* row commits what the cycle has written so far.  That two loops do not   *)
(* run their cycles at once is PipelineLock's business, and not assumed.   *)
(***************************************************************************)
EXTENDS Ingest

CONSTANTS
  Loops,        \* the processes that run `myos autopilot`
  Risky,        \* rows whose work item is over the risk threshold, or due
  Goals,        \* standing goals
  SignalLimit,  \* --signal-limit
  NoProc,       \* nobody holds the write lock
  MaxWindows,   \* bound: cadence windows of each goal
  MaxFailures   \* bound: cycles that fail

ASSUME AutopilotAssumption ==
  /\ Loops \subseteq Procs /\ NoProc \notin Procs
  /\ Risky \subseteq Rows
  /\ SignalLimit \in Nat \ {0}
  /\ MaxWindows \in Nat \ {0} /\ MaxFailures \in Nat

Windows == 1 .. MaxWindows

\* autopilot_signals.signal_key.  The key of a work item holds its risk or due
\* date too, which do not change here.
Backlog == <<"inbox">>
Keys == ({"work_item"} \X Risky) \cup ({"goal"} \X Goals \X Windows) \cup {Backlog}

VARIABLES
  stage,      \* where the cycle of each loop stands
  queue,      \* the signals it detected and has not come to yet
  current,    \* the signal it has recorded last, until its task is made
  made,       \* the tasks it has made in its open transaction
  writer,     \* the loop whose transaction is open
  signals,    \* autopilot_signals.status, "none" if there is no row
  tasks,      \* history: tasks created for each key
  closed,     \* the rows at risk whose work item is done or archived
  window,     \* the cadence window each goal is in, 0 before it exists
  due,        \* the goals that were never evaluated, or a cadence ago
  failures

cycleVars == <<stage, queue, current, made, writer>>
goalVars  == <<window, due>>
pilotVars == <<cycleVars, signals, tasks, closed, goalVars, failures>>
vars == <<ingestVars, pilotVars>>

Free == writer = NoProc
Goto(p, s) == stage' = [stage EXCEPT ![p] = s]

-----------------------------------------------------------------------------
\* Other processes, and what the loops leave to the world.

UserStep(p) ==
  /\ Reads(p) \/ (Free /\ Writes(p))
  /\ UNCHANGED pilotVars

WorldStep ==
  /\ Free /\ World
  /\ UNCHANGED pilotVars

UserLost(p) == Abandon(p) /\ UNCHANGED pilotVars

\* A goal is created, or its cadence has passed since it was evaluated.
NextWindow(g) ==
  /\ window[g] < MaxWindows
  /\ window' = [window EXCEPT ![g] = @ + 1]
  /\ due' = due \cup {g}
  /\ UNCHANGED <<ingestVars, cycleVars, signals, tasks, closed, failures>>

\* The user resolves a commitment, or the cleanup archives an item.
Close(r) ==
  /\ Free /\ works[r] > 0 /\ r \notin closed
  /\ closed' = closed \cup {r}
  /\ UNCHANGED <<ingestVars, cycleVars, signals, tasks, goalVars, failures>>

-----------------------------------------------------------------------------
\* The cycle.

Begin(p) ==
  /\ stage[p] = "idle" /\ Free
  /\ Goto(p, "sync")
  /\ UNCHANGED <<ingestVars, queue, current, made, writer, signals, tasks,
                 closed, goalVars, failures>>

\* The commands run one after the other in connections of their own.  A sync
\* that fails returns an error and the cycle goes on; the others return early
\* if there is nothing to do.
StageRead(p) ==
  /\ \/ stage[p] = "sync" /\ Fetch(p)
     \/ stage[p] = "ingest" /\ List(p)
     \/ stage[p] = "triage" /\ Batch(p)
  /\ UNCHANGED pilotVars

StageSkip(p) ==
  /\ pc[p] = "off"
  /\ \/ stage[p] = "ingest" /\ Unimported = {} /\ Goto(p, "triage")
     \/ stage[p] = "triage" /\ New = {} /\ Goto(p, "detect")
  /\ UNCHANGED <<ingestVars, queue, current, made, writer, signals, tasks,
                 closed, goalVars, failures>>

SyncFails(p) ==
  /\ stage[p] = "sync"
  /\ IF pc[p] = "off" THEN UNCHANGED ingestVars ELSE Abandon(p)
  /\ Goto(p, "ingest")
  /\ UNCHANGED <<queue, current, made, writer, signals, tasks, closed, goalVars,
                 failures>>

\* An ingest or triage that is undone ends the cycle.
StageWrite(p) ==
  /\ Free
  /\ \/ stage[p] = "sync" /\ Store(p) /\ Goto(p, "ingest")
     \/ /\ stage[p] = "ingest" /\ Import(p)
        /\ Goto(p, IF Retitled(got[p]) = {} THEN "triage" ELSE "idle")
     \/ /\ stage[p] = "triage" /\ Triage(p)
        /\ Goto(p, IF Taken(got[p]) THEN "idle" ELSE "detect")
  /\ UNCHANGED <<queue, current, made, writer, signals, tasks, closed, goalVars,
                 failures>>

GoalKey(g) == <<"goal", g, window[g]>>

\* Mutant: a cut that is too short by one.
CutShort(S, all, room) == S \subseteq all /\ Cardinality(S) = room - 1

\* What is left of a list of signals when there is room for so many: any part
\* of that size, for what is in front of what is decided by risk and date.
Cut(S, all, room) ==
  /\ S \subseteq all
  /\ Cardinality(S) = IF Cardinality(all) < room THEN Cardinality(all) ELSE room

\* Work items come first, then the backlog, then the goals; the list is cut at
\* the end, whether its signals have been recorded before or not.  Risks and
\* items that are due are one list here, and --watch-risks is off.
Detect(p) ==
  LET work  == {<<"work_item", r>> : r \in {q \in Risky : works[q] > 0 /\ q \notin closed}}
      heap  == IF New # {} THEN {Backlog} ELSE {}
      goals == {GoalKey(g) : g \in due}
  IN
  /\ stage[p] = "detect"
  /\ \E W \in SUBSET work, H \in SUBSET heap, G \in SUBSET goals :
       /\ Cut(W, work, SignalLimit)
       /\ Cut(H, heap, SignalLimit - Cardinality(W))
       /\ Cut(G, goals, SignalLimit - Cardinality(W) - Cardinality(H))
       /\ queue' = [queue EXCEPT ![p] = W \cup H \cup G]
  /\ Goto(p, "delegate")
  /\ UNCHANGED <<ingestVars, current, made, writer, signals, tasks, closed,
                 goalVars, failures>>

\* Mutant: the key is looked up after the list was read, and not again.
UnknownAtAll(p, s) == TRUE

\* INSERT OR IGNORE sees what is committed and what the cycle has written.
Unknown(p, s) == signals[s] = "none" /\ s \notin made[p]

Record(p) ==
  /\ stage[p] = "delegate" /\ current[p] = {} /\ writer \in {NoProc, p}
  /\ \E s \in queue[p] :
       /\ queue' = [queue EXCEPT ![p] = @ \ {s}]
       /\ current' = [current EXCEPT ![p] = IF Unknown(p, s) THEN {s} ELSE {}]
  /\ writer' = p
  /\ UNCHANGED <<ingestVars, stage, made, signals, tasks, closed, goalVars,
                 failures>>

MakeTask(p) ==
  /\ current[p] # {} /\ writer \in {NoProc, p}
  /\ made' = [made EXCEPT ![p] = @ \cup current[p]]
  /\ current' = [current EXCEPT ![p] = {}]
  /\ writer' = p
  /\ UNCHANGED <<ingestVars, stage, queue, signals, tasks, closed, goalVars,
                 failures>>

\* What a commit of the cycle's connection makes visible.
Flush(p) ==
  /\ signals' = [s \in Keys |-> IF s \in made[p] THEN "delegated"
                                ELSE IF s \in current[p] THEN "detected"
                                ELSE signals[s]]
  /\ tasks' = [s \in Keys |-> IF s \in made[p] THEN tasks[s] + 1 ELSE tasks[s]]
  /\ due' = {g \in due : \A n \in Windows : <<"goal", g, n>> \notin made[p]}
  /\ made' = [made EXCEPT ![p] = {}]
  /\ writer' = NoProc

\* The provider's audit row, between the signal and its task.
Audit(p) ==
  /\ current[p] # {} /\ writer = p
  /\ Flush(p)
  /\ UNCHANGED <<ingestVars, stage, queue, current, closed, window, failures>>

End(p) ==
  /\ stage[p] = "delegate" /\ queue[p] = {} /\ current[p] = {}
  /\ writer \in {NoProc, p}
  /\ Flush(p)
  /\ Goto(p, "idle")
  /\ UNCHANGED <<ingestVars, queue, current, closed, window, failures>>

\* An exception, or the process is killed: what is not committed is undone.
Fail(p) ==
  /\ stage[p] # "idle" /\ failures < MaxFailures
  /\ IF pc[p] = "off" THEN UNCHANGED ingestVars ELSE Abandon(p)
  /\ Goto(p, "idle")
  /\ queue' = [queue EXCEPT ![p] = {}]
  /\ current' = [current EXCEPT ![p] = {}]
  /\ made' = [made EXCEPT ![p] = {}]
  /\ writer' = IF writer = p THEN NoProc ELSE writer
  /\ failures' = failures + 1
  /\ UNCHANGED <<signals, tasks, closed, goalVars>>

Init ==
  /\ IngestInit
  /\ stage = [p \in Loops |-> "idle"]
  /\ queue = [p \in Loops |-> {}]
  /\ current = [p \in Loops |-> {}]
  /\ made = [p \in Loops |-> {}]
  /\ writer = NoProc
  /\ signals = [s \in Keys |-> "none"]
  /\ tasks = [s \in Keys |-> 0]
  /\ closed = {}
  /\ window = [g \in Goals |-> 0]
  /\ due = {}
  /\ failures = 0

Work(p) == \/ StageRead(p) \/ StageSkip(p) \/ StageWrite(p) \/ SyncFails(p)
           \/ Detect(p) \/ Record(p) \/ MakeTask(p) \/ End(p)

Next ==
  \/ WorldStep
  \/ \E g \in Goals : NextWindow(g)
  \/ \E r \in Risky : Close(r)
  \/ \E p \in Procs \ Loops : UserStep(p) \/ UserLost(p)
  \/ \E p \in Loops : Begin(p) \/ Work(p) \/ Audit(p) \/ Fail(p)

Spec == Init /\ [][Next]_vars

\* The loop takes its next cycle after its interval, or launchd (KeepAlive)
\* starts it again, and a cycle that is not killed goes on.
FairSpec == Spec /\ \A p \in Loops : WF_vars(Begin(p)) /\ WF_vars(Work(p))

-----------------------------------------------------------------------------
TypeOK ==
  /\ IngestTypeOK
  /\ stage \in [Loops -> {"idle", "sync", "ingest", "triage", "detect", "delegate"}]
  /\ queue \in [Loops -> SUBSET Keys]
  /\ current \in [Loops -> SUBSET Keys]
  /\ made \in [Loops -> SUBSET Keys]
  /\ writer \in Loops \cup {NoProc}
  /\ signals \in [Keys -> {"none", "detected", "delegated"}]
  /\ tasks \in [Keys -> Nat]
  /\ closed \subseteq Risky
  /\ window \in [Goals -> Windows \cup {0}]
  /\ due \subseteq Goals
  /\ failures \in Nat

\* Recorded, without a task, and in no cycle's hands: INSERT OR IGNORE passes
\* over them from now on.
Stranded ==
  {s \in Keys : /\ signals[s] = "detected"
                /\ \A p \in Loops : s \notin current[p] \cup made[p]}

\* "at most one per cadence window" (autopilot.py:188), and one per risk: a key
\* that is delegated has one task, and only a cycle that failed strands a key,
\* one at most.
SignalsAccounted ==
  /\ \A s \in Keys : tasks[s] = IF signals[s] = "delegated" THEN 1 ELSE 0
  /\ Cardinality(Stranded) <= failures

\* What a sync has stored becomes work, in spite of commands that overlap and
\* undo a batch, and of cycles that fail, unless a half triaged row stops all
\* triage.
ItemsBecomeWork ==
  \A i \in Items :
    external[i] # 0 ~> \/ \E v \in Versions : v[1] = i /\ inbox[v] = "triaged"
                       \/ HalfTriaged # {}

\* A goal that is due is evaluated, or its key is stranded for this window,
\* whatever the backlog; true while fewer risks than the limit are open
\* (the list is cut before the signals that were recorded long ago are dropped)
\* and no half triaged row ends each cycle before its signals.
GoalsAreSeen ==
  \A g \in Goals :
    g \in due ~> g \notin due \/ signals[GoalKey(g)] = "detected" \/ HalfTriaged # {}
=============================================================================
