----------------------------- MODULE FactoryRun -----------------------------
(***************************************************************************)
(* Factory runs (factory.py, cli_factory.py): a run takes one intent       *)
(* through planning roles, approval, execution and learning.  Users start, *)
(* continue, approve and settle runs from commands of their own, autopilot *)
(* loops take one proactive step per cycle, and each of them is a process  *)
(* on the same database.                                                   *)
(*                                                                         *)
(* Every step ends at a commit or at a read that a later step relies on.   *)
(* `held` is the process that has written and not committed: SQLite lets   *)
(* no other one write before the commit, so its steps up to there are one. *)
(* approve_and_execute is cut at its reads and commits; its gates on what   *)
(* was approved, and what may happen while it is out, are ActionLifecycle. *)
(***************************************************************************)
EXTENDS Naturals, Sequences, FiniteSets

CONSTANTS
  Users,        \* processes that run `myos factory` and `myos approve`
  Autopilots,   \* processes that take proactive steps
  Nobody,       \* no process
  Runs,         \* ids of factory_runs, 1, 2, ...
  Intents,      \* open intents, in the order of priority, created_at, id
  Modes,        \* the modes mode_allowed grants
  Pack,         \* kinds of the actions a run prepares, in their order
  RoleBackend,  \* whether MYOS_FACTORY_ROLE_BACKEND is set
  ByHand,       \* what `factory run-stage` may record: <<stage, status>>
  MaxMishaps,   \* bound on killed processes and stages edited by hand, together
  MaxDays       \* bound on the days that pass

ASSUME FactoryAssumption ==
  /\ Runs \subseteq Nat \ {0} /\ IsFiniteSet(Runs)
  /\ Intents \subseteq Nat
  /\ Modes \subseteq {"review_first", "semi_autonomous", "full_autonomous"}
  /\ Pack \in [Runs -> {<<"capture">>, <<"capture", "draft">>}]
  /\ RoleBackend \in BOOLEAN
  /\ ByHand \subseteq
       {"approval", "execution", "learning"}
         \X {"pending", "waiting", "completed", "blocked"}
  /\ Users \cap Autopilots = {} /\ Nobody \notin Users \cup Autopilots
  /\ MaxMishaps \in Nat /\ MaxDays \in Nat

Procs == Users \cup Autopilots
None == 0

VARIABLES
  status,       \* factory_runs.status, "absent" before the INSERT
  intent, mode, \* factory_runs.intent_id and mode
  stages,       \* factory_stages of a run, in the order of their ids
  actions,      \* the run's agent_actions, in the order of factory_artifacts
  policy,       \* whether factory_policies grants the draft full_autonomous
  recent,       \* runs started within the last day
  job,          \* what each process is in the middle of
  held,         \* the process with uncommitted writes
  edits, days, crashes,   \* counters of the bounds
  approved,     \* history: runs of `factory approve --execute`
  accepted,     \* history: actions <<r, i>> the user approved one by one
  carried       \* history: actions <<r, i>> that ended executed or blocked

rows == <<status, intent, mode, stages, actions>>
history == <<approved, accepted, carried>>
bounds == <<edits, days, crashes>>
vars == <<rows, policy, recent, job, held, bounds, history>>

StageNames == {"approval", "execution", "learning"}
StageStatus == {"pending", "waiting", "completed", "blocked"}
Active == {"running", "awaiting_approval", "execution_ready",
           "approved_for_execution"}
ActionStatus == {"proposed", "approved", "executing", "executed", "failed",
                 "blocked"}

NoJob == [pc |-> "idle", run |-> None, intent |-> None, mode |-> "review_first",
          approve |-> FALSE, start |-> FALSE, stage |-> "approval",
          at |-> 0, last |-> 0, seen |-> "proposed", tally |-> {},
          granted |-> FALSE]   \* history: see Passed

\* Where a process is between coming to an action and its claim.
OnTheWay == {"advance", "read", "approve", "reread", "claim"}

Free(p) == held \in {p, Nobody}
At(p, where) == job[p].pc = where /\ Free(p)
Goto(p, where) == job' = [job EXCEPT ![p].pc = where]
Done(p) == job' = [job EXCEPT ![p] = NoJob]
Existing == {r \in Runs : status[r] # "absent"}

\* The upsert of _stage: an existing row keeps its id, and its place.
SetStage(s, name, st) ==
  LET row == [name |-> name, status |-> st] IN
  IF \E i \in DOMAIN s : s[i].name = name
  THEN [i \in DOMAIN s |-> IF s[i].name = name THEN row ELSE s[i]]
  ELSE Append(s, row)

StageIs(r, name, st) == \E i \in DOMAIN stages[r] :
                          stages[r][i] = [name |-> name, status |-> st]

-----------------------------------------------------------------------------
(* start_review_first_run.                                                 *)

\* The INSERT of the run.  A role backend commits its audit row, and the run
\* with it; without one the transaction goes on.
Insert(p, i, m) ==
  \E r \in Runs :
    /\ status[r] = "absent" /\ \A q \in Runs : q < r => status[q] # "absent"
    /\ status' = [status EXCEPT ![r] = "running"]
    /\ intent' = [intent EXCEPT ![r] = i]
    /\ mode' = [mode EXCEPT ![r] = m]
    /\ recent' = recent \cup {r}
    /\ job' = [job EXCEPT ![p] = [NoJob EXCEPT !.pc = "roles", !.run = r,
                                               !.start = TRUE]]
    /\ held' = IF RoleBackend THEN Nobody ELSE p

\* `myos factory start`.
Start(p) ==
  /\ At(p, "idle")
  /\ \E i \in Intents, m \in Modes : Insert(p, i, m)
  /\ UNCHANGED <<stages, actions, policy, bounds, history>>

\* Mutant: the execution stage of a review-first run waits like the approval.
StopBeforeApprovalWaiting(s) ==
  SetStage(SetStage(SetStage(s, "approval", "waiting"),
                    "execution", "waiting"), "learning", "pending")

StopBeforeApproval(s) ==
  SetStage(SetStage(SetStage(s, "approval", "waiting"),
                    "execution", "blocked"), "learning", "pending")

\* The roles are through.  review_first stops here, the other modes go on to
\* advance_execution in the same transaction.
FinishRoles(p) ==
  LET r == job[p].run IN
  /\ At(p, "roles")
  /\ IF mode[r] = "review_first"
     THEN /\ stages' = [stages EXCEPT ![r] = StopBeforeApproval(@)]
          /\ status' = [status EXCEPT ![r] = "awaiting_approval"]
          /\ Done(p)
          /\ held' = Nobody
     ELSE /\ Goto(p, "look")
          /\ held' = p
          /\ UNCHANGED <<stages, status>>
  /\ UNCHANGED <<intent, mode, actions, policy, recent, bounds, history>>

-----------------------------------------------------------------------------
(* proactive_step, one per autopilot cycle.                                *)

ActiveRuns == {r \in Runs : status[r] \in Active}
DueIntents == Intents \ {intent[r] : r \in recent}
Oldest(S) == CHOOSE x \in S : \A y \in S : x <= y

\* The oldest active run goes on if its execution waits; every other active
\* run waits for the user, and keeps later intents waiting with it.
ProactiveContinue(p) ==
  /\ At(p, "idle") /\ ActiveRuns # {}
  /\ LET r == Oldest(ActiveRuns) IN
       /\ StageIs(r, "execution", "waiting")
       /\ job' = [job EXCEPT ![p] = [NoJob EXCEPT !.pc = "look", !.run = r]]
  /\ UNCHANGED <<rows, policy, recent, held, bounds, history>>

\* No run is active: the first due intent is next.
ProactivePick(p) ==
  /\ At(p, "idle") /\ ActiveRuns = {} /\ DueIntents # {}
  /\ \E m \in Modes :
       job' = [job EXCEPT ![p] = [NoJob EXCEPT !.pc = "start", !.mode = m,
                                               !.intent = Oldest(DueIntents)]]
  /\ UNCHANGED <<rows, policy, recent, held, bounds, history>>

ProactiveStart(p) ==
  /\ At(p, "start")
  /\ Insert(p, job[p].intent, job[p].mode)
  /\ UNCHANGED <<stages, actions, policy, bounds, history>>

-----------------------------------------------------------------------------
(* prepare_execution_actions and advance_execution.                        *)

\* The run's actions are read; they are prepared only if there are none.
Look(p) ==
  LET r == job[p].run IN
  /\ At(p, "look")
  /\ job' = IF actions[r] # <<>>
            THEN [job EXCEPT ![p].pc = "advance", ![p].at = 1,
                             ![p].last = Len(actions[r]), ![p].granted = policy]
            ELSE [job EXCEPT ![p].pc = "prepare"]
  /\ UNCHANGED <<rows, policy, recent, held, bounds, history>>

Prepare(p) ==
  LET r == job[p].run
      n == Len(actions[r])
      fresh == [i \in DOMAIN Pack[r] |-> [kind |-> Pack[r][i], status |-> "proposed"]]
  IN
  /\ At(p, "prepare")
  /\ actions' = [actions EXCEPT ![r] = @ \o fresh]
  /\ job' = [job EXCEPT ![p].pc = "advance", ![p].at = n + 1,
                        ![p].last = n + Len(Pack[r]), ![p].granted = policy]
  /\ held' = p
  /\ UNCHANGED <<status, intent, mode, stages, policy, recent, bounds, history>>

\* _action_policy_allows.
Allowed(r, a) == a.kind = "capture" \/ (mode[r] = "full_autonomous" /\ policy)

DoApprove(p) == \/ job[p].approve \/ job[p].last = 0
                \/ mode[job[p].run] = "full_autonomous"

SetAction(r, i, st) == actions' = [actions EXCEPT ![r][i].status = st]

\* Mutant: the policy is asked for the first action only.
GoOnUnasked(p) == IF job[p].at < job[p].last THEN "read" ELSE "advance"

\* Every action begins at the head of the loop.
GoOn(p) == "advance"

\* The process is through with an action, and counts what became of it.  With
\* the next one `granted` begins anew: whether the policy has held at some
\* moment since the process came to that action.
Passed(p, results) ==
  IF job[p].last = 0 THEN Done(p)
  ELSE job' = [job EXCEPT ![p].pc = GoOn(p), ![p].at = @ + 1, ![p].seen = "proposed",
                          ![p].tally = @ \cup results, ![p].granted = policy]

\* The head of the loop: the action's row and the policy are read.
Ask(p) ==
  /\ At(p, "advance") /\ job[p].at <= job[p].last
  /\ IF Allowed(job[p].run, actions[job[p].run][job[p].at]) \/ job[p].approve
     THEN Goto(p, "read")
     ELSE Passed(p, {"pending"})
  /\ UNCHANGED <<rows, policy, recent, held, bounds, history>>

\* What comes back from approve_and_execute with nothing done.
TurnedAway(st) == IF st \in {"blocked", "failed"} THEN {"blocked"} ELSE {"pending"}

\* The row is read, before the approval and after it.
ReadRow(p) ==
  LET a == actions[job[p].run][job[p].at] IN
  /\ At(p, "read") \/ At(p, "reread")
  /\ IF /\ job[p].pc = "read" /\ DoApprove(p)
        /\ a.status \in {"proposed", "failed"}
     THEN Goto(p, "approve")
     ELSE IF \/ a.kind = "draft" /\ a.status # "approved"
             \/ a.status = "executed"
     THEN Passed(p, TurnedAway(a.status))
     ELSE job' = [job EXCEPT ![p].pc = "claim", ![p].seen = a.status]
  /\ UNCHANGED <<rows, policy, recent, held, bounds, history>>

\* The approval is an UPDATE by id and a commit.
ApproveRow(p) ==
  /\ At(p, "approve")
  /\ SetAction(job[p].run, job[p].at, "approved")
  /\ Goto(p, "reread")
  /\ held' = Nobody
  /\ UNCHANGED <<status, intent, mode, stages, policy, recent, bounds, history>>

\* The claim succeeds on the status that was read, and commits either way.
Claim(p) ==
  LET r == job[p].run
      i == job[p].at
  IN
  /\ At(p, "claim")
  /\ IF actions[r][i].status = job[p].seen
     THEN /\ SetAction(r, i, "executing")
          /\ job' = [job EXCEPT ![p].pc = "work", ![p].seen = "proposed",
                                ![p].granted = FALSE]
     ELSE Passed(p, {"pending"}) /\ UNCHANGED actions
  /\ held' = Nobody
  /\ UNCHANGED <<status, intent, mode, stages, policy, recent, bounds, history>>

Results(kind) == IF kind = "capture" THEN {"executed"}
                 ELSE {"executed", "failed", "blocked"}

\* A blocked attempt comes back with the code "executed".
Settle(p) ==
  LET r == job[p].run
      i == job[p].at
  IN
  /\ At(p, "work")
  /\ \E res \in Results(actions[r][i].kind) :
       /\ SetAction(r, i, res)
       /\ carried' = IF res = "failed" THEN carried ELSE carried \cup {<<r, i>>}
       /\ Passed(p, IF res = "failed" THEN {"blocked"} ELSE {})
  /\ UNCHANGED <<status, intent, mode, stages, policy, recent, held, bounds,
                 approved, accepted>>

\* Mutant: a run with nothing pending is left for the next step.
StartedAlwaysReady(tally) == "execution_ready"

\* Mutant: a started run is done whatever is pending.
StartedAlwaysCompleted(tally) == "execution_completed"

\* The status start_review_first_run ends with looks at `pending` only.
Started(tally) == IF "pending" \in tally THEN "execution_ready"
                  ELSE "execution_completed"

Outcome(tally) == IF "pending" \in tally THEN "waiting"
                  ELSE IF "blocked" \in tally THEN "blocked" ELSE "completed"

FinishAdvance(p) ==
  LET r == job[p].run
      out == Outcome(job[p].tally)
      ran == SetStage(stages[r], "execution", out)
      gate == IF mode[r] = "full_autonomous" THEN "completed" ELSE "waiting"
  IN
  /\ At(p, "advance") /\ job[p].at > job[p].last
  /\ IF job[p].start
     THEN /\ stages' = [stages EXCEPT ![r] =
                SetStage(SetStage(ran, "approval", gate), "learning", "pending")]
          /\ status' = [status EXCEPT ![r] = Started(job[p].tally)]
     ELSE /\ stages' = [stages EXCEPT ![r] = ran]
          /\ status' = [status EXCEPT ![r] = IF out = "completed"
                          THEN "execution_completed" ELSE "execution_ready"]
  /\ Done(p)
  /\ held' = Nobody
  /\ UNCHANGED <<intent, mode, actions, policy, recent, bounds, history>>

-----------------------------------------------------------------------------
(* The user's commands.                                                    *)

Open(r) == {i \in DOMAIN stages[r] : stages[r][i].status \in {"pending", "waiting"}}

ContinueWith(r, name) ==
  IF name = "execution" THEN [NoJob EXCEPT !.run = r, !.pc = "look"]
  ELSE [NoJob EXCEPT !.run = r, !.pc = "record", !.stage = name]

\* `myos factory continue` reads the first pending or waiting stage; learning
\* waits for an outcome.
Continue(p) ==
  /\ At(p, "idle")
  /\ \E r \in Existing :
       /\ Open(r) # {}
       /\ LET name == stages[r][Oldest(Open(r))].name IN
            /\ name # "learning"
            /\ job' = [job EXCEPT ![p] = ContinueWith(r, name)]
  /\ UNCHANGED <<rows, policy, recent, held, bounds, history>>

RecordStage(p) ==
  /\ At(p, "record")
  /\ stages' = [stages EXCEPT ![job[p].run] =
                  SetStage(@, job[p].stage, "completed")]
  /\ Done(p)
  /\ UNCHANGED <<status, intent, mode, actions, policy, recent, held, bounds,
                 history>>

\* Mutant: the approval is committed before the actions are looked at.
CommittedAfterApproval(p) == Nobody

HolderAfterApproval(p) == p

\* `myos factory approve`, with or without --execute.  Its UPDATE takes the
\* write lock before the run's actions are read.
Approve(p, execute) ==
  /\ At(p, "idle")
  /\ \E r \in Existing :
       /\ status' = [status EXCEPT ![r] = IF execute THEN "approved_for_execution"
                                          ELSE "approved"]
       /\ stages' = [stages EXCEPT ![r] = SetStage(@, "approval", "completed")]
       /\ IF execute
          THEN /\ job' = [job EXCEPT ![p] = [NoJob EXCEPT !.pc = "look",
                                               !.run = r, !.approve = TRUE]]
               /\ held' = HolderAfterApproval(p)
               /\ approved' = approved \cup {r}
          ELSE UNCHANGED <<job, held, approved>>
  /\ UNCHANGED <<intent, mode, actions, policy, recent, bounds, accepted, carried>>

\* `myos approve --action <id> --execute` on one action of a run: straight to
\* approve_and_execute.
ApproveAction(p) ==
  /\ At(p, "idle")
  /\ \E r \in Existing : \E i \in DOMAIN actions[r] :
       /\ accepted' = accepted \cup {<<r, i>>}
       /\ job' = [job EXCEPT ![p] = [NoJob EXCEPT !.pc = "read", !.run = r,
                                                  !.at = i]]
  /\ UNCHANGED <<rows, policy, recent, held, bounds, approved, carried>>

\* `myos factory learn`, allowed in every state of a run.
Learn(p) ==
  /\ At(p, "idle")
  /\ \E r \in Existing :
       /\ status' = [status EXCEPT ![r] = "learned"]
       /\ stages' = [stages EXCEPT ![r] = SetStage(@, "learning", "completed")]
  /\ UNCHANGED <<intent, mode, actions, policy, recent, job, held, bounds, history>>

\* `myos factory run-stage`.
RunStage(p) ==
  /\ At(p, "idle") /\ edits + crashes < MaxMishaps
  /\ \E r \in Existing, by \in ByHand :
       stages' = [stages EXCEPT ![r] = SetStage(@, by[1], by[2])]
  /\ edits' = edits + 1
  /\ UNCHANGED <<status, intent, mode, actions, policy, recent, job, held, days,
                 crashes, history>>

\* `myos factory policy set` for the connector.
SetPolicy(p) ==
  /\ At(p, "idle") /\ "full_autonomous" \in Modes
  /\ policy' = ~policy
  /\ job' = [q \in Procs |-> [job[q] EXCEPT !.granted =
                                @ \/ (policy' /\ job[q].pc \in OnTheWay)]]
  /\ UNCHANGED <<rows, recent, held, bounds, history>>

-----------------------------------------------------------------------------
\* A day passes since the start of the runs up to r.
DayPasses ==
  /\ days < MaxDays
  /\ \E r \in recent : recent' = {q \in recent : q > r}
  /\ days' = days + 1
  /\ UNCHANGED <<rows, policy, job, held, edits, crashes, history>>

\* A process is killed; what it committed stays.
Crash(p) ==
  /\ edits + crashes < MaxMishaps /\ job[p].pc # "idle" /\ held # p
  /\ Done(p)
  /\ crashes' = crashes + 1
  /\ UNCHANGED <<rows, policy, recent, held, edits, days, history>>

Init ==
  /\ status = [r \in Runs |-> "absent"]
  /\ intent = [r \in Runs |-> None]
  /\ mode = [r \in Runs |-> "review_first"]
  /\ stages = [r \in Runs |-> <<>>] /\ actions = [r \in Runs |-> <<>>]
  /\ policy = FALSE /\ recent = {}
  /\ job = [p \in Procs |-> NoJob] /\ held = Nobody
  /\ edits = 0 /\ days = 0 /\ crashes = 0
  /\ approved = {} /\ accepted = {} /\ carried = {}

\* The steps a command takes once it is under way.
GoesOn(p) == \/ FinishRoles(p) \/ ProactiveStart(p) \/ Look(p) \/ Prepare(p)
             \/ Ask(p) \/ ReadRow(p) \/ ApproveRow(p) \/ Claim(p)
             \/ Settle(p) \/ FinishAdvance(p) \/ RecordStage(p)

Cycle(p) == ProactiveContinue(p) \/ ProactivePick(p)

Command(p) == \/ Start(p) \/ Continue(p) \/ Approve(p, TRUE) \/ Approve(p, FALSE)
              \/ ApproveAction(p) \/ Learn(p) \/ RunStage(p) \/ SetPolicy(p)

Next == \/ \E p \in Procs : GoesOn(p) \/ Crash(p)
        \/ \E p \in Autopilots : Cycle(p)
        \/ \E p \in Users : Command(p)
        \/ DayPasses

Spec == Init /\ [][Next]_vars

\* Autopilot is always on, and a command that runs goes on.
FairSpec == /\ Spec
            /\ \A p \in Procs : WF_vars(GoesOn(p))
            /\ \A p \in Autopilots : WF_vars(Cycle(p))

-----------------------------------------------------------------------------
(* Properties.                                                             *)

Jobs == [pc : {"idle", "roles", "start", "look", "prepare", "advance", "read",
               "approve", "reread", "claim", "work", "record"},
         run : Runs \cup {None}, intent : Intents \cup {None}, mode : Modes \cup {"review_first"},
         approve : BOOLEAN, start : BOOLEAN, stage : StageNames,
         at : Nat, last : Nat, seen : ActionStatus,
         tally : SUBSET {"pending", "blocked"}, granted : BOOLEAN]

\* The variables have their types.
TypeOK ==
  /\ status \in [Runs -> Active \cup {"absent", "approved", "execution_completed",
                                      "learned"}]
  /\ intent \in [Runs -> Intents \cup {None}]
  /\ mode \in [Runs -> Modes \cup {"review_first"}]
  /\ stages \in [Runs -> Seq([name : StageNames, status : StageStatus])]
  /\ actions \in [Runs -> Seq([kind : {"capture", "draft"}, status : ActionStatus])]
  /\ policy \in BOOLEAN /\ recent \subseteq Runs
  /\ job \in [Procs -> Jobs] /\ held \in Procs \cup {Nobody}
  /\ edits \in Nat /\ crashes \in Nat /\ edits + crashes <= MaxMishaps
  /\ days \in 0 .. MaxDays
  /\ approved \subseteq Runs /\ accepted \subseteq Runs \X Nat
  /\ carried \subseteq Runs \X Nat

\* Consent.  However a run is continued, and whoever else is at its rows, a
\* process sends a draft only if the user approved the run or that very action,
\* or in full_autonomous mode under a connector policy that held at some moment
\* since the process came to that action: neither one that an earlier action
\* found nor one withdrawn by then will do.  (The policy is read before the
\* approval and the claim, so one withdrawn in between still lets the draft go.)
Consent ==
  [][\A p \in Procs :
       LET r == job[p].run
           i == job[p].at
       IN  /\ job[p].pc # "work" /\ job'[p].pc = "work"
           /\ actions[r][i].kind = "draft"
           => \/ r \in approved \/ <<r, i>> \in accepted
              \/ mode[r] = "full_autonomous" /\ job[p].granted]_vars

\* Nobody has recorded a stage by hand.  `run-stage` says what it likes of the
\* execution stage, and all but Consent rest on what that stage says.
ByTheBook == edits = 0

\* A review-first run does nothing before `factory approve --execute`: neither
\* `continue` nor a proactive step gets to its execution stage, whatever the
\* order in which starting, approving and recording stages interleave.
ReviewFirstWaits ==
  ByTheBook => \A r \in Runs : mode[r] = "review_first" /\ r \notin approved
                               => actions[r] = <<>>

\* A run's actions are prepared once, however many processes advance it: no
\* draft has a twin (prepare_execution_actions reads, then inserts).  (The
\* state is well typed besides.)
OneBatch ==
  TypeOK /\ (ByTheBook => \A r \in Runs : Len(actions[r]) <= Len(Pack[r]))

\* An execution stage is completed only over actions each of which came to an
\* end that is not a failure.
CompletedWasCarriedOut ==
  \A r \in Runs : StageIs(r, "execution", "completed")
                  => \A i \in DOMAIN actions[r] : <<r, i>> \in carried

\* A draft that waits is never out of sight: its run is among those the reviews
\* list (cli_review.py:28), is being worked on, or was put aside by the user.
ProposedIsShown ==
  \A r \in Runs :
    (\E i \in DOMAIN actions[r] : actions[r][i].status = "proposed")
    => \/ status[r] \in Active \cup {"approved", "learned"}
       \/ \E p \in Procs : job[p].run = r

ActionsAreSettled == ByTheBook => CompletedWasCarriedOut /\ ProposedIsShown

\* Every open intent gets a run, and the run is carried out, without anybody's
\* help: for packs of safe actions, while the autopilots go on and none is
\* killed.  A start that is killed leaves an active run without stages, and
\* later intents wait for it.
IntentsGetTheirRun ==
  \A i \in Intents : <>(\/ crashes > 0
                        \/ \E r \in Runs : /\ intent[r] = i
                                            /\ status[r] = "execution_completed")

=============================================================================
