# Personal Assistant OS: a TLA+ development

MYOS (`src/src/personal_assistant`) is a local assistant: a Python command line
over one SQLite database, with background loops that a user or launchd starts.
It proposes actions, asks for approval, executes what was approved, and keeps
queues of work, reminders, factory runs and standing goals.

What makes it hard is that there is no server. Every command, loop and
scheduler tick is a process of its own on the same database file. They agree
only through rows, through SQLite's single writer, and through a few `UPDATE ...
WHERE status = ...` claims. This project models those agreements.

Paths below are relative to the repository's `src/personal_assistant` unless
they start with `README.md`, `ARCHITECTURE.md`, `docs/` or `tests/`.

## 1. Inventory

| Component | State it keeps | Operations | What makes it correct |
|---|---|---|---|
| Execution core: `execution.py`, `agentcore.py`, `approval_context.py`, handlers in `cli_agent.py` | `agent_actions`, `action_execution_receipts`, follow-ups in `inbox_items` | `enqueue_proposal`, approve, reject, `approve_and_execute`, follow-ups | no external effect without an approval of its own; what runs is what was approved; each attempt leaves its receipt |
| Pipeline locks: `locks.py` | `pipeline_locks` | acquire, release, expiry after an hour | cycles do not overlap; an orphaned lock is reclaimed |
| Workflow queue: `cli_operations.py` | `workflow_queue`, `workflow_runs`, `workflow_steps` | queue, worker, orchestrate, run-day | no job runs twice; no job is forgotten |
| Reminders and notifications: `reminders.py`, `cli_reminders.py`, `notify.py` | `reminders`, inbox rows | create, snooze, complete, cancel, scheduler tick | one firing per schedule, never silent; closed rows stay closed |
| Factory runs: `factory.py`, `cli_factory.py` | `factory_runs`, `factory_stages`, `factory_artifacts`, `factory_policies` | start, roles, continue, run-stage, approve, advance, learn, proactive step | no draft without consent; no run completed over work that is left |
| Autonomy loops and goals: `autonomy_loop.py`, `cli_autonomy.py` | `assistant_goals`, `agent_tasks`, `autonomy_run_ledger` | goal scheduler, start, resume, bounded cycle | no loop started for a goal that was seen to have one; queues that do not grow; every due goal has its turn |
| Autopilot and pulse: `autopilot.py`, `cli_autopilot.py`, `pulse.py` | `autopilot_runs`, `autopilot_signals` | cycles under a pipeline lock: sync, ingest, triage, signals, delegate, execute safe rows, proactive step | safe rows only; one signal, one task; a due goal is seen |
| Inbox, triage, ingestion: `inbox.py`, `cli_workflow.py`, `ingest/` | `inbox_items`, `external_imports`, `work_items` | capture, ingest, triage, pipelines | one work item per inbox item, one inbox item per external item, nothing stuck |
| Connectors: `connectors/` | `external_items`, `sync_state` | sync with retries and pagination | a failing sync keeps what it had; the sync state says which one failed (the cursor is written, and no fetch uses it) |
| Policy: `autonomy.py`, `approval_rules.py`, `command_registry.py` | `approval_rules`, the command table | classify an action, a tool, a command; advise; rules | nothing risky is allowed or advised unasked; a rule that says when it applies goes first |
| Requests: `router.py`, `nl_config.py`, `cli_chat.py` | `route_overrides`, `event_log`, catalog | `myos do`, corrections, configuration in words | a request is settled once, where the user's correction says |
| Context loop: `context.py`, `assistant.py` | conversations, turns, observations, insights, suggestions | log a turn, reflect, decide, forget | the memory stays consistent under overlapping sessions |
| Zero executor: `zero_executor.py` | a child process and its event stream | run, stream, time out | a stream that ends early is not a success |
| Rollback: `rollback.py` | a compensation on each receipt | derive, propose | what was sent can be undone; no rollback is carried out unasked |
| Knowledge: `graphrag.py`, `entities.py`, `claims.py`, `retrieval.py`, ... | entity, claim and embedding tables | upserts, search | keys stay unique |
| Providers: `providers/`, `multi_provider.py` | audit rows | reason, chat | an audit commits, and with it what the caller wrote |
| Database and local data: `db.py`, `cli_local_data.py` | schema version, files | connect, migrate, back up, restore | what is recorded is done; a restore brings back what was backed up |
| Observability: `observability.py`, `main` in `cli.py` | traces, rollups, judgements | start, finish, clean up, judge | no trace is lost from the statistics |
| Command line, dashboards, installation | none of their own | parse, print, install | |

The components interact in four ways:

- **The proposal queue.** Loops, factory runs, chats and rollbacks insert
  `agent_actions`; all of them are executed by `approve_and_execute`, or, when
  they need no approval, by the background cycles' own path.
- **The inbox.** Failures, fired reminders and captures become inbox rows; a
  unique index on their text drops repetitions.
- **Locks.** Autopilot, pulse, run-day and go-live each hold a row of
  `pipeline_locks`; `loop run-goal`, `factory` commands, `worker` and
  `pulse --once` hold none.
- **Commits in passing.** A provider's audit row, and `approve_and_execute`
  itself, commit whatever their caller has written so far.

### Hard behaviours

Reads before the first write run outside the transaction: Python's `sqlite3`
opens one at the first INSERT or UPDATE. So every *look, then write* in the code
is a race, unless the write names the status it expects. Crashes between two
commits, ticks that overlap, claims whose owner died, process ids that come
back, leases that run out, and queues whose first entry keeps the others
waiting are the rest. The `hazards` of `PROJECT.json` list them at their lines.

## 2. Modules

| Module | Role |
|---|---|
| `ApprovalGate` | abstract: effects never outnumber the approvals given |
| `ActionLifecycle` | the execution core and the background executors |
| `Mutex` | abstract: one process inside |
| `PipelineLock` | `locks.py` and its callers |
| `JobBoard` | abstract: a job is posted, taken by one worker, settled by its taker or lost |
| `WorkQueue` | the workflow queue and its workers |
| `Reminders` | reminders, scheduler ticks, notifications |
| `FactoryRun` | factory runs; uses the interface of `ActionLifecycle` |
| `GoalLoop` | standing goals, the scheduler, bounded loops |
| `Ingest` | from a connector's sync to the work list |
| `Autopilot` | extends `Ingest`: cycles that sync, ingest, triage, detect signals and delegate |
| `Rollback` | extends `ActionLifecycle`: compensations with the receipts, proposals that undo them |
| `Migrations` | the steps of `initialize_schema` as data |
| `SchemaStore` | connections that migrate one database file, with crashes |
| `LocalData` | extends `SchemaStore`: backup and restore over open connections |
| `CommandRegistry` | the table of commands |
| `AutonomyPolicy` | pure functions on it: what is allowed, asked or blocked, what is advised, which rule fires |
| `TraceLog` | the frame around each command, its trace, the cleanup of traces |
| `Router` | `myos do`, corrections, rules; extends `TraceLog` |
| `ContextLoop` | chats, reflections, suggestions, retention; extends `Router` |
| `Assistant` | composes the last five: commands that meet on one database |
| `MC*` | values for the constants of each, for TLC |
| `*_proofs` | theorems and proofs about the module of that name; `Rollback_proofs` is also about `ActionLifecycle`, `WorkQueue_proofs` about `PipelineLock`, `LocalData_proofs` about `Migrations` and `SchemaStore`, `Autopilot_proofs` about `Ingest`, and `Assistant_proofs` about the modules that `Assistant` composes |

One step of a process ends where the code commits, or where it reads what a
later step relies on. A transaction that stays open across such a point is held
in a variable (`writer` or `held`), and nobody else writes meanwhile: that is
SQLite's single writer in WAL mode, where others wait for `busy_timeout`. A
crash of a process with uncommitted writes leaves no trace of them, so it is the
same as a crash before its first write, and the models leave it out where
nothing else distinguishes the two.

History variables (`grants`, `sends`, `opened`, `fires`, `carried`, ...) record
what properties speak of, and no guard reads them.

### ActionLifecycle

`approve_and_execute` (`execution.py`) is cut at its commits and its two reads:
`read` - gates and approval - `reread` - integrity check - claim (`UPDATE ...
WHERE status IN (...)`) - second read - effect - settle with receipt and
follow-up. Kinds of action stand for what `_execute_agent_action` does: a local
idempotent capture, a draft, a live connector call, a command, a patch, a type
without adapter, a destructive one. The autopilot's and the autonomy loop's own
path for safe rows are actions of their own. Users edit payloads outside the
program, a persona that does not list a type may come and go (`PersonaAllows`),
inbox rows are triaged, the clock runs against the approval TTL, and
processes die at any point. `MYOS_AUTO_REVIEWER` is taken to be unset, and the
override of destructive actions at a terminal is left out.

### PipelineLock

Time is kept as the age of the lock row and of the cycle, both saturating, so
that behaviours never run into a bound. `Reused` chooses between owner names
with a process id (autopilot, pulse) and with a uuid (run-day, go-live).

### WorkQueue

A worker reads a batch, claims each job by its status, and runs the workflow as
rows of runs and steps. A bad payload, a failing step, a skipped pipeline and a
killed worker end a job in their different ways. The run-day pipeline is the
abstract `Mutex`.

### Reminders

A tick reads the due rows, then dispatches and marks each in one transaction;
the user's commands interleave, and a snooze is cut between its SELECT and its
UPDATE. The inbox keeps one row per text.

### FactoryRun

A run's stages are kept in the order of their ids, because `continue` takes the
first that is open. For each action the process reads its row and the policy
(`Ask`), and goes through the reads and commits of `approve_and_execute`: a read,
the approval, a read, the claim, the outcome. Others take any of these steps, or
set the policy, in between; the checks of what was approved are the business of
`ActionLifecycle`. `granted` remembers whether the policy held since the process
came to the action at hand. The roles of a start may be cut by a provider's commit. Left
out: the Zero executor's batch, personas, and what plans say.

### GoalLoop

A scheduler invocation chooses a due goal, looks for its loop among the latest
agent tasks, and skips, resumes or starts it; several may be at it at once; users resume loops by hand, settle
approvals, roll actions back, overwrite a task's status with `myos learn`, and
pause goals. The provider's audit may commit a cycle in its middle. The limit of
500 tasks is the constant `Window`.

### Ingest

A command is cut where it has read what it decides on: a sync after its fetch,
ingest and triage after their SELECT, `run-day` and `go-live` after the list of
external items. What it then writes is one transaction. `Rows` are the texts that
may be in the inbox: an item under one of its titles, or a capture. Ingest and
triage meet the unique indexes with plain INSERTs, so a row of another process
undoes their batch; pipelines use INSERT OR IGNORE. `Interrupt` is the `finally`
clause of the pipelines, whose commit is meant for the lock and takes along
whatever the loops have written. Which rows those are is any part of the batch,
and the row at hand may be half written; `MaxTorn` bounds how many are. `loose`
and `torn` remember where that happened, and no guard but the bound reads them.
One connector is modelled: `--connector all` runs several syncs, each with its own
transaction, one after the other. Left out: media assets, the watched directory,
the words in a text.

### Autopilot

A loop's cycle goes through the stages of `run_autopilot_cycle`, whose commands
are the actions of `Ingest`; users' processes take the same actions at any time,
except while the cycle's transaction holds the write lock. The signals are one
transaction, which `Audit` commits in its middle when a provider is asked for a
task's plan. Keys, not texts, identify signals. The safe-action step at the end
of a cycle is in `ActionLifecycle`, the factory step in `FactoryRun`, the lock
around the cycle in `PipelineLock`. Left out: the row of `autopilot_runs`,
digests, `--watch-risks` and `--context-root`.

### Rollback

`RollbackSpec` is the execution core with a ledger beside it: whenever a step of
`ActionLifecycle` counts a receipt, a record with the inverse of the effect, or
none, is appended in the same step. `ProposeRollback` is `myos rollback
--receipt`: a row of `Undos` enters the queue as a draft that needs approval,
and takes the link of the receipt. From then on it is a row like any other.

### Migrations, SchemaStore, LocalData

`Migrations` says of each version which kinds of statement its block has: what
may be repeated, what a second process finds done already, what an interrupted
block leaves behind, and the healing of the full-text index that every connection
does. `SchemaStore` runs these blocks in several processes, each of which read
the version before it began, over a file with a committed part and one
writer; a process may be killed anywhere. `LocalData` adds the files: backup
through SQLite's backup API, restore with its safety copy, its overwrite of the
file and its unlinking of the write-ahead log, while others may be connected.
Automatic checkpoints are left out.

### CommandRegistry, AutonomyPolicy

The table is translated row by row, commands with equal entries together;
summaries, examples and arguments are left out. The three gates of `autonomy.py`
are functions on it, and on names as sets of the hints that occur in them.
`check_rule` is a choice among the rules that fire.

### TraceLog, Router, ContextLoop, Assistant

These are one machine of processes, each with one command at a time. `TraceLog`
has the frame of `main` (`Begin`, `Link`, `Finish`, `Kill`) and the two commands
about traces; what a command does between `Link` and `End` is in the other two
modules, cut where it reads before its first write. A text is known by the
groups of cue words in it and by what `extract_observations` would find in it;
a model's answer is any of a set, or none. `Assistant` composes them, and begins
each behaviour with a *meeting*: the commands its processes may give. All pairs
that share state are among the meetings of `MCAssistant`; `{"autonomy"}`
alone is there to judge each command of the table, and `{"rule"}` for the order
of rules. A step of `myos do` may fail (`DoFails`), before or after a provider's
commit. Where a meeting reflects, it
may begin with a conversation of before. Names, tags and numbers in
rows, the mirror of turns in `text_chunks`, edges between persons, and what a
chat's backend does are left out.

## 3. Runs

| Run | Question | Bounds |
|---|---|---|
| `ActionLifecycle_live` | two callers on one live connector row: approvals, TTL, edits, crashes, follow-ups | 3 calls, 1 edit, 2 ticks, 2 payloads |
| `Rollback_mixed` | a live and a safe row next to both background executors, and two rollbacks, one of which may undo the other; refinement of `ApprovalGate`; every call returns | 3 calls, no clock, no edits |
| `PipelineLock_uuid` | exclusion, refinement of `Mutex`, and recovery of a dead owner's row, with fresh names and cycles within the lease | 3 processes, lease 3 |
| `WorkQueue_race` | two workers, three jobs, failures and a crash; refinement of `JobBoard`; every queued job is taken | batches of 2, 2 steps |
| `Reminders_race` | two ticks against the user, two reminders of one text; a due one is fired | one row per tick, 1 clock tick, 1 snooze, 1 lost tick |
| `FactoryRun_race` | two users on one run, review-first or fully autonomous, with a policy that comes and goes | one run, pack of a capture and a draft, 1 crash or approval recorded by hand |
| `FactoryRun_served` | two autopilots alone serve two intents | six runs, one day, 1 crash |
| `GoalLoop_one` | two schedulers on one goal, with the user's interference | 3 tasks, queues of 2, 1 rollback, lesson, pause or other task, 1 crash |
| `GoalLoop_served` | turns of two goals of different priority; queues that do not grow | cadence 2, 1 crash |
| `Autopilot_race` | an autopilot and a user's process on one external item, one capture and one goal: rows worked on once, signals delegated once, stored items become work, a due goal is seen | two titles, ingest limit 1, signal limit 2, one cadence window, 1 failure, 1 torn row |
| `LocalData_restore` | processes open, migrate, back up and restore one database: what is recorded was done, an open database is current, a restore brings back the backup, nobody is stranded, everybody gets in | one process migrates from version 0, 16, 37 or 41, with and without FTS5; two meet at version 40, and over the backup of one; 1 kill or timeout, 1 restore |
| `Assistant_meet` | traces, requests, conversations and rules when two processes give the commands of one of seven meetings | 3 traces, `--max-rows` 1, 2 texts, one guess of a model, 3 rules to choose from and 2 at a time, 1 correction of each text, 3 turns |

The bounds are as small as the interesting cases allow. A race needs two
processes and one row; a lost update one more writer; a starvation two entries;
a retry one crash. Data values are as many as a property compares: two payloads
where an edit must be told from the original, one elsewhere. That a larger
instance adds nothing is proved for the properties of section 5, and a matter of
judgement for the others. `Autopilot_race` is checked for
deadlock, because its loop always has a next step. The other configurations say
`CHECK_DEADLOCK FALSE`: commands come when a user gives them, and a behaviour may
end at its bounds.
Liveness is checked without symmetry.

Each property is also broken by a mutated definition (`mutants` in
`PROJECT.json`): a dropped guard, a missing status, a look at the wrong rows.

## 4. Where the code does something else than its documentation

The models contain these behaviours, except where a line says otherwise. The
properties of the runs are stated so as to hold beside them, and a reader who
wants one shown has only to state the stronger property:

- `execution.py:909`: the approval UPDATE names a row only by its id, so a slow
  approver puts an executed row back to approved, and it runs again
  (`ARCHITECTURE.md:133` has `executed` as an end, and `cli_agent.py:312`
  says "nothing to approve").
- `db.py:1523`: the foreign key of `autonomy_feedback` has no cascade, so once a
  judged trace has passed the retention `myos trace cleanup` fails and is rolled
  back as a whole, each time (`docs/BOUNDED_AUTONOMY.md:79` has it remove old
  traces). A cleanup that commits while others have the same rows selected has them
  counted once more by each of these (`shared`, pairs of a trace and a process),
  and a trace rolled up while it runs keeps the outcome `running` in the
  statistics. The cleanup deletes by the cutoff, and the model the traces it
  selected; they differ only for `--retention-days 0`, where a trace inserted after
  the SELECT is deleted uncounted (`observability.py:226`).
- `cli_chat.py:81`: a confirmed change of configuration that finds the database
  locked is passed over, and its text is routed as a request; so it is when the
  change was committed and only printing it fails, and then the request is both
  (`RequestsAreSettled` excepts that). A change that fails between two writes of its
  own is not modelled.
- `router.py:502`: a start that fails after the provider's audit has committed, on
  a locked database or in the work itself, ends as failed with the run there and
  no `smart_route` event (excepted likewise). A print that fails after the last
  commit ends as failed too, with all recorded; that is not modelled.
- `factory.py:1147`: the connector policy is read before `approve_and_execute`
  commits its approval and its claim, so one that is withdrawn in between still
  lets the draft go. `Consent` is that it held since the process came to that
  action. `run-stage` records only an approval in `FactoryRun_race`; the theorem is
  about whatever it may record.
- `autonomy.py:333`: `setup-live` writes services of the system and is allowed
  unasked, for its default is a dry run; `PolicyHolds` names it as the exception.
- `nl_config.py`: a tier that is neither `allow` nor `block` becomes `allow`. A
  connector request sets a `full_autonomous` policy of that connector back to
  `review_first`, and with an open intent its own text is dropped.
- `autonomy.py:953`: a judgement decides again from the linked safety level, not
  from what the user was shown: an unlinked trace is always `blocked`, and `do`
  is `allowed` even where a route asked for approval (`router.py:424`). So no
  property says that a judgement records what was decided.
- `autonomy.py:261`: the comment says `read_receipt_mark` is kept from running
  by itself; `read` is its first word and none of the others is a writing hint,
  so it is `auto` (by running it, not modelled).
- `approval_rules.py:12` says that `block` always denies; only the review of
  proposals looks at rules, the approval of one by hand does not.
- `context.py:432`: the check that is to stop a decision from being overwritten
  and counted twice comes before the transaction, so two deciders both pass it;
  `context.py:318`: two reflections may close an insight over its successor's
  link, and suggest a title twice (`raced`).
- `privacy.py:257`: derived artifacts must not outlive their conversations, but
  suggestion titles, which quote a preference, and the observations of decisions
  are never purged. `hygiene` finds nothing to merge, and decays nothing, since no
  observation is unimportant enough.
- `rollback.py:391`: a receipt that has a proposal gets another. A rollback is a
  draft (`dry_run`), so that approving it drafts the inverse and sends nothing;
  it gets a receipt with an inverse of its own, and may be rolled back.
- `db.py:1754`, `:1761`: a bare ALTER of version 42 or 43 that was committed
  without its version makes every later connect fail (`NeverStranded` and `GetsIn`
  except it); `db.py:870`: two processes at version 18 may record version 19 with
  its trigger dropped; `db.py:1841`: a kill after the CREATE of the full-text
  table leaves it without triggers.
- `cli_local_data.py:97`: the safety copy of a restore leaves out the log, and a
  restore under open connections, or killed before the unlinking, may damage the
  database (`shared`, `unclean`).
- `cli_operations.py:411`, `:509`: a failing step leaves `cmd_orchestrate` as a
  `SystemExit`, which passes the worker's `except Exception`; the job stays
  `running`, and its batch ends.
- `cli_operations.py:176`, `:288`: a pipeline that is interrupted, or fails,
  between the INSERT of a work item and the UPDATE of its inbox row commits the
  half of it. From then on `myos triage` raises an IntegrityError and undoes its
  whole batch, and each autopilot cycle ends before its signals, until a
  `run-day` marks the row; `ItemsBecomeWork` and `GoalsAreSeen` make that
  exception (`HalfTriaged`). Between the inbox row and its import row, the item
  is never imported, and takes its place in the ingest limit for ever (`loose`).
- `cli_operations.py:79`: two pipelines that overlap, with a new title in
  between, give one item two inbox rows.
- `autopilot.py:206`: the list of signals is cut to the limit before those
  recorded long ago are dropped, so as many open risks as the limit keep goals
  and other risks out; `GoalsAreSeen` is checked with fewer risks than that.
- `autopilot.py:227`: a cycle that fails after a provider's audit strands the
  signal it is at, one per failed cycle (`SignalsAccounted`).
- `connectors/base.py:54`: the first sync of a connector records a
  `last_success_at` even when it fails or is skipped (by reading, not modelled).
- `execution.py:969`: an edit between the integrity check and the second read
  runs under the old approval; `ApprovalsHold` is what holds.
- `autonomy_loop.py:258`, `autopilot.py:273`: safe rows run by background cycles
  leave no receipt.
- `execution.py:406`: a second failure with the same text links a follow-up that
  is closed already; `FailureHasFollowUp` is what holds.
- `locks.py:22`, `cli_autopilot.py:246`: a new process with a dead owner's pid
  inherits the rest of its lease (`Reused`); a cycle longer than an hour is
  joined by the next (`Longest > Lease`).
- `reminders.py:390`: a snooze reopens a row that was cancelled after its SELECT.
- `reminders.py:307`: a tick fires a row that was snoozed after the tick read it;
  `cli_reminders.py:214`: a tick killed before its commit notifies again;
  `notify.py:263`: a firing whose text was triaged before leaves no new row.
- `cli_factory.py:264`: `factory continue` enters the execution stage, which its
  help (`cli.py:1753`) excludes; `factory.py:1201`: a run that took two passes
  counts what the first one executed as pending, and is never completed; a run
  whose start was killed keeps every later intent waiting; a
  stage put back by `run-stage` in the middle of a start doubles the batch.
- `autonomy_loop.py:440`: two invocations that look at once start two loops for
  one goal, which then has both for good (`docs/BOUNDED_AUTONOMY.md:189` has a loop
  started only for a goal that has none). `OneLoopPerLook` is what holds: nobody
  starts one who did not look while there was none, so there are no more than
  schedulers. 500 newer tasks hide a goal's loop (`Window`), and its goal gets
  another; `autonomy_loop.py:616`: a cycle begins over an approval that came
  after the count; `autonomy_loop.py:359`: a crash between two commits leaves a
  cycle without its ledger row.

## 5. What is proved

TLAPS proves the following for all values of the constants that satisfy the
`ASSUME` of the module, in particular for any number of processes and rows.

**`Rollback_proofs`, the execution core.** `TypeCorrect`; `BudgetHolds`;
`ApprovedBeforeSent` (no effect without an approval of its own); `Implementation`
(the core implements `ApprovalGate`). That sends stay within approvals is not inductive.
The invariant is `TypeOK /\ Support /\ ApprovalBudget`: `ApprovalBudget` says
that what was sent, plus the callers that hold a claim, plus an unclaimed
approval, do not exceed the approvals; `Support` says why a claim on an action
with effects always came from an approved row (only captures are ever without a
gate, in the row, in a caller's copies of it, and at the point of its effect).
`LedgerHolds` and `FollowUpHolds` are inductive over well-typed states as they
stand. `ApprovedIsWhatRuns` is not: it speaks of callers past their claim, and
holds because a row becomes approved together with its pinned hash (`PinnedRows`),
a caller's snapshot is the row unless it was edited since (`Faithful`), and what
the gate let through is an approval that was valid when the call began
(`Vouched`).

**`WorkQueue_proofs`, the lock.** `Exclusion` and `LockIsMutex`, under the hypotheses
that names are not reused and that `Longest <= Lease`; neither can be dropped
(section 4). The invariant adds that a busy process owns a row as old as
its cycle, that an idle one owns none, and that live names differ.

**`WorkQueue_proofs`, the queue.** `TypeCorrect`, `NoJobRunsTwice`, `CompletedRan`,
`QueueIsBoard`. The invariant adds that a claimed job has one owner, that an idle worker has none,
that two workers never hold the same job, and that the runs opened for a job
match its status. `QueueIsBoard` adds that an abandoned job is `running` and in
nobody's hands (`LostOK`): that is why nobody takes it again. The table has no
retries, so the board has no step that gives a job back. For `CompletedRan` the
invariant adds that the steps begun are the first ones of the workflow (`JobOK`), and
how many of them a worker has behind it at each point (`WorkerOK`).

**`Reminders_proofs`.** `TypeCorrect`, `OneFiringPerSchedule`,
`FiringsAreNotified`, `TicksKeepTheClosed`. The invariant adds that only the
tick with the write lock has marked rows, that these are pending for everybody
else, how many firings and notifications the status of a row leaves, and that a
fired row's text is in the inbox.

**`Autopilot_proofs`, ingestion.** `RowsAreWorkedOnce`. The invariant adds that what a process
has read of external items has one title per item, that what it has read of the
inbox is still there, and that titles exist.

**`Autopilot_proofs`, cycles.** `CyclesIngest` (cycles, with the users' commands, are a
behaviour of `Ingest`, which gives `CyclesWorkOnce` at once), `TypeCorrect`,
`SignalsAreAccounted`, for any number of loops, with no use of the pipeline lock.
The invariant adds that only the holder of the write lock has tasks that are
not committed, that a signal in the hands of a cycle without the lock is
committed as detected, and that no two cycles have the same signal.

**`Rollback_proofs`, rollbacks.** `RollbackIsLifecycle`: a behaviour with rollbacks is one
of `ActionLifecycle`, so everything above holds of it; `RollbackKeepsGate` is
that for the gate. `UndosWaitForApproval` does not follow, because a rollback is
a draft and the budget counts only what leaves the machine. Its invariant,
`Earned`, says that every row that is not a capture has been approved if it is
approved, at work or executed, and also while a caller holds a claim on it.
`RollbacksCover` adds the ledger: a row takes one proposal (`LinkInv`), and a
caller whose attempt will leave no receipt that helps has sent nothing so far
(`Unsent`), so its end takes as much from one side of `SendsCanBeUndone` as from
the other (`Covered`).

**`FactoryRun_proofs`.** `TypeCorrect`, `ConsentHolds`, `ReviewFirstHolds`,
`OneBatchHolds`, `ActionsSettle`, for any number of users, autopilots, runs and
intents, with and without a role backend. `ConsentHolds` follows a process to its
claim: it is at an action of its run (`Placed`), and from the read of the row on it
may send what is there (`MaySend`: the run or the action is approved, or the mode is
full_autonomous and the policy held since); both stay so whatever others do, as
actions are only added (`ActionsGrow`), and nothing but a claim puts a process to
work (`OnlyByClaim`). The others are about runs whose stages
nobody edited by hand, and need to know who is in the middle of what: the
process that is to prepare a run's actions has held the database since it found
none (`Holds`), an execution stage that was entered has its actions, and a
process at work has counted as pending whatever it left in the queue, and as
pending or blocked whatever was not carried out (`Counts`). That the oldest of a
set of numbers exists is the well-foundedness of the natural numbers.

**`GoalLoop_proofs`.** `TypeCorrect`, `PendingShown`, `QueuesAreBounded` and
`OneLoopHolds`. All rest on an invariant which says that a
process past its look has a task that is there, and that the order of the tasks
lists each of them once (`OrderOK`): it is what makes "among the latest" mean
something. A loop is shown as waiting whenever its queue is not empty and nobody
is in a cycle on it. The queue is bounded because a cycle is begun on an empty
one and adds one proposal, so a queue, with the cycles under way on it, never
exceeds the processes and what users put back (`QueueOK`); that one cycle at a
time would be the bound is false, as two invocations may begin on one loop. The
loops of a goal, with the starts under way for it, never exceed the processes
that start loops (`LoopsOK`), because a process joins those only when it found
no loop. `OneLoopPerLook` has the premise that there are no more tasks than `Window`,
the 500 of the code: then what is not found is not there (`FindSees`). That users
resume loops by hand is in `GoalLoop_served`, not in `GoalLoop_one`; the theorems
are about both.

**`Assistant_proofs`.** `TypeCorrect`, `TracesAreCounted`, `RequestsSettle`,
`MemoryStands`, `RulesStand`, for any number of processes and any meetings. The
invariant, `AssistantInv`, has a part for each of the composed modules, and rests
on where a command may be (`Fits`), so that a step of one leaves the others' part
alone. For the traces: ids are given out in order, a trace that was begun is a row
or counted, and what is counted again, or may still be because one process has
selected it and another taken it (`Doubtful`), has its pair in `shared`
(`CountOK`). For the
requests: a request under way goes where a correction made before it or since
sends its text (`Obeys`), and what it did so far fits its point, also where it
failed behind a provider's commit (`CutShort`). For the
conversations: what was answered is a turn, a failure or in somebody's hands; a
turn has an index of its own unless the count it came from was stale (`LogOK`,
`TurnsOK`), a suggestion is decided once unless two had looked (`Followed`), and
what a process has planned is still what it read, or is marked as `raced` by whoever
wrote in between (`PlanOK`). For the rules: among those that apply one comes first
(`HasForemost`, `OneForemost`) and gives the answer (`ForemostAnswers`); what an added
or a removed rule changes is the answer of the foremost (`AddedPrevails`,
`RemovedPrevailed`).

**`LocalData_proofs`.** `RecordsHold`, `OpensCurrent`, `RestoresKeep`,
`NeverStrands`, for any number of processes that open, migrate, back up, restore
and die, and a database of any version. Of the statements of `initialize_schema`
only their shape matters (`Good`): the blocks come in the order of their
versions, each ends with its row, and which kinds of statement and which objects
may be where. That is proved block by block (`GoodProgram`), as the statements
are data. The invariant says of every database - committed, as the writer sees
it, in the main file, in a backup - that what is recorded was done, and that
versions were recorded in order but for 17, 19 and 41, which something repairs
(`DbOK`); and of a process that every version before its block is recorded, and
what comes before its statement in the block is made (`ProcOK`), which no step of
another process takes away, as only the trigger of 19 is ever dropped
(`Extends`). `RestoresKeep` adds that, until somebody is connected during a
restore or is killed, one process restores at a time, with nobody connected while
the file is replaced (`Orderly`). `NeverStrands` adds that a process comes to the
bare ALTERs of 42 and 43 only within the transaction that the row of 41 opened
(`SoundProc`), so a column of theirs is committed together with its row
(`Sound`). It needs a hypothesis: no backup that may be restored is of version 41
or 42, as `start` is not. The blocks of a database of such a version begin with
the ALTER, outside of a transaction, and a crash right after it strands the
database, whether it came so or was restored; the case `<<44, 40>>` of the run
satisfies the hypothesis.

Only model-checked: liveness (`EveryCallReturns`, `OrphanIsReclaimed`,
`QueueDrains`, `DueIsFired`, `IntentsGetTheirRun`, `EveryDueGoalIsSeen`,
`RunningIsResumed`, `ItemsBecomeWork`, `GoalsAreSeen`, `GetsIn`), which the
prover does not reach. The tables of `CommandRegistry` are constants: evaluating them
is a proof of what is said about them, and TLC does (`PolicyHolds`, an `ASSUME` of
`MCAssistant`).

## 6. Fairness

- `ActionLifecycle`: a process that runs goes on. The connector's POST has a
  timeout, so it comes back too.
- `PipelineLock`: time passes, a cycle ends, a loop tries again after its
  interval.
- `WorkQueue`: `myos worker` keeps being run (it is not a daemon; without this
  a queue may rest for ever), and a running one goes on.
- `Reminders`: launchd starts a tick every 60 seconds, and a started tick goes on.
- `FactoryRun`: the autopilot loop takes its next cycle, and a command goes on.
  Two autopilots are more than the lock allows; the property holds even so.
- `GoalLoop`: the scheduler is invoked in every interval, in a process of its
  own, hence strong fairness beside the invocations of the user in the same
  actor. A cadence longer than the number of goals, in intervals, is a
  premise: with a cadence of one interval the first goal takes every turn.
- `Rollback`: as `ActionLifecycle`. No fairness for proposing a rollback.
- `LocalData`: a command that failed to connect is given again, and a connect, or
  a restore, that was begun goes on. Kills and timeouts are bounded.
- `Autopilot`: the loop takes its next cycle after its interval, or launchd starts
  it again (`KeepAlive`, `cli_launchd.py:206`), and a cycle that is not killed
  goes on. Users' commands and the vendors have no fairness.
- `Assistant` states none: its properties are safety properties.

## 7. Plan and limits

Done, in this order: `ActionLifecycle`, `PipelineLock`, `WorkQueue`, `Reminders`,
`FactoryRun`, `GoalLoop`, each with proofs; `Ingest`, `Autopilot`, with proofs;
`Migrations`, `SchemaStore`, `LocalData`, with proofs; `CommandRegistry`,
`AutonomyPolicy`; `TraceLog`, `Router`, `ContextLoop`, `Assistant`, with proofs;
`Rollback`, with proofs.

Every safety property of the runs that has variables is a theorem now. What would
come next, as models: the event stream of the Zero executor's child, plan steps and fan-out of
the loops.

### Not modelled

- The knowledge graph, retrieval, planners, digests, the risk watcher and the EM
  tools compute scores and texts from rows; what they propose goes through
  `ActionLifecycle`.
- Privacy filters rewrite text character by character.
- The Zero executor and the providers are child processes and remote models; the
  models have only what comes of them: an outcome, an answer, a commit.
- A list that a vendor changes while its pages are fetched may lose or repeat an
  item (`connectors/base.py:157`); the program cannot know.
- Dashboards, reviews, health checks and diagnostics print what is in rows;
  installation writes files and calls launchctl.
- Recommendations are ordered by feedback scores; only which ones there are is
  modelled.
