---------------------------- MODULE Migrations ------------------------------
(***************************************************************************)
(* What initialize_schema (db.py) executes, as data: the statements of     *)
(* each version in the order of the code.  A statement is the kind of call *)
(* it is and the object it makes; consecutive statements of one kind are   *)
(* one, named for the first thing they make.  What tables hold is left     *)
(* out, but which statement opens a transaction, ends one, or fails when   *)
(* its object exists is kept: that is what a crash or a second process can *)
(* tell apart.                                                             *)
(***************************************************************************)
EXTENDS Naturals, Sequences

EXPECTED_SCHEMA_VERSION == 46

\* Two more blocks that every connect goes through: _ensure_fts5, and the
\* last commit.
Heal == EXPECTED_SCHEMA_VERSION + 1
Finish == EXPECTED_SCHEMA_VERSION + 2

Stmt(op, obj) == [op |-> op, obj |-> obj]

None == "none"    \* what a statement makes that makes nothing

Make(o)   == Stmt("make", o)        \* CREATE ... IF NOT EXISTS
Script(o) == Stmt("script", o)      \* executescript: a COMMIT, then CREATEs
Look      == Stmt("look", None)     \* PRAGMA table_info
Add(o)    == Stmt("add", o)         \* ALTER TABLE if the look did not find it
Bare(o)   == Stmt("bare", o)        \* ALTER TABLE, with no look
Try(o)    == Stmt("try", o)         \* ALTER TABLE with its errors suppressed
Index(o)  == Stmt("index", o)       \* an index on the columns of the Try
Rows(o)   == Stmt("rows", o)        \* INSERT, UPDATE or DELETE of data
Record    == Stmt("record", None)   \* INSERT OR IGNORE INTO schema_migrations

InBlock(v, stmts) ==
  [i \in DOMAIN stmts |-> [ver |-> v, op |-> stmts[i].op, obj |-> stmts[i].obj]]

\* Mutant: the version is recorded before it is made.
RecordsFirst(v, stmts) == InBlock(v, <<Record>> \o stmts)

\* One `if current < v:` block; it ends with its row in schema_migrations.
Block(v, stmts) == InBlock(v, Append(stmts, Record))

\* The tables every connect makes sure of, whatever the version.
BaseTables == InBlock(0, <<Script("inbox_items")>>)

Migrations1to5 ==
  Block(1, <<>>)
  \o Block(2, <<Look, Add("provenance_id")>>)
  \o Block(3, <<Make("external_imports")>>)
  \o Block(4, <<Make("media_imports")>>)
  \o Block(5, <<Make("review_evidence")>>)

\* Duplicates move to the row that is kept, then the unique index holds.
Migration6 ==
  Block(6, <<Rows("inbox_merged"), Make("idx_inbox_dedupe"),
             Rows("work_items_merged"), Make("pipeline_locks")>>)

Migrations7to9 ==
  Block(7, <<Make("workflow_runs")>>)
  \o Block(8, <<Make("assistant_policies"), Rows("policy_defaults")>>)
  \o Block(9, <<Make("workflow_queue")>>)

Migrations10to11 ==
  Block(10, <<Make("agent_tasks")>>) \o Block(11, <<Make("autopilot_runs")>>)

Migrations12to16 ==
  Block(12, <<Make("ai_provider_calls"), Rows("provider_defaults")>>)
  \o Block(13, <<Make("assistant_digests")>>)
  \o Block(14, <<Make("assistant_goals")>>)
  \o Block(15, <<Make("action_outbox")>>)
  \o Block(16, <<Make("assistant_watch_dirs")>>)

\* The full-text index, for an SQLite that has FTS5; an OperationalError ends
\* the block without its row.
Migration17 ==
  Block(17, <<Stmt("fts", "text_chunks_fts"), Script("fts_triggers"), Rows("fts_rows")>>)

\* 18 suppresses the error of its ALTER; 19 replaces a trigger.
Migrations18to19 ==
  Block(18, <<Make("people"), Try("person_id"), Index("idx_review_evidence_person")>>)
  \o Block(19, <<Stmt("drop", "fts_au"), Stmt("create", "fts_au")>>)

Migrations20to21 == Block(20, <<Script("conversations")>>) \o Block(21, <<Script("intents")>>)

Migrations22to24 ==
  Block(22, <<Script("entities")>>)
  \o Block(23, <<Script("relationships")>>)
  \o Block(24, <<Script("retrieval_runs")>>)

Migrations25to28 ==
  Block(25, <<Script("plans")>>)
  \o Block(26, <<Look, Add("retrieval_run_ids")>>)
  \o Block(27, <<Script("claims")>>)
  \o Block(28, <<Script("action_execution_receipts")>>)

Migrations29to30 == Block(29, <<Script("factory_runs")>>) \o Block(30, <<Script("route_feedback")>>)

Migrations31to33 ==
  Block(31, <<Look, Add("text_hash"), Script("route_overrides")>>)
  \o Block(32, <<Script("execution_traces")>>)
  \o Block(33, <<Script("autonomy_eval_runs")>>)

Migrations34to38 ==
  Block(34, <<Script("autonomy_run_ledger")>>)
  \o Block(35, <<Script("recommendation_feedback")>>)
  \o Block(36, <<Look, Add("executor_backend"), Add("executor_context_json")>>)
  \o Block(37, <<Look, Add("payload_hash"), Add("approved_at")>>)
  \o Block(38, <<Look, Add("compensating_action_json"), Add("rollback_action_id")>>)

\* 41 rewrites the connectors' rows, and is repaired when its own row is missing.
Migrations39to41 ==
  Block(39, <<Script("reminders")>>)
  \o Block(40, <<Script("personas")>>)
  \o Block(41, <<Rows("external_items_scrubbed")>>)

Migrations42to43 ==
  Block(42, <<Bare("factory_runs.persona_name")>>)
  \o Block(43, <<Bare("assistant_goals.persona_name")>>)

Migrations44to46 ==
  Block(44, <<Make("embedding_cache")>>)
  \o Block(45, <<Try("source_type"), Try("source_id"), Index("idx_digests_source")>>)
  \o Block(46, <<Make("approval_rules")>>)

\* _ensure_fts5: on every connect, whatever the version.
EnsureFts5 ==
  InBlock(Heal, <<Stmt("heal", "text_chunks_fts"), Script("fts_triggers"), Script("fts_au"),
                  Rows("fts_rows"), Stmt("recordFts", None)>>)

Program ==
  BaseTables \o Migrations1to5 \o Migration6 \o Migrations7to9 \o Migrations10to11
  \o Migrations12to16 \o Migration17 \o Migrations18to19 \o Migrations20to21
  \o Migrations22to24 \o Migrations25to28 \o Migrations29to30 \o Migrations31to33
  \o Migrations34to38 \o Migrations39to41 \o Migrations42to43 \o Migrations44to46
  \o EnsureFts5 \o InBlock(Finish, <<Stmt("commit", None)>>)

Blocks == 0..Finish

OfBlock(v, ops) == {i \in DOMAIN Program : Program[i].ver = v /\ Program[i].op \in ops}

FirstOf == [v \in Blocks |-> CHOOSE i \in DOMAIN Program :
            /\ Program[i].ver = v
            /\ i = 1 \/ Program[i - 1].ver # v]

\* What version v makes.
ObjectsOf ==
  [v \in Blocks |->
     {Program[i].obj : i \in OfBlock(v, {"make", "script", "add", "bare", "try", "index", "rows",
                                         "fts", "heal", "drop", "create"})}]

\* The columns whose ALTER in v may have been suppressed.
TriedIn == [v \in Blocks |-> {Program[i].obj : i \in OfBlock(v, {"try"})}]
=============================================================================
