-------------------------- MODULE CommandRegistry --------------------------
(***************************************************************************)
(* The table of commands of command_registry.py: for each command its      *)
(* tier, its safety level, the intent it serves, whether it asks for a     *)
(* confirmation and what it may touch.  Summaries, examples, arguments and *)
(* subcommands are left out.  The table is cut into eight definitions, in  *)
(* the order of the source; commands with equal entries share a row.       *)
(*                                                                         *)
(* The table is data, and every advice of AutonomyPolicy depends on it: a  *)
(* wrong entry is a wrong advice.                                          *)
(***************************************************************************)
EXTENDS Naturals, FiniteSets

TIERS == {"daily", "workflow", "expert", "diagnostic"}
SAFETY_LEVELS ==
  {"read_only", "local_write", "approval_gated", "external_write", "diagnostic"}
SIDE_EFFECT_TYPES ==
  {"local_db_write", "local_file_write", "os_service_write",
   "database_restore", "external_read", "external_write", "long_running"}
INTENTS ==
  {"capture", "retrieve_context", "daily_brief", "plan_intent", "factory_run",
   "connector_update", "approval_review", "system_health", "unknown"}

\* An entry with the default values of CommandSpec, for each of the names.
Rows(names, tier, safety, intent) ==
  {[command |-> c, tier |-> tier, safety |-> safety, intent |-> intent,
    confirm |-> FALSE, effects |-> {}, dryRun |-> FALSE, long |-> FALSE] :
     c \in names}

Confirmed(rows)     == {[r EXCEPT !.confirm = TRUE] : r \in rows}
Touching(fx, rows)  == {[r EXCEPT !.effects = fx] : r \in rows}
DryRun(rows)        == {[r EXCEPT !.dryRun = TRUE] : r \in rows}
Long(rows)          == {[r EXCEPT !.long = TRUE] : r \in rows}

-----------------------------------------------------------------------------
(* The table.                                                              *)

COMMAND_SPECS_1 ==
       Rows({"chat", "voice"}, "daily", "read_only", "unknown")
  \cup Rows({"do"}, "daily", "local_write", "unknown")
  \cup Confirmed(Touching({"local_file_write", "long_running"}, Long(
            Rows({"code"}, "workflow", "approval_gated", "factory_run"))))
  \cup Confirmed(Touching({"local_db_write", "long_running"}, Long(
            Rows({"autopilot"}, "daily", "approval_gated", "factory_run"))))
  \cup Confirmed(Rows({"approve"},
            "daily", "approval_gated", "approval_review"))
  \cup Rows({"capture"}, "daily", "local_write", "capture")
  \cup Rows({"morning", "today", "next-action"},
            "daily", "read_only", "daily_brief")
  \cup Rows({"close-day"}, "daily", "local_write", "daily_brief")
  \cup Rows({"intent", "plan", "review-packet"},
            "workflow", "local_write", "plan_intent")
  \cup Confirmed(Rows({"factory", "delegate"},
            "workflow", "approval_gated", "factory_run"))

COMMAND_SPECS_2 ==
       Touching({"local_db_write"}, Rows({"persona"},
            "workflow", "local_write", "factory_run"))
  \cup Confirmed(Rows({"loop"}, "workflow", "approval_gated", "factory_run"))
  \cup Rows({"agent-run", "orchestrate"},
            "workflow", "local_write", "factory_run")
  \cup Rows({"evidence"}, "workflow", "local_write", "plan_intent")
  \cup Confirmed(Touching({"external_read", "local_db_write"},
            Rows({"sync"}, "workflow", "external_write", "retrieve_context")))
  \cup Rows({"weekly-review"}, "workflow", "read_only", "daily_brief")
  \cup Touching({"external_read", "local_db_write"},
            Rows({"run-day"}, "workflow", "local_write", "daily_brief"))
  \cup Rows({"context", "why", "retrieval-run"},
            "expert", "read_only", "retrieve_context")
  \cup Rows({"claim", "entity", "relationship"},
            "expert", "local_write", "retrieve_context")
  \cup Rows({"execution-receipt"}, "expert", "read_only", "approval_review")

COMMAND_SPECS_3 ==
       Confirmed(Rows({"rollback"},
            "expert", "approval_gated", "approval_review"))
  \cup Touching({"local_db_write"}, Rows({"remind", "scheduler"},
            "daily", "local_write", "capture"))
  \cup Confirmed(Rows({"action-provider"},
            "expert", "approval_gated", "connector_update"))
  \cup Rows({"agent-status"}, "expert", "read_only", "factory_run")
  \cup Rows({"autopilot-status", "digest"},
            "expert", "read_only", "daily_brief")
  \cup Rows({"goal"}, "expert", "local_write", "plan_intent")
  \cup Rows({"watch-dir", "watch-scan"}, "expert", "local_write", "capture")
  \cup Rows({"policy"}, "expert", "local_write", "system_health")
  \cup Rows({"help"}, "daily", "read_only", "system_health")
  \cup Rows({"now"}, "daily", "read_only", "daily_brief")
  \cup Rows({"end", "weekly"}, "daily", "local_write", "daily_brief")
  \cup Rows({"note", "meeting", "1on1"}, "daily", "local_write", "capture")

COMMAND_SPECS_4 ==
       Rows({"brief", "risk-radar", "at-risk", "waiting-on",
             "delegation-candidates", "stop-doing", "review-draft"},
            "daily", "read_only", "daily_brief")
  \cup Rows({"report"}, "daily", "local_write", "daily_brief")
  \cup Rows({"team"}, "daily", "local_write", "capture")
  \cup Rows({"triage", "inbox-process", "transcribe", "ingest-image"},
            "workflow", "local_write", "capture")
  \cup Rows({"inbox"}, "workflow", "read_only", "capture")
  \cup Rows({"ingest-external", "link"},
            "workflow", "local_write", "retrieve_context")
  \cup Rows({"related"}, "workflow", "read_only", "retrieve_context")
  \cup Rows({"recall"}, "expert", "read_only", "retrieve_context")
  \cup Rows({"reflect"}, "expert", "local_write", "retrieve_context")

COMMAND_SPECS_5 ==
       Rows({"suggestions", "rule"}, "expert", "local_write", "plan_intent")
  \cup Rows({"memory"}, "expert", "read_only", "retrieve_context")
  \cup Rows({"reindex", "catalog"},
            "expert", "local_write", "retrieve_context")
  \cup Long(Rows({"embed"}, "expert", "local_write", "retrieve_context"))
  \cup Rows({"model"}, "diagnostic", "local_write", "system_health")
  \cup Rows({"autonomy"}, "diagnostic", "diagnostic", "system_health")
  \cup Touching({"local_file_write"}, Rows({"config-init"},
            "diagnostic", "local_write", "system_health"))
  \cup Rows({"onboard", "ui"}, "diagnostic", "read_only", "system_health")
  \cup Confirmed(Touching({"external_read", "local_db_write", "os_service_write"},
            Rows({"activate", "live"},
            "diagnostic", "approval_gated", "system_health")))
  \cup Confirmed(Touching({"external_read", "local_db_write"},
            Rows({"go-live"},
            "diagnostic", "approval_gated", "system_health")))
  \cup Confirmed(Touching({"local_db_write", "long_running"}, Long(
            Rows({"pulse"}, "diagnostic", "approval_gated", "factory_run"))))

COMMAND_SPECS_6 ==
       Rows({"status", "metrics", "launchd-status", "runbook"},
            "diagnostic", "read_only", "system_health")
  \cup Confirmed(Touching({"local_file_write", "os_service_write"},
            Rows({"install", "uninstall"},
            "diagnostic", "local_write", "system_health")))
  \cup Confirmed(Touching({"local_file_write", "os_service_write"}, DryRun(
            Rows({"launchd-install", "launchd-uninstall"},
            "diagnostic", "local_write", "system_health"))))
  \cup Confirmed(Touching({"external_read", "local_db_write", "os_service_write"},
            Rows({"start"}, "diagnostic", "local_write", "system_health")))
  \cup Confirmed(Touching({"os_service_write"},
            Rows({"stop"}, "diagnostic", "local_write", "system_health")))
  \cup Touching({"local_db_write", "local_file_write"},
            Rows({"cleanup"}, "diagnostic", "local_write", "system_health"))
  \cup Rows({"renegotiate"}, "workflow", "read_only", "daily_brief")
  \cup Rows({"snapshot"}, "diagnostic", "local_write", "system_health")
  \cup Rows({"workflow-runs"}, "workflow", "read_only", "factory_run")
  \cup Rows({"queue-add"}, "workflow", "local_write", "factory_run")

COMMAND_SPECS_7 ==
       Touching({"local_db_write", "long_running"}, Long(
            Rows({"worker"}, "workflow", "local_write", "factory_run")))
  \cup Confirmed(Rows({"act"},
            "workflow", "approval_gated", "approval_review"))
  \cup Rows({"learn"}, "workflow", "local_write", "factory_run")
  \cup Rows({"coach"}, "expert", "read_only", "retrieve_context")
  \cup Rows({"self-review"}, "diagnostic", "read_only", "system_health")
  \cup Rows({"tune"}, "diagnostic", "local_write", "system_health")
  \cup Rows({"review-evidence"}, "daily", "read_only", "daily_brief")
  \cup Rows({"log-evidence"}, "daily", "local_write", "capture")
  \cup Rows({"resolve-commitment"}, "daily", "local_write", "daily_brief")
  \cup Confirmed(Rows({"risk-scan"},
            "workflow", "approval_gated", "connector_update"))
  \cup Rows({"doctor", "health", "router", "trace", "sanity",
             "release-check", "dependency-check"},
            "diagnostic", "diagnostic", "system_health")

COMMAND_SPECS_8 ==
       Rows({"performance-baseline", "migrations", "cutover-check", "uat"},
            "diagnostic", "diagnostic", "system_health")
  \cup Touching({"local_file_write"}, Rows({"backup"},
            "diagnostic", "local_write", "system_health"))
  \cup Confirmed(Touching({"database_restore", "local_file_write"},
            Rows({"restore"}, "diagnostic", "local_write", "system_health")))
  \cup Touching({"local_file_write", "long_running"}, Long(
            Rows({"dashboard"}, "diagnostic", "read_only", "system_health")))
  \cup Touching({"local_file_write", "local_db_write", "os_service_write"}, DryRun(
            Rows({"setup-live"},
            "diagnostic", "local_write", "system_health")))

COMMAND_SPECS ==
  UNION {COMMAND_SPECS_1, COMMAND_SPECS_2, COMMAND_SPECS_3, COMMAND_SPECS_4,
         COMMAND_SPECS_5, COMMAND_SPECS_6, COMMAND_SPECS_7, COMMAND_SPECS_8}

-----------------------------------------------------------------------------
(* Reading it.                                                             *)

Known(c) == \E s \in COMMAND_SPECS : s.command = c

\* Only for a known command.
FindCommand(c) == CHOOSE s \in COMMAND_SPECS : s.command = c

CommandNames == {s.command : s \in COMMAND_SPECS}

\* An empty filter matches everything.
FilterCommands(tier, safety, intent) ==
  {s \in COMMAND_SPECS : /\ tier # "" => s.tier = tier
                         /\ safety # "" => s.safety = safety
                         /\ intent # "" => s.intent = intent}

\* Entries a caller must not reach without being asked.
Risky(s) == \/ s.safety \in {"approval_gated", "external_write"}
            \/ "database_restore" \in s.effects

\* The issues the report counts, those about wording left out; a command
\* entered twice would be two entries with one name.
ContractIssues ==
  {s \in COMMAND_SPECS :
     \/ s.tier \notin TIERS
     \/ s.safety \notin SAFETY_LEVELS
     \/ ~(s.effects \subseteq SIDE_EFFECT_TYPES)
     \/ Risky(s) /\ ~s.confirm
     \/ \E t \in COMMAND_SPECS : t # s /\ t.command = s.command}

=============================================================================
