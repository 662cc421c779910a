--------------------------- MODULE AutonomyPolicy ---------------------------
(***************************************************************************)
(* autonomy.py and approval_rules.py: what MYOS may do by itself.          *)
(*                                                                         *)
(* Three gates that the code keeps apart:                                  *)
(*   - an action type of the queue, by classify_action;                    *)
(*   - a tool call of a live agent session, by classify_tool;              *)
(*   - a command of the user, by decide_command, which only explains and   *)
(*     recommends.                                                         *)
(* The standing rules of approval_rules.py stand beside the first.  The    *)
(* level of autonomy changes none of them: the set of types that the level *)
(* bold would run is empty, and decide_command only reports it.            *)
(*                                                                         *)
(* A name is looked at by the hints that occur in it.  A tool is the       *)
(* sequence of the words of its name, and the hints are sets of words.     *)
(***************************************************************************)
EXTENDS CommandRegistry, Sequences

Decisions == {"allowed", "needs_approval", "blocked"}

-----------------------------------------------------------------------------
(* Actions of the queue.                                                   *)

\* _ACTION_TIER; a type that is not listed is "confirm".
ActionTier ==
  [create_inbox_item     |-> "auto",
   draft_external_update |-> "confirm",
   apply_patch           |-> "confirm",
   create_issue          |-> "confirm",
   update_issue          |-> "confirm",
   create_calendar_event |-> "confirm",
   send_message          |-> "confirm"]

AUTO_ACTION_TYPES == {t \in DOMAIN ActionTier : ActionTier[t] = "auto"}

\* Names, of actions and of commands, with one of _DESTRUCTIVE_HINTS in them.
DestructiveNames == {"purge_cache", "bulk_update", "delete-everything",
                     "uninstall", "launchd-uninstall"}

\* `massive`: the payload says it is destructive, or names more than five
\* targets.
ClassifyAction(type, massive) ==
  IF type \in DestructiveNames \/ massive THEN "blocked"
  ELSE IF type \in DOMAIN ActionTier THEN ActionTier[type] ELSE "confirm"

-----------------------------------------------------------------------------
(* Standing rules: a sequence, in the order of the ids.                    *)

\* A payload is a set of key-value pairs.  The match of a rule is absent, an
\* empty text, a text that is not an object, or an object of some pairs.  A
\* match that is there, be it empty, puts the rule before those without.
Specific(r) == r.kind # "absent"
Fires(r, payload) ==
  \/ r.kind \in {"absent", "empty"}
  \/ r.kind = "object" /\ r.pairs \subseteq payload

Candidates(rules, type, payload) ==
  {i \in DOMAIN rules : rules[i].type \in {type, "*"} /\ Fires(rules[i], payload)}

\* Mutant: the newest rule goes first, whether it says when it applies or not.
PrecedesByAge(rules, i, j) == i > j

\* Of two rules with and without a match the first goes first, then the newer.
Precedes(rules, i, j) ==
  \/ Specific(rules[i]) /\ ~Specific(rules[j])
  \/ Specific(rules[i]) = Specific(rules[j]) /\ i > j

CheckRule(rules, type, payload) ==
  LET firing == Candidates(rules, type, payload)
  IN  IF firing = {} THEN "ask"
      ELSE rules[CHOOSE i \in firing :
                   \A j \in firing \ {i} : Precedes(rules, i, j)].tier

-----------------------------------------------------------------------------
(* Tools of a live agent session.                                          *)

\* Words of tool names in which a hint occurs, whole or in part.
DestructiveWords == {"delete", "reset_hard", "product", "purge"}
WriteWords       == {"write", "edit", "create", "update", "comment", "post",
                     "send", "add", "apply", "set", "address"}
ReadWords        == {"get", "list", "search", "read", "fetch", "view", "grep",
                     "glob", "recall", "describe", "show"}
READ_TOOLS       == {<<"ls">>, <<"web", "search">>, <<"web", "fetch">>, <<"metrics">>,
                     <<"risk", "radar">>, <<"why", "item">>}

\* `dangerous`: the text of a bash call, normalised, matches the deny list.
ClassifyTool(op, dangerous) ==
  LET has(words) == \E i \in DOMAIN op : op[i] \in words
  IN  IF op = <<"bash">> THEN IF dangerous THEN "blocked" ELSE "confirm"
      ELSE IF has(DestructiveWords) THEN "blocked"
      ELSE IF has(WriteWords) THEN "confirm"
      ELSE IF op \in READ_TOOLS \/ (op # <<>> /\ op[1] \in ReadWords)
           THEN "auto"
           ELSE "confirm"

-----------------------------------------------------------------------------
(* Commands.                                                               *)

\* What decide_command works with when find_command finds nothing.
NoEntry == [command |-> "", tier |-> "", safety |-> "", intent |-> "",
            confirm |-> FALSE, effects |-> {}, dryRun |-> FALSE,
            long |-> FALSE]

Metadata(c) == IF Known(c) THEN FindCommand(c) ELSE NoEntry

\* Effects that ask for a review whatever else the entry says.
Perilous(s) ==
  \/ s.effects \cap {"database_restore", "external_write"} # {}
  \/ "os_service_write" \in s.effects /\ ~s.dryRun

\* decide_command on an entry of the table, or on NoEntry.  `given` and
\* `confirm` are what the caller adds.
DecideEntry(c, s, given, confirm) ==
  LET safety == IF given # "" THEN given ELSE s.safety
      asks   == confirm \/ s.confirm
  IN  IF \/ c = "" \/ safety = "unknown"
         \/ safety = "" /\ c \in DestructiveNames
      THEN "blocked"
      ELSE IF safety \in {"read_only", "diagnostic"} THEN "allowed"
      ELSE IF ~Perilous(s) /\ safety = "local_write" /\ ~asks THEN "allowed"
      ELSE "needs_approval"

DecideCommand(c, given, confirm) == DecideEntry(c, Metadata(c), given, confirm)

\* command_autonomy_decision: a name that is not in the table is "unknown".
CommandDecision(c) ==
  IF Known(c) THEN DecideCommand(c, FindCommand(c).safety, FindCommand(c).confirm)
              ELSE DecideCommand(c, "unknown", TRUE)

\* COMMAND_DECISION_FIXTURES: what the project itself expects.
Fixtures ==
  {<<"context", "read_only", FALSE, "allowed">>,
   <<"capture", "local_write", FALSE, "allowed">>,
   <<"release-check", "diagnostic", FALSE, "allowed">>,
   <<"sync", "external_write", TRUE, "needs_approval">>,
   <<"factory", "approval_gated", TRUE, "needs_approval">>,
   <<"delete-everything", "unknown", TRUE, "blocked">>}

\* evaluate_command_decisions: the fixtures that fail.
FailedFixtures == {f \in Fixtures : DecideCommand(f[1], f[2], f[3]) # f[4]}

-----------------------------------------------------------------------------
(* Recommended next steps.                                                 *)

\* A step: its label, the command it names, whether it names a bounded form
\* of it (a dry run, a check, a listing, one cycle), and the effects it warns
\* of.
Step(label, command, bounded, effects) ==
  [label |-> label, command |-> command, bounded |-> bounded,
   effects |-> effects]

\* The first example of a command whose default is a dry run shows that.
AfterAllowed(c, s, intent) ==
  IF c = "setup-live"
  THEN <<Step("check_setup_live", c, TRUE, s.effects)>>
  ELSE IF s.dryRun /\ s.effects # {}
  THEN <<Step("dry_run_first", c, TRUE, s.effects)>>
  ELSE IF s.long
  THEN <<Step("inspect_health_first", "health", FALSE, {"long_running"})>>
  ELSE IF c = "do" /\ intent \in {"capture", "plan_intent"}
  THEN <<Step("continue", "", TRUE, {})>>
  ELSE <<>>

\* The packs whose factory run may end in a write outside.
SendingPacks == {"connector_ops", "daily_ops", "software_delivery"}

AfterNeedsApproval(c, s, safety, intent, pack) ==
  IF c = "factory" \/ intent = "factory_run"
  THEN <<Step("review_factory", "factory", TRUE,
              {"local_db_write"} \cup
              (IF pack \in SendingPacks THEN {"external_write"} ELSE {}))>>
  ELSE IF "database_restore" \in s.effects
  THEN <<Step("backup_before_restore", "backup", FALSE, {"database_restore"}),
         Step("verify_migrations", "migrations", FALSE, {"database_restore"})>>
  ELSE IF "os_service_write" \in s.effects
  THEN (IF s.dryRun
        THEN <<Step("dry_run_runtime_change", c, TRUE, {"os_service_write"})>>
        ELSE <<>>)
       \o <<Step("inspect_launchd_status", "launchd-status", FALSE,
                 {"os_service_write"}),
            Step("read_runtime_runbook", "runbook", FALSE,
                 {"os_service_write"})>>
  ELSE IF \/ intent = "connector_update" \/ pack = "connector_ops"
          \/ safety = "external_write"
  THEN <<Step("review_approvals", "approve", TRUE, {"external_write"})>>
  ELSE IF s.long
  THEN <<Step("prefer_one_shot_runtime",
              IF c = "pulse" THEN c ELSE "health", c = "pulse",
              {"long_running"})>>
  ELSE <<Step("inspect_gated_commands", "router", FALSE, {})>>

RecommendNextSteps(decision, c, safety, intent, pack) ==
  IF decision = "allowed" THEN AfterAllowed(c, Metadata(c), intent)
  ELSE IF decision = "needs_approval"
  THEN AfterNeedsApproval(c, Metadata(c), safety, intent, pack)
  ELSE <<Step("inspect_safe_commands", "help", FALSE, {}),
         Step("inspect_recent_traces", "trace", FALSE, {})>>
=============================================================================
