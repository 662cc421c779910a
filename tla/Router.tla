------------------------------- MODULE Router -------------------------------
(***************************************************************************)
(* `myos do` (cli_chat.py, router.py, nl_config.py) and `myos router       *)
(* feedback`, `myos rule` beside it.  A request is first offered to a      *)
(* model as a change of configuration; what is none, or fails before it    *)
(* has written, is routed: by a correction the user gave for this very     *)
(* text, by the cues in it, or by a model.  The route is carried out and   *)
(* recorded in one transaction, except that the start of a factory run     *)
(* may commit in its middle.  Whatever fails before the last commit ends   *)
(* the command as failed.                                                  *)
(***************************************************************************)
EXTENDS TraceLog

CONSTANTS
  Texts,       \* requests
  CuesOf,      \* for each, the groups of words of _heuristic_route_text in it
  Guesses,     \* what a model may answer when asked for a route
  Replies,     \* what a model may answer when asked for a configuration
  Corrected,   \* intents a user may give in a correction
  MaxRules, MaxCorrections

ASSUME RouterAssumption ==
  /\ CuesOf \in [Texts -> SUBSET {"approval", "health", "connector", "send", "factory",
                                 "plan", "today", "find", "note"}]
  /\ Guesses \subseteq [intent : INTENTS, pack : {""} \cup SendingPacks \cup {"intent_execution"}]
  /\ Corrected \subseteq INTENTS
  /\ MaxRules \in Nat /\ MaxCorrections \in Nat

VARIABLES
  text,        \* the request of a process
  route,       \* its route
  latest,      \* the open intent it will work on, 0 for none
  change,      \* the change of configuration it is about to make
  base,        \* how many corrections of its text there were when it came
  did,         \* history: what became of the request
  override,    \* route_overrides: the intent for a text, or "none"
  corrections, \* history: the corrections of each text, in order
  events,      \* the 'smart_route' rows of event_log
  captured,    \* texts in the inbox
  intents,     \* how many intents there are, all of them open
  plans,       \* intents with a plan
  runs,        \* factory runs: pairs of an intent and a pack
  policy,      \* the mode of the connector policy, or "none"
  rules,       \* approval_rules, by id
  services     \* services in the catalog

requestVars == <<text, route, latest, change, base, did>>
routeVars   == <<override, corrections, events, captured, intents, plans, runs,
                 policy>>
configVars  == <<rules, services>>
routerVars  == <<requestVars, routeVars, configVars>>

ROUTABLE_INTENTS == INTENTS
NoRoute  == [intent |-> "none", pack |-> ""]
NoConfig == [op |-> "none"]

-----------------------------------------------------------------------------
(* Routes.                                                                 *)

\* The pack that goes with an intent, in the heuristics as in the
\* corrections.
PackOf(i) == CASE i = "connector_update" -> "connector_ops"
               [] i = "factory_run"      -> "intent_execution"
               [] i = "daily_brief"      -> "daily_ops"
               [] OTHER                  -> ""
DecisionForIntent(i) == [intent |-> i, pack |-> PackOf(i)]

\* _heuristic_route_text: the first group of words that occurs wins.
HeuristicIntent(cues) ==
  IF cues = {}                           THEN "unknown"
  ELSE IF "approval" \in cues            THEN "approval_review"
  ELSE IF "health" \in cues              THEN "system_health"
  ELSE IF {"connector", "send"} \subseteq cues THEN "connector_update"
  ELSE IF "factory" \in cues             THEN "factory_run"
  ELSE IF "plan" \in cues                THEN "plan_intent"
  ELSE IF "today" \in cues               THEN "daily_brief"
  ELSE IF "find" \in cues                THEN "retrieve_context"
  ELSE IF "note" \in cues                THEN "capture"
  ELSE "unknown"

\* route_text: what is "unknown" is below the threshold of confidence and goes
\* to a model, if there is one; any failure of the model is ignored.
RouteText(t) ==
  LET h == DecisionForIntent(HeuristicIntent(CuesOf[t]))
  IN  IF h.intent # "unknown" THEN {h}
      ELSE {h} \cup Guesses

RouteWithFeedback(t) ==
  IF override[t] \in ROUTABLE_INTENTS THEN {DecisionForIntent(override[t])}
                                      ELSE RouteText(t)

\* autonomy_decision_for_route.
RouteSafety(i) ==
  IF i \in {"daily_brief", "retrieve_context", "approval_review", "system_health"}
  THEN "read_only"
  ELSE IF i \in {"connector_update", "factory_run", "unknown"}
  THEN "approval_gated" ELSE "local_write"
DecisionForRoute(i) ==
  DecideCommand("do", RouteSafety(i), RouteSafety(i) = "approval_gated")

\* record_route_event; the history of corrections is kept with the row.
Recorded(p) == [text |-> text[p], intent |-> route[p].intent, base |-> base[p]]

-----------------------------------------------------------------------------
(* A change of configuration.                                              *)

RuleTypes == {"create_inbox_item", "draft_external_update", "apply_patch", "*"}

\* _parse_intent: a tier that is neither becomes "allow".
ParseIntent(reply) ==
  IF reply.op = "add_rule"
  THEN IF reply.type \in RuleTypes
       THEN [reply EXCEPT !.tier = IF @ \in {"allow", "block"} THEN @ ELSE "allow"]
       ELSE NoConfig
  ELSE IF reply.op \in {"remove_rule", "list_rules", "add_service",
                        "remove_service", "list_catalog"}
  THEN reply
  ELSE NoConfig

\* Ids of rules are never used again; removed rules stay as NoConfig.
AddRule(r)     == /\ Len(rules) < MaxRules
                  /\ rules' = Append(rules, r)
RemoveRule(id) == rules' = [i \in DOMAIN rules |-> IF i = id THEN NoConfig
                                                            ELSE rules[i]]
RuleOf(c) == [type |-> c.type, kind |-> c.kind, pairs |-> c.pairs, tier |-> c.tier]
StandingRules == [i \in {j \in DOMAIN rules : rules[j] # NoConfig} |-> rules[i]]

\* execute_intent.
ExecuteIntent(c) ==
  \/ c.op = "add_rule" /\ AddRule(RuleOf(c)) /\ UNCHANGED services
  \/ c.op = "remove_rule" /\ RemoveRule(c.id) /\ UNCHANGED services
  \/ c.op = "add_service" /\ services' = services \cup {c.name} /\ UNCHANGED rules
  \/ c.op = "remove_service" /\ services' = services \ {c.name} /\ UNCHANGED rules
  \/ c.op \in {"list_rules", "list_catalog"} /\ UNCHANGED configVars

-----------------------------------------------------------------------------
(* myos do.                                                                *)

\* What a process held of a request is gone with it.
NoText == CHOOSE t \in Texts : TRUE
RequestOver(p) ==
  /\ text' = [text EXCEPT ![p] = NoText]
  /\ route' = [route EXCEPT ![p] = NoRoute]
  /\ latest' = [latest EXCEPT ![p] = 0]
  /\ change' = [change EXCEPT ![p] = NoConfig]
  /\ base' = [base EXCEPT ![p] = 0]
  /\ did' = [did EXCEPT ![p] = {}]
  /\ UNCHANGED <<routeVars, configVars>>

\* extract_config_intent asks a backend, whose failures count as no.
DoAsk(p) ==
  /\ At(p, "do")
  /\ \E t \in Texts :
       /\ text' = [text EXCEPT ![p] = t]
       /\ base' = [base EXCEPT ![p] = Len(corrections[t])]
  /\ \E r \in Replies :
       /\ change' = [change EXCEPT ![p] = ParseIntent(r)]
       /\ Goto(p, IF ParseIntent(r) = NoConfig THEN "route" ELSE "confirm")
  /\ UNCHANGED <<route, latest, did, routeVars, configVars, traceVars>>

DoDecline(p) ==
  /\ pc[p] = "confirm"
  /\ End(p, TRUE)
  /\ UNCHANGED <<requestVars, routeVars, configVars, traceVars>>

\* Mutant: a change that was made is routed as well.
DoConfigureGoesOn(p) ==
  /\ pc[p] = "confirm"
  /\ ExecuteIntent(change[p])
  /\ did' = [did EXCEPT ![p] = @ \cup {"configured"}]
  /\ Goto(p, "route")
  /\ UNCHANGED <<text, route, latest, change, base, routeVars, traceVars>>

\* The change is committed, then told.  The handler passes over an error in
\* the telling as over any other, and the request is routed besides.
DoConfigure(p) ==
  /\ pc[p] = "confirm"
  /\ ExecuteIntent(change[p])
  /\ \/ did' = [did EXCEPT ![p] = @ \cup {"configured"}] /\ End(p, TRUE)
     \/ did' = [did EXCEPT ![p] = @ \cup {"configured", "untold"}] /\ Goto(p, "route")
  /\ UNCHANGED <<text, route, latest, change, base, routeVars, traceVars>>

\* The question cannot be asked, or the first write finds the database locked:
\* the handler passes over the error, and the request is routed.
DoConfigureFails(p) ==
  /\ pc[p] = "confirm"
  /\ Goto(p, "route")
  /\ UNCHANGED <<requestVars, routeVars, configVars, traceVars>>

\* route_with_feedback; the decision of autonomy is printed, and "blocked"
\* ends the command.
DoRoute(p) ==
  /\ pc[p] = "route"
  /\ \E r \in RouteWithFeedback(text[p]) :
       /\ route' = [route EXCEPT ![p] = r]
       /\ IF DecisionForRoute(r.intent) = "blocked"
          THEN End(p, FALSE)
          ELSE Goto(p, IF r.intent \in {"factory_run", "connector_update"}
                       THEN "look" ELSE "act")
  /\ UNCHANGED <<text, latest, change, base, did, routeVars, configVars, traceVars>>

\* _latest_intent_id, before the first write.
DoLook(p) ==
  /\ pc[p] = "look"
  /\ latest' = [latest EXCEPT ![p] = intents]
  /\ Goto(p, "factory")
  /\ UNCHANGED <<text, route, change, base, did, routeVars, configVars, traceVars>>

\* The other routes: a capture, an intent with its plan, or an answer.
DoAct(p) ==
  /\ pc[p] = "act"
  /\ LET i == route[p].intent
     IN  /\ captured' = IF i = "capture" THEN captured \cup {text[p]} ELSE captured
         /\ IF i = "plan_intent"
            THEN intents' = intents + 1 /\ plans' = plans \cup {intents + 1}
            ELSE UNCHANGED <<intents, plans>>
  /\ events' = Append(events, Recorded(p))
  /\ did' = [did EXCEPT ![p] = @ \cup {"acted", "recorded"}]
  /\ End(p, TRUE)
  /\ UNCHANGED <<text, route, latest, change, base, override, corrections, runs,
                 policy, configVars, traceVars>>

\* A route to the factory: an intent if none was open, the policy of the
\* connector set to review_first, and the run.
StartRun(p) ==
  LET i == IF latest[p] = 0 THEN intents + 1 ELSE latest[p]
      k == IF route[p].pack = "" THEN "intent_execution" ELSE route[p].pack
  IN  /\ intents' = IF latest[p] = 0 THEN intents + 1 ELSE intents
      /\ policy' = IF route[p].intent = "connector_update" THEN "review_first"
                                                            ELSE policy
      /\ runs' = Append(runs, <<i, k>>)
      /\ UNCHANGED <<override, corrections, captured, plans, configVars, traceVars>>

\* The run and its event, in one transaction ...
DoStart(p) ==
  /\ pc[p] = "factory"
  /\ StartRun(p)
  /\ events' = Append(events, Recorded(p))
  /\ did' = [did EXCEPT ![p] = @ \cup {"acted", "recorded"}]
  /\ End(p, TRUE)
  /\ UNCHANGED <<text, route, latest, change, base>>

\* ... or cut by the commit of a provider's audit.
DoStartCut(p) ==
  /\ pc[p] = "factory"
  /\ StartRun(p)
  /\ did' = [did EXCEPT ![p] = @ \cup {"acted"}]
  /\ Goto(p, "cut")
  /\ UNCHANGED <<text, route, latest, change, base, events>>

DoRecord(p) ==
  /\ pc[p] = "cut"
  /\ events' = Append(events, Recorded(p))
  /\ did' = [did EXCEPT ![p] = @ \cup {"recorded"}]
  /\ End(p, TRUE)
  /\ UNCHANGED <<text, route, latest, change, base, override, corrections,
                 captured, intents, plans, runs, policy, configVars, traceVars>>

\* Any of these steps fails, on a locked database or in the work itself: what
\* was not committed is rolled back, what the provider's audit committed stays.
DoFails(p) ==
  /\ pc[p] \in {"route", "look", "act", "factory", "cut"}
  /\ End(p, FALSE)
  /\ UNCHANGED <<requestVars, routeVars, configVars, traceVars>>

DoSteps(p) ==
  \/ DoAsk(p) \/ DoDecline(p) \/ DoConfigure(p) \/ DoConfigureFails(p)
  \/ DoRoute(p) \/ DoLook(p) \/ DoAct(p) \/ DoStart(p) \/ DoStartCut(p)
  \/ DoRecord(p) \/ DoFails(p)

-----------------------------------------------------------------------------
(* The commands beside it.                                                 *)

\* record_route_feedback: the correction and the override of the event's text
\* are one transaction.
Feedback(p) ==
  /\ At(p, "router")
  /\ \E e \in 1..Len(events), i \in Corrected :
       LET t == events[e].text
       IN  /\ Len(corrections[t]) < MaxCorrections
           /\ override' = [override EXCEPT ![t] = i]
           /\ corrections' = [corrections EXCEPT ![t] = Append(@, i)]
  /\ End(p, TRUE)
  /\ UNCHANGED <<requestVars, events, captured, intents, plans, runs, policy,
                 configVars, traceVars>>

\* myos rule add and remove.
Rule(p) ==
  /\ At(p, "rule")
  /\ \/ \E r \in Replies : r.op = "add_rule" /\ AddRule(RuleOf(r))
     \/ \E id \in 1..MaxRules : RemoveRule(id)
  /\ End(p, TRUE)
  /\ UNCHANGED <<requestVars, routeVars, services, traceVars>>

RouterSteps(p) == DoSteps(p) \/ Feedback(p) \/ Rule(p)
=============================================================================
