------------------------------ MODULE Assistant ------------------------------
(***************************************************************************)
(* Commands of `myos` that meet on one database: the frame of every        *)
(* command and its trace (TraceLog), requests and their routes (Router),   *)
(* conversations and what is drawn from them (ContextLoop), and the advice *)
(* of the autonomy policy (AutonomyPolicy) on all of them.  A behaviour    *)
(* begins with a meeting: the commands its processes may give, and a       *)
(* command that was traced before it.                                      *)
(***************************************************************************)
EXTENDS ContextLoop

CONSTANT Before   \* for each meeting, the commands that may have been traced
                  \* before, "" for none

ASSUME AssistantAssumption ==
  \A m \in Meetings : /\ m \subseteq CommandNames
                      /\ Before[m] \subseteq (CommandNames \ Untraced) \cup {""}

vars == <<procVars, traceVars, routerVars, memoryVars>>

Init ==
  /\ meeting \in Meetings
  /\ pc = [p \in Procs |-> "idle"] /\ cmd = [p \in Procs |-> ""]
  /\ own = [p \in Procs |-> 0] /\ good = [p \in Procs |-> FALSE]
  /\ \E c \in Before[meeting], o \in Outcomes : \E known \in BOOLEAN :
       IF c = ""
       THEN /\ trace = [t \in Traces |-> "none"]
            /\ of = [t \in Traces |-> ""]
            /\ linked = {} /\ old = {}
       ELSE /\ trace = [t \in Traces |-> IF t = 1 THEN o ELSE "none"]
            /\ of = [t \in Traces |-> IF t = 1 THEN c ELSE ""]
            /\ o # "running" => known     \* a kill may come before Link
            /\ linked = IF known THEN {1} ELSE {}
            /\ old = {1}
  /\ judged = {} /\ shared = {}
  /\ rollup = [o \in Outcomes |-> 0]
  /\ chosen = [p \in Procs |-> {}]
  /\ text = [p \in Procs |-> NoText]
  /\ route = [p \in Procs |-> NoRoute] /\ latest = [p \in Procs |-> 0]
  /\ change = [p \in Procs |-> NoConfig] /\ base = [p \in Procs |-> 0]
  /\ did = [p \in Procs |-> {}]
  /\ override = [t \in Texts |-> "none"] /\ corrections = [t \in Texts |-> <<>>]
  /\ events = <<>> /\ captured = {} /\ intents = 0 /\ plans = {} /\ runs = <<>>
  /\ policy = "none" /\ rules = <<>> /\ services = {}
  /\ \/ /\ "reflect" \notin meeting
        /\ convs = <<>> /\ turns = <<>> /\ obs = {} /\ answered = 0
     \/ /\ "chat" \in meeting \/ "reflect" \in meeting
        /\ \E t \in Messages : /\ turns = <<[conv |-> 1, index |-> 0, alive |-> TRUE, old |-> FALSE]>>
                              /\ obs = {[turn |-> 1, kind |-> x[1], subject |-> x[2],
                                         detail |-> <<t>>] : x \in ObservedIn[t]}
        /\ convs = <<[alive |-> TRUE, count |-> 1, old |-> FALSE]>>
        /\ answered = 1
  /\ insights = <<>>
  /\ suggestions = <<>> /\ raced = {}
  /\ session = [p \in Procs |-> NoSession] /\ plan = [p \in Procs |-> NoPlan]
  /\ failures = 0

TraceSteps(p) ==
  \/ \E c \in meeting : Begin(p, c)
  \/ Link(p)
  \/ CleanupSelect(p) \/ CleanupCommit(p) \/ Judge(p)

\* Time passes where a command of the meeting looks at it.
Next ==
  \/ \E p \in Procs : TraceSteps(p) /\ UNCHANGED <<routerVars, memoryVars>>
  \/ \E p \in Procs : RouterSteps(p) /\ UNCHANGED memoryVars
  \/ \E p \in Procs : MemorySteps(p)
  \/ \E p \in Procs : RequestOver(p) /\ (\/ Finish(p) /\ UNCHANGED memoryVars
                                         \/ Kill(p) /\ MemoryKill(p))
  \/ "trace" \in meeting /\ Age /\ UNCHANGED <<routerVars, memoryVars>>
  \/ "cleanup" \in meeting /\ MemoryAges

Spec == Init /\ [][Next]_vars

-----------------------------------------------------------------------------
(* Properties.                                                             *)

TypeOK ==
  /\ meeting \in Meetings
  /\ cmd \in [Procs -> meeting \cup {""}] /\ own \in [Procs -> Traces \cup {0}]
  /\ trace \in [Traces -> Outcomes \cup {"none", "deleted"}]
  /\ linked \subseteq Begun /\ old \subseteq Begun
  /\ judged \subseteq Live \X Decisions
  /\ rollup \in [Outcomes -> Nat]
  /\ chosen \in [Procs -> SUBSET (Traces \X Outcomes)]
  /\ \A p \in Procs : did[p] \subseteq {"configured", "untold", "acted", "recorded"}
  /\ intents \in Nat /\ plans \subseteq 1..intents /\ answered \in Nat

\* Nothing that was begun disappears from the statistics: each trace is a row
\* or is in the rollups, whatever cleanups, kills and judgements have met.
\* It is counted again, by each process that had it selected when a cleanup of
\* another took it, and not otherwise.  (The state is well typed besides.)
TracesCounted ==
  LET counted == Cardinality(Live) + rollup["running"] + rollup["completed"]
                 + rollup["failed"]
  IN  /\ TypeOK
      /\ counted >= Cardinality(Begun)
      /\ counted <= Cardinality(Begun) + Cardinality(shared)

\* A request that is over was acted on and recorded, or not at all; only the
\* start of a factory run that fails after a provider's commit leaves a run
\* without its event, and then the command says that it failed.  A change of
\* configuration is routed besides only if it could not be told.
Settled(p) ==
  /\ \/ did[p] \cap {"acted", "recorded"} \in {{}, {"acted", "recorded"}}
     \/ /\ did[p] \cap {"acted", "recorded"} = {"acted"} /\ ~good[p]
        /\ route[p].intent \in {"factory_run", "connector_update"}
  /\ {"configured", "acted"} \subseteq did[p] => "untold" \in did[p]

\* Requests are settled.  And a request made after a correction of its text
\* goes where that correction, or a later one, sends it, in `do` as in a chat;
\* what is recorded as a capture is in the inbox, and a run has its intent.
RequestsAreSettled ==
  /\ \A p \in Procs : pc[p] = "end" /\ cmd[p] = "do" => Settled(p)
  /\ \A e \in Range(events) : e.base > 0 =>
       \E i \in e.base..Len(corrections[e.text]) :
          corrections[e.text][i] = e.intent
  /\ \A e \in Range(events) : e.intent = "capture" /\ meeting \cap {"chat"} = {} =>
       e.text \in captured
  /\ \A r \in Range(runs) : r[1] \in 1..intents

\* The memory is consistent however sessions overlap, die or are purged.
\* Every turn of a live process is in a conversation or among the failures,
\* and what is left refers to what is left; turns of one conversation have
\* numbers of their own, unless two sessions logged into it at once.
TurnsAccounted ==
  /\ \A t \in DOMAIN turns : turns[t].conv \in DOMAIN convs
  /\ \A c \in DOMAIN convs :
       convs[c].count = Cardinality({t \in DOMAIN turns : turns[t].conv = c})
  /\ answered = Len(turns) + failures
                + Cardinality({p \in Procs : pc[p] \in {"answered", "logging"}})
  /\ \A t \in DOMAIN turns : turns[t].alive => convs[turns[t].conv].alive
  /\ \A o \in obs : o.turn # 0 => turns[o.turn].alive
  /\ \A t, u \in DOMAIN turns :
       t < u /\ turns[t].conv = turns[u].conv /\ turns[t].index = turns[u].index
         => <<"conversation", turns[t].conv>> \in raced

\* A subject has one open insight at most, nothing is observed twice, a title
\* is suggested once and a decision stands, except where two processes looked
\* before either wrote.
AdviceRemembered ==
  /\ \A i, j \in Open : insights[i].subject = insights[j].subject => i = j
  /\ Merged = obs
  /\ \A i, j \in DOMAIN suggestions :
       i < j /\ suggestions[i].title = suggestions[j].title
         => <<"title", suggestions[i].title>> \in raced
  /\ \A i \in DOMAIN suggestions :
       \/ <<"suggestion", i>> \in raced
       \/ suggestions[i].past \in {{}, {"accepted"}, {"dismissed"}, {"applied"},
                                   {"accepted", "applied"}}

MemoryHolds == TurnsAccounted /\ AdviceRemembered

\* The payloads that rules may tell apart.
Payloads == SUBSET UNION {r.pairs : r \in {x \in Replies : x.op = "add_rule"}}

\* What the tables must satisfy, a formula without variables.  Every command
\* that the contract calls risky is asked for.  Of those that write outside,
\* replace the database or write services of the system only setup-live is
\* allowed unasked, whose default is a dry run; and no advice leads to another
\* command that is not allowed, except in a form that only shows or checks.  Of
\* the actions of the queue only those of AUTO_ACTION_TYPES run by themselves,
\* and none if it is massive; a tool call with a word of writing in it never
\* does.  What a route may write asks, whatever the level of autonomy.
PolicyHolds ==
  /\ ContractIssues = {} /\ FailedFixtures = {}
  /\ \A s \in COMMAND_SPECS :
       /\ Risky(s) => CommandDecision(s.command) = "needs_approval"
       /\ s.effects \cap {"external_write", "database_restore", "os_service_write"} # {}
            /\ CommandDecision(s.command) = "allowed"
            => s.command = "setup-live" /\ s.dryRun
       /\ \A i \in INTENTS, k \in SendingPacks \cup {""} :
            \A step \in Range(RecommendNextSteps(CommandDecision(s.command),
                                                 s.command, s.safety, i, k)) :
              step.bounded \/ CommandDecision(step.command) = "allowed"
  /\ \A c \in {"read_only", "diagnostic"} :
       \A s \in FilterCommands("", c, "") : CommandDecision(s.command) = "allowed"
  /\ \A t \in DOMAIN ActionTier \cup DestructiveNames \cup {"other"} :
       /\ ClassifyAction(t, FALSE) = "auto" => t \in AUTO_ACTION_TYPES
       /\ ClassifyAction(t, TRUE) = "blocked"
  /\ \A v, w \in DestructiveWords \cup WriteWords \cup ReadWords :
       ClassifyTool(<<v, w>>, FALSE) = "auto" => {v, w} \subseteq ReadWords
  /\ \A i \in ROUTABLE_INTENTS :
       /\ DecisionForRoute(i) # "blocked"
       /\ i \in {"factory_run", "connector_update", "unknown"}
            => DecisionForRoute(i) = "needs_approval"

\* Of the rules that apply to an action one that says when it applies goes
\* first, whatever rules are added and removed and in which order.  An answer
\* changes only to that of an added rule that applies, which says when it does
\* if any of those that applied before did; or because the rule that gave it is
\* removed, which said when it applies if any of them did.
RulesPrevail ==
  [][rules' # rules =>
      \A type \in DOMAIN ActionTier, payload \in Payloads :
        LET firing == Candidates(StandingRules, type, payload)
            before == CheckRule(StandingRules, type, payload)
            after  == CheckRule(StandingRules', type, payload)
            Outranked(r) == (\E j \in firing : Specific(rules[j])) /\ ~Specific(r)
        IN  before # after =>
              \/ \E i \in DOMAIN rules' \ DOMAIN rules :
                   /\ i \in Candidates(StandingRules', type, payload)
                   /\ rules'[i].tier = after /\ ~Outranked(rules'[i])
              \/ \E i \in firing :
                   /\ rules'[i] = NoConfig
                   /\ rules[i].tier = before /\ ~Outranked(rules[i])]_vars
=============================================================================
