----------------------------- MODULE ContextLoop -----------------------------
(***************************************************************************)
(* The conversations of `myos chat` and what is distilled from them        *)
(* (assistant.py, context.py): each turn is logged with the observations   *)
(* made in it; `myos reflect` draws insights and suggestions from them;    *)
(* `myos suggestions` decides on these; `myos cleanup` forgets what has    *)
(* passed the retention of conversations.                                  *)
(*                                                                         *)
(* Python's sqlite3 opens a transaction at the first write.  What a        *)
(* function reads before is a step of its own; from its first write to its *)
(* commit it is alone.                                                     *)
(***************************************************************************)
EXTENDS Router, SequencesExt, Integers

CONSTANTS
  Messages,    \* texts said in a chat
  ObservedIn,  \* what extract_observations finds in each: pairs of a kind
               \* and a subject
  MaxTurns     \* turns that are logged in a behaviour

ASSUME MemoryAssumption ==
  /\ Messages \subseteq Texts
  /\ \A t \in Messages : IsFiniteSet(ObservedIn[t])

VARIABLES
  convs,       \* conversations, by id: [alive, count, old]
  turns,       \* conversation_turns, by id: [conv, index, alive, old]
  obs,         \* active context_observations: [turn, kind, subject, detail]
  insights,    \* context_insights, by id: [subject, by, old]; by is 0 while
               \* one is open, then the id that closed it, its own or a
               \* successor's; -1 once it is deleted
  suggestions, \* context_suggestions, by id: [title, status, past]
  session,     \* conversation of a chat, and the turn_count it has read
  plan,        \* what reflect or decide_suggestion has read
  answered, failures, \* turns answered; context_log_failed events
  raced        \* history: what two overlapping steps worked on

memoryVars == <<convs, turns, obs, insights, suggestions, session, plan,
                answered, failures, raced>>

NoSubject == "-"
NoSession == [conv |-> 0, count |-> 0]
NoPlan    == [subjects |-> {}, id |-> 0, title |-> <<>>, status |-> ""]

-----------------------------------------------------------------------------
(* Logging a turn.                                                         *)

Alive(c) == c \in DOMAIN convs /\ convs[c].alive

\* The chat goes on with the conversation that was started last, if any.
ChatOpen(p) ==
  /\ At(p, "chat")
  /\ LET open == {c \in DOMAIN convs : convs[c].alive}
     IN  session' = [session EXCEPT ![p] =
                       [conv |-> IF open = {} THEN 0 ELSE Max(open), count |-> 0]]
  /\ Goto(p, "talk")
  /\ UNCHANGED <<convs, turns, obs, insights, suggestions, plan, answered,
                 failures, raced, routerVars, traceVars>>

ChatExit(p) ==
  /\ pc[p] = "talk"
  /\ session' = [session EXCEPT ![p] = NoSession]
  /\ End(p, TRUE)
  /\ UNCHANGED <<convs, turns, obs, insights, suggestions, plan, answered,
                 failures, raced, routerVars, traceVars>>

\* run_turn: the route is recorded and committed, then the backend answers.
ChatSay(p) ==
  /\ pc[p] = "talk" /\ answered < MaxTurns
  /\ \E t \in Messages :
       /\ text' = [text EXCEPT ![p] = t]
       /\ base' = [base EXCEPT ![p] = Len(corrections[t])]
       /\ \E d \in RouteWithFeedback(t) :
            events' = Append(events, [text |-> t, intent |-> d.intent,
                                      base |-> Len(corrections[t])])
  /\ answered' = answered + 1
  /\ Goto(p, "answered")
  /\ UNCHANGED <<route, latest, change, did, override, corrections, captured,
                 intents, plans, runs, policy, configVars, traceVars, convs,
                 turns, obs, insights, suggestions, session, plan, failures,
                 raced>>

\* The SELECT of turn_count, before the transaction.
LogRead(p) ==
  /\ pc[p] = "answered" /\ Alive(session[p].conv)
  /\ session' = [session EXCEPT ![p].count = convs[session[p].conv].count]
  /\ Goto(p, "logging")
  /\ UNCHANGED <<convs, turns, obs, insights, suggestions, plan, answered,
                 failures, raced, routerVars, traceVars>>

\* extract_observations, with the check for duplicates of _insert_observation.
Observed(k, s, d) == \E o \in obs : o.kind = k /\ o.subject = s /\ o.detail = d
Extracted(turn, t) ==
  obs \cup {[turn |-> turn, kind |-> x[1], subject |-> x[2],
             detail |-> <<t>>] :
              x \in {y \in ObservedIn[t] : ~Observed(y[1], y[2], <<t>>)}}

Logged(p, c, index) ==
  /\ turns' = Append(turns, [conv |-> c, index |-> index, alive |-> TRUE,
                             old |-> FALSE])
  /\ obs' = Extracted(Len(turns) + 1, text[p])

\* log_turn for a first turn, and for a conversation that is gone.
LogNew(p) ==
  /\ pc[p] = "answered" /\ ~Alive(session[p].conv)
  /\ convs' = Append(convs, [alive |-> TRUE, count |-> 1, old |-> FALSE])
  /\ session' = [session EXCEPT ![p] = [conv |-> Len(convs) + 1, count |-> 0]]
  /\ Logged(p, Len(convs) + 1, 0)
  /\ Goto(p, "talk")
  /\ UNCHANGED <<insights, suggestions, plan, answered, failures, raced,
                 routerVars, traceVars>>

LogWrite(p) ==
  /\ pc[p] = "logging"
  /\ LET c == session[p].conv
     IN  IF Alive(c)
         THEN /\ convs' = [convs EXCEPT ![c].count = @ + 1]
              /\ Logged(p, c, session[p].count)
              /\ raced' = IF \E q \in Procs \ {p} : pc[q] = "logging" /\ session[q].conv = c
                          THEN raced \cup {<<"conversation", c>>} ELSE raced
              /\ UNCHANGED failures
         ELSE \* The foreign key fails, and what was done is rolled back.
              /\ failures' = failures + 1
              /\ UNCHANGED <<convs, turns, obs, raced>>
  /\ Goto(p, "talk")
  /\ UNCHANGED <<insights, suggestions, session, plan, answered, routerVars,
                 traceVars>>

\* The retention of conversations in cmd_cleanup: old turns with their
\* observations, old conversations without turns, old insights.
Purge(p) ==
  /\ At(p, "cleanup")
  /\ LET kept == {t \in DOMAIN turns : turns[t].alive /\ ~turns[t].old}
     IN  /\ turns' = [t \in DOMAIN turns |-> [turns[t] EXCEPT !.alive = t \in kept]]
         /\ obs' = {o \in obs : o.turn \in kept \cup {0}}
         /\ convs' = [c \in DOMAIN convs |->
                       [convs[c] EXCEPT !.alive =
                          @ /\ (convs[c].old => \E t \in kept : turns[t].conv = c)]]
  /\ insights' = [i \in DOMAIN insights |->
                   [insights[i] EXCEPT !.by = IF insights[i].old THEN -1 ELSE @]]
  /\ End(p, TRUE)
  /\ UNCHANGED <<suggestions, session, plan, answered, failures, raced,
                 routerVars, traceVars>>

\* Time: all there is passes the retention.
MemoryAges ==
  LET Older(s) == [i \in DOMAIN s |-> [s[i] EXCEPT !.old = TRUE]]
  IN  /\ <<convs, turns, insights>> # <<Older(convs), Older(turns), Older(insights)>>
      /\ convs' = Older(convs) /\ turns' = Older(turns)
      /\ insights' = Older(insights)
      /\ UNCHANGED <<obs, suggestions, session, plan, answered, failures,
                     raced, procVars, routerVars, traceVars>>

-----------------------------------------------------------------------------
(* Reflection.                                                             *)

Support(s) == Cardinality({o \in obs : o.subject = s})
Open       == {i \in DOMAIN insights : insights[i].by = 0}

\* Suggestions that generate_suggestions would make; a title that was ever
\* suggested is not suggested again.
Titles ==
  {<<"risk", o.subject>> : o \in {x \in obs : x.kind = "risk" /\ x.subject # NoSubject}}
  \cup {<<"preference", o.detail[1]>> : o \in {x \in obs : x.kind = "preference"}}
Fresh  == Titles \ {suggestions[i].title : i \in DOMAIN suggestions}

Proposed(titles) ==
  suggestions \o SetToSeq({[title |-> t, status |-> "proposed", past |-> {}] : t \in titles})

\* The clusters are read first.
ReflectRead(p) ==
  /\ At(p, "reflect")
  /\ LET clusters == {o.subject : o \in {x \in obs : x.subject # NoSubject /\ Support(x.subject) >= 2}}
     IN  /\ plan' = [plan EXCEPT ![p] = [NoPlan EXCEPT !.subjects = clusters]]
         /\ Goto(p, IF clusters = {} THEN "scan" ELSE "reflect")
  /\ UNCHANGED <<convs, turns, obs, insights, suggestions, session, answered,
                 failures, raced, routerVars, traceVars>>

\* Mutant: the insight that was open before stays open.
ReflectedOnTop(subjects) ==
  insights \o [i \in 1..Cardinality(subjects) |->
                [subject |-> SetToSeq(subjects)[i], by |-> 0, old |-> FALSE]]

\* New insights take the ids after those there are.
Reflected(subjects) ==
  LET order == SetToSeq(subjects)
      next(s) == Len(insights) + (CHOOSE i \in DOMAIN order : order[i] = s)
      closed == [i \in DOMAIN insights |->
                  IF i \in Open /\ insights[i].subject \in subjects
                  THEN [insights[i] EXCEPT !.by = next(insights[i].subject)]
                  ELSE insights[i]]
  IN  closed \o [i \in DOMAIN order |-> [subject |-> order[i], by |-> 0, old |-> FALSE]]

Expired(list) ==
  [i \in DOMAIN list |->
     IF list[i].by = 0 /\ Support(list[i].subject) < 2
     THEN [list[i] EXCEPT !.by = i] ELSE list[i]]

\* A title that another process is about to insert without a further look.
Clash(p, titles) ==
  raced \cup {<<"title", t>> : t \in {u \in titles :
                \E q \in Procs \ {p} : pc[q] = "suggest" /\ plan[q].title = u}}

\* With a cluster the first INSERT comes next, and all the rest is read
\* within the transaction.
ReflectWrite(p) ==
  /\ pc[p] = "reflect"
  /\ insights' = Expired(Reflected(plan[p].subjects))
  /\ suggestions' = Proposed(Fresh)
  /\ raced' = Clash(p, Fresh)
  /\ Goto(p, "hygiene")
  /\ UNCHANGED <<convs, turns, obs, session, plan, answered, failures,
                 routerVars, traceVars>>

\* Without one the scan for insights to close is outside, and after it the
\* look for the first new title.
ReflectScan(p) ==
  /\ pc[p] = "scan"
  /\ LET stale == {i \in Open : Support(insights[i].subject) < 2}
     IN  \/ /\ stale # {}
            /\ plan' = [plan EXCEPT ![p] = [NoPlan EXCEPT !.id = Min(stale)]]
            /\ Goto(p, "close")
         \/ /\ stale = {}
            /\ \E t \in Fresh : plan' = [plan EXCEPT ![p] = [NoPlan EXCEPT !.title = t]]
            /\ Goto(p, "suggest")
         \/ /\ stale = {} /\ Fresh = {}
            /\ Goto(p, "hygiene")
            /\ UNCHANGED plan
  /\ UNCHANGED <<convs, turns, obs, insights, suggestions, session, answered,
                 failures, raced, routerVars, traceVars>>

\* The first UPDATE closes what was stale when it was read, with its own id,
\* whatever has become of it.
ReflectClose(p) ==
  /\ pc[p] = "close"
  /\ LET i == plan[p].id
     IN  insights' = Expired(IF insights[i].by = -1 THEN insights
                             ELSE [insights EXCEPT ![i].by = i])
  /\ suggestions' = Proposed(Fresh)
  /\ raced' = Clash(p, Fresh)
  /\ Goto(p, "hygiene")
  /\ UNCHANGED <<convs, turns, obs, session, plan, answered, failures,
                 routerVars, traceVars>>

\* The first title goes in unseen.
ReflectSuggest(p) ==
  /\ pc[p] = "suggest"
  /\ suggestions' = Append(Proposed(Fresh \ {plan[p].title}),
                           [title |-> plan[p].title, status |-> "proposed", past |-> {}])
  /\ raced' = Clash(p, Fresh \cup {plan[p].title})
  /\ Goto(p, "hygiene")
  /\ UNCHANGED <<convs, turns, obs, insights, session, plan, answered,
                 failures, routerVars, traceVars>>

\* hygiene: of equal observations the earliest stays.  None has an importance
\* so low that it decays.
Merged ==
  {o \in obs : ~\E x \in obs : /\ x.turn < o.turn
                               /\ <<x.kind, x.subject, x.detail>>
                                    = <<o.kind, o.subject, o.detail>>}
Hygiene(p) ==
  /\ pc[p] = "hygiene"
  /\ obs' = Merged
  /\ plan' = [plan EXCEPT ![p] = NoPlan]
  /\ End(p, TRUE)
  /\ UNCHANGED <<convs, turns, insights, suggestions, session, answered,
                 failures, raced, routerVars, traceVars>>

-----------------------------------------------------------------------------
(* Deciding on suggestions.                                                *)

MayBecome(now, then) ==
  \/ now = "proposed" /\ then \in {"accepted", "dismissed", "applied"}
  \/ now = "accepted" /\ then = "applied"

DecideRead(p) ==
  /\ At(p, "suggestions")
  /\ \E i \in DOMAIN suggestions, s \in {"accepted", "dismissed", "applied"} :
       IF MayBecome(suggestions[i].status, s)
       THEN /\ plan' = [plan EXCEPT ![p] = [NoPlan EXCEPT !.id = i, !.status = s]]
            /\ raced' = IF \E q \in Procs \ {p} : pc[q] = "decide" /\ plan[q].id = i
                        THEN raced \cup {<<"suggestion", i>>} ELSE raced
            /\ Goto(p, "decide")
       ELSE End(p, FALSE) /\ UNCHANGED <<plan, raced>>
  /\ UNCHANGED <<convs, turns, obs, insights, suggestions, session, answered,
                 failures, routerVars, traceVars>>

\* The UPDATE names the row by its id alone; what the user decided is an
\* observation too.
DecideWrite(p) ==
  /\ pc[p] = "decide"
  /\ LET i == plan[p].id
         d == <<plan[p].status, suggestions[i].title>>
     IN  /\ suggestions' = [suggestions EXCEPT ![i].status = plan[p].status,
                                               ![i].past = @ \cup {plan[p].status}]
         /\ obs' = IF Observed("feedback", NoSubject, d) THEN obs
                   ELSE obs \cup {[turn |-> 0, kind |-> "feedback",
                                   subject |-> NoSubject, detail |-> d]}
  /\ plan' = [plan EXCEPT ![p] = NoPlan]
  /\ End(p, TRUE)
  /\ UNCHANGED <<convs, turns, insights, session, answered, failures, raced,
                 routerVars, traceVars>>

\* A turn that dies with its process was not answered.
MemoryKill(p) ==
  /\ answered' = IF pc[p] \in {"answered", "logging"} THEN answered - 1 ELSE answered
  /\ session' = [session EXCEPT ![p] = NoSession]
  /\ plan' = [plan EXCEPT ![p] = NoPlan]
  /\ UNCHANGED <<convs, turns, obs, insights, suggestions, failures, raced>>

MemorySteps(p) ==
  \/ ChatOpen(p) \/ ChatSay(p) \/ ChatExit(p)
  \/ LogRead(p) \/ LogNew(p) \/ LogWrite(p) \/ Purge(p)
  \/ ReflectRead(p) \/ ReflectWrite(p) \/ ReflectScan(p) \/ ReflectClose(p)
  \/ ReflectSuggest(p) \/ Hygiene(p)
  \/ DecideRead(p) \/ DecideWrite(p)
=============================================================================
