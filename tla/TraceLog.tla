------------------------------ MODULE TraceLog ------------------------------
(***************************************************************************)
(* The frame around a command (main in cli.py) and its trace               *)
(* (observability.py): a row of execution_traces is inserted and committed *)
(* before the command runs, gets the safety level of the command in a      *)
(* second commit, and its outcome when the command ends.  A process that   *)
(* is killed leaves its row 'running'.  `myos trace cleanup` adds old rows *)
(* to the rollups and deletes them.                                        *)
(*                                                                         *)
(* What a command does between Link and End is the business of the modules *)
(* that extend this one: they take pc from "run" through points of their   *)
(* own to "end".                                                           *)
(***************************************************************************)
EXTENDS Naturals, Sequences, FiniteSets, FiniteSetsExt, Functions, AutonomyPolicy

CONSTANTS
  Procs,      \* processes, one command each at a time
  MaxTraces,  \* commands begun, those of Init's traces included
  MaxRows,    \* --max-rows of a cleanup
  Meetings    \* sets of commands: those of one set meet in a behaviour

ASSUME TraceAssumption == /\ MaxTraces \in Nat \ {0}
                          /\ MaxRows \in Nat \ {0}
                          /\ IsFiniteSet(Procs)

Traces   == 1..MaxTraces
Outcomes == {"running", "completed", "failed"}

VARIABLES
  meeting,  \* the commands of this behaviour
  pc,       \* where a process is
  cmd,      \* its command
  own,      \* the id of its trace
  good,     \* whether the command ended well
  trace,    \* execution_traces: "none", an outcome, or "deleted"
  of,       \* the command of each trace
  linked,   \* traces with a safety level
  judged,   \* autonomy_feedback: pairs of a trace and the decision found
  old,      \* traces that began before a cutoff
  rollup,   \* execution_trace_rollups: how many of each outcome
  chosen,   \* what a cleanup has selected: pairs of a trace and its outcome
  shared    \* history: pairs of a trace that a cleanup took and of a process
            \* whose cleanup had it selected then

traceVars == <<trace, of, linked, judged, old, rollup, chosen, shared>>
procVars  == <<meeting, pc, cmd, own, good>>

Live  == {t \in Traces : trace[t] \in Outcomes}
Begun == {t \in Traces : trace[t] # "none"}

\* Commands that main does not trace: they move the database itself.
Untraced == {"restore", "setup-live"}

Goto(p, point) == /\ pc' = [pc EXCEPT ![p] = point]
                  /\ UNCHANGED <<meeting, cmd, own, good>>
End(p, well)   == /\ pc' = [pc EXCEPT ![p] = "end"]
                  /\ good' = [good EXCEPT ![p] = well]
                  /\ UNCHANGED <<meeting, cmd, own>>
Leave(p)       == /\ pc' = [pc EXCEPT ![p] = "idle"]
                  /\ cmd' = [cmd EXCEPT ![p] = ""]
                  /\ own' = [own EXCEPT ![p] = 0]
                  /\ good' = [good EXCEPT ![p] = FALSE]
                  /\ UNCHANGED meeting
At(p, c)       == cmd[p] = c /\ pc[p] = "run"

-----------------------------------------------------------------------------
(* The frame.                                                              *)

\* start_trace.
Begin(p, c) ==
  /\ pc[p] = "idle" /\ c \in meeting \ Untraced
  /\ Begun # Traces
  /\ LET t == Cardinality(Begun) + 1
     IN  /\ trace' = [trace EXCEPT ![t] = "running"]
         /\ of' = [of EXCEPT ![t] = c]
         /\ own' = [own EXCEPT ![p] = t]
  /\ cmd' = [cmd EXCEPT ![p] = c]
  /\ pc' = [pc EXCEPT ![p] = "start"]
  /\ UNCHANGED <<meeting, good, linked, judged, old, rollup, chosen, shared>>

\* link_trace, for a command that the registry knows.
Link(p) ==
  /\ pc[p] = "start"
  /\ linked' = IF Known(cmd[p]) /\ own[p] \in Live THEN linked \cup {own[p]}
                                                    ELSE linked
  /\ Goto(p, "run")
  /\ UNCHANGED <<trace, of, judged, old, rollup, chosen, shared>>

\* finish_trace, in the finally clause: an UPDATE that finds no row if a
\* cleanup has taken it.
Finish(p) ==
  /\ pc[p] = "end"
  /\ trace' = IF own[p] \in Live
              THEN [trace EXCEPT ![own[p]] = IF good[p] THEN "completed" ELSE "failed"]
              ELSE trace
  /\ Leave(p)
  /\ UNCHANGED <<of, linked, judged, old, rollup, chosen, shared>>

\* What a command has not committed is gone with its process.
Kill(p) ==
  /\ pc[p] # "idle"
  /\ Leave(p)
  /\ chosen' = [chosen EXCEPT ![p] = {}]
  /\ UNCHANGED <<trace, of, linked, judged, old, rollup, shared>>

-----------------------------------------------------------------------------
(* myos trace cleanup.                                                     *)

\* Time: every trace there is falls behind the cutoffs to come.
Age ==
  /\ old # Begun
  /\ old' = Begun
  /\ UNCHANGED <<procVars, trace, of, linked, judged, rollup, chosen, shared>>

\* The grouped SELECT comes before the first write, so outside the
\* transaction.
CleanupSelect(p) ==
  /\ At(p, "trace")
  /\ LET rows == Live \cap old
     IN  /\ chosen' = [chosen EXCEPT ![p] = {<<t, trace[t]>> : t \in rows}]
  /\ Goto(p, "selected")
  /\ UNCHANGED <<trace, of, linked, judged, old, rollup, shared>>

\* The rows a set of pairs adds to the rollups.
Added(S) == [o \in Outcomes |-> rollup[o] + Cardinality({x \in S : x[2] = o})]

\* The oldest rows beyond --max-rows, by their ids.
Overflow(rows) ==
  {t \in rows : Cardinality({u \in rows : u > t}) >= MaxRows}

\* Mutant: the overflow is deleted without being added up.
SwapUncounted(p) ==
  LET gone == {x[1] : x \in chosen[p]} \cap Live
  IN  /\ rollup' = Added(chosen[p])
      /\ trace' = [t \in Traces |-> IF t \in gone \cup Overflow(Live \ gone)
                                    THEN "deleted" ELSE trace[t]]
      /\ UNCHANGED shared

\* The rest is one transaction: the rows of the SELECT are added up, those
\* behind the cutoff deleted, and the overflow is added up and deleted.  The
\* code deletes by the cutoff again and not by the ids of the SELECT; a row
\* that was inserted since began after it, unless --retention-days is 0, which
\* is left out.
CleanupSwap(p) ==
  LET gone == {x[1] : x \in chosen[p]} \cap Live
      over == Overflow(Live \ gone)
  IN  /\ rollup' = Added(chosen[p] \cup {<<t, trace[t]>> : t \in over})
      /\ trace' = [t \in Traces |-> IF t \in gone \cup over THEN "deleted"
                                                            ELSE trace[t]]
      /\ shared' = shared \cup
           {x \in (gone \cup over) \X (Procs \ {p}) :
              \E o \in Outcomes : <<x[1], o>> \in chosen[x[2]]}

\* autonomy_feedback has a foreign key on the trace it judges and nothing
\* cascades, so a judged row among those to be deleted undoes it all.
CleanupCommit(p) ==
  /\ pc[p] = "selected"
  /\ LET gone    == {x[1] : x \in chosen[p]} \cap Live
         blocked == \E j \in judged : j[1] \in gone \cup Overflow(Live \ gone)
     IN  IF blocked
         THEN End(p, FALSE) /\ UNCHANGED <<trace, rollup, shared>>
         ELSE End(p, TRUE) /\ CleanupSwap(p)
  /\ chosen' = [chosen EXCEPT ![p] = {}]
  /\ UNCHANGED <<of, linked, judged, old>>

-----------------------------------------------------------------------------
(* myos autonomy feedback --trace.                                         *)

\* record_command_decision_feedback decides again, from the command and the
\* safety level that the row has; the row is not gone when the INSERT checks
\* its key, for SELECT and INSERT are taken as one here.
Judge(p) ==
  /\ At(p, "autonomy")
  /\ \E t \in Live :
       judged' = judged \cup
         {<<t, DecideCommand(of[t], IF t \in linked THEN Metadata(of[t]).safety
                                                    ELSE "unknown", FALSE)>>}
  /\ End(p, TRUE)
  /\ UNCHANGED <<trace, of, linked, old, rollup, chosen, shared>>

=============================================================================
